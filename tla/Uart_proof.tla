----------------------------- MODULE Uart_proof -----------------------------
(* Proofs about Uart, for any number of readers and kernel_init threads    *)
(* and all sizes of the buffers.                                           *)
EXTENDS Uart, SequenceTheorems, TLAPS

(* What the invariant says of the wait queue and of the transmitter.       *)
InputInv == EntryAlive /\ WakeOnly /\ WindowClosed
OutputInv == BusyPromisesInterrupt /\ WrittenHasInterrupt

-----------------------------------------------------------------------------
(* An ordinary character completes no line.                                *)
LEMMA CharNoLine ==
    ASSUME TypeOK, Store("char"), HasLine(buf')
    PROVE  HasLine(buf)
<1>1. CASE buf' = buf
  BY <1>1
<1>2. CASE buf' = Append(buf, "char")
  <2>1. Len(buf') = Len(buf) + 1 /\ buf'[Len(buf) + 1] = "char"
    BY <1>2 DEF TypeOK, Keys
  <2> QED BY <2>1 DEF HasLine
<1> QED BY <1>1, <1>2 DEF Store

(* A reader leaves either an empty buffer or the one that it has found.    *)
LEMMA TakeNoLine ==
    ASSUME NEW r, NEW n, Take(r, n), HasLine(buf')
    PROVE  buf' = buf
<1>1. ~HasLine(<<>>)
  BY DEF HasLine
<1> QED BY <1>1 DEF Take

(* The empty line buffer, and one that a backspace has made shorter.       *)
LEMMA ShorterType ==
    ASSUME TypeOK
    PROVE  /\ <<>> \in Seq(Keys \ {"backspace"}) /\ Len(<<>>) = 0
           /\ buf # <<>> =>
                /\ SubSeq(buf, 1, Len(buf) - 1) \in Seq(Keys \ {"backspace"})
                /\ Len(SubSeq(buf, 1, Len(buf) - 1)) <= BufLen
<1>1. <<>> \in Seq(Keys \ {"backspace"}) /\ Len(<<>>) = 0
  OBVIOUS
<1>2. ASSUME buf # <<>>
      PROVE  /\ SubSeq(buf, 1, Len(buf) - 1) \in Seq(Keys \ {"backspace"})
             /\ Len(SubSeq(buf, 1, Len(buf) - 1)) <= BufLen
  <2>1. buf \in Seq(Keys \ {"backspace"}) /\ Len(buf) \in Nat \ {0} /\ Len(buf) <= BufLen
    BY <1>2, EmptySeq DEF TypeOK
  <2>2. \A j \in 1..(Len(buf) - 1) : buf[j] \in Keys \ {"backspace"}
    BY <2>1, ElementOfSeq
  <2> QED BY <2>1, <2>2, SubSeqProperties, UartAssumption
<1> QED BY <1>1, <1>2

(* The line buffer stays within its array.                                 *)
LEMMA StoreType ==
    ASSUME TypeOK, NEW k \in Keys \ {"backspace"}, Store(k)
    PROVE  buf' \in Seq(Keys \ {"backspace"}) /\ Len(buf') <= BufLen
BY UartAssumption DEF Store, TypeOK

(* The part of a step that leaves the input alone.                         *)
LEMMA InputFrame ==
    ASSUME InputInv, UNCHANGED input, irq' # "wake" \/ irq' = irq,
           irq = "wake" => irq' = irq \/ towake = {}
    PROVE  InputInv'
<1>1. EntryAlive'
  BY DEF InputInv, EntryAlive, input
<1>2. WakeOnly'
  BY DEF InputInv, WakeOnly, input
<1>3. WindowClosed'
  BY DEF InputInv, WindowClosed, Asleep, HasLine, input
<1> QED BY <1>1, <1>2, <1>3 DEF InputInv

(* The part of a step that leaves the output alone.                        *)
LEMMA OutputFrame ==
    ASSUME OutputInv, UNCHANGED output,
           irq' \in {"write", "idle", "clear"} => irq' = irq
    PROVE  OutputInv'
BY DEF OutputInv, BusyPromisesInterrupt, WrittenHasInterrupt, output

-----------------------------------------------------------------------------
(* The console starts empty.                                               *)
LEMMA InitInv == Init => IInv
<1> SUFFICES ASSUME Init PROVE IInv
  OBVIOUS
<1>1. TypeOK
  <2>1. buf \in Seq(Keys \ {"backspace"}) /\ Len(buf) <= BufLen
    BY UartAssumption DEF Init
  <2>2. count \in [Readers -> Counts \cup {0}] /\ log \in 0..LogLen
    BY UartAssumption DEF Init
  <2>3. /\ state \in [Readers -> {"RUNNING", "SLEEPING"}]
        /\ pc \in [Readers -> {"user", "unlocked", "schedule", "lock"}]
        /\ tx \in [Inits -> {"test", "read", "write", "busy"}]
    BY DEF Init
  <2> QED BY <2>1, <2>2, <2>3 DEF Init, TypeOK
<1>2. EntryAlive /\ WakeOnly
  BY DEF Init, EntryAlive, WakeOnly
<1>3. WindowClosed
  BY DEF Init, WindowClosed, HasLine
<1>4. BusyPromisesInterrupt /\ WrittenHasInterrupt
  BY DEF Init, BusyPromisesInterrupt, WrittenHasInterrupt
<1> QED BY <1>1, <1>2, <1>3, <1>4 DEF IInv

(* Every step preserves the invariant.                                     *)
LEMMA NextInv == IInv /\ [Next]_vars => IInv'
<1> SUFFICES ASSUME IInv, [Next]_vars PROVE IInv'
  OBVIOUS
<1>0. TypeOK /\ InputInv /\ OutputInv
  BY DEF IInv, InputInv, OutputInv
<1> SUFFICES TypeOK' /\ InputInv' /\ OutputInv'
  BY DEF IInv, InputInv, OutputInv
<1> USE UartAssumption
<1>1. ASSUME Erase PROVE TypeOK' /\ InputInv' /\ OutputInv'
  <2>1. TypeOK'
    <3>1. buf' \in Seq(Keys \ {"backspace"}) /\ Len(buf') <= BufLen
      <4>1. CASE buf = <<>>
        BY <1>0, <1>1, <4>1 DEF Erase, TypeOK
      <4>2. CASE buf # <<>>
        BY <1>0, <1>1, <4>2, ShorterType DEF Erase
      <4> QED BY <4>1, <4>2
    <3> QED BY <1>0, <1>1, <3>1 DEF Erase, TypeOK, write_char_uart
  <2>2. EntryAlive'
    BY <1>0, <1>1 DEF Erase, TypeOK, InputInv, EntryAlive, WakeOnly, QueueFree
  <2>3. WakeOnly'
    BY <1>0, <1>1 DEF Erase, TypeOK, InputInv, WakeOnly, QueueFree
  <2>4. WindowClosed'
    BY <1>0, <1>1 DEF Erase, TypeOK, InputInv, WindowClosed, Asleep
  <2>5. OutputInv'
    BY <1>0, <1>1 DEF Erase, OutputInv, BusyPromisesInterrupt, WrittenHasInterrupt, write_char_uart
  <2> QED BY <2>1, <2>2, <2>3, <2>4, <2>5 DEF InputInv
<1>2. ASSUME NEW k \in {"char", "newline"}, Receive(k) PROVE TypeOK' /\ InputInv' /\ OutputInv'
  <2>1. TypeOK'
    BY <1>0, <1>2, StoreType DEF Receive, TypeOK, Keys, output
  <2>2. EntryAlive'
    BY <1>0, <1>2 DEF Receive, TypeOK, InputInv, EntryAlive, WakeOnly, QueueFree
  <2>3. WakeOnly'
    BY <1>0, <1>2 DEF Receive, TypeOK, InputInv, WakeOnly, QueueFree
  <2>4. WindowClosed'
    <3>1. CASE k = "newline"
      BY <1>0, <1>2, <3>1 DEF Receive, InputInv, EntryAlive, WindowClosed, Asleep
    <3>2. CASE k = "char"
      BY <1>0, <1>2, <3>2, CharNoLine DEF Receive, InputInv, WindowClosed, Asleep
    <3> QED BY <3>1, <3>2
  <2>5. OutputInv'
    BY <1>0, <1>2, OutputFrame DEF Receive, output
  <2> QED BY <2>1, <2>2, <2>3, <2>4, <2>5 DEF InputInv
<1>3. ASSUME NEW r \in Readers, Wake(r) PROVE TypeOK' /\ InputInv' /\ OutputInv'
  <2>1. TypeOK'
    BY <1>0, <1>3 DEF Wake, TypeOK, output
  <2>2. EntryAlive'
    BY <1>0, <1>3 DEF Wake, TypeOK, InputInv, EntryAlive, WakeOnly, QueueFree
  <2>3. WakeOnly'
    BY <1>0, <1>3 DEF Wake, TypeOK, InputInv, WakeOnly, QueueFree
  <2>4. WindowClosed'
    BY <1>0, <1>3 DEF Wake, TypeOK, InputInv, WindowClosed, Asleep
  <2>5. OutputInv'
    BY <1>0, <1>3, OutputFrame DEF Wake, output
  <2> QED BY <2>1, <2>2, <2>3, <2>4, <2>5 DEF InputInv
<1>4. ASSUME NEW r \in Readers, Read(r) PROVE TypeOK' /\ InputInv' /\ OutputInv'
  <2>0. PICK n \in Counts :
          IF HasLine(buf)
          THEN Take(r, n) /\ UNCHANGED <<queue, state>>
          ELSE /\ QueueFree
               /\ queue' = queue \cup {r}
               /\ state' = [state EXCEPT ![r] = "SLEEPING"]
               /\ pc' = [pc EXCEPT ![r] = "unlocked"]
               /\ count' = [count EXCEPT ![r] = n]
               /\ UNCHANGED buf
    BY <1>4 DEF Read
  <2>1. TypeOK'
    <3>1. buf' \in Seq(Keys \ {"backspace"}) /\ Len(buf') <= BufLen
      <4>1. buf' = buf \/ buf' = <<>>
        BY <2>0 DEF Take
      <4>2. CASE buf' = buf
        BY <1>0, <4>2 DEF TypeOK
      <4>3. CASE buf' = <<>>
        BY <1>0, <4>3, ShorterType
      <4> QED BY <4>1, <4>2, <4>3
    <3> QED BY <1>0, <1>4, <2>0, <3>1 DEF Read, Take, TypeOK, output
  <2>2. EntryAlive'
    <3>1. CASE HasLine(buf)
      BY <1>0, <1>4, <2>0, <3>1 DEF Read, Take, TypeOK, InputInv, EntryAlive
    <3>2. CASE ~HasLine(buf)
      BY <1>0, <1>4, <2>0, <3>2 DEF Read, TypeOK, InputInv, EntryAlive
    <3> QED BY <3>1, <3>2
  <2>3. WakeOnly'
    BY <1>0, <1>4 DEF Read, InputInv, WakeOnly
  <2>4. WindowClosed'
    <3>1. CASE HasLine(buf)
      BY <1>0, <1>4, <2>0, <3>1 DEF Read, Take, TypeOK, InputInv, WindowClosed, Asleep
    <3>2. CASE ~HasLine(buf)
      BY <1>0, <1>4, <2>0, <3>2 DEF Read, WindowClosed
    <3> QED BY <3>1, <3>2
  <2>5. OutputInv'
    BY <1>0, <1>4, OutputFrame DEF Read, output
  <2> QED BY <2>1, <2>2, <2>3, <2>4, <2>5 DEF InputInv
<1>5. ASSUME NEW r \in Readers, SetSleeping(r) PROVE TypeOK' /\ InputInv' /\ OutputInv'
  <2>1. TypeOK'
    BY <1>0, <1>5 DEF SetSleeping, TypeOK, output
  <2>2. EntryAlive'
    BY <1>0, <1>5 DEF SetSleeping, TypeOK, InputInv, EntryAlive, WakeOnly, QueueFree
  <2>3. WakeOnly'
    BY <1>0, <1>5 DEF SetSleeping, TypeOK, InputInv, WakeOnly, QueueFree
  <2>4. WindowClosed'
    BY <1>0, <1>5 DEF SetSleeping, TypeOK, InputInv, WindowClosed, Asleep
  <2>5. OutputInv'
    BY <1>0, <1>5, OutputFrame DEF SetSleeping, output
  <2> QED BY <2>1, <2>2, <2>3, <2>4, <2>5 DEF InputInv
<1>6. ASSUME NEW r \in Readers, Scheduled(r) PROVE TypeOK' /\ InputInv' /\ OutputInv'
  <2>1. TypeOK'
    BY <1>0, <1>6 DEF Scheduled, TypeOK, output
  <2>2. EntryAlive'
    BY <1>0, <1>6 DEF Scheduled, TypeOK, InputInv, EntryAlive, WakeOnly, QueueFree
  <2>3. WakeOnly'
    BY <1>0, <1>6 DEF Scheduled, TypeOK, InputInv, WakeOnly, QueueFree
  <2>4. WindowClosed'
    BY <1>0, <1>6 DEF Scheduled, TypeOK, InputInv, WindowClosed, Asleep
  <2>5. OutputInv'
    BY <1>0, <1>6, OutputFrame DEF Scheduled, output
  <2> QED BY <2>1, <2>2, <2>3, <2>4, <2>5 DEF InputInv
<1>7. ASSUME NEW r \in Readers, ReadAgain(r) PROVE TypeOK' /\ InputInv' /\ OutputInv'
  <2>1. TypeOK'
    BY <1>0, <1>7 DEF ReadAgain, TypeOK, output
  <2>2. EntryAlive'
    BY <1>0, <1>7 DEF ReadAgain, TypeOK, InputInv, EntryAlive, WakeOnly, QueueFree
  <2>3. WakeOnly'
    BY <1>0, <1>7 DEF ReadAgain, TypeOK, InputInv, WakeOnly, QueueFree
  <2>4. WindowClosed'
    BY <1>0, <1>7 DEF ReadAgain, TypeOK, InputInv, WindowClosed, Asleep
  <2>5. OutputInv'
    BY <1>0, <1>7, OutputFrame DEF ReadAgain, output
  <2> QED BY <2>1, <2>2, <2>3, <2>4, <2>5 DEF InputInv
<1>8. ASSUME NEW r \in Readers, ReadDone(r) PROVE TypeOK' /\ InputInv' /\ OutputInv'
  <2>1. TypeOK'
    BY <1>0, <1>8 DEF ReadDone, TypeOK, output, Take
  <2>2. EntryAlive'
    BY <1>0, <1>8 DEF ReadDone, TypeOK, InputInv, EntryAlive, WakeOnly, QueueFree, Take
  <2>3. WakeOnly'
    BY <1>0, <1>8 DEF ReadDone, TypeOK, InputInv, WakeOnly, QueueFree, Take
  <2>4. WindowClosed'
    BY <1>0, <1>8, TakeNoLine DEF ReadDone, TypeOK, InputInv, WindowClosed, Asleep, Take
  <2>5. OutputInv'
    BY <1>0, <1>8, OutputFrame DEF ReadDone, output
  <2> QED BY <2>1, <2>2, <2>3, <2>4, <2>5 DEF InputInv
<1>9. ASSUME WakeDone PROVE TypeOK' /\ InputInv' /\ OutputInv'
  <2>1. TypeOK'
    BY <1>0, <1>9 DEF WakeDone, TypeOK, write_char_uart, input, output
  <2>2. InputInv'
    BY <1>0, <1>9, InputFrame DEF WakeDone
  <2>3. OutputInv'
    BY <1>0, <1>9 DEF WakeDone, OutputInv, BusyPromisesInterrupt, WrittenHasInterrupt, write_char_uart, TypeOK, output
  <2> QED BY <2>1, <2>2, <2>3
<1>10. ASSUME Echo PROVE TypeOK' /\ InputInv' /\ OutputInv'
  <2>1. TypeOK'
    BY <1>0, <1>10 DEF Echo, TypeOK, write_char_uart, input, output
  <2>2. InputInv'
    BY <1>0, <1>10, InputFrame DEF Echo
  <2>3. OutputInv'
    BY <1>0, <1>10 DEF Echo, OutputInv, BusyPromisesInterrupt, WrittenHasInterrupt, write_char_uart, TypeOK, output
  <2> QED BY <2>1, <2>2, <2>3
<1>11. ASSUME TxIrq PROVE TypeOK' /\ InputInv' /\ OutputInv'
  <2>1. TypeOK'
    BY <1>0, <1>11 DEF TxIrq, TypeOK, write_char_uart, input, output
  <2>2. InputInv'
    BY <1>0, <1>11, InputFrame DEF TxIrq
  <2>3. OutputInv'
    BY <1>0, <1>11 DEF TxIrq, OutputInv, BusyPromisesInterrupt, WrittenHasInterrupt, write_char_uart, TypeOK, output
  <2> QED BY <2>1, <2>2, <2>3
<1>12. ASSUME TxRead PROVE TypeOK' /\ InputInv' /\ OutputInv'
  <2>1. TypeOK'
    BY <1>0, <1>12 DEF TxRead, TypeOK, write_char_uart, input, output
  <2>2. InputInv'
    BY <1>0, <1>12, InputFrame DEF TxRead
  <2>3. OutputInv'
    BY <1>0, <1>12 DEF TxRead, OutputInv, BusyPromisesInterrupt, WrittenHasInterrupt, write_char_uart, TypeOK, output
  <2> QED BY <2>1, <2>2, <2>3
<1>13. ASSUME TxWrite PROVE TypeOK' /\ InputInv' /\ OutputInv'
  <2>1. TypeOK'
    BY <1>0, <1>13 DEF TxWrite, TypeOK, write_char_uart, input, output
  <2>2. InputInv'
    BY <1>0, <1>13, InputFrame DEF TxWrite
  <2>3. OutputInv'
    BY <1>0, <1>13 DEF TxWrite, OutputInv, BusyPromisesInterrupt, WrittenHasInterrupt, write_char_uart, TypeOK, output
  <2> QED BY <2>1, <2>2, <2>3
<1>14. ASSUME TxIdle PROVE TypeOK' /\ InputInv' /\ OutputInv'
  <2>1. TypeOK'
    BY <1>0, <1>14 DEF TxIdle, TypeOK, write_char_uart, input, output
  <2>2. InputInv'
    BY <1>0, <1>14, InputFrame DEF TxIdle
  <2>3. OutputInv'
    BY <1>0, <1>14 DEF TxIdle, OutputInv, BusyPromisesInterrupt, WrittenHasInterrupt, write_char_uart, TypeOK, output
  <2> QED BY <2>1, <2>2, <2>3
<1>15. ASSUME TxClear PROVE TypeOK' /\ InputInv' /\ OutputInv'
  <2>1. TypeOK'
    BY <1>0, <1>15 DEF TxClear, TypeOK, write_char_uart, input, output
  <2>2. InputInv'
    BY <1>0, <1>15, InputFrame DEF TxClear
  <2>3. OutputInv'
    BY <1>0, <1>15 DEF TxClear, OutputInv, BusyPromisesInterrupt, WrittenHasInterrupt, write_char_uart, TypeOK, output
  <2> QED BY <2>1, <2>2, <2>3
<1>16. ASSUME NEW i \in Inits, TestBusy(i) PROVE TypeOK' /\ InputInv' /\ OutputInv'
  <2>1. TypeOK'
    BY <1>0, <1>16 DEF TestBusy, TypeOK, write_char_uart, input, output
  <2>2. InputInv'
    BY <1>0, <1>16, InputFrame DEF TestBusy
  <2>3. OutputInv'
    BY <1>0, <1>16 DEF TestBusy, OutputInv, BusyPromisesInterrupt, WrittenHasInterrupt, write_char_uart, TypeOK, output
  <2> QED BY <2>1, <2>2, <2>3
<1>17. ASSUME NEW i \in Inits, ReadLog(i) PROVE TypeOK' /\ InputInv' /\ OutputInv'
  <2>1. TypeOK'
    BY <1>0, <1>17 DEF ReadLog, TypeOK, write_char_uart, input, output
  <2>2. InputInv'
    BY <1>0, <1>17, InputFrame DEF ReadLog
  <2>3. OutputInv'
    BY <1>0, <1>17 DEF ReadLog, OutputInv, BusyPromisesInterrupt, WrittenHasInterrupt, write_char_uart, TypeOK, output
  <2> QED BY <2>1, <2>2, <2>3
<1>18. ASSUME NEW i \in Inits, WriteChar(i) PROVE TypeOK' /\ InputInv' /\ OutputInv'
  <2>1. TypeOK'
    BY <1>0, <1>18 DEF WriteChar, TypeOK, write_char_uart, input, output
  <2>2. InputInv'
    BY <1>0, <1>18, InputFrame DEF WriteChar
  <2>3. OutputInv'
    BY <1>0, <1>18 DEF WriteChar, OutputInv, BusyPromisesInterrupt, WrittenHasInterrupt, write_char_uart, TypeOK, output
  <2> QED BY <2>1, <2>2, <2>3
<1>19. ASSUME NEW i \in Inits, SetBusy(i) PROVE TypeOK' /\ InputInv' /\ OutputInv'
  <2>1. TypeOK'
    BY <1>0, <1>19 DEF SetBusy, TypeOK, write_char_uart, input, output
  <2>2. InputInv'
    BY <1>0, <1>19, InputFrame DEF SetBusy
  <2>3. OutputInv'
    BY <1>0, <1>19 DEF SetBusy, OutputInv, BusyPromisesInterrupt, WrittenHasInterrupt, write_char_uart, TypeOK, output
  <2> QED BY <2>1, <2>2, <2>3
<1>20. ASSUME Printk PROVE TypeOK' /\ InputInv' /\ OutputInv'
  <2>1. TypeOK'
    BY <1>0, <1>20 DEF Printk, TypeOK, write_char_uart, input, output
  <2>2. InputInv'
    BY <1>0, <1>20, InputFrame DEF Printk
  <2>3. OutputInv'
    BY <1>0, <1>20 DEF Printk, OutputInv, BusyPromisesInterrupt, WrittenHasInterrupt, write_char_uart, TypeOK, output
  <2> QED BY <2>1, <2>2, <2>3
<1>21. ASSUME SysWrite PROVE TypeOK' /\ InputInv' /\ OutputInv'
  <2>1. TypeOK'
    BY <1>0, <1>21 DEF SysWrite, TypeOK, write_char_uart, input, output
  <2>2. InputInv'
    BY <1>0, <1>21, InputFrame DEF SysWrite
  <2>3. OutputInv'
    BY <1>0, <1>21 DEF SysWrite, OutputInv, BusyPromisesInterrupt, WrittenHasInterrupt, write_char_uart, TypeOK, output
  <2> QED BY <2>1, <2>2, <2>3
<1>22. ASSUME UNCHANGED vars PROVE TypeOK' /\ InputInv' /\ OutputInv'
  <2>1. TypeOK'
    BY <1>0, <1>22 DEF TypeOK, vars, input, output
  <2>2. InputInv'
    BY <1>0, <1>22, InputFrame DEF vars
  <2>3. OutputInv'
    BY <1>0, <1>22, OutputFrame DEF vars
  <2> QED BY <2>1, <2>2, <2>3
<1> QED
  BY <1>1, <1>2, <1>3, <1>4, <1>5, <1>6, <1>7, <1>8, <1>9, <1>10, <1>11,
     <1>12, <1>13, <1>14, <1>15, <1>16, <1>17, <1>18, <1>19, <1>20, <1>21, <1>22
  DEF Next, HandlerStep, ReaderStep, InitStep

(* The inductive invariant holds in every reachable state.                 *)
THEOREM UartInvariant == Spec => []IInv
BY InitInv, NextInv, PTL DEF Spec

-----------------------------------------------------------------------------
(* Type correctness: in particular the line buffer is not overrun.         *)
THEOREM UartTypeOK == Spec => []TypeOK
<1>1. IInv => TypeOK
  BY DEF IInv
<1> QED BY <1>1, UartInvariant, PTL

(* No entry of the wait queue outlives the call of read_stdin whose stack  *)
(* it lies on.                                                             *)
THEOREM UartEntryAlive == Spec => []EntryAlive
<1>1. IInv => EntryAlive
  BY DEF IInv
<1> QED BY <1>1, UartInvariant, PTL

(* A reader sleeps in front of a line only after a wake-up in its window   *)
(* or a backspace that uncovers a newline.                                 *)
THEOREM UartStranded == Spec => []StrandedForAReason
<1>1. IInv => StrandedForAReason
  BY DEF IInv, WindowClosed, StrandedForAReason
<1> QED BY <1>1, UartInvariant, PTL

(* uart_busy without an interrupt to come has one cause only.              *)
THEOREM UartBusy == Spec => []BusyPromisesInterrupt
<1>1. IInv => BusyPromisesInterrupt
  BY DEF IInv
<1> QED BY <1>1, UartInvariant, PTL
=============================================================================

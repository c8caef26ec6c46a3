-------------------------------- MODULE Uart --------------------------------
(***************************************************************************)
(* The console: the interrupt handler and the transmitter of               *)
(* kernel/uart.c, the wait queue of kernel/wait.c and the readers of       *)
(* standard input in kernel/isr.c.                                         *)
(*                                                                         *)
(* The interrupt of the UART goes to CPU 0 alone and its handler is not    *)
(* interrupted; readers, writers and the two threads kernel_init run at    *)
(* the same time on the other CPU.  What a spinlock protects is one step.  *)
(* The kernel log is a queue (CircularBuffer) of which only the number of  *)
(* characters counts here.                                                 *)
(***************************************************************************)
EXTENDS Naturals, Sequences, FiniteSets

CONSTANTS
    Readers,    \* tasks that call read(0, ...)
    Inits,      \* threads kernel_init
    Counts,     \* sizes of the readers' buffers
    BufLen,     \* UART_IN_BUF_LEN
    LogLen,     \* characters that kernel_log can hold
    OneWrite    \* uart_tx_fifo_one_write_len

ASSUME UartAssumption ==
    /\ Counts \subseteq Nat
    /\ BufLen \in Nat \ {0}
    /\ LogLen \in Nat
    /\ OneWrite \in Nat \ {0}

VARIABLES
    buf,        \* uart_in_buf up to uib_index
    queue,      \* uib_wq_head: the tasks whose entries are linked
    towake,     \* entries that wake_up has still to visit
    irq,        \* where CPU 0 is in handle_uart_irq
    state,      \* task_struct.state of the readers
    pc,         \* where each reader is in read_stdin
    count,      \* its parameter
    excused,    \* readers that may sleep although there is a line (history)
    log,        \* number of characters in kernel_log
    busy,       \* uart_busy
    txInt,      \* transmit interrupt raised by the UART
    tx,         \* where each kernel_init is in start_uart_tx
    orphan      \* the flag is set for an interrupt that was cleared (history)

input == <<buf, queue, towake, state, pc, count, excused>>
output == <<log, busy, txInt, tx, orphan>>
vars == <<input, irq, output>>

Keys == {"char", "newline", "backspace"}

TypeOK ==
    /\ buf \in Seq(Keys \ {"backspace"}) /\ Len(buf) <= BufLen
    /\ queue \subseteq Readers /\ towake \subseteq Readers
    /\ irq \in {"out", "wake", "echo", "tx", "write", "idle", "clear"}
    /\ state \in [Readers -> {"RUNNING", "SLEEPING"}]
    /\ pc \in [Readers -> {"user", "unlocked", "schedule", "lock"}]
    /\ count \in [Readers -> Counts \cup {0}]
    /\ excused \subseteq Readers
    /\ log \in 0..LogLen
    /\ busy \in BOOLEAN /\ txInt \in BOOLEAN /\ orphan \in BOOLEAN
    /\ tx \in [Inits -> {"test", "read", "write", "busy"}]

Init ==
    /\ buf = <<>> /\ queue = {} /\ towake = {}
    /\ irq = "out"
    /\ state = [r \in Readers |-> "RUNNING"]
    /\ pc = [r \in Readers |-> "user"]
    /\ count = [r \in Readers |-> 0]
    /\ excused = {}
    /\ log = 0 /\ busy = FALSE /\ txInt = FALSE /\ orphan = FALSE
    /\ tx = [i \in Inits |-> "test"]

(* A complete line, as read_stdin sees it: the last character counts.      *)
HasLine(b) == Len(b) > 0 /\ b[Len(b)] = "newline"

(* The UART raises its interrupt for a character that it was given, at the *)
(* latest when it has sent it.                                             *)
write_char_uart ==
    /\ txInt' = TRUE
    /\ orphan' = (orphan /\ irq = "clear")

Asleep(r) == pc[r] = "schedule" /\ state[r] = "SLEEPING"

-----------------------------------------------------------------------------
(* Input: handle_uart_irq with a character, to_line_discipline.            *)

(* Backspace or DEL: the last character is removed and wiped out.          *)
Erase ==
    /\ irq = "out"
    /\ IF buf = <<>>
       THEN UNCHANGED <<buf, excused, txInt, orphan>>
       ELSE /\ buf' = SubSeq(buf, 1, Len(buf) - 1)
            /\ excused' = IF HasLine(buf')
                          THEN excused \cup {r \in Readers : pc[r] \in {"unlocked", "schedule"}}
                          ELSE excused
            /\ write_char_uart
    /\ irq' = "tx"
    /\ UNCHANGED <<queue, towake, state, pc, count, log, busy, tx>>

(* The last byte of the buffer is never used; a newline may be lost, too.  *)
Store(k) ==
    buf' = IF Len(buf) < BufLen - 1 THEN Append(buf, k) ELSE buf

Receive(k) ==
    /\ irq = "out"
    /\ Store(k)
    /\ IF k = "newline"
       THEN irq' = "wake" /\ towake' = queue
       ELSE irq' = "echo" /\ UNCHANGED towake
    /\ UNCHANGED <<queue, state, pc, count, excused, output>>

(* Mutant: only one entry of the queue is visited.                         *)
MutantWake(r) ==
    /\ irq = "wake" /\ r \in towake
    /\ state' = [state EXCEPT ![r] = "RUNNING"]
    /\ towake' = {}
    /\ UNCHANGED <<buf, queue, pc, count, excused, irq, output>>

(* wake_up visits an entry.  A reader that has released uib_lock and not   *)
(* yet set SLEEPING for the second time will overwrite it.                 *)
Wake(r) ==
    /\ irq = "wake" /\ r \in towake
    /\ state' = [state EXCEPT ![r] = "RUNNING"]
    /\ towake' = towake \ {r}
    /\ excused' = IF pc[r] = "unlocked" THEN excused \cup {r} ELSE excused \ {r}
    /\ UNCHANGED <<buf, queue, pc, count, irq, output>>

WakeDone ==
    /\ irq = "wake" /\ towake = {}
    /\ irq' = "echo"
    /\ UNCHANGED <<input, output>>

Echo ==
    /\ irq = "echo"
    /\ write_char_uart
    /\ irq' = "tx"
    /\ UNCHANGED <<input, log, busy, tx>>

-----------------------------------------------------------------------------
(* read_stdin.  The lock of the wait queue is free unless wake_up runs.    *)

QueueFree == irq # "wake"

(* A line is there: it is copied, or the buffer of n bytes is too small    *)
(* for it, and nothing is consumed.                                        *)
Take(r, n) ==
    /\ buf' = IF n < Len(buf) THEN buf ELSE <<>>
    /\ pc' = [pc EXCEPT ![r] = "user"]
    /\ count' = [count EXCEPT ![r] = 0]

(* The call, up to the first release of uib_lock.                          *)
Read(r) ==
    /\ pc[r] = "user"
    /\ \E n \in Counts :
        IF HasLine(buf)
        THEN Take(r, n) /\ UNCHANGED <<queue, state>>
        ELSE /\ QueueFree
             /\ queue' = queue \cup {r}
             /\ state' = [state EXCEPT ![r] = "SLEEPING"]
             /\ pc' = [pc EXCEPT ![r] = "unlocked"]
             /\ count' = [count EXCEPT ![r] = n]
             /\ UNCHANGED buf
    /\ UNCHANGED <<towake, excused, irq, output>>

(* set_task_state without the lock.                                        *)
SetSleeping(r) ==
    /\ pc[r] = "unlocked"
    /\ state' = [state EXCEPT ![r] = "SLEEPING"]
    /\ pc' = [pc EXCEPT ![r] = "schedule"]
    /\ UNCHANGED <<buf, queue, towake, count, excused, irq, output>>

(* schedule() returns, if the task has been woken (Sched).                 *)
Scheduled(r) ==
    /\ pc[r] = "schedule" /\ state[r] = "RUNNING"
    /\ pc' = [pc EXCEPT ![r] = "lock"]
    /\ UNCHANGED <<buf, queue, towake, state, count, excused, irq, output>>

(* The loop tests again: nothing yet.                                      *)
ReadAgain(r) ==
    /\ pc[r] = "lock" /\ ~HasLine(buf)
    /\ pc' = [pc EXCEPT ![r] = "unlocked"]
    /\ excused' = excused \ {r}
    /\ UNCHANGED <<buf, queue, towake, state, count, irq, output>>

(* Mutant: the entry stays linked when the buffer is too small.            *)
MutantReadDone(r) ==
    /\ pc[r] = "lock" /\ HasLine(buf) /\ QueueFree
    /\ Take(r, count[r])
    /\ state' = [state EXCEPT ![r] = "RUNNING"]
    /\ queue' = IF count[r] < Len(buf) THEN queue ELSE queue \ {r}
    /\ excused' = excused \ {r}
    /\ UNCHANGED <<towake, irq, output>>

(* The loop tests again: there is a line.                                  *)
ReadDone(r) ==
    /\ pc[r] = "lock" /\ HasLine(buf) /\ QueueFree
    /\ Take(r, count[r])
    /\ state' = [state EXCEPT ![r] = "RUNNING"]
    /\ queue' = queue \ {r}
    /\ excused' = excused \ {r}
    /\ UNCHANGED <<towake, irq, output>>

-----------------------------------------------------------------------------
(* Output: the second half of handle_uart_irq.                             *)

(* An interrupt without a character.                                       *)
TxIrq ==
    /\ irq = "out" /\ txInt
    /\ irq' = "tx"
    /\ UNCHANGED <<input, output>>

(* UARTMIS is read, and the log if the transmitter wants more.             *)
TxRead ==
    /\ irq = "tx"
    /\ irq' = IF ~txInt THEN "out" ELSE IF log > 0 THEN "write" ELSE "idle"
    /\ log' = IF ~txInt THEN log ELSE IF log > OneWrite THEN log - OneWrite ELSE 0
    /\ UNCHANGED <<input, busy, txInt, tx, orphan>>

TxWrite ==
    /\ irq = "write"
    /\ write_char_uart
    /\ irq' = "out"
    /\ UNCHANGED <<input, log, busy, tx>>

(* Mutant: uart_busy stays set.                                            *)
MutantTxIdle ==
    /\ irq = "idle"
    /\ irq' = "clear"
    /\ UNCHANGED <<input, output>>

(* The log was empty.                                                      *)
TxIdle ==
    /\ irq = "idle"
    /\ busy' = FALSE
    /\ irq' = "clear"
    /\ UNCHANGED <<input, log, txInt, tx, orphan>>

(* UARTICR                                                                 *)
TxClear ==
    /\ irq = "clear"
    /\ txInt' = FALSE
    /\ orphan' = (orphan \/ \E i \in Inits : tx[i] = "busy")
    /\ irq' = "out"
    /\ UNCHANGED <<input, log, busy, tx>>

-----------------------------------------------------------------------------
(* start_uart_tx, called by kernel_init again and again.                   *)

TestBusy(i) ==
    /\ tx[i] = "test" /\ ~busy
    /\ tx' = [tx EXCEPT ![i] = "read"]
    /\ UNCHANGED <<input, irq, log, busy, txInt, orphan>>

(* Mutant: the flag is set when nothing has been written.                  *)
MutantReadLog(i) ==
    /\ tx[i] = "read"
    /\ IF log > 0
       THEN log' = log - 1 /\ tx' = [tx EXCEPT ![i] = "write"]
       ELSE UNCHANGED log /\ tx' = [tx EXCEPT ![i] = "busy"]
    /\ UNCHANGED <<input, irq, busy, txInt, orphan>>

ReadLog(i) ==
    /\ tx[i] = "read"
    /\ IF log > 0
       THEN log' = log - 1 /\ tx' = [tx EXCEPT ![i] = "write"]
       ELSE UNCHANGED log /\ tx' = [tx EXCEPT ![i] = "test"]
    /\ UNCHANGED <<input, irq, busy, txInt, orphan>>

WriteChar(i) ==
    /\ tx[i] = "write"
    /\ write_char_uart
    /\ tx' = [tx EXCEPT ![i] = "busy"]
    /\ UNCHANGED <<input, irq, log, busy>>

SetBusy(i) ==
    /\ tx[i] = "busy"
    /\ busy' = TRUE
    /\ orphan' = (orphan \/ irq = "clear")
    /\ tx' = [tx EXCEPT ![i] = "test"]
    /\ UNCHANGED <<input, irq, log, txInt>>

(* printk, on any CPU: a character more in the log, or it is full.         *)
Printk ==
    /\ log < LogLen
    /\ log' = log + 1
    /\ UNCHANGED <<input, irq, busy, txInt, tx, orphan>>

(* sys_write writes to the UART directly.                                  *)
SysWrite ==
    /\ write_char_uart
    /\ UNCHANGED <<input, irq, log, busy, tx>>

-----------------------------------------------------------------------------
HandlerStep ==
    \/ \E r \in Readers : Wake(r)
    \/ WakeDone \/ Echo
    \/ TxIrq \/ TxRead \/ TxWrite \/ TxIdle \/ TxClear

ReaderStep(r) == SetSleeping(r) \/ Scheduled(r) \/ ReadAgain(r) \/ ReadDone(r)

InitStep(i) == TestBusy(i) \/ ReadLog(i) \/ WriteChar(i) \/ SetBusy(i)

Next ==
    \/ Erase
    \/ \E k \in {"char", "newline"} : Receive(k)
    \/ HandlerStep
    \/ \E r \in Readers : Read(r) \/ ReaderStep(r)
    \/ \E i \in Inits : InitStep(i)
    \/ Printk
    \/ SysWrite

Spec == Init /\ [][Next]_vars

(* The handler goes on, the scheduler runs what is RUNNING, and the sleep  *)
(* in kernel_init ends.                                                    *)
FairSpec ==
    /\ Spec
    /\ WF_vars(HandlerStep)
    /\ \A r \in Readers : WF_vars(ReaderStep(r))
    /\ \A i \in Inits : WF_vars(InitStep(i))

-----------------------------------------------------------------------------
(* The entry of a wait queue lies on the stack of its task: it is linked   *)
(* exactly while the task is inside the loop of read_stdin, whatever way   *)
(* it leaves, and wake_up visits no other.                                 *)
EntryAlive ==
    /\ \A r \in Readers : r \in queue <=> pc[r] # "user"
    /\ towake \subseteq queue

(* A reader sleeps in front of a complete line for two reasons only: the   *)
(* wake-up fell between its spin_unlock and its second SLEEPING, or a      *)
(* backspace has uncovered an older newline, which wakes nobody.           *)
StrandedForAReason ==
    \A r \in Readers :
        HasLine(buf) /\ Asleep(r) => r \in towake \cup excused

(* wake_up wakes everyone who sleeps in the queue, not the first only.     *)
WaitersAreWoken ==
    \A r \in Readers : irq = "wake" /\ r \in towake /\ Asleep(r) ~> pc[r] # "schedule"

(* The flag uart_busy promises an interrupt.  The promise is broken in one *)
(* way only: the handler finds the log empty and clears the interrupt of a *)
(* character that start_uart_tx has written before it sets the flag, or    *)
(* that it writes between the handler's store to uart_busy and to UARTICR. *)
BusyPromisesInterrupt == busy => txInt \/ orphan

(* Unless that happens, the log does not stay as it is while there are     *)
(* characters in it: kernel_init or the handler takes one.                 *)
LogMoves ==
    \A n \in 1..LogLen : log = n ~> log # n \/ orphan

(***************************************************************************)
(* The inductive invariant behind the three invariants above.              *)
(***************************************************************************)

(* Only wake_up has entries to visit.                                      *)
WakeOnly == irq # "wake" => towake = {}

(* A reader between its two unlocked steps will sleep, whatever happens.   *)
WindowClosed ==
    \A r \in Readers :
        HasLine(buf) /\ (pc[r] = "unlocked" \/ Asleep(r)) => r \in towake \cup excused

(* Who has written is promised an interrupt before the flag says so.       *)
WrittenHasInterrupt ==
    /\ \A i \in Inits : tx[i] = "busy" => txInt \/ orphan
    /\ irq \in {"write", "idle", "clear"} => txInt
    /\ irq = "clear" /\ busy => orphan

IInv ==
    /\ TypeOK
    /\ EntryAlive
    /\ WakeOnly
    /\ WindowClosed
    /\ BusyPromisesInterrupt
    /\ WrittenHasInterrupt
=============================================================================

---------------------------- MODULE Timer_proof -----------------------------
(* Proofs about Timer, for any number of CPUs, tasks and timers.           *)
EXTENDS Timer, TLAPS

-----------------------------------------------------------------------------
(* Integers that fit are not changed by their width.                       *)

(* A number that fits into an unsigned int.                                *)
LEMMA UnsignedIs ==
    ASSUME NEW x \in Nat, x < Modulus
    PROVE  Unsigned(x) = x
BY TimerAssumption DEF Unsigned

(* A number that fits into an int.                                         *)
LEMMA SignedIs ==
    ASSUME NEW x \in Nat, 2 * x < Modulus
    PROVE  Signed(x) = x
BY UnsignedIs, TimerAssumption DEF Signed

(* A number that is not positive, and not below the least int, stays so.   *)
LEMMA SignedNotPositive ==
    ASSUME NEW x \in Int, x <= 0, -Modulus < 2 * x
    PROVE  Signed(x) <= 0
<1>1. CASE x = 0
  BY <1>1, SignedIs, TimerAssumption
<1>2. CASE x < 0
  <2>1. Unsigned(x) = x + Modulus
    BY <1>2, TimerAssumption DEF Unsigned
  <2> QED BY <1>2, <2>1, TimerAssumption DEF Signed
<1> QED BY <1>1, <1>2

-----------------------------------------------------------------------------
(* Nobody sleeps initially.                                                *)
LEMMA InitInv == Init => IInv
BY TimerAssumption DEF Init, IInv, TypeOK, SeenPast, TimerHasSleeper, FiredOnce,
    Lengths, InFlight, Asleep, Timers

(* Every step preserves the invariant, if no tick number overflows.        *)
LEMMA NextInv == NoWrap /\ IInv /\ [Next]_vars => IInv'
<1> SUFFICES ASSUME NoWrap, IInv, [Next]_vars PROVE IInv'
  OBVIOUS
<1> USE TimerAssumption DEF IInv, add_timer, del_timer, raise_softirq
<1>1. ASSUME NEW c \in CPUs, TimerIrq(c) PROVE IInv'
  <2>1. TypeOK'
    BY <1>1 DEF TimerIrq, TypeOK, Timers, cpu, list, task
  <2>2. SeenPast'
    BY <1>1 DEF TimerIrq, TypeOK, SeenPast, cpu, list, task
  <2>3. TimerHasSleeper'
    BY <1>1 DEF TimerIrq, TypeOK, SeenPast, TimerHasSleeper, FiredOnce,
        InFlight, Asleep, Timers, cpu, list, task
  <2>4. FiredOnce'
    BY <1>1 DEF TimerIrq, TypeOK, TimerHasSleeper, FiredOnce, InFlight, Asleep,
        Timers, cpu, list, task
  <2>5. Lengths'
    BY <1>1 DEF TimerIrq, TypeOK, TimerHasSleeper, Lengths, InFlight, Asleep,
        Timers, cpu, list, task
  <2> QED BY <2>1, <2>2, <2>3, <2>4, <2>5
<1>2. ASSUME NEW c \in CPUs, EnterTail(c) PROVE IInv'
  <2>1. TypeOK'
    BY <1>2 DEF EnterTail, TypeOK, Timers, cpu, list, task
  <2>2. SeenPast'
    BY <1>2 DEF EnterTail, TypeOK, SeenPast, cpu, list, task
  <2>3. TimerHasSleeper'
    BY <1>2 DEF EnterTail, TypeOK, SeenPast, TimerHasSleeper, FiredOnce,
        InFlight, Asleep, Timers, cpu, list, task
  <2>4. FiredOnce'
    BY <1>2 DEF EnterTail, TypeOK, TimerHasSleeper, FiredOnce, InFlight, Asleep,
        Timers, cpu, list, task
  <2>5. Lengths'
    BY <1>2 DEF EnterTail, TypeOK, TimerHasSleeper, Lengths, InFlight, Asleep,
        Timers, cpu, list, task
  <2> QED BY <2>1, <2>2, <2>3, <2>4, <2>5
<1>3. ASSUME NEW c \in CPUs, Deferred(c) PROVE IInv'
  <2>1. TypeOK'
    BY <1>3 DEF Deferred, TypeOK, Timers, cpu, list, task
  <2>2. SeenPast'
    BY <1>3 DEF Deferred, TypeOK, SeenPast, cpu, list, task
  <2>3. TimerHasSleeper'
    BY <1>3 DEF Deferred, TypeOK, SeenPast, TimerHasSleeper, FiredOnce,
        InFlight, Asleep, Timers, cpu, list, task
  <2>4. FiredOnce'
    BY <1>3 DEF Deferred, TypeOK, TimerHasSleeper, FiredOnce, InFlight, Asleep,
        Timers, cpu, list, task
  <2>5. Lengths'
    BY <1>3 DEF Deferred, TypeOK, TimerHasSleeper, Lengths, InFlight, Asleep,
        Timers, cpu, list, task
  <2> QED BY <2>1, <2>2, <2>3, <2>4, <2>5
<1>4. ASSUME NEW c \in CPUs, do_softirq(c) PROVE IInv'
  <2>1. TypeOK'
    BY <1>4 DEF do_softirq, TypeOK, Timers, cpu, list, task
  <2>2. SeenPast'
    BY <1>4 DEF do_softirq, TypeOK, SeenPast, cpu, list, task
  <2>3. TimerHasSleeper'
    BY <1>4 DEF do_softirq, TypeOK, SeenPast, TimerHasSleeper, FiredOnce,
        InFlight, Asleep, Timers, cpu, list, task
  <2>4. FiredOnce'
    BY <1>4 DEF do_softirq, TypeOK, TimerHasSleeper, FiredOnce, InFlight, Asleep,
        Timers, cpu, list, task
  <2>5. Lengths'
    BY <1>4 DEF do_softirq, TypeOK, TimerHasSleeper, Lengths, InFlight, Asleep,
        Timers, cpu, list, task
  <2> QED BY <2>1, <2>2, <2>3, <2>4, <2>5
<1>5. ASSUME NEW c \in CPUs, Fire(c) PROVE IInv'
  <2> PICK p \in Due(c) : listed' = listed \ {p} /\ cur' = [cur EXCEPT ![c] = p]
    BY <1>5 DEF Fire
  <2>0. p \in listed /\ p \in Timers /\ expires[p] = seen[c]
    BY DEF Due, TypeOK
  <2>1. TypeOK'
    BY <1>5, <2>0 DEF Fire, TypeOK, task
  <2>2. SeenPast'
    BY <1>5 DEF Fire, TypeOK, SeenPast
  <2>3. TimerHasSleeper'
    BY <1>5, <2>0 DEF Fire, TypeOK, SeenPast, TimerHasSleeper, InFlight, Asleep, task
  <2>4. FiredOnce'
    BY <1>5, <2>0 DEF Fire, TypeOK, FiredOnce, InFlight
  <2>5. Lengths'
    BY <1>5 DEF Fire, TypeOK, Lengths, task
  <2> QED BY <2>1, <2>2, <2>3, <2>4, <2>5
<1>6. ASSUME NEW c \in CPUs, Scanned(c) PROVE IInv'
  <2>1. TypeOK'
    BY <1>6 DEF Scanned, Forget, TypeOK, Timers, cpu, list, task
  <2>2. SeenPast'
    BY <1>6 DEF Scanned, Forget, TypeOK, SeenPast, cpu, list, task
  <2>3. TimerHasSleeper'
    BY <1>6 DEF Scanned, Forget, TypeOK, SeenPast, TimerHasSleeper, FiredOnce,
        InFlight, Asleep, Timers, cpu, list, task
  <2>4. FiredOnce'
    BY <1>6 DEF Scanned, Forget, TypeOK, TimerHasSleeper, FiredOnce, InFlight, Asleep,
        Timers, cpu, list, task
  <2>5. Lengths'
    BY <1>6 DEF Scanned, Forget, TypeOK, TimerHasSleeper, Lengths, InFlight, Asleep,
        Timers, cpu, list, task
  <2> QED BY <2>1, <2>2, <2>3, <2>4, <2>5
<1>7. ASSUME NEW c \in CPUs, process_timeout(c) PROVE IInv'
  <2>1. TypeOK'
    BY <1>7 DEF process_timeout, TypeOK, Timers, cpu, list, task
  <2>2. SeenPast'
    BY <1>7 DEF process_timeout, TypeOK, SeenPast, cpu, list, task
  <2>3. TimerHasSleeper'
    BY <1>7 DEF process_timeout, TypeOK, SeenPast, TimerHasSleeper, FiredOnce,
        InFlight, Asleep, Timers, cpu, list, task
  <2>4. FiredOnce'
    BY <1>7 DEF process_timeout, TypeOK, TimerHasSleeper, FiredOnce, InFlight, Asleep,
        Timers, cpu, list, task
  <2>5. Lengths'
    BY <1>7 DEF process_timeout, TypeOK, TimerHasSleeper, Lengths, InFlight, Asleep,
        Timers, cpu, list, task
  <2> QED BY <2>1, <2>2, <2>3, <2>4, <2>5
<1>8. ASSUME NEW c \in CPUs, Rearm(c) PROVE IInv'
  <2>1. TypeOK'
    BY <1>8 DEF Rearm, TypeOK, Timers, cpu, list, task
  <2>2. SeenPast'
    BY <1>8 DEF Rearm, TypeOK, SeenPast, cpu, list, task
  <2>3. TimerHasSleeper'
    BY <1>8 DEF Rearm, TypeOK, SeenPast, TimerHasSleeper, FiredOnce,
        InFlight, Asleep, Timers, cpu, list, task
  <2>4. FiredOnce'
    BY <1>8 DEF Rearm, TypeOK, TimerHasSleeper, FiredOnce, InFlight, Asleep,
        Timers, cpu, list, task
  <2>5. Lengths'
    BY <1>8 DEF Rearm, TypeOK, TimerHasSleeper, Lengths, InFlight, Asleep,
        Timers, cpu, list, task
  <2> QED BY <2>1, <2>2, <2>3, <2>4, <2>5
<1>9. ASSUME NEW t \in Tasks, Sleep(t) PROVE IInv'
  <2> PICK n \in Timeouts : /\ timeout' = [timeout EXCEPT ![t] = n]
                            /\ end' = [end EXCEPT ![t] = Signed(n + tick)]
    BY <1>9 DEF Sleep
  <2> PICK f \in {"msleep", "nanosleep"} : call' = [call EXCEPT ![t] = f]
    BY <1>9 DEF Sleep
  <2>0. n \in Nat /\ Signed(n + tick) = n + tick
    <3>1. n \in Nat /\ n + tick \in Nat /\ 2 * (n + tick) < Modulus
      BY NoWrap DEF NoWrap, TypeOK
    <3> QED BY <3>1, SignedIs
  <2>1. TypeOK'
    BY <1>9, <2>0 DEF Sleep, TypeOK, cpu, list
  <2>2. SeenPast'
    BY <1>9 DEF Sleep, TypeOK, SeenPast, cpu
  <2>3. TimerHasSleeper'
    BY <1>9 DEF Sleep, TypeOK, TimerHasSleeper, InFlight, Asleep, cpu, list
  <2>4. FiredOnce'
    BY <1>9 DEF Sleep, TypeOK, FiredOnce, InFlight, cpu, list
  <2>5. Lengths'
    BY <1>9, <2>0 DEF Sleep, TypeOK, Lengths, list
  <2> QED BY <2>1, <2>2, <2>3, <2>4, <2>5
<1>10. ASSUME NEW t \in Tasks, Expires(t) PROVE IInv'
  <2>0. Unsigned(timeout[t] + tick) = timeout[t] + tick
    <3>1. timeout[t] + tick \in Nat /\ timeout[t] + tick < Modulus
      BY <1>10, NoWrap DEF NoWrap, TypeOK, Expires, Lengths
    <3> QED BY <3>1, UnsignedIs
  <2>01. 2 * (timeout[t] + tick) < Modulus
    BY <1>10, NoWrap DEF NoWrap, TypeOK, Expires, Lengths
  <2>1. TypeOK'
    BY <1>10, <2>0 DEF Expires, TypeOK, Timers, cpu
  <2>2. SeenPast'
    BY <1>10 DEF Expires, TypeOK, SeenPast, cpu
  <2>3. TimerHasSleeper'
    BY <1>10 DEF Expires, TypeOK, TimerHasSleeper, InFlight, Asleep, cpu
  <2>4. FiredOnce'
    BY <1>10 DEF Expires, TypeOK, FiredOnce, InFlight, cpu
  <2>5. Lengths'
    BY <1>10, <2>0, <2>01 DEF Expires, TypeOK, Lengths, Timers
  <2> QED BY <2>1, <2>2, <2>3, <2>4, <2>5
<1>11. ASSUME NEW t \in Tasks, AddTimer(t) PROVE IInv'
  <2>1. TypeOK'
    BY <1>11 DEF AddTimer, TypeOK, Timers, cpu, list, task
  <2>2. SeenPast'
    BY <1>11 DEF AddTimer, TypeOK, SeenPast, cpu, list, task
  <2>3. TimerHasSleeper'
    BY <1>11 DEF AddTimer, TypeOK, TimerHasSleeper, Lengths,
        InFlight, Asleep, Timers, cpu, list, task
  <2>4. FiredOnce'
    BY <1>11 DEF AddTimer, TypeOK, TimerHasSleeper, FiredOnce, InFlight, Asleep,
        Timers, cpu, list, task
  <2>5. Lengths'
    BY <1>11 DEF AddTimer, TypeOK, TimerHasSleeper, Lengths, InFlight, Asleep,
        Timers, cpu, list, task
  <2> QED BY <2>1, <2>2, <2>3, <2>4, <2>5
<1>12. ASSUME NEW t \in Tasks, Scheduled(t) PROVE IInv'
  <2>1. TypeOK'
    BY <1>12 DEF Scheduled, TypeOK, Timers, cpu, list, task
  <2>2. SeenPast'
    BY <1>12 DEF Scheduled, TypeOK, SeenPast, cpu, list, task
  <2>3. TimerHasSleeper'
    BY <1>12 DEF Scheduled, TypeOK, SeenPast, TimerHasSleeper, FiredOnce,
        InFlight, Asleep, Timers, cpu, list, task
  <2>4. FiredOnce'
    BY <1>12 DEF Scheduled, TypeOK, TimerHasSleeper, FiredOnce, InFlight, Asleep,
        Timers, cpu, list, task
  <2>5. Lengths'
    BY <1>12 DEF Scheduled, TypeOK, TimerHasSleeper, Lengths, InFlight, Asleep,
        Timers, cpu, list, task
  <2> QED BY <2>1, <2>2, <2>3, <2>4, <2>5
<1>13. ASSUME NEW t \in Tasks, DelTimer(t) PROVE IInv'
  <2>0. Signed(expires[t] - tick) <= 0
    <3>1. /\ expires[t] - tick \in Int
          /\ expires[t] - tick <= 0
          /\ -Modulus < 2 * (expires[t] - tick)
      BY <1>13, NoWrap DEF NoWrap, TypeOK, DelTimer, Lengths, Timers
    <3> QED BY <3>1, SignedNotPositive
  <2>01. Signed(expires[t] - tick) \in Int
    BY DEF Signed, Unsigned, TypeOK, Timers
  <2>02. /\ Return(t) /\ UNCHANGED state
         /\ pc' = [pc EXCEPT ![t] = "awake"]
    BY <1>13, <2>0, <2>01 DEF DelTimer
  <2>1. TypeOK'
    BY <1>13, <2>02 DEF DelTimer, Return, TypeOK, Timers, cpu
  <2>2. SeenPast'
    BY <1>13 DEF DelTimer, TypeOK, SeenPast, cpu
  <2>3. TimerHasSleeper'
    BY <1>13, <2>02 DEF DelTimer, Return, TypeOK, TimerHasSleeper, Lengths,
        InFlight, Asleep, Timers, cpu
  <2>4. FiredOnce'
    BY <1>13, <2>02 DEF DelTimer, Return, TypeOK, FiredOnce, InFlight, cpu
  <2>5. Lengths'
    BY <1>13, <2>02 DEF DelTimer, Return, TypeOK, Lengths, Timers
  <2> QED BY <2>1, <2>2, <2>3, <2>4, <2>5
<1>14. CASE UNCHANGED vars
  BY <1>14 DEF vars, cpu, list, task, TypeOK, SeenPast, TimerHasSleeper, FiredOnce,
      Lengths, InFlight, Asleep
<1> QED
  BY <1>1, <1>2, <1>3, <1>4, <1>5, <1>6, <1>7, <1>8, <1>9, <1>10, <1>11,
      <1>12, <1>13, <1>14 DEF Next, SoftirqStep

(* IInv holds in every state of every execution without an overflow.       *)
THEOREM TimerInv ==
    ASSUME NoWrap
    PROVE  Spec => []IInv
BY NoWrap, InitInv, NextInv, PTL DEF Spec

(* The timer that a CPU walks over, or calls without the lock, is on the   *)
(* stack of a task that is still in schedule_timeout.                      *)
THEOREM TimerFrameAlive ==
    ASSUME NoWrap
    PROVE  Spec => []FrameAlive
<1>1. IInv => FrameAlive
  BY DEF IInv, TimerHasSleeper, FrameAlive, Asleep
<1> QED BY <1>1, TimerInv, NoWrap, PTL

(* A timer is fired by one CPU.                                            *)
THEOREM TimerFiredOnce ==
    ASSUME NoWrap
    PROVE  Spec => []FiredOnce
<1>1. IInv => FiredOnce
  BY DEF IInv
<1> QED BY <1>1, TimerInv, NoWrap, PTL

(* schedule_timeout, msleep and sys_nanosleep do not return too early.     *)
THEOREM TimerNoEarlyReturn ==
    ASSUME NoWrap
    PROVE  Spec => NoEarlyReturn
<1> DEFINE NotEarly ==
      \A t \in Tasks : pc[t] = "del_timer" /\ pc'[t] = "awake" => tick >= end[t]
<1>1. IInv => NotEarly
  BY DEF IInv, TypeOK, Lengths, Timers
<1>2. IInv /\ [Next]_vars => [NotEarly]_vars
  BY <1>1
<1> HIDE DEF NotEarly
<1>3. Spec => [][NotEarly]_vars
  BY <1>2, TimerInv, NoWrap, PTL DEF Spec
<1> QED BY <1>3 DEF NoEarlyReturn, NotEarly

-----------------------------------------------------------------------------
(* Why a timer is missed.  This argument holds also if numbers overflow.   *)

(* What the argument needs of the types.                                   *)
Shape ==
    /\ tick \in Nat
    /\ pending = [c \in CPUs |-> pending[c]]
    /\ at = [c \in CPUs |-> at[c]] /\ seen = [c \in CPUs |-> seen[c]]
    /\ listed \subseteq Timers /\ pc = [t \in Tasks |-> pc[t]]
    /\ expires \in [Timers -> Int] /\ timeout \in [Tasks -> Int] /\ end \in [Tasks -> Int]

(* The timer of a task is on the list only inside schedule_timeout.        *)
ListedInside == \A t \in Tasks : t \in listed => pc[t] \in {"schedule", "del_timer"}

(* A CPU walks the list for tick n, and has not come to the end.           *)
Walks(n) == \E c \in CPUs : at[c] \in {"scan", "function"} /\ seen[c] = n

(* Every timer on the list has still to expire, or will be found: by a     *)
(* walk that is under way, or by the walk that CPU 0 owes the current tick *)
(* from the interrupt on.                                                  *)
Expected ==
    \A p \in listed :
        \/ p \in late \cup deferred
        \/ expires[p] > tick
        \/ Walks(expires[p])
        \/ expires[p] = tick /\ at[0] = "tail" /\ pending[0]

MissInv == Shape /\ ListedInside /\ Expected

(* Steps that take no timer's watcher away.                                *)
LEMMA ExpectedFrame ==
    ASSUME Shape, Expected, UNCHANGED tick, listed' \subseteq listed,
           late \cap listed' \subseteq late', deferred \cap listed' \subseteq deferred',
           \A p \in listed' : expires'[p] = expires[p],
           \A p \in listed' : Walks(expires[p]) => Walks(expires[p])',
           (at[0] = "tail" /\ pending[0]) =>
              \/ (at[0] = "tail" /\ pending[0])'
              \/ Walks(tick)'
    PROVE  Expected'
BY DEF Expected, Shape

(* An int is an integer.                                                   *)
LEMMA SignedType == ASSUME NEW x \in Int PROVE Signed(x) \in Int
BY TimerAssumption DEF Signed, Unsigned

(* A walk goes on as long as its CPU is in it and keeps its tick.          *)
LEMMA WalksOn ==
    ASSUME NEW n,
           \A c \in CPUs : at[c] \in {"scan", "function"} /\ seen[c] = n =>
                             at'[c] \in {"scan", "function"} /\ seen'[c] = n
    PROVE  Walks(n) => Walks(n)'
BY DEF Walks

(* What the tasks do between two walks leaves the CPUs alone.              *)
LEMMA TaskStepMiss ==
    ASSUME MissInv, NEW t \in Tasks,
           Sleep(t) \/ Expires(t) \/ AddTimer(t) \/ Scheduled(t) \/ DelTimer(t)
    PROVE  MissInv'
<1> USE TimerAssumption DEF MissInv, add_timer, del_timer
<1>1. UNCHANGED <<tick, pending, at, seen>>
  BY DEF Sleep, Expires, AddTimer, Scheduled, DelTimer, cpu
<1>2. \A n : Walks(n) => Walks(n)'
  BY <1>1, WalksOn
<1>3. CASE Sleep(t)
  <2>1. /\ UNCHANGED <<listed, expires, late, deferred>>
        /\ pc' = [pc EXCEPT ![t] = "expires"] /\ pc[t] = "awake"
    BY <1>3 DEF Sleep, list
  <2>2. PICK n \in Timeouts : /\ timeout' = [timeout EXCEPT ![t] = n]
                              /\ end' = [end EXCEPT ![t] = Signed(n + tick)]
    BY <1>3 DEF Sleep
  <2>3. n \in Int /\ Signed(n + tick) \in Int
    BY SignedType DEF Shape
  <2>4. Shape'
    BY <1>1, <2>1, <2>2, <2>3 DEF Shape
  <2>5. ListedInside'
    BY <2>1 DEF ListedInside, Shape
  <2>6. Expected'
    BY <1>1, <1>2, <2>1, ExpectedFrame
  <2> QED BY <2>4, <2>5, <2>6
<1>4. CASE Scheduled(t)
  <2>1. /\ UNCHANGED <<listed, expires, late, deferred, timeout, end>>
        /\ pc' = [pc EXCEPT ![t] = "del_timer"]
    BY <1>4 DEF Scheduled, list
  <2>2. Shape' /\ ListedInside'
    BY <1>1, <2>1 DEF Shape, ListedInside
  <2>3. Expected'
    BY <1>1, <1>2, <2>1, ExpectedFrame
  <2> QED BY <2>2, <2>3
<1>5. CASE Expires(t)
  <2>1. /\ UNCHANGED <<listed, late, deferred, timeout, end>> /\ t \notin listed
        /\ pc' = [pc EXCEPT ![t] = "add_timer"]
        /\ expires' = [expires EXCEPT ![t] = Unsigned(timeout[t] + tick)]
    BY <1>5 DEF Expires, ListedInside
  <2>2. Unsigned(timeout[t] + tick) \in Int
    BY DEF Unsigned, Shape
  <2>3. Shape' /\ ListedInside'
    BY <1>1, <2>1, <2>2 DEF Shape, ListedInside, Timers
  <2>4. Expected'
    BY <1>1, <1>2, <2>1, ExpectedFrame DEF Shape
  <2> QED BY <2>3, <2>4
<1>6. CASE AddTimer(t)
  <2>1. /\ listed' = listed \cup {t} /\ UNCHANGED <<expires, deferred, timeout, end>>
        /\ pc' = [pc EXCEPT ![t] = "schedule"]
        /\ late' = IF expires[t] <= tick THEN late \cup {t} ELSE late \ {t}
    BY <1>6 DEF AddTimer
  <2>2. Shape' /\ ListedInside'
    BY <1>1, <2>1 DEF Shape, ListedInside, Timers
  <2>3. expires[t] \in Int /\ tick \in Nat
    BY DEF Shape, Timers
  <2>4. Expected'
    BY <1>1, <1>2, <2>1, <2>3 DEF Expected
  <2> QED BY <2>2, <2>4
<1>7. CASE DelTimer(t)
  <2>1. /\ listed' = listed \ {t} /\ late' = late \ {t} /\ deferred' = deferred \ {t}
        /\ expires' = expires \/ expires' = [expires EXCEPT ![t] = 0]
        /\ pc' = [pc EXCEPT ![t] = "expires"] \/ pc' = [pc EXCEPT ![t] = "awake"]
    BY <1>7 DEF DelTimer, Return
  <2>2. expires' \in [Timers -> Int] /\ \A p \in Timers \ {t} : expires'[p] = expires[p]
    BY <2>1 DEF Shape
  <2>3. timeout' \in [Tasks -> Int] /\ end' \in [Tasks -> Int]
    <3>1. Signed(expires[t] - tick) \in Int /\ Signed(end[t] - tick) \in Int
      BY SignedType DEF Shape, Timers
    <3> QED BY <1>7, <3>1 DEF DelTimer, Return, Shape
  <2>4. pc' = [u \in Tasks |-> pc'[u]] /\ \A u \in Tasks \ {t} : pc'[u] = pc[u]
    BY <2>1 DEF Shape
  <2>5. Shape' /\ ListedInside'
    BY <1>1, <2>1, <2>2, <2>3, <2>4 DEF Shape, ListedInside
  <2>6. Expected'
    BY <1>1, <1>2, <2>1, <2>2, ExpectedFrame DEF Shape
  <2> QED BY <2>5, <2>6
<1> QED BY <1>3, <1>4, <1>5, <1>6, <1>7

(* The tick, and what a CPU does in irq_handler and run_timer_softirq.     *)
LEMMA CpuStepMiss ==
    ASSUME MissInv, NEW c \in CPUs,
           TimerIrq(c) \/ EnterTail(c) \/ Deferred(c) \/ SoftirqStep(c)
    PROVE  MissInv'
<1> USE TimerAssumption DEF MissInv, add_timer, del_timer
<1>0. UNCHANGED <<pc, timeout, end>>
  BY DEF TimerIrq, EnterTail, Deferred, SoftirqStep, do_softirq, Fire, Scanned, process_timeout,
         Rearm, task
<1>1. CASE TimerIrq(c)
  <2>1. /\ at[c] = "out" /\ at' = [at EXCEPT ![c] = "tail"]
        /\ pending' = [pending EXCEPT ![c] = TRUE]
        /\ tick' = IF c = 0 THEN tick + 1 ELSE tick
        /\ UNCHANGED <<seen, listed, expires, late, deferred>>
    BY <1>1 DEF TimerIrq, raise_softirq, list
  <2>2. Shape' /\ ListedInside'
    <3>1. tick' \in Nat
      BY <2>1 DEF Shape
    <3> QED BY <1>0, <2>1, <3>1 DEF Shape, ListedInside
  <2>3. \A n : Walks(n) => Walks(n)'
    BY <2>1, WalksOn DEF Shape
  <2>4. CASE c /= 0
    <3>1. at'[0] = at[0] /\ pending'[0] = pending[0] /\ tick' = tick
      BY <2>1, <2>4 DEF Shape
    <3> QED BY <2>1, <2>2, <2>3, <2>4, <3>1, ExpectedFrame
  <2>5. CASE c = 0
    <3>1. at[0] = "out" /\ at'[0] = "tail" /\ pending'[0] /\ tick' = tick + 1
      BY <2>1, <2>5 DEF Shape
    <3>2. \A p \in listed : expires[p] \in Int /\ tick \in Int
      BY DEF Shape
    <3> QED BY <2>1, <2>2, <2>3, <3>1, <3>2 DEF Expected
  <2> QED BY <2>4, <2>5
<1>2. CASE EnterTail(c)
  <2>1. /\ at[c] = "out" /\ at' = [at EXCEPT ![c] = "tail"]
        /\ UNCHANGED <<tick, pending, seen, listed, expires, late, deferred>>
    BY <1>2 DEF EnterTail, list
  <2>2. Shape' /\ ListedInside'
    BY <1>0, <2>1 DEF Shape, ListedInside
  <2>3. \A n : Walks(n) => Walks(n)'
    BY <2>1, WalksOn DEF Shape
  <2> QED BY <2>1, <2>2, <2>3, ExpectedFrame DEF Shape
<1>3. CASE Deferred(c)
  <2>1. /\ at[c] = "tail" /\ at' = [at EXCEPT ![c] = "out"]
        /\ deferred' = IF c = 0 THEN deferred \cup {p \in listed : expires[p] = tick}
                       ELSE deferred
        /\ UNCHANGED <<tick, pending, seen, listed, expires, late>>
    BY <1>3 DEF Deferred
  <2>2. Shape' /\ ListedInside'
    BY <1>0, <2>1 DEF Shape, ListedInside
  <2>3. \A n : Walks(n) => Walks(n)'
    BY <2>1, WalksOn DEF Shape
  <2>4. CASE c /= 0
    <3>1. at'[0] = at[0] /\ pending'[0] = pending[0] /\ tick' = tick
      BY <2>1, <2>4 DEF Shape
    <3> QED BY <2>1, <2>2, <2>3, <2>4, <3>1, ExpectedFrame
  <2>5. CASE c = 0
    BY <2>1, <2>2, <2>3, <2>5 DEF Expected
  <2> QED BY <2>4, <2>5
<1>4. CASE do_softirq(c)
  <2>1. /\ at[c] = "tail" /\ pending' = [pending EXCEPT ![c] = FALSE]
        /\ UNCHANGED <<tick, listed, expires, late, deferred>>
        /\ \/ /\ pending[c] /\ at' = [at EXCEPT ![c] = "scan"]
              /\ seen' = [seen EXCEPT ![c] = tick]
           \/ ~pending[c] /\ at' = [at EXCEPT ![c] = "out"] /\ UNCHANGED seen
    BY <1>4 DEF do_softirq, list
  <2>2. Shape' /\ ListedInside'
    BY <1>0, <2>1 DEF Shape, ListedInside
  <2>3. \A n : Walks(n) => Walks(n)'
    BY <2>1, WalksOn DEF Shape
  <2>4. CASE c /= 0
    <3>1. at'[0] = at[0] /\ pending'[0] = pending[0]
      BY <2>1, <2>4 DEF Shape
    <3> QED BY <2>1, <2>2, <2>3, <3>1, ExpectedFrame
  <2>5. CASE c = 0
    <3>1. pending[0] => Walks(tick)'
      BY <2>1, <2>5 DEF Shape, Walks
    <3> QED BY <2>1, <2>2, <2>3, <3>1, ExpectedFrame
  <2> QED BY <2>4, <2>5
<1>5. CASE Fire(c)
  <2>1. PICK p \in Due(c) : listed' = listed \ {p} /\ deferred' = deferred \ {p}
    BY <1>5 DEF Fire
  <2>2. /\ at[c] = "scan" /\ at' = [at EXCEPT ![c] = "function"]
        /\ UNCHANGED <<tick, pending, seen, expires, late>>
    BY <1>5 DEF Fire
  <2>3. Shape' /\ ListedInside'
    BY <1>0, <2>1, <2>2 DEF Shape, ListedInside
  <2>4. \A n : Walks(n) => Walks(n)'
    BY <2>2, WalksOn DEF Shape
  <2> QED BY <2>1, <2>2, <2>3, <2>4, ExpectedFrame DEF Shape
<1>6. CASE Scanned(c)
  <2>1. /\ at[c] = "scan" /\ at' = [at EXCEPT ![c] = "out"]
        /\ seen' = [seen EXCEPT ![c] = 0]
        /\ UNCHANGED <<tick, pending, listed, expires, late, deferred>>
        /\ \A p \in listed : expires[p] /= seen[c]
    BY <1>6 DEF Scanned, Forget, Due, list
  <2>2. Shape' /\ ListedInside'
    BY <1>0, <2>1 DEF Shape, ListedInside
  <2>3. \A p \in listed : Walks(expires[p]) => Walks(expires[p])'
    BY <2>1, WalksOn DEF Shape
  <2> QED BY <2>1, <2>2, <2>3, ExpectedFrame DEF Shape
<1>7. CASE process_timeout(c)
  <2>1. /\ at[c] = "function" /\ at' = [at EXCEPT ![c] = "scan"]
        /\ UNCHANGED <<tick, pending, seen, listed, expires, late, deferred>>
    BY <1>7 DEF process_timeout, list
  <2>2. Shape' /\ ListedInside'
    BY <1>0, <2>1 DEF Shape, ListedInside
  <2>3. \A n : Walks(n) => Walks(n)'
    BY <2>1, WalksOn DEF Shape
  <2> QED BY <2>1, <2>2, <2>3, ExpectedFrame DEF Shape
<1>8. CASE Rearm(c)
  <2>1. /\ at[c] = "function" /\ at' = [at EXCEPT ![c] = "scan"]
        /\ cur[c] \in Periodic /\ listed' = listed \cup {cur[c]}
        /\ expires' = [expires EXCEPT ![cur[c]] = tick + Period]
        /\ UNCHANGED <<tick, pending, seen, late, deferred>>
    BY <1>8 DEF Rearm
  <2>2. cur[c] \in Timers /\ cur[c] \notin Tasks /\ tick + Period \in Int /\ tick + Period > tick
    BY <2>1 DEF Timers, Shape
  <2>3. Shape' /\ ListedInside'
    BY <1>0, <2>1, <2>2 DEF Shape, ListedInside
  <2>4. \A n : Walks(n) => Walks(n)'
    BY <2>1, WalksOn DEF Shape
  <2>5. ASSUME NEW p \in listed, p /= cur[c]
        PROVE  expires'[p] = expires[p]
    BY <2>1, <2>5 DEF Shape
  <2>6. (at[0] = "tail" /\ pending[0]) => (at'[0] = "tail" /\ pending'[0])
    BY <2>1 DEF Shape
  <2>7. expires'[cur[c]] > tick'
    BY <2>1, <2>2 DEF Shape
  <2>8. Expected'
    BY <2>1, <2>4, <2>5, <2>6, <2>7 DEF Expected
  <2> QED BY <2>3, <2>8
<1> QED BY <1>1, <1>2, <1>3, <1>4, <1>5, <1>6, <1>7, <1>8 DEF SoftirqStep

(* A timer stays on the list after its tick only because its task added it *)
(* too late, or because CPU 0 left its softirq pending in that tick.       *)
THEOREM TimerMissedForAReason == Spec => []MissedForAReason
<1>1. Init => MissInv
  <2> SUFFICES ASSUME Init PROVE MissInv
    OBVIOUS
  <2>1. Shape
    BY TimerAssumption DEF Init, Shape, Timers
  <2> QED BY <2>1, TimerAssumption DEF Init, MissInv, ListedInside, Expected, Timers
<1>2. MissInv /\ [Next]_vars => MissInv'
  <2>1. ASSUME MissInv, UNCHANGED vars PROVE MissInv'
    BY <2>1 DEF vars, cpu, list, task, MissInv, Shape, ListedInside, Expected, Walks
  <2> QED BY <2>1, CpuStepMiss, TaskStepMiss DEF Next
<1>3. MissInv => MissedForAReason
  BY TimerAssumption DEF MissInv, Shape, Expected, Walks, MissedForAReason, Missed
<1> QED BY <1>1, <1>2, <1>3, PTL DEF Spec
=============================================================================

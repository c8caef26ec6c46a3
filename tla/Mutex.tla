------------------------------- MODULE Mutex --------------------------------
(***************************************************************************)
(* The sleeping lock of kernel/mutex.c and its clients.  The mutex's own   *)
(* spinlock is the abstract one that SpinLock implements; the accesses     *)
(* under it, the change of the task's state and the call of schedule() are *)
(* steps of their own, so that an unlock can fall between any two of them. *)
(***************************************************************************)
EXTENDS Integers

CONSTANTS
    Pids,       \* the kernel threads that use the mutex
    Width       \* bits of mutex_t.waiting

ASSUME PidsAssumption == Pids \subseteq Nat \ {0}

ASSUME WidthAssumption == Width \in Nat

VARIABLES
    spin,       \* owner of mutex_t.lock, 0 when it is free
    state,      \* mutex_t.state
    waiting,    \* mutex_t.waiting: the positions of its 1 bits
    tstate,     \* task_struct.state of each thread
    wakee,      \* local variable pid of mutex_unlock; 0 for none
    pc          \* where each thread is

vars == <<spin, state, waiting, tstate, wakee, pc>>

Labels == {"idle", "lspin", "ltest", "lset", "lreturn", "lwait", "lsleep",
           "lrelease", "schedule", "cs", "nap", "uspin", "uset", "upick",
           "uwake", "urelease"}

Bits == 0..(Width - 1)

TypeOK ==
    /\ spin \in Pids \cup {0}
    /\ state \in {"UNLOCKED", "LOCKED"}
    /\ waiting \subseteq Bits \cap Pids
    /\ tstate \in [Pids -> {"RUNNING", "SLEEPING"}]
    /\ wakee \in Pids \cup {0}
    /\ pc \in [Pids -> Labels]

(* init_mutex.                                                             *)
Init ==
    /\ spin = 0
    /\ state = "UNLOCKED"
    /\ waiting = {}
    /\ tstate = [p \in Pids |-> "RUNNING"]
    /\ wakee = 0
    /\ pc = [p \in Pids |-> "idle"]

Goto(p, from, to) ==
    /\ pc[p] = from
    /\ pc' = [pc EXCEPT ![p] = to]

(* The spinlock in the mutex; SpinLock shows that it is exclusive.         *)
TakeSpin(p) == spin = 0 /\ spin' = p

GiveSpin(p) == spin = p /\ spin' = 0

-----------------------------------------------------------------------------
(* mutex_lock.                                                             *)

Call(p) ==
    /\ Goto(p, "idle", "lspin")
    /\ UNCHANGED <<spin, state, waiting, tstate, wakee>>

(* Mutant: mutex_lock goes on without the spinlock.                        *)
MutantLockSpin(p) ==
    /\ Goto(p, "lspin", "ltest")
    /\ UNCHANGED <<spin, state, waiting, tstate, wakee>>

LockSpin(p) ==
    /\ Goto(p, "lspin", "ltest")
    /\ TakeSpin(p)
    /\ UNCHANGED <<state, waiting, tstate, wakee>>

LockTest(p) ==
    /\ Goto(p, "ltest", IF state = "UNLOCKED" THEN "lset" ELSE "lwait")
    /\ UNCHANGED <<spin, state, waiting, tstate, wakee>>

LockSet(p) ==
    /\ Goto(p, "lset", "lreturn")
    /\ state' = "LOCKED"
    /\ UNCHANGED <<spin, waiting, tstate, wakee>>

(* Mutant: the bit of the task's slot instead of the bit of its pid.       *)
MutantBit(p) == {p - 1} \cap Bits

(* 1ULL << pid, cut to the width of waiting by the assignment.             *)
Bit(p) == {p} \cap Bits

LockWait(p) ==
    /\ Goto(p, "lwait", "lsleep")
    /\ waiting' = waiting \cup Bit(p)
    /\ UNCHANGED <<spin, state, tstate, wakee>>

LockSleep(p) ==
    /\ Goto(p, "lsleep", "lrelease")
    /\ tstate' = [tstate EXCEPT ![p] = "SLEEPING"]
    /\ UNCHANGED <<spin, state, waiting, wakee>>

LockRelease(p) ==
    /\ Goto(p, "lrelease", "schedule")
    /\ GiveSpin(p)
    /\ UNCHANGED <<state, waiting, tstate, wakee>>

(* schedule() returns once the thread is RUNNING: back to the loop's top.  *)
LockAgain(p) ==
    /\ tstate[p] = "RUNNING"
    /\ Goto(p, "schedule", "lspin")
    /\ UNCHANGED <<spin, state, waiting, tstate, wakee>>

LockReturn(p) ==
    /\ Goto(p, "lreturn", "cs")
    /\ GiveSpin(p)
    /\ UNCHANGED <<state, waiting, tstate, wakee>>

-----------------------------------------------------------------------------
(* The client: msleep inside the critical section, woken by its timer.     *)

Nap(p) ==
    /\ Goto(p, "cs", "nap")
    /\ tstate' = [tstate EXCEPT ![p] = "SLEEPING"]
    /\ UNCHANGED <<spin, state, waiting, wakee>>

NapEnds(p) ==
    /\ Goto(p, "nap", "cs")
    /\ tstate' = [tstate EXCEPT ![p] = "RUNNING"]
    /\ UNCHANGED <<spin, state, waiting, wakee>>

-----------------------------------------------------------------------------
(* mutex_unlock.                                                           *)

Unlock(p) ==
    /\ Goto(p, "cs", "uspin")
    /\ UNCHANGED <<spin, state, waiting, tstate, wakee>>

UnlockSpin(p) ==
    /\ Goto(p, "uspin", "uset")
    /\ TakeSpin(p)
    /\ UNCHANGED <<state, waiting, tstate, wakee>>

UnlockSet(p) ==
    /\ Goto(p, "uset", "upick")
    /\ state' = "UNLOCKED"
    /\ UNCHANGED <<spin, waiting, tstate, wakee>>

(* get_next_waiting: the lowest 1 bit.                                     *)
NextWaiting(q) == q \in waiting /\ \A r \in waiting : q <= r

(* Mutant: the bit of the chosen thread is not cleared.                    *)
MutantUnlockPick(p) ==
    /\ Goto(p, "upick", "uwake")
    /\ \E q \in waiting :
        /\ NextWaiting(q) /\ q > 0
        /\ wakee' = q
    /\ UNCHANGED <<spin, state, tstate, waiting>>

UnlockPick(p) ==
    /\ Goto(p, "upick", "uwake")
    /\ \E q \in waiting :
        /\ NextWaiting(q) /\ q > 0
        /\ wakee' = q
        /\ waiting' = waiting \ {q}
    /\ UNCHANGED <<spin, state, tstate>>

(* pid > 0 fails: no bit is set, or bit 0.                                 *)
UnlockNobody(p) ==
    /\ Goto(p, "upick", "urelease")
    /\ waiting = {} \/ 0 \in waiting
    /\ UNCHANGED <<spin, state, waiting, tstate, wakee>>

(* Mutant: the chosen thread is not made RUNNING.                          *)
MutantUnlockWake(p) ==
    /\ Goto(p, "uwake", "urelease")
    /\ wakee' = 0
    /\ UNCHANGED <<spin, state, waiting, tstate>>

UnlockWake(p) ==
    /\ Goto(p, "uwake", "urelease")
    /\ tstate' = [tstate EXCEPT ![wakee] = "RUNNING"]
    /\ wakee' = 0
    /\ UNCHANGED <<spin, state, waiting>>

UnlockReturn(p) ==
    /\ Goto(p, "urelease", "idle")
    /\ GiveSpin(p)
    /\ UNCHANGED <<state, waiting, tstate, wakee>>

-----------------------------------------------------------------------------
(* The steps that a thread, once it has called mutex_lock, must take.      *)
Step(p) ==
    \/ LockSpin(p) \/ LockTest(p) \/ LockSet(p) \/ LockWait(p)
    \/ LockSleep(p) \/ LockRelease(p) \/ LockAgain(p) \/ LockReturn(p)
    \/ NapEnds(p)
    \/ UnlockSpin(p) \/ UnlockSet(p) \/ UnlockPick(p) \/ UnlockNobody(p)
    \/ UnlockWake(p) \/ UnlockReturn(p)

Next == \E p \in Pids : Call(p) \/ Step(p) \/ Nap(p) \/ Unlock(p)

Spec == Init /\ [][Next]_vars

(***************************************************************************)
(* schedule() gives every RUNNING thread its turn and the spinlock is      *)
(* released after a few instructions, but not necessarily to the thread    *)
(* that waits longest: strong fairness for the two steps that take it.     *)
(* A critical section comes to its end.                                    *)
(***************************************************************************)
Fairness ==
    \A p \in Pids :
        /\ WF_vars(Step(p))
        /\ SF_vars(Unlock(p))

FairSpec == Spec /\ Fairness

-----------------------------------------------------------------------------
(* The threads that own the mutex: after the test that took it, up to the  *)
(* assignment that gives it back.                                          *)
Owns(p) == pc[p] \in {"lreturn", "cs", "nap", "uspin", "uset"}

(* No two threads own the mutex, and it is LOCKED exactly when one does.   *)
MutualExclusion ==
    /\ \A p, q \in Pids : Owns(p) /\ Owns(q) => p = q
    /\ state = "LOCKED" <=> \E p \in Pids : Owns(p)

(* A thread that has called schedule() and sleeps for the mutex.           *)
Asleep(p) == pc[p] = "schedule" /\ tstate[p] = "SLEEPING"

(* A thread that will look at the mutex's state again by itself.           *)
Contends(p) ==
    \/ pc[p] \in {"lspin", "ltest", "lset"}
    \/ pc[p] = "schedule" /\ tstate[p] = "RUNNING"

(* No wake-up is lost between the test of state, the assignment of         *)
(* SLEEPING and schedule(): a sleeper is in the bitmap or is being woken,  *)
(* and while the mutex is free somebody is at work: an unlock that has yet *)
(* to pick or wake a thread, or a thread that will take the mutex and wake *)
(* the next one when it unlocks.                                           *)
NoLostWakeup ==
    \A p \in Pids : Asleep(p) =>
        /\ p \in waiting \/ wakee = p
        /\ \/ state = "LOCKED"
           \/ \E q \in Pids : Contends(q) \/ pc[q] \in {"upick", "uwake"}

(* mutex_unlock wakes only a thread that waits in mutex_lock; a bit left   *)
(* over from an earlier wait would cut short an msleep of a later one.     *)
WakesOnlyWaiters ==
    \A p \in waiting \cup ({wakee} \ {0}) :
        pc[p] \in {"lsleep", "lrelease", "schedule"}

(***************************************************************************)
(* The inductive invariant behind these properties.                        *)
(***************************************************************************)

(* The spinlock is owned at exactly these places.                          *)
SpinOwned ==
    \A p \in Pids :
        spin = p <=> pc[p] \in {"ltest", "lset", "lreturn", "lwait", "lsleep",
                               "lrelease", "uset", "upick", "uwake", "urelease"}

(* What mutex_lock saw in state stays true until it releases the spinlock. *)
TestStillTrue ==
    \A p \in Pids :
        /\ pc[p] = "lset" => state = "UNLOCKED"
        /\ pc[p] \in {"lwait", "lsleep", "lrelease"} => state = "LOCKED"

(* Which threads are not RUNNING.                                          *)
TaskStates ==
    \A p \in Pids :
        /\ pc[p] \in {"lrelease", "nap"} => tstate[p] = "SLEEPING"
        /\ pc[p] \notin {"lrelease", "schedule", "nap"} => tstate[p] = "RUNNING"

(* Who is in the bitmap, given that pids fit into it.                      *)
Bitmap ==
    /\ \A p \in waiting : pc[p] \in {"lsleep", "lrelease"} \/ Asleep(p)
    /\ \A p \in Pids \cap Bits :
        /\ pc[p] \in {"lsleep", "lrelease"} => p \in waiting
        /\ Asleep(p) => p \in waiting \/ wakee = p
    /\ wakee /= 0 => /\ Asleep(wakee) /\ wakee \notin waiting
                     /\ \E q \in Pids : pc[q] = "uwake"
    /\ \A q \in Pids : pc[q] = "uwake" => wakee /= 0

(* While somebody sleeps for a free mutex somebody else is at work.        *)
SomebodyWorks ==
    (state = "UNLOCKED" /\ \E p \in Pids : Asleep(p)) =>
        \E q \in Pids : Contends(q) \/ pc[q] \in {"upick", "uwake"}

(* Every pid has a bit of its own in waiting.                              *)
PidsFit == Pids \subseteq Bits

IInv ==
    /\ TypeOK
    /\ SpinOwned
    /\ MutualExclusion
    /\ TestStillTrue
    /\ TaskStates
    /\ Bitmap
    /\ PidsFit => SomebodyWorks

-----------------------------------------------------------------------------
(* A free mutex that somebody sleeps for is taken.                         *)
FreeMutexIsTaken ==
    (state = "UNLOCKED" /\ \E p \in Pids : Asleep(p)) ~> state = "LOCKED"

(* Every thread that sleeps for the mutex is woken in the end, by the      *)
(* "bitmap for waiting processes" of include/mutex.h.                      *)
SleeperIsWoken ==
    \A p \in Pids : Asleep(p) ~> tstate[p] = "RUNNING"

(* Mutex implements Exclusion.                                             *)
Inside == {p \in Pids : Owns(p)}

Abstract == INSTANCE Exclusion WITH Users <- Pids, inside <- Inside

(* Every step of the code is a step of Exclusion, or nobody enters or      *)
(* leaves.                                                                 *)
ImplementsLock == Abstract!Promise
=============================================================================

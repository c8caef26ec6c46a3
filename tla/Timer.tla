------------------------------- MODULE Timer --------------------------------
(***************************************************************************)
(* Time: the tick of kernel/hw_timer.c, the softirq of kernel/softirq.c,   *)
(* the timer list of kernel/timer.c and the tasks that sleep on it with    *)
(* schedule_timeout (msleep and sys_nanosleep).                            *)
(*                                                                         *)
(* The timer of a sleeping task is a local variable of schedule_timeout:   *)
(* it lies on the task's stack, is linked into the list that every CPU     *)
(* walks, and is unlinked before the function returns.  A timer fires only *)
(* if some CPU looks at it when expires == tick.                           *)
(*                                                                         *)
(* The list is locked (SpinLock), so a walk up to the first timer that     *)
(* fires is one step.  The list is modelled by the set of its timers: of   *)
(* two timers that are due, the code fires the younger first, the model    *)
(* either.                                                                 *)
(***************************************************************************)
EXTENDS Integers, FiniteSets

CONSTANTS
    CPUs,           \* CPU 0 keeps the tick
    Tasks,          \* tasks that sleep; each one is also the name of its timer
    NoTimer,        \* NULL
    Periodic,       \* timers that rearm themselves with mod_timer
    Timeouts,       \* lengths of a sleep, in ticks
    Period,         \* length of a round of a periodic timer
    Modulus,        \* 2^32, the number of values of an int
    MaxTick         \* bound: ticks

ASSUME TimerAssumption ==
    /\ 0 \in CPUs
    /\ Tasks \cap Periodic = {}
    /\ NoTimer \notin Tasks \cup Periodic
    /\ Timeouts \subseteq Nat \ {0}
    /\ Period \in Nat \ {0} /\ Modulus \in Nat \ {0} /\ MaxTick \in Nat

Timers == Tasks \cup Periodic

VARIABLES
    tick,       \* tick of hw_timer.c, 64 bits
    pending,    \* __softirq_pending of each CPU
    at,         \* where each CPU is in irq_handler
    seen,       \* local variable tick of run_timer_softirq
    cur,        \* local variable cur of run_timer_softirq
    listed,     \* the timers on the list
    expires,    \* struct timer.expires
    late,       \* timers that were due when they were added (history)
    deferred,   \* timers that were due when CPU 0 put off its softirq (history)
    state,      \* task_struct.state
    pc,         \* where each task is
    call,       \* the caller of schedule_timeout
    timeout,    \* its local variable timeout
    end         \* end_tick of sys_nanosleep; for msleep, the same (history)

cpu == <<pending, at, seen, cur>>
list == <<listed, expires, late, deferred>>
task == <<state, pc, call, timeout, end>>
vars == <<tick, cpu, list, task>>

TypeOK ==
    /\ tick \in 0..MaxTick
    /\ pending \in [CPUs -> BOOLEAN]
    /\ at \in [CPUs -> {"out", "tail", "scan", "function"}]
    /\ seen \in [CPUs -> 0..MaxTick]
    /\ cur \in [CPUs -> Timers \cup {NoTimer}]
    /\ listed \subseteq Timers
    /\ expires \in [Timers -> Nat]
    /\ late \subseteq Timers /\ deferred \subseteq Timers
    /\ state \in [Tasks -> {"RUNNING", "SLEEPING"}]
    /\ pc \in [Tasks -> {"awake", "expires", "add_timer", "schedule", "del_timer"}]
    /\ call \in [Tasks -> {"msleep", "nanosleep"}]
    /\ timeout \in [Tasks -> Nat]
    /\ end \in [Tasks -> Nat]

Init ==
    /\ tick = 0
    /\ pending = [c \in CPUs |-> FALSE]
    /\ at = [c \in CPUs |-> "out"]
    /\ seen = [c \in CPUs |-> 0]
    /\ cur = [c \in CPUs |-> NoTimer]
    /\ listed = Periodic
    /\ expires = [p \in Timers |-> IF p \in Periodic THEN Period ELSE 0]
    /\ late = {} /\ deferred = {}
    /\ state = [t \in Tasks |-> "RUNNING"]
    /\ pc = [t \in Tasks |-> "awake"]
    /\ call = [t \in Tasks |-> "msleep"]
    /\ timeout = [t \in Tasks |-> 0]
    /\ end = [t \in Tasks |-> 0]

(* unsigned int x                                                          *)
Unsigned(x) == x % Modulus

(* int x                                                                   *)
Signed(x) == LET u == Unsigned(x)
             IN  IF 2 * u < Modulus THEN u ELSE u - Modulus

(* add_timer and del_timer, and the same inside mod_timer.                 *)
add_timer(p) == listed' = listed \cup {p}

del_timer(p) == listed' = listed \ {p}

-----------------------------------------------------------------------------
(* Interrupts.  They are masked in irq_handler up to its end, except in    *)
(* the schedule() that it calls; so do_softirq is never nested.            *)

raise_softirq(c) == pending' = [pending EXCEPT ![c] = TRUE]

(* handle_timer_irq                                                        *)
TimerIrq(c) ==
    /\ at[c] = "out"
    /\ tick < MaxTick
    /\ tick' = IF c = 0 THEN tick + 1 ELSE tick
    /\ raise_softirq(c)
    /\ at' = [at EXCEPT ![c] = "tail"]
    /\ UNCHANGED <<seen, cur, list, task>>

(* Another interrupt, or the resumption of a thread that was preempted in  *)
(* irq_handler: both end in do_softirq.                                    *)
EnterTail(c) ==
    /\ at[c] = "out"
    /\ at' = [at EXCEPT ![c] = "tail"]
    /\ UNCHANGED <<tick, pending, seen, cur, list, task>>

(* schedule() in irq_handler goes to a new thread or to one that itself    *)
(* had called schedule(): the softirq stays pending.                       *)
Deferred(c) ==
    /\ at[c] = "tail"
    /\ at' = [at EXCEPT ![c] = "out"]
    /\ deferred' = IF c = 0 THEN deferred \cup {p \in listed : expires[p] = tick}
                   ELSE deferred
    /\ UNCHANGED <<tick, pending, seen, cur, listed, expires, late, task>>

(* do_softirq and the start of run_timer_softirq.                          *)
do_softirq(c) ==
    /\ at[c] = "tail"
    /\ IF pending[c]
       THEN /\ seen' = [seen EXCEPT ![c] = tick]
            /\ at' = [at EXCEPT ![c] = "scan"]
       ELSE /\ at' = [at EXCEPT ![c] = "out"]
            /\ UNCHANGED seen
    /\ pending' = [pending EXCEPT ![c] = FALSE]
    /\ UNCHANGED <<tick, cur, list, task>>

Due(c) == {p \in listed : expires[p] = seen[c]}

(* Mutant: _del_timer is forgotten; the function has to do it.             *)
MutantFire(c) ==
    /\ at[c] = "scan"
    /\ \E p \in Due(c) : cur' = [cur EXCEPT ![c] = p]
    /\ at' = [at EXCEPT ![c] = "function"]
    /\ UNCHANGED <<tick, pending, seen, list, task>>

(* A due timer is unlinked and the lock is released.                       *)
Fire(c) ==
    /\ at[c] = "scan"
    /\ \E p \in Due(c) :
        /\ del_timer(p)
        /\ deferred' = deferred \ {p}
        /\ cur' = [cur EXCEPT ![c] = p]
    /\ at' = [at EXCEPT ![c] = "function"]
    /\ UNCHANGED <<tick, pending, seen, expires, late, task>>

(* The end of run_timer_softirq; its local variables are gone.             *)
Forget(c) ==
    /\ at' = [at EXCEPT ![c] = "out"]
    /\ seen' = [seen EXCEPT ![c] = 0]
    /\ cur' = [cur EXCEPT ![c] = NoTimer]

(* Mutant: the walk may end although a timer is due, because it does not   *)
(* start again at head.                                                    *)
MutantScanned(c) ==
    /\ at[c] = "scan"
    /\ Forget(c)
    /\ UNCHANGED <<tick, pending, list, task>>

Scanned(c) ==
    /\ at[c] = "scan" /\ Due(c) = {}
    /\ Forget(c)
    /\ UNCHANGED <<tick, pending, list, task>>

(* process_timeout, called without the lock through the unlinked timer.    *)
process_timeout(c) ==
    /\ at[c] = "function" /\ cur[c] \in Tasks
    /\ state' = [state EXCEPT ![cur[c]] = "RUNNING"]
    /\ at' = [at EXCEPT ![c] = "scan"]
    /\ UNCHANGED <<tick, pending, seen, cur, list, pc, call, timeout, end>>

(* Mutant: the period is added to nothing.                                 *)
MutantRearm(c) ==
    /\ at[c] = "function" /\ cur[c] \in Periodic
    /\ add_timer(cur[c])
    /\ at' = [at EXCEPT ![c] = "scan"]
    /\ UNCHANGED <<tick, pending, seen, cur, expires, late, deferred, task>>

(* The function of a periodic timer: mod_timer(p, get_tick() + Period).    *)
Rearm(c) ==
    /\ at[c] = "function" /\ cur[c] \in Periodic
    /\ add_timer(cur[c])
    /\ expires' = [expires EXCEPT ![cur[c]] = tick + Period]
    /\ at' = [at EXCEPT ![c] = "scan"]
    /\ UNCHANGED <<tick, pending, seen, cur, late, deferred, task>>

-----------------------------------------------------------------------------
(* Sleeping.                                                               *)

(* Mutant: the task stays RUNNING.                                         *)
MutantSleep(t) ==
    /\ pc[t] = "awake"
    /\ \E n \in Timeouts :
        /\ timeout' = [timeout EXCEPT ![t] = n]
        /\ end' = [end EXCEPT ![t] = Signed(n + tick)]
    /\ pc' = [pc EXCEPT ![t] = "expires"]
    /\ UNCHANGED <<tick, cpu, list, call, state>>

(* msleep or sys_nanosleep up to the call of schedule_timeout.             *)
Sleep(t) ==
    /\ pc[t] = "awake"
    /\ call' \in {[call EXCEPT ![t] = f] : f \in {"msleep", "nanosleep"}}
    /\ \E n \in Timeouts :
        /\ timeout' = [timeout EXCEPT ![t] = n]
        /\ end' = [end EXCEPT ![t] = Signed(n + tick)]
    /\ state' = [state EXCEPT ![t] = "SLEEPING"]
    /\ pc' = [pc EXCEPT ![t] = "expires"]
    /\ UNCHANGED <<tick, cpu, list>>

(* Mutant: one tick too few.                                               *)
MutantExpires(t) ==
    /\ pc[t] = "expires"
    /\ expires' = [expires EXCEPT ![t] = Unsigned(timeout[t] - 1 + tick)]
    /\ pc' = [pc EXCEPT ![t] = "add_timer"]
    /\ UNCHANGED <<tick, cpu, listed, late, deferred, state, call, timeout, end>>

(* expires = timeout + get_tick(), an unsigned int.                        *)
Expires(t) ==
    /\ pc[t] = "expires"
    /\ expires' = [expires EXCEPT ![t] = Unsigned(timeout[t] + tick)]
    /\ pc' = [pc EXCEPT ![t] = "add_timer"]
    /\ UNCHANGED <<tick, cpu, listed, late, deferred, state, call, timeout, end>>

AddTimer(t) ==
    /\ pc[t] = "add_timer"
    /\ add_timer(t)
    /\ late' = IF expires[t] <= tick THEN late \cup {t} ELSE late \ {t}
    /\ pc' = [pc EXCEPT ![t] = "schedule"]
    /\ UNCHANGED <<tick, cpu, expires, deferred, state, call, timeout, end>>

(* schedule() returns, if the task has been woken (Sched).                 *)
Scheduled(t) ==
    /\ pc[t] = "schedule" /\ state[t] = "RUNNING"
    /\ pc' = [pc EXCEPT ![t] = "del_timer"]
    /\ UNCHANGED <<tick, cpu, list, state, call, timeout, end>>

(* The local variables of the sleep are gone.                              *)
Return(t) ==
    /\ expires' = [expires EXCEPT ![t] = 0]
    /\ timeout' = [timeout EXCEPT ![t] = 0]
    /\ end' = [end EXCEPT ![t] = 0]
    /\ call' = [call EXCEPT ![t] = "msleep"]

(***************************************************************************)
(* del_timer, the result of schedule_timeout and the loop of its caller:   *)
(* msleep sleeps for the rest, sys_nanosleep calls schedule_timeout again, *)
(* without SLEEPING.                                                       *)
(***************************************************************************)
DelTimer(t) ==
    /\ pc[t] = "del_timer"
    /\ del_timer(t)
    /\ LET delta == Signed(expires[t] - tick)
           rest == IF call[t] = "msleep" THEN delta ELSE Signed(end[t] - tick)
       IN  IF delta > 0 /\ rest > 0
           THEN /\ timeout' = [timeout EXCEPT ![t] = rest]
                /\ state' = IF call[t] = "msleep"
                            THEN [state EXCEPT ![t] = "SLEEPING"] ELSE state
                /\ pc' = [pc EXCEPT ![t] = "expires"]
                /\ UNCHANGED <<expires, call, end>>
           ELSE /\ Return(t)
                /\ pc' = [pc EXCEPT ![t] = "awake"]
                /\ UNCHANGED state
    /\ late' = late \ {t} /\ deferred' = deferred \ {t}
    /\ UNCHANGED <<tick, cpu>>

-----------------------------------------------------------------------------
SoftirqStep(c) ==
    do_softirq(c) \/ Fire(c) \/ Scanned(c) \/ process_timeout(c) \/ Rearm(c)

Next ==
    \/ \E c \in CPUs : TimerIrq(c) \/ EnterTail(c) \/ Deferred(c) \/ SoftirqStep(c)
    \/ \E t \in Tasks :
        Sleep(t) \/ Expires(t) \/ AddTimer(t) \/ Scheduled(t) \/ DelTimer(t)

Spec == Init /\ [][Next]_vars

(* A CPU goes on with the softirq that it has started.                     *)
FairSpec == Spec /\ \A c \in CPUs : WF_vars(SoftirqStep(c))

-----------------------------------------------------------------------------
InFlight(c, p) == at[c] = "function" /\ cur[c] = p

(* A timer on the list, or in the hands of a CPU that has released the     *)
(* lock to call its function, lies in a live stack frame: its task is      *)
(* still inside schedule_timeout.  Nobody locks the frame; it is alive     *)
(* because only process_timeout wakes the task.                            *)
FrameAlive ==
    \A t \in Tasks :
        t \in listed \/ (\E c \in CPUs : InFlight(c, t)) =>
            pc[t] \in {"schedule", "del_timer"}

(* Two CPUs that walk the list in the same tick do not fire a timer twice. *)
FiredOnce ==
    \A c \in CPUs, p \in Timers : InFlight(c, p) =>
        p \notin listed /\ \A d \in CPUs : InFlight(d, p) => d = c

(* A sleep of n ticks ends n ticks later or more, although a CPU may go by *)
(* a tick that is no longer the current one.                               *)
NoEarlyReturn ==
    [][\A t \in Tasks : pc[t] = "del_timer" /\ pc'[t] = "awake" => tick >= end[t]]_vars

(***************************************************************************)
(* The inductive invariant behind the last three properties.               *)
(***************************************************************************)

(* No tick number of the run and no sum of one and a timeout overflows.    *)
NoWrap == \A n \in Timeouts \cup {0} : 2 * (n + MaxTick) < Modulus

(* A task that is to be woken sleeps, and its timer is where its pc says.  *)
Asleep(t) == pc[t] = "schedule" /\ state[t] = "SLEEPING"

TimerHasSleeper ==
    /\ \A t \in Tasks : t \in listed => Asleep(t)
    /\ \A c \in CPUs : at[c] = "function" => cur[c] \in Timers
    /\ \A c \in CPUs, t \in Tasks : InFlight(c, t) => Asleep(t) /\ expires[t] <= tick

(* What schedule_timeout has computed, and why it returns 0.               *)
Lengths ==
    \A t \in Tasks :
        /\ pc[t] = "expires" => /\ timeout[t] \in Timeouts
                                /\ end[t] <= timeout[t] + tick
        /\ pc[t] \in {"add_timer", "schedule", "del_timer"} => end[t] <= expires[t]
        /\ pc[t] \in {"schedule", "del_timer"} /\ state[t] = "RUNNING"
             => expires[t] <= tick
        /\ pc[t] \in {"expires", "add_timer"} => state[t] = "SLEEPING"
        /\ pc[t] = "del_timer" => state[t] = "RUNNING"
        /\ 2 * expires[t] < Modulus

(* A CPU may go by an old tick, never by a future one.                     *)
SeenPast == \A c \in CPUs : seen[c] <= tick

IInv ==
    /\ TypeOK
    /\ SeenPast
    /\ TimerHasSleeper
    /\ FiredOnce
    /\ Lengths

(* Nobody will look at p in the tick in which it expires.                  *)
Missed(p) ==
    /\ p \in listed /\ expires[p] < tick
    /\ ~\E c \in CPUs : at[c] \in {"scan", "function"} /\ seen[c] = expires[p]

(* A timer is missed for two reasons only: its task added it when its tick *)
(* had come, or CPU 0 did not run its softirq in that tick.                *)
MissedForAReason == \A p \in Timers : Missed(p) => p \in late \cup deferred

(* The walk of the list starts again at head after every timer; it ends    *)
(* nevertheless, also with timers that put themselves back on the list.    *)
SoftirqEnds == \A c \in CPUs : at[c] = "scan" ~> at[c] = "out"
=============================================================================

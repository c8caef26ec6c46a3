------------------------------- MODULE Sched --------------------------------
(***************************************************************************)
(* The task table and the scheduler of kernel/sched.c: creating, running,  *)
(* putting to sleep, waking and ending tasks on several CPUs.  A task runs *)
(* on the stack of its slot; slot i belongs to CPU i % NUM_CPUS.  A CPU    *)
(* without a task to run runs its swapper.  schedule() is three steps: the *)
(* call, the choice of the next task under tasks_lock, and the switch.     *)
(***************************************************************************)
EXTENDS Integers, FiniteSets

CONSTANTS
    NumCPUs,        \* NUM_CPUS
    NumSlots,       \* MAX_NUM_PROCESSES
    MaxTime,        \* bound: ticks charged to one task
    NestedTick,     \* may a timer interrupt hit the swapper inside schedule()
    ExitWindow      \* may a slot be looked at before its task has left the CPU

ASSUME NumAssumption == NumCPUs \in Nat \ {0} /\ NumSlots \in Nat /\ MaxTime \in Nat

ASSUME TimingAssumption == NestedTick \in BOOLEAN /\ ExitWindow \in BOOLEAN

CPUs == 0..(NumCPUs - 1)

Slots == 0..(NumSlots - 1)

(* The swappers have no slot in tasks[].                                   *)
Swapper(c) == NumSlots + c

Threads == 0..(NumSlots + NumCPUs - 1)

None == -1

VARIABLES
    in_use,     \* task_struct.in_use
    state,      \* task_struct.state
    time,       \* stime + utime
    context,    \* task_struct.thread: where the thread goes on when resumed
    cur,        \* the thread on whose stack each CPU is
    pos,        \* what that thread is doing
    child,      \* the slot that a thread is filling
    stage,      \* where each CPU is in schedule()
    next,       \* local variable next of schedule()
    stale       \* next of a schedule() that a nested tick of the swapper
                \* has interrupted

table == <<in_use, state, time, context>>
cpu == <<cur, pos, stage, next, stale>>
vars == <<table, cpu, child>>

States == {"INITIALIZING", "RUNNING", "SLEEPING", "STOPPED"}

(* "none": no context yet; "dead": inside do_exit.                         *)
Positions == {"none", "run", "build", "built", "dead"}

TypeOK ==
    /\ in_use \in [Slots -> BOOLEAN]
    /\ state \in [Slots -> States]
    /\ time \in [Slots -> 0..MaxTime]
    /\ context \in [Threads -> Positions]
    /\ cur \in [CPUs -> Threads]
    /\ pos \in [CPUs -> Positions \ {"none"}]
    /\ child \in [Threads -> Slots \cup {None}]
    /\ stage \in [CPUs -> {"off", "pick", "switch"}]
    /\ next \in [CPUs -> Threads]
    /\ stale \in [CPUs -> Slots \cup {None}]

(* init_sched: every CPU runs its swapper.                                 *)
Init ==
    /\ in_use = [i \in Slots |-> FALSE]
    /\ state = [i \in Slots |-> "INITIALIZING"]
    /\ time = [i \in Slots |-> 0]
    /\ context = [x \in Threads |-> "none"]
    /\ cur = [c \in CPUs |-> Swapper(c)]
    /\ pos = [c \in CPUs |-> "run"]
    /\ child = [x \in Threads |-> None]
    /\ stage = [c \in CPUs |-> "off"]
    /\ next = [c \in CPUs |-> Swapper(c)]
    /\ stale = [c \in CPUs |-> None]

(* A thread's own code runs when its CPU is not inside schedule().         *)
Executes(c, p) == stage[c] = "off" /\ pos[c] = p

CallSchedule(c) == stage' = [stage EXCEPT ![c] = "pick"]

-----------------------------------------------------------------------------
(* schedule().                                                             *)

is_task_ready(i) == in_use[i] /\ state[i] = "RUNNING"

(* Mutant: the search starts at 0 on every CPU.                            *)
MutantMine(c) == Slots

(* The slots that the loop of get_next_proc visits.                        *)
Mine(c) == {i \in Slots : i % NumCPUs = c}

Ready(c) == {i \in Mine(c) : is_task_ready(i)}

(* What get_next_proc returns, as a set of one: the least time, and the    *)
(* first of equals; or else the swapper.                                   *)
get_next_proc(c) ==
    IF Ready(c) = {} THEN {Swapper(c)}
    ELSE {i \in Ready(c) :
            \A j \in Ready(c) : time[i] < time[j] \/ (time[i] = time[j] /\ i <= j)}

Pick(c) ==
    /\ stage[c] = "pick"
    /\ \E n \in get_next_proc(c) : next' = [next EXCEPT ![c] = n]
    /\ stage' = [stage EXCEPT ![c] = "switch"]
    /\ UNCHANGED <<table, cur, pos, child, stale>>

(* schedule() returns in thread x.  If this was the schedule() of a nested *)
(* tick, then the one below it goes on with the next that it has chosen.   *)
Return(c, x) ==
    IF x = Swapper(c) /\ stale[c] /= None
    THEN /\ next' = [next EXCEPT ![c] = stale[c]]
         /\ stale' = [stale EXCEPT ![c] = None]
         /\ stage' = [stage EXCEPT ![c] = "switch"]
    ELSE /\ next' = [next EXCEPT ![c] = Swapper(c)]
         /\ stage' = [stage EXCEPT ![c] = "off"]
         /\ UNCHANGED stale

NoSwitch(c) ==
    /\ stage[c] = "switch" /\ next[c] = cur[c]
    /\ Return(c, cur[c])
    /\ UNCHANGED <<table, cur, pos, child>>

(* cpu_switch_to: the context goes into the task_struct of prev.  (What a  *)
(* jump through an empty context would do is not modelled; that there is   *)
(* none is part of SwitchesToReady.)                                       *)
Switch(c) ==
    /\ stage[c] = "switch" /\ next[c] /= cur[c]
    /\ context[next[c]] /= "none"
    /\ context' = [context EXCEPT ![cur[c]] = pos[c]]
    /\ pos' = [pos EXCEPT ![c] = context[next[c]]]
    /\ cur' = [cur EXCEPT ![c] = next[c]]
    /\ Return(c, next[c])
    /\ UNCHANGED <<in_use, state, time, child>>

-----------------------------------------------------------------------------
(* irq_handler for the timer.                                              *)

(* The tick is charged to the running task, which goes on (kernel mode) or *)
(* is preempted (user mode).  Only user mode code can be preempted, and    *)
(* filling a slot is kernel mode code.                                     *)
Tick(c) ==
    /\ stage[c] = "off" /\ cur[c] \in Slots
    /\ time[cur[c]] < MaxTime
    /\ time' = [time EXCEPT ![cur[c]] = @ + 1]
    /\ \/ pos[c] \in {"run", "dead"} /\ CallSchedule(c)
       \/ UNCHANGED stage
    /\ UNCHANGED <<in_use, state, context, cur, pos, child, next, stale>>

(* pid 0 is preempted wherever it is, the filling of a slot included.      *)
TickSwapper(c) ==
    /\ stage[c] = "off" /\ cur[c] = Swapper(c)
    /\ CallSchedule(c)
    /\ UNCHANGED <<table, cur, pos, child, next, stale>>

(* irq_handler has enabled interrupts before it calls schedule(): the next *)
(* tick can come between the choice and the switch.  One level of nesting  *)
(* is modelled.                                                            *)
TickNested(c) ==
    /\ NestedTick
    /\ stage[c] = "switch" /\ cur[c] = Swapper(c)
    /\ next[c] \in Slots /\ stale[c] = None
    /\ stale' = [stale EXCEPT ![c] = next[c]]
    /\ CallSchedule(c)
    /\ UNCHANGED <<table, cur, pos, child, next>>

-----------------------------------------------------------------------------
(* State changes of a task.                                                *)

(* A call of schedule() in a test or a system call.                        *)
Yield(c) ==
    /\ Executes(c, "run") /\ cur[c] \in Slots
    /\ CallSchedule(c)
    /\ UNCHANGED <<table, cur, pos, child, next, stale>>

(* set_task_state(current, SLEEPING), then schedule().                     *)
Sleep(c) ==
    /\ Executes(c, "run") /\ cur[c] \in Slots
    /\ state' = [state EXCEPT ![cur[c]] = "SLEEPING"]
    /\ CallSchedule(c)
    /\ UNCHANGED <<in_use, time, context, cur, pos, child, next, stale>>

(* set_task_state(t, RUNNING) by a timer, wake_up or mutex_unlock.         *)
Wake(i) ==
    /\ state[i] = "SLEEPING"
    /\ state' = [state EXCEPT ![i] = "RUNNING"]
    /\ UNCHANGED <<in_use, time, context, cpu, child>>

(* Mutant: do_exit leaves the state RUNNING.                               *)
MutantExit(c) ==
    /\ Executes(c, "run") /\ cur[c] \in Slots
    /\ pos' = [pos EXCEPT ![c] = "dead"]
    /\ CallSchedule(c)
    /\ UNCHANGED <<table, cur, child, next, stale>>

(* do_exit: STOPPED, stored without the lock, then schedule().             *)
Exit(c) ==
    /\ Executes(c, "run") /\ cur[c] \in Slots
    /\ state' = [state EXCEPT ![cur[c]] = "STOPPED"]
    /\ pos' = [pos EXCEPT ![c] = "dead"]
    /\ CallSchedule(c)
    /\ UNCHANGED <<in_use, time, context, cur, child, next, stale>>

-----------------------------------------------------------------------------
(* kernel_thread and sys_fork.                                             *)

(* memset(t, 0): the slots of a set become free and empty.                 *)
Clear(S) ==
    /\ state' = [i \in Slots |-> IF i \in S THEN "INITIALIZING" ELSE state[i]]
    /\ time' = [i \in Slots |-> IF i \in S THEN 0 ELSE time[i]]
    /\ context' = [x \in Threads |-> IF x \in S THEN "none" ELSE context[x]]

Free == {i \in Slots : ~in_use[i]}

(***************************************************************************)
(* get_task_slot: the first free slot; STOPPED slots before it are         *)
(* cleared, but not used in this pass.  The exiting task of such a slot    *)
(* has usually left its CPU; nothing in the code waits for that.           *)
(***************************************************************************)
ReclaimIsTimely == \A i \in Slots : state[i] = "STOPPED" => \A d \in CPUs : cur[d] /= i

(* STOPPED slots that the loop passes before it ends at n.                 *)
Stopped(n) == {i \in Slots : i < n /\ in_use[i] /\ state[i] = "STOPPED"}

TakeSlot(c, f) ==
    /\ in_use' = [i \in Slots |-> i = f \/ (in_use[i] /\ i \notin Stopped(f))]
    /\ Clear(Stopped(f))
    /\ child' = [child EXCEPT ![cur[c]] = f]
    /\ pos' = [pos EXCEPT ![c] = "build"]

NoSlot ==
    /\ in_use' = [i \in Slots |-> i \notin Stopped(NumSlots)]
    /\ Clear(Stopped(NumSlots))
    /\ UNCHANGED <<pos, child>>

IsFirst(f, S) == \A g \in S : f <= g

(* Mutant: in_use is set by the caller, after tasks_lock is released.      *)
MutantSlotNotTaken(c) ==
    /\ Executes(c, "run")
    /\ \E f \in Free :
        /\ IsFirst(f, Free)
        /\ child' = [child EXCEPT ![cur[c]] = f]
    /\ pos' = [pos EXCEPT ![c] = "build"]
    /\ UNCHANGED <<table, cur, stage, next, stale>>

GetTaskSlot(c) ==
    /\ Executes(c, "run")
    /\ ExitWindow \/ ReclaimIsTimely
    /\ \/ Free = {} /\ NoSlot
       \/ \E f \in Free : IsFirst(f, Free) /\ TakeSlot(c, f)
    /\ UNCHANGED <<cur, stage, next, stale>>

(* The stack, the saved registers, mm and the page tables.                 *)
Build(c) ==
    /\ Executes(c, "build")
    /\ context' = [context EXCEPT ![child[cur[c]]] = "run"]
    /\ pos' = [pos EXCEPT ![c] = "built"]
    /\ UNCHANGED <<in_use, state, time, cur, child, stage, next, stale>>

(* Mutant: the error path returns without free_task_slot.                  *)
MutantBuildFails(c) ==
    /\ stage[c] = "off" /\ pos[c] \in {"build", "built"}
    /\ child' = [child EXCEPT ![cur[c]] = None]
    /\ pos' = [pos EXCEPT ![c] = "run"]
    /\ UNCHANGED <<table, cur, stage, next, stale>>

(* An allocation fails: free_task_slot.                                    *)
BuildFails(c) ==
    /\ stage[c] = "off" /\ pos[c] \in {"build", "built"}
    /\ in_use' = [in_use EXCEPT ![child[cur[c]]] = FALSE]
    /\ Clear({child[cur[c]]})
    /\ child' = [child EXCEPT ![cur[c]] = None]
    /\ pos' = [pos EXCEPT ![c] = "run"]
    /\ UNCHANGED <<cur, stage, next, stale>>

(* Mutant: RUNNING before the context is there.                            *)
MutantStart(c) ==
    /\ stage[c] = "off" /\ pos[c] \in {"build", "built"}
    /\ state' = [state EXCEPT ![child[cur[c]]] = "RUNNING"]
    /\ IF pos[c] = "built"
       THEN /\ child' = [child EXCEPT ![cur[c]] = None]
            /\ pos' = [pos EXCEPT ![c] = "run"]
       ELSE UNCHANGED <<child, pos>>
    /\ UNCHANGED <<in_use, time, context, cur, stage, next, stale>>

(* t->state = RUNNING, the last assignment, without the lock.              *)
Start(c) ==
    /\ Executes(c, "built")
    /\ state' = [state EXCEPT ![child[cur[c]]] = "RUNNING"]
    /\ child' = [child EXCEPT ![cur[c]] = None]
    /\ pos' = [pos EXCEPT ![c] = "run"]
    /\ UNCHANGED <<in_use, time, context, cur, stage, next, stale>>

-----------------------------------------------------------------------------
Next ==
    \/ \E c \in CPUs :
        \/ Pick(c) \/ NoSwitch(c) \/ Switch(c)
        \/ Tick(c) \/ TickSwapper(c) \/ TickNested(c)
        \/ Yield(c) \/ Sleep(c) \/ Exit(c)
        \/ GetTaskSlot(c) \/ Build(c) \/ BuildFails(c) \/ Start(c)
    \/ \E i \in Slots : Wake(i)

Spec == Init /\ [][Next]_vars

-----------------------------------------------------------------------------
(* No two CPUs are ever on the same stack: a task runs on the CPU of its   *)
(* slot only, whatever races there are.                                    *)
OneCpuPerStack == \A c, d \in CPUs : cur[c] = cur[d] => c = d

(* The task that schedule() is about to switch to is in use, RUNNING and   *)
(* has a complete context.  In particular a new task does not run before   *)
(* its creator has finished it, though state is written without the lock.  *)
SwitchesToReady ==
    \A c \in CPUs : stage[c] = "switch" /\ next[c] \in Slots =>
        is_task_ready(next[c]) /\ (next[c] /= cur[c] => context[next[c]] /= "none")

(* A task that has ended, "killed" or by sys_exit, executes nothing after  *)
(* the schedule() of do_exit.                                              *)
EndedNeverRuns == \A c \in CPUs : pos[c] = "dead" => stage[c] /= "off"

(* Every slot in use is on its way back or has somebody who cares for it:  *)
(* a thread that lives in it or a creator that is filling it.              *)
NoSlotLost ==
    \A i \in Slots : in_use[i] =>
        \/ state[i] \in {"RUNNING", "SLEEPING", "STOPPED"}
        \/ \E x \in Threads : child[x] = i

(* Nobody fills a slot while a CPU still runs on its stack, and no two     *)
(* threads fill the same slot.                                             *)
SlotNotShared ==
    \A x, y \in Threads : child[x] /= None =>
        /\ \A c \in CPUs : cur[c] /= child[x]
        /\ child[y] = child[x] => x = y
=============================================================================

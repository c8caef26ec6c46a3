----------------------------- MODULE Sched_proof ----------------------------
(***************************************************************************)
(* Proofs about Sched, for any number of CPUs and slots.  That no two CPUs *)
(* share a stack holds with all the races that the module can make; the    *)
(* rest holds if interrupts do not nest inside schedule() and a slot is    *)
(* only reclaimed when its task has left its CPU.                          *)
(***************************************************************************)
EXTENDS Sched, TLAPS

(* What a CPU runs, has chosen or goes back to is its own.                 *)
Own(c) == Mine(c) \cup {Swapper(c)}

AtHome ==
    \A c \in CPUs : cur[c] \in Own(c) /\ next[c] \in Own(c) /\ stale[c] \in Mine(c) \cup {None}

(* A slot that is being filled is taken, and by one thread only.           *)
Filled ==
    \A x \in Threads : child[x] /= None =>
        /\ in_use[child[x]] /\ state[child[x]] = "INITIALIZING"
        /\ \A y \in Threads : child[y] = child[x] => y = x

FreeIsEmpty == \A i \in Slots : ~in_use[i] => state[i] = "INITIALIZING"

(* The thread on a CPU.                                                    *)
Running(c) ==
    /\ cur[c] \in Slots => in_use[cur[c]] /\ state[cur[c]] /= "INITIALIZING"
    /\ pos[c] = "dead" <=> cur[c] \in Slots /\ state[cur[c]] = "STOPPED"
    /\ pos[c] = "dead" => stage[c] /= "off"
    /\ pos[c] \in {"build", "built"} <=> child[cur[c]] /= None
    /\ pos[c] \in {"build", "built"} /\ cur[c] \in Slots => stage[c] = "off"
    /\ pos[c] = "built" => context[child[cur[c]]] = "run"

(* A thread that is on no CPU.                                             *)
Resting(x) ==
    /\ context[x] \in {"build", "built"} <=> child[x] /= None
    /\ context[x] = "built" => context[child[x]] = "run"
    /\ x \in Slots => /\ state[x] \in {"RUNNING", "SLEEPING"} => context[x] = "run"
                      /\ state[x] = "STOPPED" => context[x] = "dead"
                      /\ context[x] \notin {"build", "built"}
    /\ x \notin Slots => context[x] \in {"run", "build", "built"}

OnNoCpu(x) == \A c \in CPUs : cur[c] /= x

ChosenIsReady ==
    \A c \in CPUs : stage[c] = "switch" /\ next[c] \in Slots => is_task_ready(next[c])

Rest ==
    /\ Filled
    /\ FreeIsEmpty
    /\ \A c \in CPUs : Running(c)
    /\ \A x \in Threads : OnNoCpu(x) => Resting(x)
    /\ ChosenIsReady
    /\ NoSlotLost

IInv == TypeOK /\ AtHome /\ (\A c \in CPUs : stale[c] = None) /\ Rest

(* Interrupts do not nest inside schedule(), and a slot is reclaimed only  *)
(* when its task has left its CPU.                                         *)
Orderly == NestedTick = FALSE /\ ExitWindow = FALSE

-----------------------------------------------------------------------------
(* The numbers of threads.                                                 *)
LEMMA Numbers ==
    /\ Slots \subseteq Threads /\ None \notin Threads
    /\ \A c \in CPUs : Swapper(c) \in Threads \ Slots /\ Own(c) \subseteq Threads
    /\ \A c, d \in CPUs : \A x \in Own(c) : x \in Own(d) => c = d
<1> USE NumAssumption DEF Slots, Threads, CPUs, None, Swapper, Own, Mine
<1>1. Slots \subseteq Threads /\ None \notin Threads
  OBVIOUS
<1>2. ASSUME NEW c \in CPUs
      PROVE  Swapper(c) \in Threads \ Slots /\ Own(c) \subseteq Threads
  OBVIOUS
<1>3. ASSUME NEW c \in CPUs, NEW d \in CPUs, NEW x \in Own(c), x \in Own(d)
      PROVE  c = d
  BY <1>3
<1> QED BY <1>1, <1>2, <1>3

(* get_next_proc returns a ready task of the CPU, or its swapper.          *)
LEMMA NextIsOwn ==
    ASSUME NEW c \in CPUs, NEW n \in get_next_proc(c)
    PROVE  n \in Own(c) /\ (n \in Slots => is_task_ready(n))
BY Numbers DEF get_next_proc, Ready, Own

(* init_sched starts with the right types.                                 *)
LEMMA InitType == Init => TypeOK
BY Numbers, NumAssumption DEF Init, TypeOK, States, Positions, None

(* schedule() keeps the types.                                             *)
LEMMA ReturnType ==
    ASSUME TypeOK, NEW c \in CPUs, NEW x, Return(c, x)
    PROVE  /\ stage' \in [CPUs -> {"off", "pick", "switch"}]
           /\ next' \in [CPUs -> Threads]
           /\ stale' \in [CPUs -> Slots \cup {None}]
BY Numbers DEF Return, TypeOK

(* Clearing slots keeps the types.                                         *)
LEMMA ClearType ==
    ASSUME TypeOK, NEW S, Clear(S)
    PROVE  /\ state' \in [Slots -> States]
           /\ time' \in [Slots -> 0..MaxTime]
           /\ context' \in [Threads -> Positions]
BY NumAssumption DEF Clear, TypeOK, States, Positions

(* Every action keeps the types, with all the races.                       *)
LEMMA NextType == TypeOK /\ [Next]_vars => TypeOK'
<1> SUFFICES ASSUME TypeOK, [Next]_vars PROVE TypeOK'
  OBVIOUS
<1> USE DEF TypeOK
<1>1. ASSUME NEW c \in CPUs, Pick(c) PROVE TypeOK'
  BY <1>1, NextIsOwn, Numbers DEF Pick, table
<1>2. ASSUME NEW c \in CPUs, NoSwitch(c) PROVE TypeOK'
  BY <1>2, ReturnType DEF NoSwitch, table
<1>3. ASSUME NEW c \in CPUs, Switch(c) PROVE TypeOK'
  BY <1>3, ReturnType DEF Switch
<1>4. ASSUME NEW c \in CPUs, Tick(c) PROVE TypeOK'
  BY <1>4, NumAssumption DEF Tick, CallSchedule
<1>5. ASSUME NEW c \in CPUs, TickSwapper(c) \/ TickNested(c) \/ Yield(c) PROVE TypeOK'
  BY <1>5 DEF TickSwapper, TickNested, Yield, CallSchedule, table
<1>6. ASSUME NEW c \in CPUs, Sleep(c) \/ Exit(c) PROVE TypeOK'
  BY <1>6 DEF Sleep, Exit, CallSchedule, States, Positions
<1>7. ASSUME NEW c \in CPUs, GetTaskSlot(c) PROVE TypeOK'
  <2>1. CASE NoSlot
    BY <1>7, <2>1, ClearType DEF GetTaskSlot, NoSlot
  <2>2. ASSUME NEW f \in Free, TakeSlot(c, f) PROVE TypeOK'
    <3>1. f \in Slots /\ in_use' \in [Slots -> BOOLEAN]
      BY <2>2 DEF TakeSlot, Free
    <3> QED BY <1>7, <2>2, <3>1, ClearType DEF GetTaskSlot, TakeSlot, Positions
  <2> QED BY <1>7, <2>1, <2>2 DEF GetTaskSlot
<1>8. ASSUME NEW c \in CPUs, Build(c) \/ Start(c) PROVE TypeOK'
  BY <1>8 DEF Build, Start, States, Positions
<1>9. ASSUME NEW c \in CPUs, BuildFails(c) PROVE TypeOK'
  BY <1>9, ClearType DEF BuildFails, Positions
<1>10. ASSUME NEW i \in Slots, Wake(i) PROVE TypeOK'
  BY <1>10 DEF Wake, cpu, States
<1>11. CASE UNCHANGED vars
  BY <1>11 DEF vars, table, cpu
<1> QED BY <1>1, <1>2, <1>3, <1>4, <1>5, <1>6, <1>7, <1>8, <1>9, <1>10, <1>11 DEF Next

(* A step of schedule() leaves every CPU with threads of its own.          *)
LEMMA ReturnAtHome ==
    ASSUME TypeOK, AtHome, NEW c \in CPUs, NEW x, Return(c, x)
    PROVE  \A d \in CPUs : next'[d] \in Own(d) /\ stale'[d] \in Mine(d) \cup {None}
BY DEF Return, TypeOK, AtHome, Own

(* Every action leaves threads with their CPUs, with all the races.        *)
LEMMA NextAtHome == TypeOK /\ AtHome /\ [Next]_vars => AtHome'
<1> SUFFICES ASSUME TypeOK, AtHome, [Next]_vars PROVE AtHome'
  OBVIOUS
<1> USE DEF AtHome
<1>1. ASSUME NEW c \in CPUs, Pick(c) PROVE AtHome'
  BY <1>1, NextIsOwn DEF Pick, TypeOK, Own, Mine
<1>2. ASSUME NEW c \in CPUs, NoSwitch(c) PROVE AtHome'
  BY <1>2, ReturnAtHome DEF NoSwitch, Own, Mine
<1>3. ASSUME NEW c \in CPUs, Switch(c) PROVE AtHome'
  BY <1>3, ReturnAtHome DEF Switch, TypeOK, Own, Mine
<1>4. ASSUME NEW c \in CPUs, TickNested(c) PROVE AtHome'
  BY <1>4, Numbers DEF TickNested, TypeOK, Own, Mine
<1>5. CASE UNCHANGED <<cur, next, stale>>
  BY <1>5 DEF Own, Mine
<1> QED BY <1>1, <1>2, <1>3, <1>4, <1>5 DEF Next, vars, cpu, Tick, TickSwapper, Yield,
           Sleep, Exit, GetTaskSlot, Build, BuildFails, Start, Wake

(* Two CPUs never run on the same stack, whatever races there are in       *)
(* schedule(), in do_exit and in get_task_slot: get_next_proc gives every  *)
(* slot to one CPU, and a choice that has become stale is still its own.   *)
THEOREM SchedOneCpuPerStack == Spec => []OneCpuPerStack
<1>1. Init => AtHome
  BY Numbers DEF Init, AtHome, Own
<1>2. TypeOK /\ AtHome => OneCpuPerStack
  BY Numbers DEF AtHome, OneCpuPerStack
<1> QED BY <1>1, <1>2, InitType, NextType, NextAtHome, PTL DEF Spec

-----------------------------------------------------------------------------
(* Each action keeps the rest of IInv.                                     *)

(* The choice, under tasks_lock.                                           *)
LEMMA PickKeeps ==
    ASSUME IInv, TypeOK', AtHome', NEW c \in CPUs, Pick(c)
    PROVE  Rest'
<1> USE Numbers, NextIsOwn DEF IInv, Rest, TypeOK, AtHome, Pick, table
<1>1. Filled'
  BY DEF Filled
<1>2. FreeIsEmpty'
  BY DEF FreeIsEmpty
<1>3. (\A d \in CPUs : Running(d))'
  BY DEF Running
<1>4. (\A x \in Threads : OnNoCpu(x) => Resting(x))'
  BY DEF Resting, OnNoCpu
<1>5. ChosenIsReady'
  BY DEF ChosenIsReady, is_task_ready
<1>6. NoSlotLost'
  BY DEF NoSlotLost
<1> QED BY <1>1, <1>2, <1>3, <1>4, <1>5, <1>6 DEF Rest

(* schedule() has chosen the running task: it has not ended.               *)
LEMMA NoSwitchKeeps ==
    ASSUME IInv, TypeOK', AtHome', NEW c \in CPUs, NoSwitch(c)
    PROVE  Rest'
<1> USE Numbers DEF IInv, Rest, TypeOK, AtHome, NoSwitch, Return, table, is_task_ready, ChosenIsReady
<1>1. Filled'
  BY DEF Filled
<1>2. FreeIsEmpty'
  BY DEF FreeIsEmpty
<1>3. (\A d \in CPUs : Running(d))'
  BY DEF Running
<1>4. (\A x \in Threads : OnNoCpu(x) => Resting(x))'
  BY DEF Resting, OnNoCpu
<1>5. ChosenIsReady'
  BY DEF ChosenIsReady, is_task_ready
<1>6. NoSlotLost'
  BY DEF NoSlotLost
<1> QED BY <1>1, <1>2, <1>3, <1>4, <1>5, <1>6 DEF Rest

(* cpu_switch_to: what was running rests, and the chosen task runs.        *)
LEMMA SwitchKeeps ==
    ASSUME IInv, TypeOK', AtHome', NEW c \in CPUs, Switch(c)
    PROVE  Rest'
<1> USE Numbers DEF IInv, Rest, TypeOK, AtHome, Switch, Return, ChosenIsReady, is_task_ready
<1>1. Filled'
  BY DEF Filled
<1>2. FreeIsEmpty'
  BY DEF FreeIsEmpty
<1>3. (\A d \in CPUs : Running(d))'
  BY DEF Filled, Running, Resting, OnNoCpu
<1>4. (\A x \in Threads : OnNoCpu(x) => Resting(x))'
  <2> SUFFICES ASSUME NEW x \in Threads, OnNoCpu(x)' PROVE Resting(x)'
    OBVIOUS
  <2>1. \A y \in Threads : child[y] /= None => context'[child[y]] = context[child[y]]
    BY DEF Filled, Running
  <2>2. CASE x = cur[c]
    BY <2>1, <2>2 DEF Running, Resting, Positions
  <2>3. CASE x /= cur[c]
    <3>1. OnNoCpu(x)
      BY <2>3 DEF OnNoCpu
    <3> QED BY <2>1, <2>3, <3>1 DEF Resting
  <2> QED BY <2>2, <2>3
<1>5. ChosenIsReady'
  BY DEF ChosenIsReady, is_task_ready
<1>6. NoSlotLost'
  BY DEF NoSlotLost
<1> QED BY <1>1, <1>2, <1>3, <1>4, <1>5, <1>6 DEF Rest

(* A tick in a task.                                                       *)
LEMMA TickKeeps ==
    ASSUME IInv, TypeOK', AtHome', NEW c \in CPUs, Tick(c)
    PROVE  Rest'
<1> USE Numbers DEF IInv, Rest, TypeOK, AtHome, Tick, CallSchedule
<1>1. Filled'
  BY DEF Filled
<1>2. FreeIsEmpty'
  BY DEF FreeIsEmpty
<1>3. (\A d \in CPUs : Running(d))'
  BY DEF Running
<1>4. (\A x \in Threads : OnNoCpu(x) => Resting(x))'
  BY DEF Resting, OnNoCpu
<1>5. ChosenIsReady'
  BY DEF ChosenIsReady, is_task_ready
<1>6. NoSlotLost'
  BY DEF NoSlotLost
<1> QED BY <1>1, <1>2, <1>3, <1>4, <1>5, <1>6 DEF Rest

(* A tick in the swapper, which may be filling a slot.                     *)
LEMMA TickSwapperKeeps ==
    ASSUME IInv, TypeOK', AtHome', NEW c \in CPUs, TickSwapper(c)
    PROVE  Rest'
<1> USE Numbers DEF IInv, Rest, TypeOK, AtHome, TickSwapper, CallSchedule, table
<1>1. Filled'
  BY DEF Filled
<1>2. FreeIsEmpty'
  BY DEF FreeIsEmpty
<1>3. (\A d \in CPUs : Running(d))'
  BY DEF Running
<1>4. (\A x \in Threads : OnNoCpu(x) => Resting(x))'
  BY DEF Resting, OnNoCpu
<1>5. ChosenIsReady'
  BY DEF ChosenIsReady, is_task_ready
<1>6. NoSlotLost'
  BY DEF NoSlotLost
<1> QED BY <1>1, <1>2, <1>3, <1>4, <1>5, <1>6 DEF Rest

(* schedule() is called.                                                   *)
LEMMA YieldKeeps ==
    ASSUME IInv, TypeOK', AtHome', NEW c \in CPUs, Yield(c)
    PROVE  Rest'
<1> USE Numbers DEF IInv, Rest, TypeOK, AtHome, Yield, Executes, CallSchedule, table
<1>1. Filled'
  BY DEF Filled
<1>2. FreeIsEmpty'
  BY DEF FreeIsEmpty
<1>3. (\A d \in CPUs : Running(d))'
  BY DEF Running
<1>4. (\A x \in Threads : OnNoCpu(x) => Resting(x))'
  BY DEF Resting, OnNoCpu
<1>5. ChosenIsReady'
  BY DEF ChosenIsReady, is_task_ready
<1>6. NoSlotLost'
  BY DEF NoSlotLost
<1> QED BY <1>1, <1>2, <1>3, <1>4, <1>5, <1>6 DEF Rest

(* A task goes to sleep.                                                   *)
LEMMA SleepKeeps ==
    ASSUME IInv, TypeOK', AtHome', NEW c \in CPUs, Sleep(c)
    PROVE  Rest'
<1> USE Numbers DEF IInv, Rest, TypeOK, AtHome, Sleep, Executes, CallSchedule
<1>1. Filled'
  BY DEF Filled, Running
<1>2. FreeIsEmpty'
  BY DEF FreeIsEmpty, Running
<1>3. (\A d \in CPUs : Running(d))'
  BY DEF Running
<1>4. (\A x \in Threads : OnNoCpu(x) => Resting(x))'
  BY DEF Resting, OnNoCpu
<1>5. ChosenIsReady'
  BY DEF ChosenIsReady, is_task_ready
<1>6. NoSlotLost'
  BY DEF NoSlotLost
<1> QED BY <1>1, <1>2, <1>3, <1>4, <1>5, <1>6 DEF Rest

(* A task ends: it is on its way out of the CPU.                           *)
LEMMA ExitKeeps ==
    ASSUME IInv, TypeOK', AtHome', NEW c \in CPUs, Exit(c)
    PROVE  Rest'
<1> USE Numbers DEF IInv, Rest, TypeOK, AtHome, Exit, Executes, CallSchedule
<1>1. Filled'
  BY DEF Filled, Running
<1>2. FreeIsEmpty'
  BY DEF FreeIsEmpty, Running
<1>3. (\A d \in CPUs : Running(d))'
  BY DEF Running
<1>4. (\A x \in Threads : OnNoCpu(x) => Resting(x))'
  BY DEF Resting, OnNoCpu
<1>5. ChosenIsReady'
  BY DEF ChosenIsReady, is_task_ready
<1>6. NoSlotLost'
  BY DEF NoSlotLost
<1> QED BY <1>1, <1>2, <1>3, <1>4, <1>5, <1>6 DEF Rest

(* The context of a new task is written; nobody runs in that slot.         *)
LEMMA BuildKeeps ==
    ASSUME IInv, TypeOK', AtHome', NEW c \in CPUs, Build(c)
    PROVE  Rest'
<1> USE Numbers DEF IInv, Rest, TypeOK, AtHome, Build, Executes
<1>1. Filled'
  BY DEF Filled
<1>2. FreeIsEmpty'
  BY DEF FreeIsEmpty
<1>3. (\A d \in CPUs : Running(d))'
  BY DEF Running
<1>4. (\A x \in Threads : OnNoCpu(x) => Resting(x))'
  BY DEF Filled, Resting, OnNoCpu
<1>5. ChosenIsReady'
  BY DEF ChosenIsReady, is_task_ready
<1>6. NoSlotLost'
  BY DEF NoSlotLost
<1> QED BY <1>1, <1>2, <1>3, <1>4, <1>5, <1>6 DEF Rest

(* The slot of a failed creation is given back; nobody runs in it.         *)
LEMMA BuildFailsKeeps ==
    ASSUME IInv, TypeOK', AtHome', NEW c \in CPUs, BuildFails(c)
    PROVE  Rest'
<1> USE Numbers DEF IInv, Rest, TypeOK, AtHome, BuildFails, Clear
<1>1. Filled'
  BY DEF Filled
<1>2. FreeIsEmpty'
  BY DEF FreeIsEmpty
<1>3. (\A d \in CPUs : Running(d))'
  BY DEF Filled, Running
<1>4. (\A x \in Threads : OnNoCpu(x) => Resting(x))'
  BY DEF Filled, Resting, OnNoCpu
<1>5. ChosenIsReady'
  BY DEF Filled, ChosenIsReady, is_task_ready
<1>6. NoSlotLost'
  BY DEF NoSlotLost
<1> QED BY <1>1, <1>2, <1>3, <1>4, <1>5, <1>6 DEF Rest

(* The new task becomes RUNNING: it is complete.                           *)
LEMMA StartKeeps ==
    ASSUME IInv, TypeOK', AtHome', NEW c \in CPUs, Start(c)
    PROVE  Rest'
<1> USE Numbers DEF IInv, Rest, TypeOK, AtHome, Start, Executes
<1>1. Filled'
  BY DEF Filled
<1>2. FreeIsEmpty'
  BY DEF Filled, FreeIsEmpty
<1>3. (\A d \in CPUs : Running(d))'
  BY DEF Filled, Running
<1>4. (\A x \in Threads : OnNoCpu(x) => Resting(x))'
  BY DEF Running, Resting, OnNoCpu
<1>5. ChosenIsReady'
  BY DEF ChosenIsReady, is_task_ready
<1>6. NoSlotLost'
  BY DEF NoSlotLost
<1> QED BY <1>1, <1>2, <1>3, <1>4, <1>5, <1>6 DEF Rest

(* Stopped slots are nobody's: their tasks have left their CPUs.           *)
LEMMA ClearStopped ==
    ASSUME IInv, ReclaimIsTimely, NEW n \in Slots \cup {NumSlots}
    PROVE  /\ \A i \in Stopped(n) : OnNoCpu(i) /\ context[i] = "dead" /\ child[i] = None
           /\ \A x \in Threads : child[x] \notin Stopped(n)
<1> USE Numbers DEF IInv, Rest, TypeOK, Stopped
<1>1. \A i \in Stopped(n) : OnNoCpu(i)
  BY DEF ReclaimIsTimely, OnNoCpu
<1>2. \A i \in Stopped(n) : context[i] = "dead" /\ child[i] = None
  BY <1>1 DEF Resting
<1>3. \A x \in Threads : child[x] \notin Stopped(n)
  BY DEF Filled
<1> QED BY <1>1, <1>2, <1>3

(* get_task_slot finds no free slot and clears the stopped ones.           *)
LEMMA NoSlotKeeps ==
    ASSUME IInv, TypeOK', AtHome', NEW c \in CPUs, GetTaskSlot(c), ~ExitWindow, Free = {}, NoSlot
    PROVE  Rest'
<1> USE Numbers, NumAssumption DEF IInv, Rest, TypeOK, AtHome, GetTaskSlot, NoSlot, Clear, Executes
<1>0. /\ \A i \in Stopped(NumSlots) : OnNoCpu(i) /\ context[i] = "dead" /\ child[i] = None
      /\ \A x \in Threads : child[x] \notin Stopped(NumSlots)
  BY ClearStopped
<1>1. Filled'
  BY <1>0 DEF Filled
<1>2. FreeIsEmpty'
  BY <1>0 DEF FreeIsEmpty
<1>3. (\A d \in CPUs : Running(d))'
  BY <1>0 DEF Running, OnNoCpu
<1>4. (\A x \in Threads : OnNoCpu(x) => Resting(x))'
  BY <1>0 DEF Resting, OnNoCpu, Stopped
<1>5. ChosenIsReady'
  BY DEF ChosenIsReady, is_task_ready, Stopped
<1>6. NoSlotLost'
  BY <1>0 DEF NoSlotLost, Free
<1> QED BY <1>1, <1>2, <1>3, <1>4, <1>5, <1>6 DEF Rest

(* get_task_slot takes a free slot and clears the stopped ones before it.  *)
LEMMA TakeSlotKeeps ==
    ASSUME IInv, TypeOK', AtHome', NEW c \in CPUs, GetTaskSlot(c), ~ExitWindow,
           NEW f \in Free, TakeSlot(c, f)
    PROVE  Rest'
<1> USE Numbers, NumAssumption DEF IInv, Rest, TypeOK, AtHome, GetTaskSlot, TakeSlot, Clear, Executes
<1>0. /\ \A i \in Stopped(f) : OnNoCpu(i) /\ context[i] = "dead" /\ child[i] = None
      /\ \A x \in Threads : child[x] \notin Stopped(f)
  BY ClearStopped DEF Free
<1>a. f \in Slots /\ ~in_use[f] /\ state[f] = "INITIALIZING" /\ OnNoCpu(f)
  BY DEF Free, FreeIsEmpty, OnNoCpu, Running
<1>b. child[cur[c]] = None /\ \A x \in Threads : child[x] /= f
  BY <1>a DEF Running, Filled
<1>1. Filled'
  <2> SUFFICES ASSUME NEW x \in Threads, child'[x] /= None
               PROVE  /\ in_use'[child'[x]] /\ state'[child'[x]] = "INITIALIZING"
                      /\ \A y \in Threads : child'[y] = child'[x] => y = x
    BY DEF Filled
  <2>1. CASE x = cur[c]
    <3>1. child'[x] = f /\ f \notin Stopped(f)
      BY <1>a, <2>1 DEF Stopped
    <3>2. in_use'[f] /\ state'[f] = "INITIALIZING"
      BY <1>a, <3>1
    <3>3. \A y \in Threads : child'[y] = f => y = x
      BY <1>b, <2>1
    <3> QED BY <3>1, <3>2, <3>3
  <2>2. CASE x /= cur[c]
    <3>1. child'[x] = child[x] /\ child[x] \in Slots /\ child[x] /= f
      BY <1>b, <2>2
    <3> QED BY <1>0, <2>2, <3>1 DEF Filled
  <2> QED BY <2>1, <2>2
<1>2. FreeIsEmpty'
  BY <1>0, <1>a DEF FreeIsEmpty
<1>3. (\A d \in CPUs : Running(d))'
  BY <1>0, <1>a, <1>b DEF Running, OnNoCpu
<1>4. (\A x \in Threads : OnNoCpu(x) => Resting(x))'
  BY <1>0, <1>a, <1>b DEF Resting, OnNoCpu, Stopped
<1>5. ChosenIsReady'
  BY <1>a DEF ChosenIsReady, is_task_ready, Stopped
<1>6. NoSlotLost'
  BY <1>0, <1>a, <1>b DEF NoSlotLost
<1> QED BY <1>1, <1>2, <1>3, <1>4, <1>5, <1>6 DEF Rest

(* A sleeping task becomes RUNNING.                                        *)
LEMMA WakeKeeps ==
    ASSUME IInv, NEW i \in Slots, Wake(i)
    PROVE  Rest'
<1> USE Numbers DEF IInv, Rest, TypeOK, AtHome, Wake, cpu
<1>1. Filled'
  BY DEF Filled
<1>2. FreeIsEmpty'
  BY DEF FreeIsEmpty
<1>3. (\A d \in CPUs : Running(d))'
  BY DEF Running
<1>4. (\A x \in Threads : OnNoCpu(x) => Resting(x))'
  BY DEF Resting, OnNoCpu
<1>5. ChosenIsReady'
  BY DEF ChosenIsReady, is_task_ready
<1>6. NoSlotLost'
  BY DEF NoSlotLost
<1> QED BY <1>1, <1>2, <1>3, <1>4, <1>5, <1>6 DEF Rest

(* One step, in an orderly kernel.                                         *)
LEMMA NextKeeps ==
    ASSUME Orderly, IInv, [Next]_vars
    PROVE  IInv'
<1>1. TypeOK' /\ AtHome'
  BY NextType, NextAtHome DEF IInv
<1>2. (\A d \in CPUs : stale[d] = None)'
  BY DEF IInv, Rest, TypeOK, Orderly, Next, vars, cpu, Pick, NoSwitch, Switch, Return, Tick, TickSwapper,
         TickNested, Yield, Sleep, Exit, GetTaskSlot, Build, BuildFails, Start, Wake
<1>3. Rest'
  <2>1. ASSUME NEW c \in CPUs, GetTaskSlot(c) PROVE Rest'
    BY <1>1, <2>1, NoSlotKeeps, TakeSlotKeeps DEF GetTaskSlot, Orderly
  <2>2. ASSUME NEW c \in CPUs, TickNested(c) PROVE Rest'
    BY <2>2 DEF TickNested, Orderly
  <2>3. CASE UNCHANGED vars
    BY <2>3 DEF vars, table, cpu, IInv, Rest, Filled, FreeIsEmpty, Running, Resting, OnNoCpu,
                ChosenIsReady, is_task_ready, NoSlotLost
  <2> QED BY <1>1, <2>1, <2>2, <2>3, PickKeeps, NoSwitchKeeps, SwitchKeeps, TickKeeps,
             TickSwapperKeeps, YieldKeeps, SleepKeeps, ExitKeeps, BuildKeeps, BuildFailsKeeps,
             StartKeeps, WakeKeeps DEF Next
<1> QED BY <1>1, <1>2, <1>3 DEF IInv

(* init_sched.                                                             *)
LEMMA InitKeeps == Init => IInv
<1> SUFFICES ASSUME Init PROVE IInv
  OBVIOUS
<1>1. TypeOK /\ AtHome
  BY InitType, Numbers DEF Init, AtHome, Own
<1>2. \A c \in CPUs : Running(c)
  BY Numbers DEF Init, Running
<1>3. \A x \in Threads : OnNoCpu(x) => Resting(x)
  <2> SUFFICES ASSUME NEW x \in Threads, OnNoCpu(x) PROVE Resting(x)
    OBVIOUS
  <2>1. x \in Slots
    BY NumAssumption DEF Init, OnNoCpu, Threads, Slots, Swapper, CPUs
  <2> QED BY <2>1 DEF Init, Resting
<1> QED BY <1>1, <1>2, <1>3, Numbers DEF Init, IInv, Rest, Filled, FreeIsEmpty, ChosenIsReady, NoSlotLost

(* In an orderly kernel the invariant holds: each slot is free, being      *)
(* filled by one thread, running, resting with a complete context, or dead. *)
THEOREM SchedInvariant == Orderly => (Spec => []IInv)
<1> SUFFICES ASSUME Orderly PROVE Spec => []IInv
  OBVIOUS
<1>1. IInv /\ [Next]_vars => IInv'
  BY NextKeeps
<1> QED BY <1>1, InitKeeps, PTL DEF Spec

(* The task that schedule() is about to switch to is in use, RUNNING and   *)
(* complete, though tasks_lock was released after the choice and           *)
(* kernel_thread and sys_fork store RUNNING without it.                    *)
THEOREM SchedSwitchesToReady == Orderly => (Spec => []SwitchesToReady)
<1>1. IInv => SwitchesToReady
  BY Numbers DEF IInv, Rest, TypeOK, AtHome, SwitchesToReady, ChosenIsReady, is_task_ready,
                 Resting, OnNoCpu
<1> QED BY <1>1, SchedInvariant, PTL

(* After the schedule() of do_exit a task executes nothing.                *)
THEOREM SchedEndedNeverRuns == Orderly => (Spec => []EndedNeverRuns)
<1>1. IInv => EndedNeverRuns
  BY DEF IInv, Rest, EndedNeverRuns, Running
<1> QED BY <1>1, SchedInvariant, PTL

(* Failing creations and full tables lose no slot.                         *)
THEOREM SchedNoSlotLost == Orderly => (Spec => []NoSlotLost)
<1>1. IInv => NoSlotLost
  BY DEF IInv, Rest
<1> QED BY <1>1, SchedInvariant, PTL

(* Nobody fills the slot of a thread that still runs, or one that another  *)
(* thread is filling.                                                      *)
THEOREM SchedSlotNotShared == Orderly => (Spec => []SlotNotShared)
<1>1. IInv => SlotNotShared
  BY Numbers DEF IInv, Rest, TypeOK, AtHome, SlotNotShared, Filled, Running
<1> QED BY <1>1, SchedInvariant, PTL
=============================================================================

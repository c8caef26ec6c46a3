-------------------------- MODULE AddressSpace_proof ------------------------
(***************************************************************************)
(* Proofs about AddressSpace, for any number of CPUs, slots and pages: a   *)
(* process runs on its own tables; what a TLB remembers for it agrees with *)
(* them, except for what is left of an earlier process; and every page has *)
(* one use, or is lost for one of the known reasons.                       *)
(***************************************************************************)
EXTENDS AddressSpace, FiniteSetTheorems, WellFoundedInduction, TLAPS

(* The variables are functions on CPUs and tasks; page 0 is never handed   *)
(* out.                                                                    *)
Shape ==
    /\ state \in [Tasks -> {"unused", "kernel", "building", "user", "stopped"}]
    /\ cur \in [CPUs -> Tasks \cup {0}]
    /\ fork \in [Tasks -> ForkState]
    /\ pg_dir = [t \in Tasks |-> pg_dir[t]]
    /\ ttbr0 = [c \in CPUs |-> ttbr0[c]]
    /\ Null \notin free

(* What is on a CPU is ready to run there, and only it can be in sys_fork. *)
OnCpu ==
    /\ \A c \in CPUs : cur[c] /= 0 => Home(cur[c]) = c /\ state[cur[c]] \in {"kernel", "user"}
    /\ \A t \in Tasks : fork[t] /= NoFork => Home(t) \in CPUs /\ cur[Home(t)] = t /\ state[t] = "user"

(* A process in sys_fork has a child of its own under construction.        *)
Children ==
    \A t \in Tasks : fork[t] /= NoFork =>
        /\ fork[t].child \in Tasks
        /\ state[fork[t].child] = "building" /\ pg_dir[fork[t].child] /= Null
        /\ \A u \in Tasks : fork[u].child = fork[t].child => u = t

HasTables == \A t \in Tasks : state[t] = "user" => pg_dir[t] /= Null

IInv == Shape /\ OnCpu /\ Children /\ HasTables /\ RunsOnOwnTables

-----------------------------------------------------------------------------
(* Facts about the constants.                                              *)
LEMMA Constants ==
    /\ 0 \notin Tasks /\ Null = 0
    /\ \A t \in Tasks : Home(t) \in CPUs
    /\ NoFork \in ForkState /\ NoFork.child = 0
BY SizesAssumption DEF Tasks, Null, Home, CPUs, NoFork, ForkState

(* At the start no process runs.                                           *)
LEMMA InitInv == Init => IInv
<1> SUFFICES ASSUME Init PROVE IInv
  OBVIOUS
<1>1. Shape
  BY Constants DEF Init, Shape, Pool
<1>2. OnCpu /\ Children /\ HasTables /\ RunsOnOwnTables
  BY Constants DEF Init, OnCpu, Children, HasTables, RunsOnOwnTables
<1> QED BY <1>1, <1>2 DEF IInv

(* Steps that leave the state of tasks and CPUs alone.                     *)
LEMMA FrameInv ==
    ASSUME IInv, UNCHANGED <<state, pg_dir, fork, cur, ttbr0>>, Null \notin free'
    PROVE  IInv'
<1>1. Shape'
  BY DEF IInv, Shape
<1>2. OnCpu' /\ HasTables'
  BY DEF IInv, OnCpu, HasTables
<1>3. Children'
  BY DEF IInv, Children
<1>4. RunsOnOwnTables'
  BY DEF IInv, RunsOnOwnTables
<1> QED BY <1>1, <1>2, <1>3, <1>4 DEF IInv

(* add_single_map takes pages and gives none back.                         *)
LEMMA MapTakes ==
    ASSUME NEW t, NEW V, NEW to, NEW avail, Null \notin avail, add_single_map(t, V, to, avail)
    PROVE  Null \notin free'
BY DEF add_single_map

(* exit_mm gives back pages, never page 0.                                 *)
LEMMA ExitGives ==
    ASSUME NEW t, Null \notin free, exit_mm(t)
    PROVE  Null \notin free'
BY DEF exit_mm, Freed

(* schedule() writes TTBR0 for every task that has tables.                 *)
LEMMA SwitchInv ==
    ASSUME IInv, NEW c \in CPUs, Schedule(c)
    PROVE  IInv'
<1> USE Constants DEF IInv, Shape, Schedule, SwitchTo, Ready, space, cpu
<1>1. Shape'
  BY DEF Shape
<1>2. OnCpu'
  BY DEF OnCpu
<1>3. Children'
  BY DEF Children
<1>4. HasTables'
  BY DEF HasTables
<1>5. RunsOnOwnTables'
  <2> SUFFICES ASSUME NEW d \in CPUs, cur'[d] /= 0, state'[cur'[d]] = "user"
               PROVE  ttbr0'[d] = [asid |-> cur'[d], dir |-> pg_dir'[cur'[d]]]
    BY DEF RunsOnOwnTables
  <2>1. CASE d = c
    <3>1. cur'[c] \in Tasks /\ state[cur'[c]] = "user"
      BY <2>1
    <3>2. pg_dir[cur'[c]] /= Null
      BY <3>1 DEF HasTables
    <3>3. ttbr0' = [ttbr0 EXCEPT ![c] = [asid |-> cur'[c], dir |-> pg_dir[cur'[c]]]]
      BY <3>1, <3>2
    <3> QED BY <2>1, <3>3
  <2>2. CASE d /= c
    <3>1. cur'[d] = cur[d] /\ ttbr0'[d] = ttbr0[d]
      BY <2>2
    <3> QED BY <3>1 DEF RunsOnOwnTables
  <2> QED BY <2>1, <2>2
<1> QED BY <1>1, <1>2, <1>3, <1>4, <1>5 DEF IInv

(* The first process gets its tables and TTBR0.                            *)
LEMMA UserTestInv ==
    ASSUME IInv, NEW c \in CPUs, UserTest(c)
    PROVE  IInv'
<1> USE Constants DEF IInv, Shape, UserTest, First
<1>1. Shape'
  BY MapTakes DEF Shape
<1>2. OnCpu'
  BY DEF OnCpu
<1>3. Children'
  BY DEF Children, OnCpu
<1>4. HasTables'
  BY DEF HasTables
<1>5. RunsOnOwnTables'
  <2> SUFFICES ASSUME NEW d \in CPUs, cur'[d] /= 0, state'[cur'[d]] = "user"
               PROVE  ttbr0'[d] = [asid |-> cur'[d], dir |-> pg_dir'[cur'[d]]]
    BY DEF RunsOnOwnTables
  <2>1. CASE d = c
    BY <2>1
  <2>2. CASE d /= c
    <3>1. cur[d] /= 1 /\ ttbr0'[d] = ttbr0[d]
      BY <2>2 DEF OnCpu
    <3>2. cur' = cur /\ cur[d] \in Tasks /\ state[cur[d]] = "user" /\ pg_dir'[cur[d]] = pg_dir[cur[d]]
      BY <3>1
    <3>3. RunsOnOwnTables
      OBVIOUS
    <3> HIDE DEF IInv, Shape, UserTest
    <3> QED BY <3>1, <3>2, <3>3 DEF RunsOnOwnTables
  <2> QED BY <2>1, <2>2
<1> QED BY <1>1, <1>2, <1>3, <1>4, <1>5 DEF IInv

(* do_exit: the process leaves its CPU.                                    *)
LEMMA ExitInv ==
    ASSUME IInv, NEW c \in CPUs, do_exit(c)
    PROVE  IInv'
<1> USE Constants DEF IInv, Shape, do_exit, SwitchTo, Ready, InUser
<1>1. Shape'
  BY ExitGives DEF Shape
<1>2. OnCpu'
  BY DEF OnCpu
<1>3. Children'
  BY DEF Children, OnCpu
<1>4. HasTables'
  BY DEF HasTables
<1>5. RunsOnOwnTables'
  <2> SUFFICES ASSUME NEW d \in CPUs, cur'[d] /= 0, state'[cur'[d]] = "user"
               PROVE  ttbr0'[d] = [asid |-> cur'[d], dir |-> pg_dir'[cur'[d]]]
    BY DEF RunsOnOwnTables
  <2>1. CASE d = c
    <3>1. cur'[c] \in Tasks /\ state[cur'[c]] = "user"
      BY <2>1
    <3>2. pg_dir[cur'[c]] /= Null
      BY <3>1 DEF HasTables
    <3>3. ttbr0' = [ttbr0 EXCEPT ![c] = [asid |-> cur'[c], dir |-> pg_dir[cur'[c]]]]
      BY <3>1, <3>2
    <3> QED BY <2>1, <3>3
  <2>2. CASE d /= c
    <3>1. cur'[d] = cur[d] /\ ttbr0'[d] = ttbr0[d]
      BY <2>2
    <3>2. cur[d] \in Tasks /\ cur[d] /= cur[c] /\ pg_dir' = pg_dir
      BY <3>1, <2>2 DEF OnCpu
    <3>3. state[cur[d]] = "user"
      BY <3>1, <3>2
    <3> QED BY <3>1, <3>2, <3>3 DEF RunsOnOwnTables
  <2> QED BY <2>1, <2>2
<1> QED BY <1>1, <1>2, <1>3, <1>4, <1>5 DEF IInv

(* The stopped slots that are cleared are on no CPU.                       *)
LEMMA ForkFailsEarlyInv ==
    ASSUME IInv, NEW c \in CPUs, ForkFailsEarly(c)
    PROVE  IInv'
<1> USE Constants DEF IInv, Shape, ForkFailsEarly, Reclaimed, cpu
<1>1. Shape'
  BY DEF Shape
<1>2. OnCpu'
  BY DEF OnCpu
<1>3. Children'
  BY DEF Children, OnCpu
<1>4. HasTables'
  BY DEF HasTables
<1>5. RunsOnOwnTables'
  <2> SUFFICES ASSUME NEW d \in CPUs, cur'[d] /= 0, state'[cur'[d]] = "user"
               PROVE  ttbr0'[d] = [asid |-> cur'[d], dir |-> pg_dir'[cur'[d]]]
    BY DEF RunsOnOwnTables
  <2>1. cur'[d] = cur[d] /\ ttbr0' = ttbr0 /\ cur[d] \in Tasks /\ state[cur[d]] \in {"kernel", "user"}
    BY DEF OnCpu
  <2>2. state[cur[d]] = "user" /\ pg_dir'[cur[d]] = pg_dir[cur[d]]
    BY <2>1
  <2> QED BY <2>1, <2>2 DEF RunsOnOwnTables
<1> QED BY <1>1, <1>2, <1>3, <1>4, <1>5 DEF IInv

(* The new slot is on no CPU and nobody's child.                           *)
LEMMA ForkBeginsInv ==
    ASSUME IInv, NEW c \in CPUs, ForkBegins(c)
    PROVE  IInv'
<1> USE Constants DEF IInv, Shape, ForkBegins, FirstUnused, First, Reclaimed, InUser, cpu
<1>1. Shape'
  BY DEF Shape, ForkState
<1>2. OnCpu'
  BY DEF OnCpu
<1>3. Children'
  BY DEF Children, OnCpu
<1>4. HasTables'
  BY DEF HasTables
<1>5. RunsOnOwnTables'
  <2> SUFFICES ASSUME NEW d \in CPUs, cur'[d] /= 0, state'[cur'[d]] = "user"
               PROVE  ttbr0'[d] = [asid |-> cur'[d], dir |-> pg_dir'[cur'[d]]]
    BY DEF RunsOnOwnTables
  <2>1. cur[d] \in Tasks /\ state[cur[d]] \in {"kernel", "user"}
    BY DEF OnCpu
  <2>2. state[cur[d]] = "user" /\ pg_dir'[cur[d]] = pg_dir[cur[d]]
    BY <2>1
  <2> QED BY <2>1, <2>2 DEF RunsOnOwnTables
<1> QED BY <1>1, <1>2, <1>3, <1>4, <1>5 DEF IInv

(* The child's slot is given back.                                         *)
LEMMA ForkFailsInv ==
    ASSUME IInv, NEW c \in CPUs, ForkFails(c)
    PROVE  IInv'
<1> USE Constants DEF IInv, Shape, ForkFails, Forking, cpu
<1>1. Shape'
  BY ExitGives DEF Shape
<1>2. OnCpu'
  BY DEF OnCpu, Children
<1>3. Children'
  BY DEF Children, OnCpu
<1>4. HasTables'
  BY DEF HasTables, Children
<1>5. RunsOnOwnTables'
  <2> SUFFICES ASSUME NEW d \in CPUs, cur'[d] /= 0, state'[cur'[d]] = "user"
               PROVE  ttbr0'[d] = [asid |-> cur'[d], dir |-> pg_dir'[cur'[d]]]
    BY DEF RunsOnOwnTables
  <2>1. cur' = cur /\ ttbr0' = ttbr0 /\ cur[d] \in Tasks /\ state[cur[d]] \in {"kernel", "user"}
    BY DEF OnCpu
  <2>2. cur[d] /= fork[cur[c]].child
    BY <2>1 DEF Children
  <2>3. state[cur[d]] = "user" /\ pg_dir'[cur[d]] = pg_dir[cur[d]]
    BY <2>1, <2>2
  <2> QED BY <2>1, <2>3 DEF RunsOnOwnTables
<1> QED BY <1>1, <1>2, <1>3, <1>4, <1>5 DEF IInv

(* sys_fork goes on with the same child.                                   *)
LEMMA GoesOn ==
    ASSUME Shape, NEW t \in Tasks, ForkGoesOn(t)
    PROVE  /\ fork' \in [Tasks -> ForkState]
           /\ \A u \in Tasks : fork'[u].child = fork[u].child
           /\ \A u \in Tasks \ {t} : fork'[u] = fork[u]
<1>1. /\ fork[t].child \in Tasks \cup {0}
      /\ fork[t].vma \in Nat /\ fork[t].pb \in Nat
  BY DEF Shape, ForkState
<1> DEFINE more == ForkVma(t).lma = Null /\ fork[t].pb < Len(ForkVma(t).blocks)
           i == IF more THEN fork[t].vma ELSE fork[t].vma + 1
           j == IF more THEN fork[t].pb + 1 ELSE 0
<1>2. fork' = [fork EXCEPT ![t] = [child |-> fork[t].child, vma |-> i, pb |-> j]]
  BY DEF ForkGoesOn
<1>3. i \in Nat /\ j \in Nat
  BY <1>1
<1> HIDE DEF i, j
<1> QED BY <1>1, <1>2, <1>3 DEF Shape, ForkState

(* The areas and blocks of the child.                                      *)
LEMMA ForkLoopInv ==
    ASSUME IInv, NEW c \in CPUs, ForkArea(c) \/ ForkBlock(c)
    PROVE  IInv'
<1>1. /\ Forking(c) /\ ForkGoesOn(cur[c])
      /\ UNCHANGED <<state, pg_dir, cur, ttbr0>>
      /\ free' \subseteq free
  BY DEF ForkArea, ForkBlock, cpu
<1>2. cur[c] \in Tasks /\ fork[cur[c]] /= NoFork
  BY <1>1 DEF Forking, IInv, Shape
<1>3. /\ fork' \in [Tasks -> ForkState]
      /\ \A u \in Tasks : fork'[u].child = fork[u].child
      /\ \A u \in Tasks \ {cur[c]} : fork'[u] = fork[u]
  BY <1>1, <1>2, GoesOn DEF IInv
<1>4. Shape'
  BY <1>1, <1>3 DEF IInv, Shape
<1>5. OnCpu'
  BY <1>1, <1>2, <1>3 DEF IInv, OnCpu
<1>6. Children'
  BY <1>1, <1>2, <1>3, Constants DEF IInv, Children
<1>7. HasTables' /\ RunsOnOwnTables'
  BY <1>1 DEF IInv, HasTables, RunsOnOwnTables
<1> QED BY <1>4, <1>5, <1>6, <1>7 DEF IInv

(* The child starts to run, or the CPU stops for want of a table.          *)
LEMMA ForkEndsInv ==
    ASSUME IInv, NEW c \in CPUs, ForkEnds(c)
    PROVE  IInv'
<1> USE Constants DEF IInv, Shape, Forking
<1>0. Null \notin free'
  BY MapTakes DEF ForkEnds, NoTable
<1>1. CASE UNCHANGED <<state, pg_dir, fork, cur, ttbr0>>
  BY <1>0, <1>1, FrameInv
<1>2. CASE /\ Forking(c)
           /\ state' = [state EXCEPT ![fork[cur[c]].child] = "user"]
           /\ fork' = [fork EXCEPT ![cur[c]] = NoFork]
           /\ UNCHANGED <<pg_dir, cur, ttbr0>>
  <2>1. Shape'
    BY <1>0, <1>2
  <2>2. OnCpu'
    BY <1>2 DEF OnCpu, Children
  <2>3. Children'
    BY <1>2 DEF Children
  <2>4. HasTables'
    BY <1>2 DEF HasTables, Children
  <2>5. RunsOnOwnTables'
    <3> SUFFICES ASSUME NEW d \in CPUs, cur[d] /= 0, state'[cur[d]] = "user"
                 PROVE  ttbr0[d] = [asid |-> cur[d], dir |-> pg_dir[cur[d]]]
      BY <1>2 DEF RunsOnOwnTables
    <3>1. state[cur[d]] = "user"
      BY <1>2 DEF OnCpu, Children
    <3> QED BY <3>1 DEF RunsOnOwnTables
  <2> QED BY <2>1, <2>2, <2>3, <2>4, <2>5
<1> QED BY <1>1, <1>2 DEF ForkEnds, NoTable

(* Accesses, page faults and brk.                                          *)
LEMMA AccessInv ==
    ASSUME IInv, NEW c \in CPUs,
           \/ \E v \in VPages : Touch(c, v)
           \/ \E a \in Areas : \E off \in Offsets(a) : PageFault(c, a, off)
           \/ BrkQuery(c)
           \/ \E b \in 0..MaxBrk : BrkGrows(c, b) \/ BrkShrinks(c, b) \/ BrkPanics(c, b)
    PROVE  IInv'
<1>1. Null \notin free
  BY DEF IInv, Shape
<1>2. ASSUME NEW v, Touch(c, v) PROVE IInv'
  BY <1>1, <1>2, FrameInv DEF Touch, space, cpu
<1>3. ASSUME NEW a, NEW off, PageFault(c, a, off) PROVE IInv'
  <2>1. Null \notin free'
    BY <1>1, <1>3, MapTakes DEF PageFault, NoTable
  <2> QED BY <1>3, <2>1, FrameInv DEF PageFault
<1>4. CASE BrkQuery(c)
  BY <1>1, <1>4, FrameInv DEF BrkQuery, cpu
<1>5. ASSUME NEW b, BrkGrows(c, b) \/ BrkPanics(c, b) PROVE IInv'
  BY <1>1, <1>5, FrameInv DEF BrkGrows, BrkPanics, cpu, space
<1>6. ASSUME NEW b, BrkShrinks(c, b) PROVE IInv'
  BY <1>1, <1>6, FrameInv DEF BrkShrinks, Unmapped, cpu
<1> QED BY <1>2, <1>3, <1>4, <1>5, <1>6

(* Every action keeps the invariant.                                       *)
LEMMA NextInv == IInv /\ [Next]_vars => IInv'
<1> SUFFICES ASSUME IInv, [Next]_vars PROVE IInv'
  OBVIOUS
<1>1. CASE UNCHANGED vars
  BY <1>1, FrameInv DEF vars, cpu, space, IInv, Shape
<1> QED BY <1>1, SwitchInv, UserTestInv, ExitInv, ForkFailsEarlyInv, ForkBeginsInv, ForkLoopInv,
           ForkFailsInv, ForkEndsInv, AccessInv DEF Next

(* A process never runs on the tables of another one, nor on freed ones,   *)
(* though schedule() leaves TTBR0 alone when a thread without tables comes *)
(* in and do_exit frees the tables that TTBR0 points to.                   *)
THEOREM AddressSpaceRunsOnOwnTables == Spec => []RunsOnOwnTables
<1>1. IInv => RunsOnOwnTables
  BY DEF IInv
<1> QED BY <1>1, InitInv, NextInv, PTL DEF Spec

-----------------------------------------------------------------------------
(* A translation is on the CPU of its process.  It says nothing about a    *)
(* process (Null), or is what the tables of a running process say, or      *)
(* belongs to a stopped one.                                               *)
Good(c, e) ==
    /\ e = [asid |-> e.asid, v |-> e.v, page |-> e.page]
    /\ e.asid \in Tasks /\ e.v \in VPages /\ Home(e.asid) = c
    /\ \/ e.page = Null
       \/ state[e.asid] = "user" /\ pte[e.asid][e.v] = e.page
       \/ state[e.asid] = "stopped"

TlbInv ==
    /\ tlb = [c \in CPUs |-> tlb[c]]
    /\ pte = [t \in Tasks |-> pte[t]]
    /\ \A c \in CPUs : \A e \in tlb[c] : Good(c, e)

(* Steps that do not change what a remembered translation depends on.      *)
LEMMA TlbFrame ==
    ASSUME TlbInv, UNCHANGED tlb, pte' = [t \in Tasks |-> pte'[t]],
           \A t \in Tasks : \/ state[t] \notin {"user", "stopped"}
                            \/ state'[t] = "stopped"
                            \/ /\ state[t] = "user" /\ state'[t] = "user"
                               /\ \A v \in VPages : pte[t][v] /= Null => pte'[t][v] = pte[t][v]
    PROVE  TlbInv'
<1> SUFFICES ASSUME NEW c \in CPUs, NEW e \in tlb[c] PROVE Good(c, e)'
  BY DEF TlbInv
<1>1. Good(c, e)
  BY DEF TlbInv
<1> QED BY <1>1 DEF Good

(* add_single_map overwrites no entry.                                     *)
LEMMA MapKeeps ==
    ASSUME pte = [t \in Tasks |-> pte[t]], NEW t \in Tasks, NEW V, NEW to, NEW avail,
           add_single_map(t, V, to, avail)
    PROVE  /\ pte' = [u \in Tasks |-> pte'[u]]
           /\ \A u \in Tasks \ {t} : pte'[u] = pte[u]
           /\ \A v \in VPages : pte[t][v] /= Null => pte'[t][v] = pte[t][v]
BY DEF add_single_map

(* The slots that fork clears: their translations are forgotten, or marked *)
(* where this CPU cannot reach them.                                       *)
LEMMA TlbReclaim ==
    ASSUME TlbInv, NEW c \in CPUs, NEW n, invalidate_tlb_by_asid(c, Reclaimed(n)), UNCHANGED pte,
           \A t \in Tasks : t \notin Reclaimed(n) =>
                state'[t] = state[t] \/ state[t] \notin {"user", "stopped"}
    PROVE  TlbInv'
<1>1. tlb' = [d \in CPUs |-> tlb'[d]]
  BY DEF invalidate_tlb_by_asid
<1>2. ASSUME NEW d \in CPUs, NEW e \in tlb'[d] PROVE Good(d, e)'
  <2>1. CASE d = c
    <3>1. e \in tlb[c] /\ e.asid \notin Reclaimed(n)
      BY <2>1, <1>2 DEF invalidate_tlb_by_asid
    <3> QED BY <2>1, <3>1 DEF TlbInv, Good
  <2>2. CASE d /= c
    <3>1. PICK f \in tlb[d] : e = [f EXCEPT !.page = IF f.asid \in Reclaimed(n) THEN Null ELSE @]
      BY <2>2, <1>2 DEF invalidate_tlb_by_asid
    <3>2. Good(d, f)
      BY DEF TlbInv
    <3>3. e = [asid |-> f.asid, v |-> f.v,
               page |-> IF f.asid \in Reclaimed(n) THEN Null ELSE f.page]
      BY <3>1, <3>2 DEF Good
    <3> QED BY <3>2, <3>3 DEF Good
  <2> QED BY <2>1, <2>2
<1> QED BY <1>1, <1>2 DEF TlbInv

(* A new translation is that of the tables that TTBR0 points to.           *)
LEMMA TlbTouch ==
    ASSUME IInv, TlbInv, NEW c \in CPUs, NEW v \in VPages, Touch(c, v)
    PROVE  TlbInv'
<1>1. /\ cur[c] \in Tasks /\ state[cur[c]] = "user" /\ Home(cur[c]) = c
      /\ ttbr0[c].asid = cur[c]
  BY DEF IInv, Shape, OnCpu, RunsOnOwnTables, Touch, InUser
<1>2. \A d \in CPUs : \A e \in tlb'[d] :
        e \in tlb[d] \/ (d = c /\ e = [asid |-> cur[c], v |-> v, page |-> pte[cur[c]][v]])
  BY <1>1 DEF Touch, TlbInv
<1>3. UNCHANGED <<state, pte>> /\ tlb' = [d \in CPUs |-> tlb'[d]]
  BY DEF Touch, space, TlbInv
<1> QED BY <1>1, <1>2, <1>3 DEF TlbInv, Good

(* brk forgets the translations of the pages that it unmaps: there are     *)
(* none of them on another CPU.                                            *)
LEMMA TlbShrinks ==
    ASSUME IInv, TlbInv, NEW c \in CPUs, NEW b, BrkShrinks(c, b)
    PROVE  TlbInv'
<1> DEFINE t == cur[c]
           gone == Beyond(t, b)
<1>1. t \in Tasks /\ Home(t) = c
  BY DEF IInv, Shape, OnCpu, BrkShrinks, InUser
<1>2. /\ pte' = [pte EXCEPT ![t] = [v \in VPages |-> IF v \in gone THEN Null ELSE pte[t][v]]]
      /\ tlb' = [tlb EXCEPT ![c] = {e \in tlb[c] : ~(e.asid = t /\ e.v \in gone)}]
      /\ UNCHANGED state
  BY DEF BrkShrinks, invalidate_tlb_by_va
<1> HIDE DEF gone
<1>3. tlb' = [d \in CPUs |-> tlb'[d]] /\ pte' = [u \in Tasks |-> pte'[u]]
  BY <1>2 DEF TlbInv
<1>4. ASSUME NEW d \in CPUs, NEW e \in tlb'[d] PROVE Good(d, e)'
  <2>1. e \in tlb[d] /\ Good(d, e) /\ ~(e.asid = t /\ e.v \in gone)
    BY <1>1, <1>2, <1>4 DEF TlbInv, Good
  <2>2. pte'[e.asid][e.v] = pte[e.asid][e.v]
    BY <1>1, <1>2, <2>1 DEF TlbInv, Good
  <2> QED BY <1>2, <2>1, <2>2 DEF Good
<1> QED BY <1>3, <1>4 DEF TlbInv

(* Every action keeps the TLBs right.                                      *)
LEMMA NextTlb == IInv /\ TlbInv /\ [Next]_vars => TlbInv'
<1> SUFFICES ASSUME IInv, TlbInv, [Next]_vars PROVE TlbInv'
  OBVIOUS
<1>0. /\ pte = [t \in Tasks |-> pte[t]] /\ state = [t \in Tasks |-> state[t]]
      /\ \A t \in Tasks : state[t] \in {"unused", "kernel", "building", "user", "stopped"}
      /\ \A c \in CPUs : cur[c] /= 0 => cur[c] \in Tasks
  BY DEF IInv, Shape, TlbInv
<1>1. ASSUME UNCHANGED <<state, pte, tlb>> PROVE TlbInv'
  BY <1>0, <1>1, TlbFrame
<1>2. ASSUME NEW c \in CPUs, UserTest(c) PROVE TlbInv'
  <2>1. 1 \in Tasks /\ state[1] = "kernel" /\ UNCHANGED tlb
    BY <1>0, <1>2, Constants DEF UserTest
  <2>2. \A t \in Tasks \ {1} : state'[t] = state[t]
    BY <1>0, <1>2 DEF UserTest
  <2>3. pte' = [u \in Tasks |-> pte'[u]] /\ \A t \in Tasks \ {1} : pte'[t] = pte[t]
    BY <1>0, <1>2, <2>1, MapKeeps DEF UserTest
  <2> QED BY <1>0, <2>1, <2>2, <2>3, TlbFrame
<1>3. ASSUME NEW c \in CPUs, do_exit(c) PROVE TlbInv'
  <2>1. /\ cur[c] \in Tasks /\ UNCHANGED tlb
        /\ state' = [state EXCEPT ![cur[c]] = "stopped"]
        /\ pte' = [pte EXCEPT ![cur[c]] = NoEntries]
    BY <1>0, <1>3 DEF do_exit, exit_mm, InUser
  <2> QED BY <1>0, <2>1, TlbFrame
<1>4. ASSUME NEW c \in CPUs, NEW a, NEW off, PageFault(c, a, off) PROVE TlbInv'
  <2>1. UNCHANGED <<state, tlb>> /\ cur[c] \in Tasks
    BY <1>0, <1>4 DEF PageFault, InUser
  <2>2. /\ pte' = [u \in Tasks |-> pte'[u]]
        /\ \A t \in Tasks : \A v \in VPages : pte[t][v] /= Null => pte'[t][v] = pte[t][v]
    BY <1>0, <1>4, <2>1, MapKeeps DEF PageFault, NoTable
  <2> QED BY <1>0, <2>1, <2>2, TlbFrame
<1>5. ASSUME NEW c \in CPUs, ForkFailsEarly(c) PROVE TlbInv'
  <2>1. PICK n : /\ invalidate_tlb_by_asid(c, Reclaimed(n))
                 /\ state' = [t \in Tasks |-> IF t \in Reclaimed(n) THEN "unused" ELSE state[t]]
    BY <1>5 DEF ForkFailsEarly
  <2> QED BY <1>5, <2>1, TlbReclaim DEF ForkFailsEarly
<1>6. ASSUME NEW c \in CPUs, ForkBegins(c) PROVE TlbInv'
  <2>1. PICK n \in Tasks :
            /\ state[n] = "unused" /\ invalidate_tlb_by_asid(c, Reclaimed(n))
            /\ state' = [t \in Tasks |-> IF t = n THEN "building"
                                         ELSE IF t \in Reclaimed(n) THEN "unused" ELSE state[t]]
    BY <1>6 DEF ForkBegins, FirstUnused
  <2> QED BY <1>6, <2>1, TlbReclaim DEF ForkBegins
<1>7. ASSUME NEW c \in CPUs, Forking(c)
      PROVE  fork[cur[c]].child \in Tasks /\ state[fork[cur[c]].child] = "building"
  BY <1>0, <1>7 DEF Forking, IInv, Children
<1>8. ASSUME NEW c \in CPUs, ForkFails(c) PROVE TlbInv'
  <2>1. /\ Forking(c) /\ UNCHANGED tlb
        /\ state' = [state EXCEPT ![fork[cur[c]].child] = "unused"]
        /\ pte' = [pte EXCEPT ![fork[cur[c]].child] = NoEntries]
    BY <1>8 DEF ForkFails, exit_mm
  <2> QED BY <1>0, <1>7, <2>1, TlbFrame
<1>9. ASSUME NEW c \in CPUs, ForkEnds(c) PROVE TlbInv'
  <2>1. Forking(c) /\ UNCHANGED tlb
    BY <1>9 DEF ForkEnds
  <2>2. state' = state \/ state' = [state EXCEPT ![fork[cur[c]].child] = "user"]
    BY <1>9 DEF ForkEnds
  <2>3. /\ pte' = [u \in Tasks |-> pte'[u]]
        /\ \A t \in Tasks \ {fork[cur[c]].child} : pte'[t] = pte[t]
    BY <1>0, <1>7, <1>9, <2>1, MapKeeps DEF ForkEnds, NoTable
  <2> QED BY <1>0, <1>7, <2>1, <2>2, <2>3, TlbFrame
<1> QED BY <1>1, <1>2, <1>3, <1>4, <1>5, <1>6, <1>8, <1>9, TlbTouch, TlbShrinks
           DEF Next, vars, space, cpu, Schedule, ForkArea, ForkBlock, BrkQuery, BrkGrows, BrkPanics

(* What a CPU remembers for a running process is what its tables say, or   *)
(* is left over from an earlier process with the same pid whose slot       *)
(* get_task_slot cleared on another CPU: brk's invalidation by address,    *)
(* which reaches one CPU only, is enough.                                  *)
THEOREM AddressSpaceStaleForAReason == Spec => []StaleForAReason
<1>1. Init => TlbInv
  BY DEF Init, TlbInv
<1>2. TlbInv => StaleForAReason
  BY DEF TlbInv, Good, StaleForAReason
<1> QED BY <1>1, <1>2, InitInv, NextInv, NextTlb, PTL DEF Spec

-----------------------------------------------------------------------------
(***************************************************************************)
(* What the pages are used for.  The invariant has a part for every list   *)
(* of areas, one for every address space, and one that keeps the address   *)
(* spaces and the free pages apart: every action changes one address space *)
(* only, and moves pages between it and the free ones.                     *)
(***************************************************************************)

(* The blocks on a list of areas, and their pages.                         *)
BlocksIn(list) ==
    UNION {{list[k].blocks[j] : j \in 1..Len(list[k].blocks)} : k \in 1..Len(list)}

PagesIn(list) == {b.page : b \in BlocksIn(list)}

(* The place of an area, and its blocks, which lie inside of it.           *)
AreaOK(vma) ==
    /\ vma.area = "text" => vma.lma = Lma("text") /\ vma.end = PageSize
    /\ vma.area = "data" => vma.lma \in Pool \cup {Lma("data")} /\ vma.end = PageSize
    /\ vma.area = "heap" => vma.lma = Null
    /\ \A j \in 1..Len(vma.blocks) :
         /\ vma.blocks[j].v[1] = vma.area
         /\ vma.area = "heap" => vma.blocks[j].v[2] < Upper(vma.end)

(* A page is in one block.                                                 *)
Distinct(list) ==
    \A k, l \in 1..Len(list) : \A j \in 1..Len(list[k].blocks), i \in 1..Len(list[l].blocks) :
        list[k].blocks[j].page = list[l].blocks[i].page => k = l /\ j = i

(* The page that fork has made for an area is in a block, so that it is    *)
(* freed.                                                                  *)
Recorded(list) ==
    \A k \in 1..Len(list) : list[k].lma \in Pool =>
        [v |-> <<list[k].area, 0>>, page |-> list[k].lma] \in BlocksIn(list)

(* Of the areas that brk has made for the heap, all but one are empty.     *)
OneHeap(list) ==
    \A k, l \in 1..Len(list) :
        list[k].area = "heap" /\ list[l].area = "heap" /\ list[k].end > 0 /\ list[l].end > 0 => k = l

(* A list of areas that is in order, but for a page not yet recorded.      *)
AreasOK(list) ==
    /\ list \in Seq(Vma)
    /\ \A k \in 1..Len(list) : AreaOK(list[k])
    /\ Distinct(list) /\ OneHeap(list)

ListOK(list) == AreasOK(list) /\ Recorded(list)

(* The pages of an address space: its tables, its blocks, and what its     *)
(* entries lead to.                                                        *)
Used(dir, tabs, ents, list) ==
    {dir} \cup ({tabs[x] : x \in Tables} \ {Null}) \cup PagesIn(list)
      \cup ({ents[v] : v \in VPages} \cap Pool)

(* The tables and the blocks are different pages.  An entry leads to no    *)
(* table, and if it leads to a block then to that of its page.             *)
Orderly(dir, tabs, ents, list) ==
    /\ dir \in Pool \ PagesIn(list)
    /\ \A x \in Tables : tabs[x] \notin {dir} \cup PagesIn(list)
    /\ \A x, y \in Tables : tabs[x] /= Null /\ tabs[x] = tabs[y] => x = y
    /\ \A v \in HeapPages : ents[v] \in Pool \cup {Null}
    /\ \A v \in VPages : ents[v] \in Pool =>
         /\ ents[v] /= dir
         /\ \A x \in Tables : ents[v] /= tabs[x]
         /\ \A w \in VPages : ents[w] = ents[v] => w = v
         /\ \A b \in BlocksIn(list) : b.page = ents[v] => b.v = v

(* A heap that is not empty ends at brk, and nothing is mapped beyond.     *)
HeapEnds(b, ents, list) ==
    /\ \A k \in 1..Len(list) : list[k].area = "heap" => list[k].end \in {0, b}
    /\ \A v \in HeapPages : v[2] >= Upper(b) => ents[v] = Null

(* The areas that sys_fork has set up when it is at a place in the list of *)
(* the parent: copies of those of the parent, in the opposite order.       *)
Copied(at) == IF at.pb = 0 THEN at.vma - 1 ELSE at.vma

CopyOf(at, list, orig) ==
    /\ at.vma \in Nat \ {0} /\ at.pb \in Nat
    /\ Len(list) = Copied(at) /\ Copied(at) <= Len(orig)
    /\ \A k \in 1..Len(list) : /\ list[k].area = orig[Len(list) + 1 - k].area
                                /\ list[k].end = orig[Len(list) + 1 - k].end
    /\ at.pb > 0 => orig[at.vma].lma = Null /\ at.pb <= Len(orig[at.vma].blocks)

(* The pages of a task.                                                    *)
Own(t) == Used(pg_dir[t], tables[t], pte[t], mmap[t])

(* The address spaces and the free pages have no page in common.           *)
Apart ==
    /\ \A t \in Live : Own(t) \subseteq Pool \ free
    /\ \A t, u \in Live : t /= u => Own(t) \cap Own(u) = {}

(* Every page is accounted for.                                            *)
Known == \A p \in Pool : p \in free \cup lost \/ \E t \in Live : p \in Own(t)

(* Types; those of the lists are part of AreasOK.                          *)
SpaceTypes ==
    /\ free \subseteq Pool
    /\ pg_dir \in [Tasks -> Pool \cup {Null}]
    /\ tables \in [Tasks -> [Tables -> Pool \cup {Null}]]
    /\ pte \in [Tasks -> [VPages -> Frames \cup {Null}]]
    /\ mmap = [t \in Tasks |-> mmap[t]]
    /\ brk \in [Tasks -> 0..MaxBrk]

(* What holds of one task, depending on its state.                         *)
SpaceOK(t) ==
    /\ ListOK(mmap[t])
    /\ state[t] \notin {"building", "user"} => mmap[t] = <<>>
    /\ state[t] /= "user" => tables[t] = NoTables /\ pte[t] = NoEntries
    /\ state[t] \in {"building", "user"} => Orderly(pg_dir[t], tables[t], pte[t], mmap[t])
    /\ state[t] = "user" => HeapEnds(brk[t], pte[t], mmap[t])

(* The inductive invariant.                                                *)
SpaceInv ==
    /\ SpaceTypes
    /\ \A t \in Tasks : SpaceOK(t)
    /\ \A t \in Tasks : fork[t] /= NoFork => CopyOf(fork[t], mmap[fork[t].child], mmap[t])
    /\ Apart /\ Known

-----------------------------------------------------------------------------
(* Lists of areas.                                                         *)

(* A set of numbers has a least element: induction without an operator     *)
(* parameter.                                                              *)
LEMMA LeastNat ==
    ASSUME NEW S \in SUBSET Nat, S /= {}
    PROVE  \E x \in S : \A y \in S : x <= y
<1> DEFINE Less == {ss \in Nat \X Nat : ss[1] < ss[2]}
<1>1. IsWellFoundedOn(Less, Nat)
  BY NatLessThanWellFounded DEF OpToRel
<1>2. PICK x \in S : \A y \in S : <<y, x>> \notin Less
  BY <1>1, WFMin
<1>3. \A y \in S : ~(y < x)
  BY <1>2
<1> QED BY <1>3

(* An area and its blocks are what their types say.                        *)
LEMMA VmaType ==
    ASSUME NEW list \in Seq(Vma), NEW k \in 1..Len(list)
    PROVE  /\ list[k] \in Vma
           /\ list[k] = [area |-> list[k].area, end |-> list[k].end, lma |-> list[k].lma,
                         blocks |-> list[k].blocks]
           /\ list[k].blocks \in Seq(Block) /\ Len(list[k].blocks) \in Nat
           /\ \A j \in 1..Len(list[k].blocks) :
                /\ list[k].blocks[j] \in Block
                /\ list[k].blocks[j].page \in Pool /\ list[k].blocks[j].v \in VPages
<1>1. list[k] \in Vma
  OBVIOUS
<1>2. list[k].blocks \in Seq(Block)
  BY <1>1 DEF Vma
<1>3. list[k] =
        [area |-> list[k].area, end |-> list[k].end, lma |-> list[k].lma, blocks |-> list[k].blocks]
  BY <1>1 DEF Vma
<1>4. ASSUME NEW j \in 1..Len(list[k].blocks)
      PROVE  list[k].blocks[j] \in Block
  BY <1>2
<1>5. \A b \in Block : b.page \in Pool /\ b.v \in VPages
  BY DEF Block
<1>6. Len(list[k].blocks) \in Nat
  BY <1>2
<1> QED BY <1>1, <1>2, <1>3, <1>4, <1>5, <1>6

(* The two ways in which an area is changed.                               *)
SetBlocks(list, k, bs) == [list EXCEPT ![k].blocks = bs]

SetEnd(list, k, b) == [list EXCEPT ![k].end = b]

(* Only the blocks of one area change.                                     *)
LEMMA SetBlocksIs ==
    ASSUME NEW list \in Seq(Vma), NEW k \in 1..Len(list), NEW bs \in Seq(Block)
    PROVE  /\ SetBlocks(list, k, bs) \in Seq(Vma) /\ Len(SetBlocks(list, k, bs)) = Len(list)
           /\ SetBlocks(list, k, bs)[k] =
                [area |-> list[k].area, end |-> list[k].end, lma |-> list[k].lma, blocks |-> bs]
           /\ \A l \in 1..Len(list) : l /= k => SetBlocks(list, k, bs)[l] = list[l]
<1> DEFINE w == [area |-> list[k].area, end |-> list[k].end, lma |-> list[k].lma, blocks |-> bs]
<1>1. list[k] =
        [area |-> list[k].area, end |-> list[k].end, lma |-> list[k].lma, blocks |-> list[k].blocks]
  BY VmaType
<1>2. [list[k] EXCEPT !.blocks = bs] = w
  BY <1>1
<1>3. SetBlocks(list, k, bs) = [list EXCEPT ![k] = w]
  BY <1>2 DEF SetBlocks
<1>4. w \in Vma
  BY VmaType DEF Vma
<1> HIDE DEF w
<1>5. /\ [list EXCEPT ![k] = w] \in Seq(Vma)
      /\ Len([list EXCEPT ![k] = w]) = Len(list)
      /\ [list EXCEPT ![k] = w][k] = w
      /\ \A l \in 1..Len(list) : l /= k => [list EXCEPT ![k] = w][l] = list[l]
  BY <1>4
<1>6. /\ SetBlocks(list, k, bs) \in Seq(Vma) /\ Len(SetBlocks(list, k, bs)) = Len(list)
      /\ SetBlocks(list, k, bs)[k] = w
      /\ \A l \in 1..Len(list) : l /= k => SetBlocks(list, k, bs)[l] = list[l]
  BY <1>3, <1>5
<1> QED BY <1>6 DEF w

(* Only the end of one area changes.                                       *)
LEMMA SetEndIs ==
    ASSUME NEW list \in Seq(Vma), NEW k \in 1..Len(list), NEW b \in 0..MaxBrk
    PROVE  /\ SetEnd(list, k, b) \in Seq(Vma) /\ Len(SetEnd(list, k, b)) = Len(list)
           /\ SetEnd(list, k, b)[k] =
                [area |-> list[k].area, end |-> b, lma |-> list[k].lma, blocks |-> list[k].blocks]
           /\ \A l \in 1..Len(list) : l /= k => SetEnd(list, k, b)[l] = list[l]
<1> DEFINE w == [area |-> list[k].area, end |-> b, lma |-> list[k].lma, blocks |-> list[k].blocks]
<1>1. list[k] =
        [area |-> list[k].area, end |-> list[k].end, lma |-> list[k].lma, blocks |-> list[k].blocks]
  BY VmaType
<1>2. [list[k] EXCEPT !.end = b] = w
  BY <1>1
<1>3. SetEnd(list, k, b) = [list EXCEPT ![k] = w]
  BY <1>2 DEF SetEnd
<1>4. w \in Vma
  BY VmaType DEF Vma
<1> HIDE DEF w
<1>5. /\ [list EXCEPT ![k] = w] \in Seq(Vma)
      /\ Len([list EXCEPT ![k] = w]) = Len(list)
      /\ [list EXCEPT ![k] = w][k] = w
      /\ \A l \in 1..Len(list) : l /= k => [list EXCEPT ![k] = w][l] = list[l]
  BY <1>4
<1>6. /\ SetEnd(list, k, b) \in Seq(Vma) /\ Len(SetEnd(list, k, b)) = Len(list)
      /\ SetEnd(list, k, b)[k] = w
      /\ \A l \in 1..Len(list) : l /= k => SetEnd(list, k, b)[l] = list[l]
  BY <1>3, <1>5
<1> QED BY <1>6 DEF w

(* setup_vma puts the area before the others and moves them up by one.     *)
LEMMA Prepended ==
    ASSUME NEW list \in Seq(Vma), NEW w \in Vma
    PROVE  /\ setup_vma(list, w) \in Seq(Vma)
           /\ Len(setup_vma(list, w)) = Len(list) + 1
           /\ setup_vma(list, w)[1] = w
           /\ \A k \in 1..Len(list) : setup_vma(list, w)[k + 1] = list[k]
           /\ \A k \in 2..Len(list) + 1 : k - 1 \in 1..Len(list) /\ setup_vma(list, w)[k] = list[k - 1]
BY DEF setup_vma

(* find_vma returns the first area around the address, if it returns one.  *)
LEMMA FoundVma ==
    ASSUME NEW list \in Seq(Vma), NEW a, NEW off, find_vma(list, a, off) /= 0
    PROVE  /\ find_vma(list, a, off) \in 1..Len(list)
           /\ list[find_vma(list, a, off)].area = a
           /\ off < list[find_vma(list, a, off)].end
           /\ \A j \in 1..Len(list) : list[j].area = a /\ off < list[j].end => find_vma(list, a, off) <= j
<1> DEFINE Found == {k \in 1..Len(list) : list[k].area = a /\ off < list[k].end}
<1>1. Found /= {}
  BY DEF find_vma
<1>2. find_vma(list, a, off) = CHOOSE k \in Found : \A j \in Found : k <= j
  BY <1>1 DEF find_vma
<1>3. \E k \in Found : \A j \in Found : k <= j
  <2>1. Found \in SUBSET Nat
    OBVIOUS
  <2> HIDE DEF Found
  <2> QED BY <1>1, <2>1, LeastNat
<1> DEFINE k == find_vma(list, a, off)
<1>4. k \in Found /\ \A j \in Found : k <= j
  BY <1>2, <1>3, Zenon
<1> HIDE DEF k
<1> QED BY <1>4 DEF k

(* The blocks of a list, one by one.                                       *)
LEMMA InBlocks ==
    ASSUME NEW list, NEW b
    PROVE  b \in BlocksIn(list) <=>
             \E k \in 1..Len(list) : \E j \in 1..Len(list[k].blocks) : list[k].blocks[j] = b
BY DEF BlocksIn

(* Blocks and their pages have their types.                                *)
LEMMA BlockTypes ==
    ASSUME NEW list \in Seq(Vma)
    PROVE  BlocksIn(list) \subseteq Block /\ PagesIn(list) \subseteq Pool
<1>1. ASSUME NEW b \in BlocksIn(list) PROVE b \in Block
  <2>1. PICK k \in 1..Len(list) : \E j \in 1..Len(list[k].blocks) : list[k].blocks[j] = b
    BY InBlocks
  <2> QED BY <2>1, VmaType
<1>2. \A b \in Block : b.page \in Pool
  BY DEF Block
<1> QED BY <1>1, <1>2 DEF PagesIn

(* Two places in a list with the same page are the same place.             *)
SamePlace(k, j, l, i) == k = l /\ j = i

(* Blocks with the same page are at the same place.                        *)
LEMMA OneBlock ==
    ASSUME NEW list, Distinct(list), NEW k \in 1..Len(list), NEW l \in 1..Len(list),
           NEW j \in 1..Len(list[k].blocks), NEW i \in 1..Len(list[l].blocks),
           list[k].blocks[j].page = list[l].blocks[i].page
    PROVE  SamePlace(k, j, l, i)
BY DEF Distinct, SamePlace

(* setup_vma with an area that has no blocks yet keeps the list in order,  *)
(* provided that a heap which is not empty is the only one.                *)
LEMMA SetupOK ==
    ASSUME NEW list, AreasOK(list), NEW w \in Vma, AreaOK(w), w.blocks = <<>>,
           w.area = "heap" /\ w.end > 0 =>
             \A k \in 1..Len(list) : ~(list[k].area = "heap" /\ list[k].end > 0)
    PROVE  /\ AreasOK(setup_vma(list, w))
           /\ BlocksIn(setup_vma(list, w)) = BlocksIn(list)
           /\ Recorded(list) /\ w.lma \notin Pool => Recorded(setup_vma(list, w))
<1> DEFINE new == setup_vma(list, w)
<1>0. list \in Seq(Vma) /\ Len(list) \in Nat
  BY DEF AreasOK
<1>01. /\ new \in Seq(Vma) /\ Len(new) = Len(list) + 1 /\ new[1] = w
       /\ \A k \in 1..Len(list) : new[k + 1] = list[k]
       /\ \A k \in 2..Len(list) + 1 : k - 1 \in 1..Len(list) /\ new[k] = list[k - 1]
  BY <1>0, Prepended
<1> HIDE DEF new
<1>1. /\ new \in Seq(Vma) /\ Len(new) = Len(list) + 1 /\ new[1] = w
      /\ \A k \in 1..Len(list) : k + 1 \in 1..Len(new) /\ new[k + 1] = list[k]
      /\ \A k \in 2..Len(new) : k - 1 \in 1..Len(list) /\ new[k] = list[k - 1]
  BY <1>0, <1>01
<1>2. \A k \in 1..Len(new) : k = 1 \/ k \in 2..Len(new)
  BY <1>0, <1>1
<1>3. Len(new[1].blocks) = 0
  BY <1>1
<1>4. \A k \in 1..Len(new) : AreaOK(new[k])
  BY <1>1, <1>2 DEF AreasOK
<1>5. Distinct(new)
  <2> SUFFICES ASSUME NEW k \in 1..Len(new), NEW l \in 1..Len(new),
                      NEW j \in 1..Len(new[k].blocks), NEW i \in 1..Len(new[l].blocks),
                      new[k].blocks[j].page = new[l].blocks[i].page
               PROVE  k = l /\ j = i
    BY DEF Distinct
  <2>1. k \in 2..Len(new) /\ l \in 2..Len(new)
    BY <1>2, <1>3
  <2>2. PICK m \in 1..Len(list) : k = m + 1 /\ new[k] = list[m]
    BY <1>1, <2>1
  <2>3. PICK n \in 1..Len(list) : l = n + 1 /\ new[l] = list[n]
    BY <1>1, <2>1
  <2>4. /\ j \in 1..Len(list[m].blocks) /\ i \in 1..Len(list[n].blocks)
        /\ list[m].blocks[j].page = list[n].blocks[i].page
    BY <2>2, <2>3
  <2>5. m = n /\ j = i
    <3>1. Distinct(list)
      BY DEF AreasOK
    <3>2. SamePlace(m, j, n, i)
      BY <2>4, <3>1, OneBlock, Zenon
    <3> QED BY <3>2 DEF SamePlace
  <2> QED BY <2>2, <2>3, <2>5
<1>6. OneHeap(new)
  <2> SUFFICES ASSUME NEW k \in 1..Len(new), NEW l \in 1..Len(new),
                      new[k].area = "heap", new[l].area = "heap", new[k].end > 0, new[l].end > 0
               PROVE  k = l
    BY DEF OneHeap
  <2>1. CASE k = 1 \/ l = 1
    BY <1>1, <1>2, <2>1
  <2>2. CASE k \in 2..Len(new) /\ l \in 2..Len(new)
    <3>1. /\ k - 1 \in 1..Len(list) /\ new[k] = list[k - 1]
          /\ l - 1 \in 1..Len(list) /\ new[l] = list[l - 1]
      BY <2>2, <1>1
    <3>2. k - 1 = l - 1
      BY <3>1 DEF AreasOK, OneHeap
    <3> QED BY <2>2, <3>2
  <2> QED BY <1>2, <2>1, <2>2
<1>7. ASSUME NEW p PROVE p \in BlocksIn(new) <=> p \in BlocksIn(list)
  <2>1. p \in BlocksIn(new) => p \in BlocksIn(list)
    <3> SUFFICES ASSUME NEW k \in 1..Len(new), NEW j \in 1..Len(new[k].blocks), new[k].blocks[j] = p
                 PROVE  p \in BlocksIn(list)
      BY InBlocks
    <3>1. k \in 2..Len(new)
      BY <1>2, <1>3
    <3> QED BY <1>1, <3>1, InBlocks
  <2>2. p \in BlocksIn(list) => p \in BlocksIn(new)
    <3> SUFFICES ASSUME NEW k \in 1..Len(list), NEW j \in 1..Len(list[k].blocks), list[k].blocks[j] = p
                 PROVE  p \in BlocksIn(new)
      BY InBlocks
    <3> QED BY <1>1, InBlocks
  <2> QED BY <2>1, <2>2
<1>8. ASSUME Recorded(list), w.lma \notin Pool PROVE Recorded(new)
  <2> SUFFICES ASSUME NEW k \in 1..Len(new), new[k].lma \in Pool
               PROVE  [v |-> <<new[k].area, 0>>, page |-> new[k].lma] \in BlocksIn(list)
    BY <1>7 DEF Recorded
  <2>1. k \in 2..Len(new)
    BY <1>1, <1>2, <1>8
  <2>2. k - 1 \in 1..Len(list) /\ new[k] = list[k - 1]
    BY <1>1, <2>1
  <2> QED BY <1>8, <2>2 DEF Recorded
<1>9. BlocksIn(new) = BlocksIn(list)
  BY <1>7
<1> QED BY <1>1, <1>4, <1>5, <1>6, <1>8, <1>9 DEF new, AreasOK

(* add_pages_block keeps the list in order if the page is new and the      *)
(* address lies inside the area.                                           *)
LEMMA AppendOK ==
    ASSUME NEW list, AreasOK(list), NEW k \in 1..Len(list), NEW v \in VPages,
           NEW p \in Pool, p \notin PagesIn(list), v[1] = list[k].area,
           list[k].area = "heap" => v[2] < Upper(list[k].end)
    PROVE  /\ AreasOK(add_pages_block(list, k, v, p))
           /\ BlocksIn(add_pages_block(list, k, v, p)) = BlocksIn(list) \cup {[v |-> v, page |-> p]}
           /\ Recorded(list) => Recorded(add_pages_block(list, k, v, p))
           /\ Len(add_pages_block(list, k, v, p)) = Len(list)
           /\ \A l \in 1..Len(list) :
                /\ add_pages_block(list, k, v, p)[l].area = list[l].area
                /\ add_pages_block(list, k, v, p)[l].end = list[l].end
                /\ add_pages_block(list, k, v, p)[l].lma = list[l].lma
<1> DEFINE bs == Append(list[k].blocks, [v |-> v, page |-> p])
           w == [area |-> list[k].area, end |-> list[k].end, lma |-> list[k].lma, blocks |-> bs]
           new == add_pages_block(list, k, v, p)
<1>0. list \in Seq(Vma) /\ Len(list) \in Nat
  BY DEF AreasOK
<1>1. /\ list[k] \in Vma /\ list[k].blocks \in Seq(Block) /\ Len(list[k].blocks) \in Nat
      /\ list[k].area \in Areas /\ list[k].end \in 0..MaxBrk /\ list[k].lma \in Frames \cup {Null}
  BY <1>0, VmaType DEF Vma
<1>2. [v |-> v, page |-> p] \in Block
  BY DEF Block
<1>3. /\ bs \in Seq(Block) /\ Len(bs) = Len(list[k].blocks) + 1
      /\ bs[Len(bs)] = [v |-> v, page |-> p]
      /\ \A j \in 1..Len(list[k].blocks) : j \in 1..Len(bs) /\ bs[j] = list[k].blocks[j]
      /\ \A j \in 1..Len(bs) : j = Len(bs) \/ j \in 1..Len(list[k].blocks)
  BY <1>1, <1>2
<1> HIDE DEF bs
<1>4. new = SetBlocks(list, k, bs)
  BY DEF add_pages_block, SetBlocks, bs
<1>6. /\ new \in Seq(Vma) /\ Len(new) = Len(list) /\ new[k] = w
      /\ \A l \in 1..Len(list) : l /= k => new[l] = list[l]
  BY <1>0, <1>3, <1>4, SetBlocksIs
<1>7. w.area = list[k].area /\ w.end = list[k].end /\ w.lma = list[k].lma /\ w.blocks = bs
  OBVIOUS
<1> HIDE DEF new, w
<1>8. AreaOK(w)
  <2>1. AreaOK(list[k])
    BY DEF AreasOK
  <2>2. ASSUME NEW j \in 1..Len(bs)
        PROVE  /\ bs[j].v[1] = w.area
               /\ w.area = "heap" => bs[j].v[2] < Upper(w.end)
    <3>1. CASE j = Len(bs)
      BY <1>3, <1>7, <3>1
    <3>2. CASE j \in 1..Len(list[k].blocks)
      <4>1. bs[j] = list[k].blocks[j]
        BY <1>3, <3>2
      <4> QED BY <1>7, <2>1, <3>2, <4>1 DEF AreaOK
    <3> QED BY <1>3, <3>1, <3>2
  <2> QED BY <1>7, <2>1, <2>2 DEF AreaOK
<1>9. \A l \in 1..Len(list) : new[l].area = list[l].area /\ new[l].end = list[l].end /\ new[l].lma = list[l].lma
  BY <1>6, <1>7
<1>10. \A l \in 1..Len(list) : \A j \in 1..Len(list[l].blocks) :
          j \in 1..Len(new[l].blocks) /\ new[l].blocks[j] = list[l].blocks[j]
  BY <1>3, <1>6, <1>7
<1>11. \A l \in 1..Len(list) : \A j \in 1..Len(new[l].blocks) :
          \/ j \in 1..Len(list[l].blocks)
          \/ l = k /\ j = Len(bs) /\ new[l].blocks[j] = [v |-> v, page |-> p]
  BY <1>3, <1>6, <1>7
<1>12. \A l \in 1..Len(list) : \A j \in 1..Len(list[l].blocks) : list[l].blocks[j].page /= p
  BY InBlocks DEF PagesIn
<1>13. Distinct(new)
  <2> SUFFICES ASSUME NEW l \in 1..Len(list), NEW m \in 1..Len(list),
                      NEW j \in 1..Len(new[l].blocks), NEW i \in 1..Len(new[m].blocks),
                      new[l].blocks[j].page = new[m].blocks[i].page
               PROVE  l = m /\ j = i
    BY <1>6 DEF Distinct
  <2>1. Distinct(list)
    BY DEF AreasOK
  <2>11. ASSUME NEW n \in 1..Len(list), NEW x \in 1..Len(list[n].blocks)
         PROVE  new[n].blocks[x].page = list[n].blocks[x].page /\ new[n].blocks[x].page /= p
    BY <1>10, <1>12
  <2>12. ASSUME NEW n \in 1..Len(list), NEW x \in 1..Len(new[n].blocks), x \notin 1..Len(list[n].blocks)
         PROVE  n = k /\ x = Len(bs) /\ new[n].blocks[x].page = p
    <3>1. n = k /\ x = Len(bs) /\ new[n].blocks[x] = [v |-> v, page |-> p]
      BY <1>11, <2>12
    <3> QED BY <3>1
  <2>2. CASE j \in 1..Len(list[l].blocks) /\ i \in 1..Len(list[m].blocks)
    <3>1. list[l].blocks[j].page = list[m].blocks[i].page
      BY <2>2, <2>11
    <3>2. SamePlace(l, j, m, i)
      BY <2>1, <2>2, <3>1, OneBlock, Zenon
    <3> QED BY <3>2 DEF SamePlace
  <2>3. CASE j \notin 1..Len(list[l].blocks)
    <3>1. l = k /\ j = Len(bs) /\ new[l].blocks[j].page = p
      BY <2>3, <2>12
    <3>2. i \notin 1..Len(list[m].blocks)
      BY <2>11, <3>1
    <3>3. m = k /\ i = Len(bs)
      BY <2>12, <3>2
    <3> QED BY <3>1, <3>3
  <2>4. CASE i \notin 1..Len(list[m].blocks)
    <3>1. m = k /\ i = Len(bs) /\ new[m].blocks[i].page = p
      BY <2>4, <2>12
    <3>2. j \notin 1..Len(list[l].blocks)
      BY <2>11, <3>1
    <3>3. l = k /\ j = Len(bs)
      BY <2>12, <3>2
    <3> QED BY <3>1, <3>3
  <2> QED BY <2>2, <2>3, <2>4
<1>14. OneHeap(new)
  BY <1>6, <1>9 DEF AreasOK, OneHeap
<1>15. ASSUME NEW q PROVE q \in BlocksIn(new) <=> q \in BlocksIn(list) \/ q = [v |-> v, page |-> p]
  <2>1. q \in BlocksIn(new) => q \in BlocksIn(list) \/ q = [v |-> v, page |-> p]
    <3> SUFFICES ASSUME NEW l \in 1..Len(list), NEW j \in 1..Len(new[l].blocks),
                        new[l].blocks[j] = q, q /= [v |-> v, page |-> p]
                 PROVE  q \in BlocksIn(list)
      BY <1>6, InBlocks
    <3>1. j \in 1..Len(list[l].blocks) /\ list[l].blocks[j] = q
      BY <1>10, <1>11
    <3> QED BY <3>1, InBlocks
  <2>2. q \in BlocksIn(list) => q \in BlocksIn(new)
    BY <1>6, <1>10, InBlocks
  <2>3. [v |-> v, page |-> p] \in BlocksIn(new)
    <3>1. Len(bs) \in 1..Len(new[k].blocks) /\ new[k].blocks[Len(bs)] = [v |-> v, page |-> p]
      BY <1>1, <1>3, <1>6, <1>7
    <3> QED BY <1>6, <3>1, InBlocks
  <2> QED BY <2>1, <2>2, <2>3
<1>16. ASSUME Recorded(list) PROVE Recorded(new)
  <2> SUFFICES ASSUME NEW l \in 1..Len(list), new[l].lma \in Pool
               PROVE  [v |-> <<new[l].area, 0>>, page |-> new[l].lma] \in BlocksIn(new)
    BY <1>6 DEF Recorded
  <2>1. new[l].lma = list[l].lma /\ new[l].area = list[l].area
    BY <1>9
  <2> QED BY <1>15, <1>16, <2>1 DEF Recorded
<1>17. AreasOK(new)
  BY <1>6, <1>8, <1>13, <1>14 DEF AreasOK
<1>18. BlocksIn(new) = BlocksIn(list) \cup {[v |-> v, page |-> p]}
  BY <1>15
<1> QED BY <1>6, <1>9, <1>16, <1>17, <1>18 DEF new

(* Division rounds down.                                                   *)
LEMMA DivBound ==
    ASSUME NEW x \in Nat, NEW d \in Nat \ {0}
    PROVE  x \div d \in Nat /\ d * (x \div d) <= x /\ x < d * (x \div d) + d
OBVIOUS

(* Division is monotonic.                                                  *)
LEMMA DivMono ==
    ASSUME NEW x \in Nat, NEW y \in Nat, NEW d \in Nat \ {0}, x <= y
    PROVE  x \div d <= y \div d
BY DivBound

(* UPPER_PAGE_ADDR rounds up: it is monotonic, and an address before the   *)
(* end of an area is in one of its pages.                                  *)
LEMMA UpperIs ==
    ASSUME NEW x \in 0..MaxBrk, NEW y \in 0..MaxBrk
    PROVE  /\ Upper(x) \in Nat /\ Upper(0) = 0
           /\ x <= y => Upper(x) <= Upper(y)
           /\ x < y => x \div PageSize < Upper(y)
BY SizesAssumption, DivBound, DivMono DEF Upper

(* f says where the blocks that are left were in the list.                 *)
Selects(f, kept, bs, gone) ==
    /\ \A i \in 1..Len(kept) : f[i] \in 1..Len(bs) /\ kept[i] = bs[f[i]] /\ bs[f[i]].v \notin gone
    /\ \A i, j \in 1..Len(kept) : f[i] = f[j] => i = j
    /\ \A x \in 1..Len(bs) : bs[x].v \notin gone => \E i \in 1..Len(kept) : f[i] = x

(* What is left of a list of blocks after list_del are all the others,     *)
(* each of them once.                                                      *)
LEMMA KeptIs ==
    ASSUME NEW bs \in Seq(Block), NEW gone, NEW kept \in Kept(bs, gone)
    PROVE  /\ kept \in Seq(Block)
           /\ \E f : Selects(f, kept, bs, gone)
<1> DEFINE S == {j \in 1..Len(bs) : bs[j].v \notin gone}
           n == Cardinality(S)
<1>1. n \in Nat
  <2>1. Len(bs) \in Nat /\ IsFiniteSet(1..Len(bs))
    BY FS_Interval
  <2>2. S \in SUBSET (1..Len(bs))
    OBVIOUS
  <2> HIDE DEF S
  <2>3. IsFiniteSet(S)
    BY <2>1, <2>2, FS_Subset
  <2> QED BY <2>3, FS_CardinalityType
<1>2. PICK f \in InOrder(S) : kept = [i \in DOMAIN f |-> bs[f[i]]]
  BY DEF Kept
<1> HIDE DEF n
<1>3. /\ f \in [1..n -> S]
      /\ \A i, j \in 1..n : i < j => f[i] < f[j]
      /\ \A x \in S : \E i \in 1..n : f[i] = x
  BY DEF InOrder, n
<1>4. kept = [i \in 1..n |-> bs[f[i]]] /\ \A i \in 1..n : f[i] \in 1..Len(bs)
  BY <1>2, <1>3
<1>5. kept \in Seq(Block) /\ Len(kept) = n
  <2>1. \A i \in 1..n : bs[f[i]] \in Block
    BY <1>4
  <2> QED BY <1>1, <1>4, <2>1
<1>6. \A i, j \in 1..n : f[i] = f[j] => i = j
  <2> SUFFICES ASSUME NEW i \in 1..n, NEW j \in 1..n, f[i] = f[j], i /= j PROVE FALSE
    OBVIOUS
  <2>1. f[i] \in Int /\ f[j] \in Int /\ (i < j \/ j < i)
    BY <1>1, <1>4
  <2> QED BY <1>3, <2>1
<1>7. f \in [1..n -> 1..Len(bs)]
  BY <1>3
<1>8. \A i \in 1..n : kept[i] = bs[f[i]] /\ bs[f[i]].v \notin gone
  BY <1>3, <1>4
<1>9. \A x \in 1..Len(bs) : bs[x].v \notin gone => \E i \in 1..n : f[i] = x
  BY <1>3
<1> HIDE DEF S
<1>10. Selects(f, kept, bs, gone)
  BY <1>4, <1>5, <1>6, <1>8, <1>9 DEF Selects
<1> QED BY <1>5, <1>10

(* What is left of the blocks, and that those of an area end before b.     *)
Without(list, gone) == {q \in BlocksIn(list) : q.v \notin gone}

EndsBefore(bs, gone, b) ==
    \A j \in 1..Len(bs) : bs[j].v \notin gone => bs[j].v[2] < Upper(b)

(* The list after brk has shrunk the heap to b: only area k is different.  *)
HeapCut(list, new, k, gone, b) ==
    /\ ListOK(new) /\ Len(new) = Len(list)
    /\ \A l \in 1..Len(list) : l /= k => new[l] = list[l]
    /\ new[k].area = "heap" /\ new[k].end = b
    /\ BlocksIn(new) = Without(list, gone)

(* The list is in order after brk has dropped the blocks beyond the new    *)
(* end of the heap.                                                        *)
LEMMA KeptOK ==
    ASSUME NEW list, ListOK(list), NEW k \in 1..Len(list), list[k].area = "heap",
           NEW gone \in SUBSET HeapPages, NEW kept \in Kept(list[k].blocks, gone),
           NEW b \in 0..MaxBrk, list[k].end > 0, EndsBefore(list[k].blocks, gone, b),
           NEW new, new = SetEnd(SetBlocks(list, k, kept), k, b)
    PROVE  HeapCut(list, new, k, gone, b)
<1> DEFINE bs == list[k].blocks
           w == [area |-> list[k].area, end |-> b, lma |-> list[k].lma, blocks |-> kept]
           mid == SetBlocks(list, k, kept)
<1>0. list \in Seq(Vma) /\ Len(list) \in Nat /\ Distinct(list) /\ OneHeap(list) /\ Recorded(list)
  BY DEF ListOK, AreasOK
<1>1. /\ list[k] \in Vma /\ bs \in Seq(Block) /\ Len(bs) \in Nat
      /\ list[k].area \in Areas /\ list[k].end \in 0..MaxBrk /\ list[k].lma \in Frames \cup {Null}
  BY <1>0, VmaType DEF Vma
<1> HIDE DEF bs
<1>2. kept \in Kept(bs, gone)
  BY DEF bs
<1>3. kept \in Seq(Block) /\ Len(kept) \in Nat
  BY <1>1, <1>2, KeptIs
<1>31. PICK f : Selects(f, kept, bs, gone)
  BY <1>1, <1>2, KeptIs
<1>4. /\ \A i \in 1..Len(kept) : f[i] \in 1..Len(bs) /\ kept[i] = bs[f[i]] /\ bs[f[i]].v \notin gone
      /\ \A i, j \in 1..Len(kept) : f[i] = f[j] => i = j
      /\ \A x \in 1..Len(bs) : bs[x].v \notin gone => \E i \in 1..Len(kept) : f[i] = x
  BY <1>31 DEF Selects
<1>5. /\ new \in Seq(Vma) /\ Len(new) = Len(list) /\ new[k] = w
      /\ \A l \in 1..Len(list) : l /= k => new[l] = list[l]
  <2>1. /\ mid \in Seq(Vma) /\ Len(mid) = Len(list)
        /\ mid[k] = [area |-> list[k].area, end |-> list[k].end, lma |-> list[k].lma, blocks |-> kept]
        /\ \A l \in 1..Len(list) : l /= k => mid[l] = list[l]
    BY <1>0, <1>3, SetBlocksIs
  <2>2. new = SetEnd(mid, k, b)
    OBVIOUS
  <2> HIDE DEF mid
  <2>3. /\ new \in Seq(Vma) /\ Len(new) = Len(mid)
        /\ new[k] = [area |-> mid[k].area, end |-> b, lma |-> mid[k].lma, blocks |-> mid[k].blocks]
        /\ \A l \in 1..Len(mid) : l /= k => new[l] = mid[l]
    BY <2>1, <2>2, SetEndIs
  <2> QED BY <2>1, <2>3
<1>6. w.area = "heap" /\ w.end = b /\ w.lma = list[k].lma /\ w.blocks = kept
  OBVIOUS
<1> HIDE DEF w, mid
<1>7. \A l \in 1..Len(list) : new[l].area = list[l].area /\ new[l].lma = list[l].lma
  BY <1>5, <1>6
<1>8. AreaOK(w)
  <2>1. AreaOK(list[k])
    BY DEF ListOK, AreasOK
  <2>2. ASSUME NEW j \in 1..Len(kept) PROVE kept[j].v[1] = "heap" /\ kept[j].v[2] < Upper(b)
    <3>1. \A i \in 1..Len(bs) : bs[i].v[1] = "heap"
      BY <2>1 DEF AreaOK, bs
    <3>2. \A i \in 1..Len(bs) : bs[i].v \notin gone => bs[i].v[2] < Upper(b)
      BY DEF bs, EndsBefore
    <3>3. f[j] \in 1..Len(bs) /\ kept[j] = bs[f[j]] /\ bs[f[j]].v \notin gone
      BY <1>4
    <3> QED BY <3>1, <3>2, <3>3
  <2> QED BY <1>6, <2>1, <2>2 DEF AreaOK
<1>9. \A l \in 1..Len(list) : AreaOK(new[l])
  BY <1>5, <1>8 DEF ListOK, AreasOK
<1>10. ASSUME NEW l \in 1..Len(list), NEW j \in 1..Len(new[l].blocks)
       PROVE  \E i \in 1..Len(list[l].blocks) :
                 new[l].blocks[j] = list[l].blocks[i] /\ (l = k => i = f[j]) /\ (l /= k => i = j)
  <2>1. CASE l = k
    <3>1. j \in 1..Len(kept) /\ new[l].blocks[j] = kept[j]
      BY <1>5, <1>6, <2>1
    <3>2. f[j] \in 1..Len(list[l].blocks) /\ kept[j] = list[l].blocks[f[j]]
      BY <1>4, <2>1, <3>1 DEF bs
    <3> QED BY <2>1, <3>1, <3>2
  <2>2. CASE l /= k
    BY <1>5, <2>2
  <2> QED BY <2>1, <2>2
<1>11. Distinct(new)
  <2> SUFFICES ASSUME NEW l \in 1..Len(new), NEW m \in 1..Len(new),
                      NEW j \in 1..Len(new[l].blocks), NEW i \in 1..Len(new[m].blocks),
                      new[l].blocks[j].page = new[m].blocks[i].page
               PROVE  l = m /\ j = i
    BY DEF Distinct
  <2>0. l \in 1..Len(list) /\ m \in 1..Len(list)
    BY <1>5
  <2>1. PICK x \in 1..Len(list[l].blocks) :
           new[l].blocks[j] = list[l].blocks[x] /\ (l = k => x = f[j]) /\ (l /= k => x = j)
    BY <1>10, <2>0
  <2>2. PICK y \in 1..Len(list[m].blocks) :
           new[m].blocks[i] = list[m].blocks[y] /\ (m = k => y = f[i]) /\ (m /= k => y = i)
    BY <1>10, <2>0
  <2>21. list[l].blocks[x].page = list[m].blocks[y].page
    BY <2>1, <2>2
  <2>22. Distinct(list)
    BY <1>0
  <2>23. SamePlace(l, x, m, y)
    BY <2>0, <2>21, <2>22, OneBlock, Zenon
  <2>3. l = m /\ x = y
    BY <2>23 DEF SamePlace
  <2>4. CASE l = k
    <3>1. j \in 1..Len(kept) /\ i \in 1..Len(kept) /\ f[j] = f[i]
      BY <1>5, <1>6, <2>1, <2>2, <2>3, <2>4
    <3> QED BY <1>4, <2>3, <3>1
  <2> QED BY <2>1, <2>2, <2>3, <2>4
<1>12. OneHeap(new)
  <2> SUFFICES ASSUME NEW l \in 1..Len(list), NEW m \in 1..Len(list), new[l].area = "heap",
                      new[m].area = "heap", new[l].end > 0, new[m].end > 0
               PROVE  l = m
    BY <1>5 DEF OneHeap
  <2>1. \A x \in 1..Len(list) : new[x].end > 0 => list[x].end > 0
    BY <1>5
  <2> QED BY <1>0, <1>7, <2>1 DEF OneHeap
<1>13. ASSUME NEW l \in 1..Len(list), NEW i \in 1..Len(list[l].blocks), l /= k \/ list[l].blocks[i].v \notin gone
       PROVE  \E j \in 1..Len(new[l].blocks) : new[l].blocks[j] = list[l].blocks[i]
  <2>1. CASE l = k
    <3>1. PICK j \in 1..Len(kept) : f[j] = i
      BY <1>4, <1>13, <2>1 DEF bs
    <3>2. kept[j] = list[l].blocks[i]
      BY <1>4, <2>1, <3>1 DEF bs
    <3>3. new[l].blocks = kept
      BY <1>5, <1>6, <2>1
    <3> QED BY <3>2, <3>3
  <2>2. CASE l /= k
    BY <1>5, <2>2
  <2> QED BY <2>1, <2>2
<1>14. ASSUME NEW q, q \in BlocksIn(new) PROVE q \in BlocksIn(list) /\ q.v \notin gone
  <2>0. PICK l \in 1..Len(list) : \E j \in 1..Len(new[l].blocks) : new[l].blocks[j] = q
    BY <1>5, <1>14, InBlocks
  <2>1. PICK j \in 1..Len(new[l].blocks) : new[l].blocks[j] = q
    BY <2>0
  <2>2. PICK x \in 1..Len(list[l].blocks) :
           new[l].blocks[j] = list[l].blocks[x] /\ (l = k => x = f[j]) /\ (l /= k => x = j)
    BY <1>10
  <2>3. q \in BlocksIn(list)
    BY <2>1, <2>2, InBlocks
  <2>4. CASE l = k
    <3>1. j \in 1..Len(kept) /\ q = kept[j]
      BY <1>5, <1>6, <2>1, <2>4
    <3> QED BY <1>4, <2>3, <3>1
  <2>5. CASE l /= k
    <3>1. q = list[l].blocks[x] /\ AreaOK(list[l])
      BY <2>1, <2>2 DEF ListOK, AreasOK
    <3>2. ASSUME q.v \in gone PROVE FALSE
      <4>1. q.v[1] = "heap" /\ q.v[2] \in Nat
        BY <3>2, UpperIs DEF HeapPages
      <4>2. list[l].area = "heap" /\ q.v[2] < Upper(list[l].end) /\ list[l].end \in 0..MaxBrk
        BY <1>0, <3>1, <4>1, VmaType DEF AreaOK, Vma
      <4>3. list[l].end = 0
        BY <1>0, <2>5, <4>2 DEF OneHeap
      <4> QED BY <4>1, <4>2, <4>3, UpperIs
    <3> QED BY <2>3, <3>2
  <2> QED BY <2>4, <2>5
<1>15. ASSUME NEW q, q \in BlocksIn(list), q.v \notin gone PROVE q \in BlocksIn(new)
  <2>0. PICK l \in 1..Len(list) : \E i \in 1..Len(list[l].blocks) : list[l].blocks[i] = q
    BY <1>15, InBlocks
  <2>1. PICK i \in 1..Len(list[l].blocks) : list[l].blocks[i] = q
    BY <2>0
  <2>2. PICK j \in 1..Len(new[l].blocks) : new[l].blocks[j] = list[l].blocks[i]
    BY <1>13, <1>15, <2>1
  <2> QED BY <1>5, <2>1, <2>2, InBlocks
<1>16. Recorded(new)
  <2> SUFFICES ASSUME NEW l \in 1..Len(list), new[l].lma \in Pool
               PROVE  [v |-> <<new[l].area, 0>>, page |-> new[l].lma] \in BlocksIn(new)
    BY <1>5 DEF Recorded
  <2>1. new[l].lma = list[l].lma /\ new[l].area = list[l].area
    BY <1>7
  <2>2. [v |-> <<new[l].area, 0>>, page |-> new[l].lma] \in BlocksIn(list)
    BY <1>0, <2>1 DEF Recorded
  <2>3. list[l].area /= "heap"
    <3>1. AreaOK(list[l]) /\ list[l].lma \in Pool /\ 0 \notin Pool
      BY <2>1 DEF ListOK, AreasOK, Pool
    <3> QED BY <3>1 DEF AreaOK, Null
  <2>4. <<new[l].area, 0>> \notin gone
    BY <2>1, <2>3 DEF HeapPages
  <2> QED BY <1>15, <2>2, <2>4
<1>17. ListOK(new)
  BY <1>5, <1>9, <1>11, <1>12, <1>16 DEF ListOK, AreasOK
<1>18. BlocksIn(new) = Without(list, gone)
  BY <1>14, <1>15 DEF Without
<1>19. new[k].area = "heap" /\ new[k].end = b
  BY <1>5, <1>6
<1> HIDE DEF ListOK
<1> QED BY <1>5, <1>17, <1>18, <1>19 DEF HeapCut

(* brk moves the end of the heap's area up.                                *)
LEMMA EndOK ==
    ASSUME NEW list, ListOK(list), NEW k \in 1..Len(list), list[k].area = "heap",
           NEW b \in 0..MaxBrk, list[k].end > 0, Upper(list[k].end) <= Upper(b),
           NEW new, new = SetEnd(list, k, b)
    PROVE  /\ ListOK(new) /\ Len(new) = Len(list)
           /\ \A l \in 1..Len(list) : l /= k => new[l] = list[l]
           /\ new[k].area = "heap" /\ new[k].end = b
           /\ BlocksIn(new) = BlocksIn(list)
<1> DEFINE w == [area |-> list[k].area, end |-> b, lma |-> list[k].lma, blocks |-> list[k].blocks]
<1>0. list \in Seq(Vma) /\ Len(list) \in Nat /\ Distinct(list) /\ OneHeap(list) /\ Recorded(list)
  BY DEF ListOK, AreasOK
<1>1. /\ new \in Seq(Vma) /\ Len(new) = Len(list) /\ new[k] = w
      /\ \A l \in 1..Len(list) : l /= k => new[l] = list[l]
  BY <1>0, SetEndIs
<1>2. w.area = "heap" /\ w.end = b /\ w.lma = list[k].lma /\ w.blocks = list[k].blocks
  OBVIOUS
<1> HIDE DEF w
<1>3. \A l \in 1..Len(list) : /\ new[l].area = list[l].area /\ new[l].lma = list[l].lma
                              /\ new[l].blocks = list[l].blocks
  BY <1>1, <1>2
<1>4. AreaOK(w)
  <2>1. AreaOK(list[k]) /\ list[k].end \in 0..MaxBrk
    BY <1>0, VmaType DEF ListOK, AreasOK, Vma
  <2>2. ASSUME NEW j \in 1..Len(w.blocks)
        PROVE  w.blocks[j].v[1] = "heap" /\ w.blocks[j].v[2] < Upper(b)
    <3>1. w.blocks[j].v \in VPages
      BY <1>0, <1>2, VmaType
    <3>2. w.blocks[j].v[1] = "heap" /\ w.blocks[j].v[2] < Upper(list[k].end)
      BY <1>2, <2>1 DEF AreaOK
    <3>3. w.blocks[j].v[2] \in Int
      BY <3>1, UpperIs DEF VPages, HeapPages
    <3>4. Upper(list[k].end) \in Int /\ Upper(b) \in Int
      BY <2>1, UpperIs
    <3> QED BY <3>2, <3>3, <3>4
  <2> QED BY <1>2, <2>1, <2>2 DEF AreaOK
<1>5. \A l \in 1..Len(list) : AreaOK(new[l])
  BY <1>1, <1>4 DEF ListOK, AreasOK
<1>6. BlocksIn(new) = BlocksIn(list)
  BY <1>1, <1>3 DEF BlocksIn
<1>7. Distinct(new)
  <2> SUFFICES ASSUME NEW l \in 1..Len(new), NEW m \in 1..Len(new),
                      NEW j \in 1..Len(new[l].blocks), NEW i \in 1..Len(new[m].blocks),
                      new[l].blocks[j].page = new[m].blocks[i].page
               PROVE  l = m /\ j = i
    BY DEF Distinct
  <2>1. /\ l \in 1..Len(list) /\ m \in 1..Len(list)
        /\ new[l].blocks = list[l].blocks /\ new[m].blocks = list[m].blocks
    BY <1>1, <1>3
  <2>2. /\ j \in 1..Len(list[l].blocks) /\ i \in 1..Len(list[m].blocks)
        /\ list[l].blocks[j].page = list[m].blocks[i].page
    BY <2>1
  <2>3. SamePlace(l, j, m, i)
    BY <1>0, <2>1, <2>2, OneBlock, Zenon
  <2> QED BY <2>3 DEF SamePlace
<1>8. OneHeap(new)
  <2>1. \A x \in 1..Len(list) : new[x].end > 0 => list[x].end > 0
    BY <1>1
  <2> QED BY <1>0, <1>1, <1>3, <2>1 DEF OneHeap
<1>9. Recorded(new)
  BY <1>0, <1>1, <1>3, <1>6 DEF Recorded
<1>10. ListOK(new)
  BY <1>1, <1>5, <1>7, <1>8, <1>9 DEF ListOK, AreasOK
<1>11. new[k].area = "heap" /\ new[k].end = b
  BY <1>1, <1>2
<1> QED BY <1>1, <1>6, <1>10, <1>11

(* An area of the program's data, and the block of its copy.               *)
LEMMA DataOK ==
    ASSUME NEW list, ListOK(list), NEW p \in Pool, p \notin PagesIn(list),
           NEW w \in Vma, w = NewVma("data", PageSize, p),
           NEW new, new = add_pages_block(setup_vma(list, w), 1, <<"data", 0>>, p)
    PROVE  /\ ListOK(new) /\ Len(new) = Len(list) + 1
           /\ \A k \in 1..Len(list) : new[k + 1].area = list[k].area /\ new[k + 1].end = list[k].end
           /\ new[1].area = "data" /\ new[1].end = PageSize
           /\ BlocksIn(new) = BlocksIn(list) \cup {[v |-> <<"data", 0>>, page |-> p]}
<1> DEFINE mid == setup_vma(list, w)
           b == [v |-> <<"data", 0>>, page |-> p]
<1>0. list \in Seq(Vma) /\ Len(list) \in Nat /\ AreasOK(list) /\ Recorded(list)
  BY DEF ListOK, AreasOK
<1>1. w.area = "data" /\ w.end = PageSize /\ w.lma = p /\ w.blocks = <<>> /\ Len(w.blocks) = 0
  BY DEF NewVma
<1>2. AreaOK(w)
  BY <1>1 DEF AreaOK
<1>3. /\ mid \in Seq(Vma) /\ Len(mid) = Len(list) + 1 /\ mid[1] = w
      /\ \A k \in 1..Len(list) : mid[k + 1] = list[k]
      /\ \A k \in 2..Len(list) + 1 : k - 1 \in 1..Len(list) /\ mid[k] = list[k - 1]
  BY <1>0, Prepended
<1>4. AreasOK(mid) /\ BlocksIn(mid) = BlocksIn(list)
  BY <1>0, <1>1, <1>2, SetupOK
<1>5. new = add_pages_block(mid, 1, <<"data", 0>>, p)
  OBVIOUS
<1> HIDE DEF mid
<1>6. /\ 1 \in 1..Len(mid) /\ <<"data", 0>> \in VPages /\ p \notin PagesIn(mid)
      /\ <<"data", 0>>[1] = mid[1].area /\ mid[1].area /= "heap"
  BY <1>0, <1>1, <1>3, <1>4 DEF PagesIn, VPages, Areas
<1>7. /\ AreasOK(new) /\ BlocksIn(new) = BlocksIn(mid) \cup {b} /\ Len(new) = Len(mid)
      /\ \A l \in 1..Len(mid) : /\ new[l].area = mid[l].area /\ new[l].end = mid[l].end
                                /\ new[l].lma = mid[l].lma
  BY <1>4, <1>5, <1>6, AppendOK
<1>8. BlocksIn(new) = BlocksIn(list) \cup {b}
  BY <1>4, <1>7
<1>9. Recorded(new)
  <2> SUFFICES ASSUME NEW l \in 1..Len(new), new[l].lma \in Pool
               PROVE  [v |-> <<new[l].area, 0>>, page |-> new[l].lma] \in BlocksIn(new)
    BY DEF Recorded
  <2>1. CASE l = 1
    <3>1. new[l].area = "data" /\ new[l].lma = p
      BY <1>1, <1>3, <1>6, <1>7, <2>1
    <3> QED BY <1>8, <3>1
  <2>2. CASE l /= 1
    <3>1. l \in 2..Len(list) + 1 /\ l \in 1..Len(mid)
      BY <1>0, <1>3, <1>7, <2>2
    <3>2. PICK m \in 1..Len(list) : mid[l] = list[m]
      BY <1>3, <3>1
    <3>3. new[l].area = list[m].area /\ new[l].lma = list[m].lma
      BY <1>7, <3>1, <3>2
    <3>4. [v |-> <<list[m].area, 0>>, page |-> list[m].lma] \in BlocksIn(list)
      BY <1>0, <3>3 DEF Recorded
    <3> QED BY <1>8, <3>3, <3>4
  <2> QED BY <2>1, <2>2
<1>10. \A k \in 1..Len(list) : new[k + 1].area = list[k].area /\ new[k + 1].end = list[k].end
  <2> SUFFICES ASSUME NEW k \in 1..Len(list)
               PROVE  new[k + 1].area = list[k].area /\ new[k + 1].end = list[k].end
    OBVIOUS
  <2>1. k + 1 \in 1..Len(mid) /\ mid[k + 1] = list[k]
    BY <1>0, <1>3
  <2> QED BY <1>7, <2>1
<1>11. new[1].area = "data" /\ new[1].end = PageSize
  BY <1>1, <1>3, <1>6, <1>7
<1>12. ListOK(new)
  BY <1>7, <1>9 DEF ListOK
<1> QED BY <1>3, <1>7, <1>8, <1>10, <1>11, <1>12

(* The places of tables are numbers; no page is Null.                      *)
LEMMA Places ==
    /\ Tables \subseteq Int /\ Null \notin Pool /\ HeapPages \subseteq VPages
    /\ Lma("text") \notin Pool \cup {Null} /\ Lma("data") \notin Pool \cup {Null}
    /\ \A v \in VPages : v \notin HeapPages => v = <<"text", 0>> \/ v = <<"data", 0>>
    /\ \A v \in HeapPages : v[1] = "heap" /\ v[2] \in Nat /\ v = <<"heap", v[2]>>
<1>1. Null \notin Pool /\ Lma("text") \notin Pool \cup {Null} /\ Lma("data") \notin Pool \cup {Null}
  BY SizesAssumption DEF Null, Pool, Lma
<1>2. \A v \in HeapPages : v[1] = "heap" /\ v[2] \in Nat /\ v = <<"heap", v[2]>>
  BY SizesAssumption, UpperIs DEF HeapPages
<1>3. HeapPages \subseteq VPages
  BY DEF VPages
<1>4. \A v \in VPages : v \notin HeapPages => v = <<"text", 0>> \/ v = <<"data", 0>>
  BY DEF VPages, Areas
<1>5. ASSUME NEW v \in VPages PROVE Leaf(v) \in Int
  <2>1. CASE v \in HeapPages
    <3>1. v[1] = "heap" /\ v[2] \in Nat
      BY <1>2, <2>1
    <3> QED BY <3>1, SizesAssumption DEF Leaf
  <2>2. CASE v \notin HeapPages
    BY <1>4, <2>2 DEF Leaf
  <2> QED BY <2>1, <2>2
<1>6. Tables \subseteq Int
  BY <1>5 DEF Tables
<1> QED BY <1>1, <1>2, <1>3, <1>4, <1>6

(* new has the tables of old, and others that were taken from the pages    *)
(* avail, of which left is left.                                           *)
MoreTables(old, new, avail, left) ==
    /\ new \in [Tables -> Pool \cup {Null}] /\ left \subseteq avail
    /\ \A x \in Tables : new[x] = old[x] \/ (old[x] = Null /\ new[x] \in avail \ left)
    /\ \A x, y \in Tables : old[x] = Null /\ old[y] = Null /\ new[x] /= Null /\ new[x] = new[y] => x = y
    /\ \A p \in avail \ left : \E x \in Tables : new[x] = p

(* The empty entries of the pages V are filled.                            *)
Filled(old, new, V, to) ==
    \A v \in VPages : new[v] = IF v \in V /\ old[v] = Null THEN to[v] ELSE old[v]

(* add_single_map changes one address space: it adds tables from the free  *)
(* pages, and fills entries.                                               *)
LEMMA MapIs ==
    ASSUME SpaceTypes, NEW t \in Tasks, NEW V \in SUBSET VPages, NEW to, NEW avail \in SUBSET Pool,
           add_single_map(t, V, to, avail), \A v \in V : to[v] \in Frames \cup {Null}
    PROVE  /\ tables' \in [Tasks -> [Tables -> Pool \cup {Null}]]
           /\ pte' \in [Tasks -> [VPages -> Frames \cup {Null}]]
           /\ \A u \in Tasks \ {t} : tables'[u] = tables[u] /\ pte'[u] = pte[u]
           /\ MoreTables(tables[t], tables'[t], avail, free')
           /\ Filled(pte[t], pte'[t], V, to)
<1> DEFINE need == Missing(t, V)
           oldt == tables[t]
           olde == pte[t]
           newe == [v \in VPages |-> IF v \in V /\ olde[v] = Null THEN to[v] ELSE olde[v]]
<1>1. need \subseteq Tables /\ \A x \in need : oldt[x] = Null
  BY DEF Missing, Tables
<1> HIDE DEF need
<1>2. PICK got \in Allotments(need, avail) :
        /\ tables' = [tables EXCEPT ![t] = [x \in Tables |-> IF x \in need THEN got[x] ELSE oldt[x]]]
        /\ pte' = [pte EXCEPT ![t] = newe]
        /\ free' = avail \ {got[x] : x \in need}
  BY DEF add_single_map, SpaceTypes, need
<1> DEFINE newt == [x \in Tables |-> IF x \in need THEN got[x] ELSE oldt[x]]
<1>3. /\ got \in [need -> avail]
      /\ \A x, y \in need : x < y => got[x] < got[y]
  BY DEF Allotments
<1>4. \A x, y \in need : got[x] = got[y] => x = y
  <2> SUFFICES ASSUME NEW x \in need, NEW y \in need, got[x] = got[y], x /= y PROVE FALSE
    OBVIOUS
  <2>1. x \in Int /\ y \in Int
    BY <1>1, Places
  <2>2. got[x] \in Int /\ got[y] \in Int
    <3>1. got[x] \in Pool /\ got[y] \in Pool
      BY <1>3
    <3> QED BY <3>1 DEF Pool
  <2>3. x < y \/ y < x
    BY <2>1
  <2> QED BY <1>3, <2>2, <2>3
<1>5. oldt \in [Tables -> Pool \cup {Null}] /\ olde \in [VPages -> Frames \cup {Null}]
  BY DEF SpaceTypes
<1> HIDE DEF oldt, olde
<1>6. newt \in [Tables -> Pool \cup {Null}] /\ newe \in [VPages -> Frames \cup {Null}]
  BY <1>1, <1>3, <1>5
<1>7. MoreTables(oldt, newt, avail, free')
  <2>1. free' \subseteq avail
    BY <1>2
  <2>2. ASSUME NEW x \in Tables PROVE newt[x] = oldt[x] \/ (oldt[x] = Null /\ newt[x] \in avail \ free')
    BY <1>1, <1>2, <1>3
  <2>3. ASSUME NEW x \in Tables, NEW y \in Tables, oldt[x] = Null, oldt[y] = Null,
               newt[x] /= Null, newt[x] = newt[y]
        PROVE  x = y
    BY <1>4, <2>3
  <2>4. ASSUME NEW p \in avail \ free' PROVE \E x \in Tables : newt[x] = p
    BY <1>1, <1>2
  <2> QED BY <1>6, <2>1, <2>2, <2>3, <2>4 DEF MoreTables
<1> HIDE DEF newt
<1>8. /\ tables' \in [Tasks -> [Tables -> Pool \cup {Null}]] /\ tables'[t] = newt
      /\ pte' \in [Tasks -> [VPages -> Frames \cup {Null}]] /\ pte'[t] = newe
      /\ \A u \in Tasks \ {t} : tables'[u] = tables[u] /\ pte'[u] = pte[u]
  <2> HIDE DEF newe
  <2> QED BY <1>2, <1>6 DEF SpaceTypes, newt
<1>9. Filled(olde, newe, V, to)
  BY DEF Filled
<1> HIDE DEF newe
<1> QED BY <1>7, <1>8, <1>9 DEF oldt, olde

(* The sets of pages, element by element.                                  *)
LEMMA InUsed ==
    ASSUME NEW dir, NEW tabs, NEW ents, NEW list, NEW p
    PROVE  p \in Used(dir, tabs, ents, list) <=>
             \/ p = dir
             \/ p \in PagesIn(list)
             \/ p /= Null /\ \E x \in Tables : tabs[x] = p
             \/ p \in Pool /\ \E v \in VPages : ents[v] = p
BY DEF Used

(* Tables are added.                                                       *)
LEMMA TablesOrderly ==
    ASSUME NEW dir, NEW tabs, NEW ents, NEW list, Orderly(dir, tabs, ents, list),
           NEW avail \in SUBSET Pool, avail \cap Used(dir, tabs, ents, list) = {},
           NEW new, NEW left, MoreTables(tabs, new, avail, left)
    PROVE  /\ Orderly(dir, new, ents, list)
           /\ Used(dir, new, ents, list) = Used(dir, tabs, ents, list) \cup (avail \ left)
<1>1. \A p \in avail : /\ p /= dir /\ p \notin PagesIn(list) /\ p /= Null
                       /\ \A x \in Tables : tabs[x] /= p
                       /\ \A v \in VPages : ents[v] /= p
  BY Places, InUsed
<1>2. \A x \in Tables : new[x] \notin {dir} \cup PagesIn(list)
  BY <1>1 DEF Orderly, MoreTables
<1>3. \A x, y \in Tables : new[x] /= Null /\ new[x] = new[y] => x = y
  BY <1>1 DEF Orderly, MoreTables
<1>4. \A v \in VPages, x \in Tables : ents[v] \in Pool => ents[v] /= new[x]
  BY <1>1 DEF Orderly, MoreTables
<1>5. Orderly(dir, new, ents, list)
  BY <1>2, <1>3, <1>4 DEF Orderly
<1>6. ASSUME NEW p PROVE p \in Used(dir, new, ents, list) <=> p \in Used(dir, tabs, ents, list) \cup (avail \ left)
  <2>1. (p /= Null /\ \E x \in Tables : new[x] = p) <=>
          (p /= Null /\ \E x \in Tables : tabs[x] = p) \/ p \in avail \ left
    BY <1>1 DEF MoreTables
  <2> QED BY <2>1, InUsed
<1> QED BY <1>5, <1>6

(* An entry is filled.                                                     *)
LEMMA EntryOrderly ==
    ASSUME NEW dir, NEW tabs, NEW ents, NEW list, Orderly(dir, tabs, ents, list),
           NEW p \in Pool, p \notin Used(dir, tabs, ents, list),
           NEW v \in VPages, ents[v] = Null,
           NEW new, \A w \in VPages : new[w] = IF w = v THEN p ELSE ents[w]
    PROVE  /\ Orderly(dir, tabs, new, list)
           /\ Used(dir, tabs, new, list) = Used(dir, tabs, ents, list) \cup {p}
<1>1. /\ p /= dir /\ p \notin PagesIn(list) /\ p /= Null
      /\ \A x \in Tables : tabs[x] /= p
      /\ \A w \in VPages : ents[w] /= p
  BY Places, InUsed
<1>2. \A b \in BlocksIn(list) : b.page /= p
  BY <1>1 DEF PagesIn
<1>3. \A w \in HeapPages : new[w] \in Pool \cup {Null}
  BY Places DEF Orderly
<1>4. ASSUME NEW w \in VPages, new[w] \in Pool
      PROVE  /\ new[w] /= dir
             /\ \A x \in Tables : new[w] /= tabs[x]
             /\ \A u \in VPages : new[u] = new[w] => u = w
             /\ \A b \in BlocksIn(list) : b.page = new[w] => b.v = w
  <2>1. CASE w = v
    BY <1>1, <1>2, <2>1
  <2>2. CASE w /= v
    BY <1>1, <1>4, <2>2 DEF Orderly
  <2> QED BY <2>1, <2>2
<1>5. Orderly(dir, tabs, new, list)
  BY <1>3, <1>4 DEF Orderly
<1>6. ASSUME NEW q PROVE q \in Used(dir, tabs, new, list) <=> q \in Used(dir, tabs, ents, list) \cup {p}
  <2>1. (q \in Pool /\ \E w \in VPages : new[w] = q) <=> (q \in Pool /\ \E w \in VPages : ents[w] = q) \/ q = p
    BY Places
  <2> QED BY <2>1, InUsed
<1> QED BY <1>5, <1>6

(* A page is added to the blocks of an address space that is in order.     *)
WithPage(dir, tabs, ents, list, new, p) ==
    /\ Orderly(dir, tabs, ents, new)
    /\ Used(dir, tabs, ents, new) = Used(dir, tabs, ents, list) \cup {p}

(* A block is added for a page that is new, or was new when it was mapped  *)
(* at v.                                                                   *)
LEMMA BlockOrderly ==
    ASSUME NEW dir, NEW tabs, NEW ents, NEW list, Orderly(dir, tabs, ents, list),
           NEW p \in Pool, p /= dir, p \notin PagesIn(list), \A x \in Tables : tabs[x] /= p,
           NEW v \in VPages, \A w \in VPages : ents[w] = p => w = v,
           NEW new, BlocksIn(new) = BlocksIn(list) \cup {[v |-> v, page |-> p]}
    PROVE  WithPage(dir, tabs, ents, list, new, p)
<1>1. PagesIn(new) = PagesIn(list) \cup {p}
  <2> DEFINE c == [v |-> v, page |-> p]
  <2>1. c.page = p /\ BlocksIn(new) = BlocksIn(list) \cup {c}
    OBVIOUS
  <2> HIDE DEF c
  <2> QED BY <2>1 DEF PagesIn
<1>2. ASSUME NEW w \in VPages, NEW b \in BlocksIn(new), ents[w] \in Pool, b.page = ents[w]
      PROVE  b.v = w
  <2>1. CASE b \in BlocksIn(list)
    BY <1>2, <2>1 DEF Orderly
  <2>2. CASE b = [v |-> v, page |-> p]
    BY <1>2, <2>2
  <2> QED BY <2>1, <2>2
<1>3. Orderly(dir, tabs, ents, new)
  BY <1>1, <1>2 DEF Orderly
<1>4. \A q : q \in Used(dir, tabs, ents, new) <=> q \in Used(dir, tabs, ents, list) \cup {p}
  BY <1>1, InUsed
<1> QED BY <1>3, <1>4 DEF WithPage

(* Only the blocks count, not how the areas are arranged.                  *)
LEMMA SameBlocks ==
    ASSUME NEW list, NEW new, BlocksIn(new) = BlocksIn(list), NEW dir, NEW tabs, NEW ents
    PROVE  /\ Orderly(dir, tabs, ents, new) <=> Orderly(dir, tabs, ents, list)
           /\ Used(dir, tabs, ents, new) = Used(dir, tabs, ents, list)
<1>1. PagesIn(new) = PagesIn(list)
  BY DEF PagesIn
<1> QED BY <1>1 DEF Orderly, Used

(* An address space with nothing but its first table.                      *)
LEMMA EmptyOrderly ==
    ASSUME NEW dir \in Pool, NEW list, BlocksIn(list) = {}
    PROVE  /\ Orderly(dir, NoTables, NoEntries, list)
           /\ Used(dir, NoTables, NoEntries, list) = {dir}
<1>1. PagesIn(list) = {}
  BY DEF PagesIn
<1>2. /\ \A x \in Tables : NoTables[x] = Null
      /\ \A v \in VPages : NoEntries[v] = Null
  BY DEF NoTables, NoEntries
<1>3. Orderly(dir, NoTables, NoEntries, list)
  BY <1>1, <1>2, Places DEF Orderly
<1>4. \A q : q \in Used(dir, NoTables, NoEntries, list) <=> q = dir
  BY <1>1, <1>2, Places, InUsed
<1> QED BY <1>3, <1>4

(* The entries of the program's areas are filled, at the end of fork or    *)
(* for the first process.                                                  *)
LEMMA ImageOrderly ==
    ASSUME NEW dir, NEW tabs, NEW list, ListOK(list), Orderly(dir, tabs, NoEntries, list),
           NEW new, \A v \in HeapPages : new[v] = Null,
           new[<<"text", 0>>] \notin Pool,
           new[<<"data", 0>>] \in Pool => [v |-> <<"data", 0>>, page |-> new[<<"data", 0>>]] \in BlocksIn(list)
    PROVE  /\ Orderly(dir, tabs, new, list)
           /\ Used(dir, tabs, new, list) = Used(dir, tabs, NoEntries, list)
<1> DEFINE d == <<"data", 0>>
<1>1. \A v \in VPages : new[v] \in Pool => v = d
  BY Places
<1>2. new[d] \in Pool => new[d] \in PagesIn(list)
  BY DEF PagesIn
<1>3. ASSUME new[d] \in Pool, NEW b \in BlocksIn(list), b.page = new[d] PROVE b.v = d
  <2>1. PICK k \in 1..Len(list) : \E j \in 1..Len(list[k].blocks) : list[k].blocks[j] = b
    BY InBlocks
  <2>2. PICK j \in 1..Len(list[k].blocks) : list[k].blocks[j] = b
    BY <2>1
  <2>3. PICK l \in 1..Len(list) : \E i \in 1..Len(list[l].blocks) : list[l].blocks[i] = [v |-> d, page |-> new[d]]
    BY <1>3, InBlocks
  <2>4. PICK i \in 1..Len(list[l].blocks) : list[l].blocks[i] = [v |-> d, page |-> new[d]]
    BY <2>3
  <2>5. list[k].blocks[j].page = list[l].blocks[i].page
    BY <1>3, <2>2, <2>4
  <2>6. k = l /\ j = i
    <3>1. Distinct(list)
      BY DEF ListOK, AreasOK
    <3>2. SamePlace(k, j, l, i)
      BY <2>5, <3>1, OneBlock, Zenon
    <3> QED BY <3>2 DEF SamePlace
  <2> QED BY <2>2, <2>4, <2>6
<1>4. ASSUME NEW v \in VPages, new[v] \in Pool
      PROVE  /\ new[v] /= dir
             /\ \A x \in Tables : new[v] /= tabs[x]
             /\ \A w \in VPages : new[w] = new[v] => w = v
             /\ \A b \in BlocksIn(list) : b.page = new[v] => b.v = v
  BY <1>1, <1>2, <1>3, <1>4 DEF Orderly
<1>5. Orderly(dir, tabs, new, list)
  BY <1>4 DEF Orderly
<1>6. \A v \in VPages : NoEntries[v] \notin Pool
  BY Places DEF NoEntries
<1>7. \A q : q \in Used(dir, tabs, new, list) <=> q \in Used(dir, tabs, NoEntries, list)
  BY <1>1, <1>2, <1>6, InUsed
<1> QED BY <1>5, <1>7

(* A step that leaves the address space of u alone, or what is left of it  *)
(* when its slot is cleared.                                               *)
Same(u) ==
    /\ tables'[u] = tables[u] /\ pte'[u] = pte[u] /\ mmap'[u] = mmap[u]
    /\ \/ state'[u] = state[u] /\ pg_dir'[u] = pg_dir[u] /\ brk'[u] = brk[u]
       \/ state[u] \notin {"building", "user"} /\ state'[u] \notin {"building", "user"}

(* An address space that a step leaves alone stays in order.               *)
LEMMA SameOK ==
    ASSUME NEW u \in Tasks, SpaceOK(u), Same(u)
    PROVE  /\ SpaceOK(u)'
           /\ u \in Live' <=> u \in Live
           /\ u \in Live => Own(u)' = Own(u)
<1>1. CASE state'[u] = state[u] /\ pg_dir'[u] = pg_dir[u] /\ brk'[u] = brk[u]
  BY <1>1 DEF Same, SpaceOK, Live, Own
<1>2. CASE state[u] \notin {"building", "user"} /\ state'[u] \notin {"building", "user"}
  BY <1>2 DEF Same, SpaceOK, Live, Own
<1> QED BY <1>1, <1>2 DEF Same

(* What a step may do with the pages of the one task that it works for.    *)
Before(s) == IF s \in Live THEN Own(s) ELSE {}

Moves(s) ==
    /\ free' \cap Before(s)' = {}
    /\ free' \cup Before(s)' \subseteq free \cup Before(s)
    /\ free \cup lost \cup Before(s) \subseteq free' \cup lost' \cup Before(s)'

CopiesOK == \A t \in Tasks : fork[t] /= NoFork => CopyOf(fork[t], mmap[fork[t].child], mmap[t])

(* The central argument: a step changes at most one address space, and     *)
(* moves pages between it, the free pages and the lost ones only.  So it   *)
(* is enough to look at that address space.                                *)
LEMMA OneTaskStep ==
    ASSUME SpaceInv, SpaceTypes', CopiesOK', NEW s \in Tasks, \A u \in Tasks \ {s} : Same(u),
           SpaceOK(s)', Moves(s)
    PROVE  SpaceInv'
<1>0. \A t \in Tasks : SpaceOK(t)
  BY DEF SpaceInv
<1>1. /\ \A u \in Tasks : SpaceOK(u)'
      /\ \A u \in Tasks \ {s} : (u \in Live' <=> u \in Live) /\ (u \in Live => Own(u)' = Own(u))
  BY <1>0, SameOK
<1>2. /\ \A t \in Live : Own(t) \subseteq Pool \ free
      /\ \A t, u \in Live : t /= u => Own(t) \cap Own(u) = {}
  BY DEF SpaceInv, Apart
<1>3. /\ s \in Live' => Own(s)' = Before(s)'
      /\ s \in Live => Own(s) = Before(s)
      /\ s \notin Live => Before(s) = {}
      /\ s \notin Live' => Before(s)' = {}
  BY DEF Before
<1>4. Live \subseteq Tasks /\ Live' \subseteq Tasks
  BY DEF Live
<1>5. free \subseteq Pool
  BY DEF SpaceInv, SpaceTypes
<1>6. Before(s) \subseteq Pool
  BY <1>2, <1>3
<1>7. \A u \in Live \ {s} : Own(u) \cap (free \cup Before(s)) = {}
  BY <1>2, <1>3
<1>8. \A t \in Live' : Own(t)' \subseteq Pool \ free'
  <2> SUFFICES ASSUME NEW t \in Live' PROVE Own(t)' \subseteq Pool \ free'
    OBVIOUS
  <2>1. CASE t = s
    BY <1>3, <1>5, <1>6, <2>1 DEF Moves
  <2>2. CASE t /= s
    BY <1>1, <1>2, <1>4, <1>7, <2>2 DEF Moves
  <2> QED BY <2>1, <2>2
<1>9. \A t, u \in Live' : t /= u => Own(t)' \cap Own(u)' = {}
  <2> SUFFICES ASSUME NEW t \in Live', NEW u \in Live', t /= u PROVE Own(t)' \cap Own(u)' = {}
    OBVIOUS
  <2>1. CASE t = s
    BY <1>1, <1>3, <1>4, <1>7, <2>1 DEF Moves
  <2>2. CASE u = s
    BY <1>1, <1>3, <1>4, <1>7, <2>2 DEF Moves
  <2>3. CASE t /= s /\ u /= s
    BY <1>1, <1>2, <1>4, <2>3
  <2> QED BY <2>1, <2>2, <2>3
<1>10. Known'
  <2> SUFFICES ASSUME NEW p \in Pool PROVE p \in free' \cup lost' \/ \E t \in Live' : p \in Own(t)'
    BY DEF Known
  <2>1. p \in free \cup lost \/ \E t \in Live : p \in Own(t)
    BY DEF SpaceInv, Known
  <2>2. CASE p \in free \cup lost \cup Before(s)
    BY <1>3, <2>2 DEF Moves
  <2>3. CASE \E t \in Live \ {s} : p \in Own(t)
    BY <1>1, <1>4, <2>3
  <2> QED BY <1>3, <2>1, <2>2, <2>3
<1> QED BY <1>1, <1>8, <1>9, <1>10 DEF SpaceInv, CopiesOK, Apart

(* Steps that touch no address space.                                      *)
LEMMA FrameStep ==
    ASSUME SpaceInv, UNCHANGED <<fork, tables, pte, mmap>>, \A u \in Tasks : Same(u),
           free' \subseteq free, free \ free' \subseteq lost', lost \subseteq lost',
           pg_dir' \in [Tasks -> Pool \cup {Null}], brk' \in [Tasks -> 0..MaxBrk]
    PROVE  SpaceInv'
<1>1. SpaceTypes'
  BY DEF SpaceInv, SpaceTypes
<1>2. CopiesOK'
  BY DEF SpaceInv, CopiesOK
<1>3. 1 \in Tasks
  BY SizesAssumption DEF Tasks
<1>4. /\ SpaceOK(1)' /\ (1 \in Live' <=> 1 \in Live)
      /\ 1 \in Live => Own(1)' = Own(1)
  BY <1>3, SameOK DEF SpaceInv
<1>5. Before(1)' = Before(1)
  BY <1>4 DEF Before
<1>6. Before(1) \cap free = {}
  BY DEF SpaceInv, Apart, Before
<1>7. Moves(1)
  BY <1>5, <1>6 DEF Moves
<1> QED BY <1>1, <1>2, <1>3, <1>4, <1>7, OneTaskStep

(* The parent t and the one task s whose list of areas changes.            *)
LEMMA CopiesStep ==
    ASSUME SpaceInv, NEW t \in Tasks, NEW s \in Tasks,
           \A u \in Tasks \ {t} : /\ fork'[u] = fork[u]
                                  /\ fork[u] /= NoFork => u /= s /\ fork[u].child /= s /\ fork[u].child \in Tasks,
           \A u \in Tasks \ {s} : mmap'[u] = mmap[u],
           fork'[t] /= NoFork => CopyOf(fork'[t], mmap'[fork'[t].child], mmap'[t])
    PROVE  CopiesOK'
<1> SUFFICES ASSUME NEW u \in Tasks, fork'[u] /= NoFork
             PROVE  CopyOf(fork'[u], mmap'[fork'[u].child], mmap'[u])
  BY DEF CopiesOK
<1>1. CASE u = t
  BY <1>1
<1>2. CASE u /= t
  <2>1. /\ fork'[u] = fork[u] /\ mmap'[u] = mmap[u]
        /\ mmap'[fork[u].child] = mmap[fork[u].child]
    BY <1>2
  <2> QED BY <2>1 DEF SpaceInv
<1> QED BY <1>1, <1>2

(* A process in user mode is not in sys_fork, and nobody's child.          *)
LEMMA UserApart ==
    ASSUME IInv, NEW s \in Tasks, state[s] /= "building", fork[s] = NoFork
    PROVE  \A u \in Tasks \ {s} :
              fork[u] /= NoFork => u /= s /\ fork[u].child /= s /\ fork[u].child \in Tasks
BY DEF IInv, Children

(* The process on a CPU in user mode.                                      *)
LEMMA InUserIs ==
    ASSUME IInv, NEW c \in CPUs, InUser(c)
    PROVE  cur[c] \in Tasks /\ state[cur[c]] = "user" /\ fork[cur[c]] = NoFork /\ cur[c] \in Live
BY DEF InUser, IInv, Shape, Live

(* The process in sys_fork and its child, which no other process knows.    *)
LEMMA ForkingIs ==
    ASSUME IInv, NEW c \in CPUs, Forking(c)
    PROVE  /\ cur[c] \in Tasks /\ state[cur[c]] = "user"
           /\ fork[cur[c]].child \in Tasks /\ state[fork[cur[c]].child] = "building"
           /\ fork[cur[c]].child /= cur[c] /\ fork[fork[cur[c]].child] = NoFork
           /\ fork[cur[c]].child \in Live
           /\ \A u \in Tasks \ {cur[c]} : fork[u] /= NoFork =>
                u /= fork[cur[c]].child /\ fork[u].child /= fork[cur[c]].child /\ fork[u].child \in Tasks
<1>1. cur[c] \in Tasks /\ fork[cur[c]] /= NoFork
  BY DEF Forking, IInv, Shape
<1>2. /\ fork[cur[c]].child \in Tasks /\ state[fork[cur[c]].child] = "building" /\ state[cur[c]] = "user"
      /\ \A u \in Tasks : fork[u].child = fork[cur[c]].child => u = cur[c]
  BY <1>1 DEF IInv, Children, OnCpu
<1>3. fork[fork[cur[c]].child] = NoFork
  BY <1>2 DEF IInv, OnCpu
<1> QED BY <1>1, <1>2, <1>3 DEF IInv, Children, Live

(* The empty list.                                                         *)
LEMMA NothingIn == ListOK(<<>>) /\ BlocksIn(<<>>) = {}
<1>1. Len(<<>>) = 0 /\ <<>> \in Seq(Vma)
  OBVIOUS
<1>2. BlocksIn(<<>>) = {}
  BY <1>1 DEF BlocksIn
<1> QED BY <1>1, <1>2 DEF ListOK, AreasOK, Distinct, OneHeap, Recorded

(* exit_mm frees what it finds; the rest is lost.                          *)
LEMMA ExitMoves ==
    ASSUME SpaceInv, NEW s \in Live, exit_mm(s), state'[s] \notin {"building", "user"}
    PROVE  /\ Moves(s) /\ SpaceOK(s)'
           /\ free' \subseteq Pool
           /\ tables' \in [Tasks -> [Tables -> Pool \cup {Null}]]
           /\ pte' \in [Tasks -> [VPages -> Frames \cup {Null}]]
           /\ mmap' = [t \in Tasks |-> mmap'[t]]
           /\ \A u \in Tasks \ {s} : tables'[u] = tables[u] /\ pte'[u] = pte[u] /\ mmap'[u] = mmap[u]
<1>0. s \in Tasks /\ SpaceTypes /\ SpaceOK(s) /\ Own(s) \subseteq Pool \ free
  BY DEF Live, SpaceInv, Apart
<1>1. /\ free' = free \cup Freed(s)
      /\ lost' = lost \cup NotFreed(s)
      /\ tables' = [tables EXCEPT ![s] = NoTables]
      /\ pte' = [pte EXCEPT ![s] = NoEntries]
      /\ mmap' = [mmap EXCEPT ![s] = <<>>]
  BY DEF exit_mm
<1>2. NoTables \in [Tables -> Pool \cup {Null}] /\ NoEntries \in [VPages -> Frames \cup {Null}]
  BY DEF NoTables, NoEntries
<1>3. /\ tables' \in [Tasks -> [Tables -> Pool \cup {Null}]]
      /\ pte' \in [Tasks -> [VPages -> Frames \cup {Null}]]
      /\ mmap' = [t \in Tasks |-> mmap'[t]]
      /\ \A u \in Tasks \ {s} : tables'[u] = tables[u] /\ pte'[u] = pte[u] /\ mmap'[u] = mmap[u]
      /\ tables'[s] = NoTables /\ pte'[s] = NoEntries /\ mmap'[s] = <<>>
  BY <1>0, <1>1, <1>2 DEF SpaceTypes
<1>4. SpaceOK(s)'
  BY <1>3, NothingIn DEF SpaceOK
<1>5. ASSUME NEW p PROVE p \in Freed(s) => p \in Own(s)
  <2>1. ASSUME NEW k \in 1..Len(mmap[s]), p \in BlockPages(mmap[s][k]) PROVE p \in PagesIn(mmap[s])
    BY <2>1 DEF BlockPages, BlocksIn, PagesIn
  <2> QED BY <2>1, InUsed DEF Freed, Own
<1>6. ASSUME NEW p \in Own(s) PROVE p \in Freed(s) \cup NotFreed(s)
  <2>1. ASSUME p \in PagesIn(mmap[s]) PROVE p \in UNION {BlockPages(mmap[s][k]) : k \in 1..Len(mmap[s])}
    BY <2>1 DEF BlockPages, BlocksIn, PagesIn
  <2>2. p \in Pool /\ p /= Null
    BY <1>0, Places
  <2>3. CASE p = pg_dir[s] \/ \E x \in Tables : tables[s][x] = p
    BY <2>2, <2>3 DEF Freed
  <2>4. CASE p \in PagesIn(mmap[s]) \/ \E v \in VPages : pte[s][v] = p
    BY <2>1, <2>2, <2>4 DEF NotFreed
  <2> QED BY <2>3, <2>4, InUsed DEF Own
<1>7. Before(s) = Own(s) /\ Before(s)' = {}
  BY DEF Before, Live
<1>8. Moves(s)
  BY <1>1, <1>5, <1>6, <1>7 DEF Moves
<1>9. free' \subseteq Pool
  BY <1>0, <1>1, <1>5 DEF SpaceTypes
<1> QED BY <1>3, <1>4, <1>8, <1>9

(* do_exit: all pages of the process become free or lost.                  *)
LEMMA ExitSpace ==
    ASSUME IInv, SpaceInv, NEW c \in CPUs, do_exit(c)
    PROVE  SpaceInv'
<1>0. PICK s \in Tasks : s = cur[c]
  BY InUserIs DEF do_exit
<1>1. /\ exit_mm(s) /\ state' = [state EXCEPT ![s] = "stopped"]
      /\ UNCHANGED <<pg_dir, brk, fork>> /\ InUser(c)
  BY <1>0 DEF do_exit
<1>2. s \in Live /\ state[s] = "user" /\ fork[s] = NoFork
  BY <1>0, <1>1, InUserIs
<1>3. state'[s] = "stopped" /\ \A u \in Tasks \ {s} : state'[u] = state[u]
  BY <1>1, <1>2 DEF IInv, Shape
<1>4. /\ Moves(s) /\ SpaceOK(s)'
      /\ free' \subseteq Pool
      /\ tables' \in [Tasks -> [Tables -> Pool \cup {Null}]]
      /\ pte' \in [Tasks -> [VPages -> Frames \cup {Null}]]
      /\ mmap' = [t \in Tasks |-> mmap'[t]]
      /\ \A u \in Tasks \ {s} : tables'[u] = tables[u] /\ pte'[u] = pte[u] /\ mmap'[u] = mmap[u]
  BY <1>1, <1>2, <1>3, ExitMoves
<1>5. SpaceTypes'
  BY <1>1, <1>4 DEF SpaceInv, SpaceTypes
<1>6. \A u \in Tasks \ {s} : Same(u)
  BY <1>1, <1>3, <1>4 DEF Same
<1>7. CopiesOK'
  <2>1. \A u \in Tasks \ {s} :
          /\ fork'[u] = fork[u]
          /\ fork[u] /= NoFork => u /= s /\ fork[u].child /= s /\ fork[u].child \in Tasks
    BY <1>1, <1>2, UserApart
  <2>2. \A u \in Tasks \ {s} : mmap'[u] = mmap[u]
    BY <1>4
  <2>3. fork'[s] = NoFork
    BY <1>1, <1>2
  <2> QED BY <2>1, <2>2, <2>3, CopiesStep
<1> QED BY <1>2, <1>4, <1>5, <1>6, <1>7, OneTaskStep

(* sys_fork gives up: all pages of the child become free or lost.          *)
LEMMA ForkFailsSpace ==
    ASSUME IInv, SpaceInv, NEW c \in CPUs, ForkFails(c)
    PROVE  SpaceInv'
<1>0. PICK t \in Tasks, s \in Tasks : t = cur[c] /\ s = fork[t].child
  BY ForkingIs DEF ForkFails
<1>1. /\ exit_mm(s) /\ state' = [state EXCEPT ![s] = "unused"]
      /\ pg_dir' = [pg_dir EXCEPT ![s] = Null]
      /\ fork' = [fork EXCEPT ![t] = NoFork]
      /\ UNCHANGED brk /\ Forking(c)
  BY <1>0 DEF ForkFails
<1>2. /\ s \in Live
      /\ \A u \in Tasks \ {t} : fork[u] /= NoFork => u /= s /\ fork[u].child /= s /\ fork[u].child \in Tasks
  BY <1>0, <1>1, ForkingIs
<1>3. /\ state'[s] = "unused" /\ \A u \in Tasks \ {s} : state'[u] = state[u] /\ pg_dir'[u] = pg_dir[u]
      /\ fork'[t] = NoFork /\ \A u \in Tasks \ {t} : fork'[u] = fork[u]
      /\ pg_dir' \in [Tasks -> Pool \cup {Null}]
  BY <1>1, <1>2 DEF IInv, Shape, SpaceInv, SpaceTypes
<1>4. /\ Moves(s) /\ SpaceOK(s)'
      /\ free' \subseteq Pool
      /\ tables' \in [Tasks -> [Tables -> Pool \cup {Null}]]
      /\ pte' \in [Tasks -> [VPages -> Frames \cup {Null}]]
      /\ mmap' = [u \in Tasks |-> mmap'[u]]
      /\ \A u \in Tasks \ {s} : tables'[u] = tables[u] /\ pte'[u] = pte[u] /\ mmap'[u] = mmap[u]
  BY <1>1, <1>2, <1>3, ExitMoves
<1>5. SpaceTypes'
  BY <1>1, <1>3, <1>4 DEF SpaceInv, SpaceTypes
<1>6. \A u \in Tasks \ {s} : Same(u)
  BY <1>1, <1>3, <1>4 DEF Same
<1>7. CopiesOK'
  BY <1>2, <1>3, <1>4, CopiesStep
<1> QED BY <1>2, <1>4, <1>5, <1>6, <1>7, OneTaskStep

(* get_task_slot clears the slots of stopped tasks, which have no pages    *)
(* any more.                                                               *)
LEMMA ForkFailsEarlySpace ==
    ASSUME IInv, SpaceInv, NEW c \in CPUs, ForkFailsEarly(c)
    PROVE  SpaceInv'
<1>1. PICK n \in 1..(NumTasks + 1) :
        /\ state' = [t \in Tasks |-> IF t \in Reclaimed(n) THEN "unused" ELSE state[t]]
        /\ pg_dir' = [t \in Tasks |-> IF t \in Reclaimed(n) THEN Null ELSE pg_dir[t]]
        /\ brk' = [t \in Tasks |-> IF t \in Reclaimed(n) THEN 0 ELSE brk[t]]
  BY DEF ForkFailsEarly
<1>2. UNCHANGED <<free, tables, pte, mmap, fork, lost>>
  BY DEF ForkFailsEarly, history
<1>3. \A t \in Reclaimed(n) : state[t] = "stopped"
  BY DEF Reclaimed
<1>4. \A u \in Tasks : Same(u)
  BY <1>1, <1>2, <1>3 DEF Same
<1>5. pg_dir' \in [Tasks -> Pool \cup {Null}] /\ brk' \in [Tasks -> 0..MaxBrk]
  BY <1>1, SizesAssumption DEF SpaceInv, SpaceTypes
<1> QED BY <1>2, <1>4, <1>5, FrameStep

(* sys_fork has a slot, and a page for pg_dir.                             *)
LEMMA ForkBeginsSpace ==
    ASSUME IInv, SpaceInv, NEW c \in CPUs, ForkBegins(c)
    PROVE  SpaceInv'
<1>0. PICK t \in Tasks : t = cur[c]
  BY InUserIs DEF ForkBegins
<1>1. PICK n \in Tasks, dir \in First(free) :
        /\ FirstUnused(n)
        /\ state' = [u \in Tasks |-> IF u = n THEN "building"
                                     ELSE IF u \in Reclaimed(n) THEN "unused" ELSE state[u]]
        /\ pg_dir' = [u \in Tasks |-> IF u = n THEN dir
                                      ELSE IF u \in Reclaimed(n) THEN Null ELSE pg_dir[u]]
        /\ brk' = [u \in Tasks |-> IF u \in Reclaimed(n) THEN 0 ELSE brk[u]]
        /\ fork' = [fork EXCEPT ![t] = [child |-> n, vma |-> 1, pb |-> 0]]
        /\ free' = free \ {dir}
  BY <1>0 DEF ForkBegins
<1>2. UNCHANGED <<tables, pte, mmap, lost>> /\ InUser(c)
  BY DEF ForkBegins
<1>3. /\ state[t] = "user" /\ state[n] = "unused" /\ fork[n] = NoFork
      /\ \A u \in Reclaimed(n) : state[u] = "stopped"
  BY <1>0, <1>1, <1>2, InUserIs DEF FirstUnused, Reclaimed, IInv, OnCpu
<1>4. dir \in free /\ free \subseteq Pool
  BY DEF First, SpaceInv, SpaceTypes
<1>5. /\ mmap[n] = <<>> /\ tables[n] = NoTables /\ pte[n] = NoEntries
      /\ state'[n] = "building" /\ pg_dir'[n] = dir
  BY <1>1, <1>3 DEF SpaceInv, SpaceOK
<1>6. SpaceTypes'
  BY <1>1, <1>2, <1>4, SizesAssumption DEF SpaceInv, SpaceTypes
<1>7. \A u \in Tasks \ {n} : Same(u)
  BY <1>1, <1>2, <1>3 DEF Same
<1>8. /\ Orderly(dir, NoTables, NoEntries, <<>>)
      /\ Used(dir, NoTables, NoEntries, <<>>) = {dir}
  BY <1>4, NothingIn, EmptyOrderly
<1>9. SpaceOK(n)'
  BY <1>2, <1>5, <1>8, NothingIn DEF SpaceOK
<1>10. Before(n) = {} /\ Before(n)' = {dir}
  BY <1>2, <1>3, <1>5, <1>8 DEF Before, Live, Own
<1>11. Moves(n)
  BY <1>1, <1>2, <1>4, <1>10 DEF Moves
<1>12. CopyOf([child |-> n, vma |-> 1, pb |-> 0], mmap'[n], mmap'[t])
  <2>1. ListOK(mmap[t]) /\ mmap'[t] = mmap[t] /\ mmap'[n] = <<>> /\ Len(mmap[t]) \in Nat
    BY <1>2, <1>3, <1>5 DEF SpaceInv, SpaceOK, ListOK, AreasOK
  <2> QED BY <2>1 DEF CopyOf, Copied
<1>13. /\ fork'[t] = [child |-> n, vma |-> 1, pb |-> 0]
       /\ \A u \in Tasks \ {t} : fork'[u] = fork[u]
  BY <1>1, <1>3 DEF IInv, Shape
<1>14. \A u \in Tasks \ {t} : fork[u] /= NoFork => u /= n /\ fork[u].child /= n /\ fork[u].child \in Tasks
  BY <1>3 DEF IInv, Children
<1>15. CopiesOK'
  BY <1>2, <1>3, <1>12, <1>13, <1>14, CopiesStep
<1> QED BY <1>6, <1>7, <1>9, <1>11, <1>15, OneTaskStep

(* Where sys_fork goes on from a place in the list of the parent.          *)
GoesTo(at, orig) ==
    LET more == orig[at.vma].lma = Null /\ at.pb < Len(orig[at.vma].blocks)
    IN  [child |-> at.child,
         vma   |-> IF more THEN at.vma ELSE at.vma + 1,
         pb    |-> IF more THEN at.pb + 1 ELSE 0]

(* On to the next block, or to the next area.                              *)
LEMMA GoesToIs ==
    ASSUME NEW at, NEW orig, at.vma \in Nat \ {0}, at.pb \in Nat,
           Len(orig[at.vma].blocks) \in Nat,
           at.pb > 0 => orig[at.vma].lma = Null
    PROVE  /\ GoesTo(at, orig).child = at.child
           /\ GoesTo(at, orig).vma \in Nat \ {0} /\ GoesTo(at, orig).pb \in Nat
           /\ Copied(GoesTo(at, orig)) = at.vma
           /\ GoesTo(at, orig).pb > 0 =>
                /\ GoesTo(at, orig).vma = at.vma /\ orig[at.vma].lma = Null
                /\ GoesTo(at, orig).pb <= Len(orig[at.vma].blocks)
BY DEF GoesTo, Copied

(* After an area of the parent was copied, the child has one more.         *)
LEMMA CopyArea ==
    ASSUME NEW at, NEW list \in Seq(Vma), NEW orig \in Seq(Vma), CopyOf(at, list, orig), at.pb = 0,
           at.vma <= Len(orig), NEW new, Len(new) = Len(list) + 1,
           \A k \in 1..Len(list) : new[k + 1].area = list[k].area /\ new[k + 1].end = list[k].end,
           new[1].area = orig[at.vma].area, new[1].end = orig[at.vma].end
    PROVE  CopyOf(GoesTo(at, orig), new, orig)
<1>0. /\ at.vma \in Nat \ {0} /\ Len(list) = Copied(at) /\ at.pb \in Nat
      /\ \A k \in 1..Len(list) : /\ list[k].area = orig[Len(list) + 1 - k].area
                                 /\ list[k].end = orig[Len(list) + 1 - k].end
  BY DEF CopyOf
<1>01. Len(list) = at.vma - 1
  BY <1>0 DEF Copied
<1>1. /\ Len(list) \in Nat /\ Len(orig) \in Nat /\ at.vma \in 1..Len(orig) /\ Len(new) = at.vma
      /\ at.pb > 0 => orig[at.vma].lma = Null
  BY <1>0, <1>01
<1>2. Len(orig[at.vma].blocks) \in Nat
  BY <1>1, VmaType
<1>3. /\ GoesTo(at, orig).vma \in Nat \ {0} /\ GoesTo(at, orig).pb \in Nat
      /\ Copied(GoesTo(at, orig)) = at.vma
      /\ GoesTo(at, orig).pb > 0 =>
           /\ GoesTo(at, orig).vma = at.vma /\ orig[at.vma].lma = Null
           /\ GoesTo(at, orig).pb <= Len(orig[at.vma].blocks)
  BY <1>0, <1>1, <1>2, GoesToIs
<1>4. ASSUME NEW k \in 1..Len(new)
      PROVE  /\ new[k].area = orig[Len(new) + 1 - k].area
             /\ new[k].end = orig[Len(new) + 1 - k].end
  <2>1. CASE k = 1
    <3>1. Len(new) + 1 - k = at.vma
      BY <1>1, <2>1
    <3> QED BY <2>1, <3>1
  <2>2. CASE k /= 1
    <3>1. PICK m \in 1..Len(list) : k = m + 1
      BY <1>1, <2>2
    <3>2. Len(new) + 1 - k = Len(list) + 1 - m
      BY <1>1, <3>1
    <3> QED BY <1>0, <3>1, <3>2
  <2> QED BY <2>1, <2>2
<1>5. Len(new) = Copied(GoesTo(at, orig)) /\ Copied(GoesTo(at, orig)) <= Len(orig)
  BY <1>1, <1>3
<1> QED BY <1>3, <1>4, <1>5 DEF CopyOf

(* A block is added to one of the child's areas: these stay what they are. *)
LEMMA CopyBlock ==
    ASSUME NEW at, NEW list \in Seq(Vma), NEW orig \in Seq(Vma), CopyOf(at, list, orig), at.pb > 0,
           NEW new, Len(new) = Len(list),
           \A k \in 1..Len(list) : new[k].area = list[k].area /\ new[k].end = list[k].end
    PROVE  CopyOf(GoesTo(at, orig), new, orig)
<1>1. /\ at.vma \in Nat \ {0} /\ Len(list) = at.vma /\ Len(orig) \in Nat
      /\ at.vma \in 1..Len(orig) /\ at.pb \in Nat /\ orig[at.vma].lma = Null
      /\ \A k \in 1..Len(list) : /\ list[k].area = orig[Len(list) + 1 - k].area
                                 /\ list[k].end = orig[Len(list) + 1 - k].end
  BY DEF CopyOf, Copied
<1>2. Len(orig[at.vma].blocks) \in Nat
  BY <1>1, VmaType
<1>3. /\ GoesTo(at, orig).vma \in Nat \ {0} /\ GoesTo(at, orig).pb \in Nat
      /\ Copied(GoesTo(at, orig)) = at.vma
      /\ GoesTo(at, orig).pb > 0 =>
           /\ GoesTo(at, orig).vma = at.vma /\ orig[at.vma].lma = Null
           /\ GoesTo(at, orig).pb <= Len(orig[at.vma].blocks)
  BY <1>1, <1>2, GoesToIs
<1>4. /\ Len(new) = Copied(GoesTo(at, orig)) /\ Copied(GoesTo(at, orig)) <= Len(orig)
  BY <1>1, <1>3
<1>5. \A k \in 1..Len(new) : /\ new[k].area = orig[Len(new) + 1 - k].area
                             /\ new[k].end = orig[Len(new) + 1 - k].end
  BY <1>1
<1> QED BY <1>3, <1>4, <1>5 DEF CopyOf

(* The steps of the loop in sys_fork: the list of the child changes, and a *)
(* page may be taken for it.                                               *)
LEMMA ForkLoopStep ==
    ASSUME IInv, SpaceInv, NEW c \in CPUs, Forking(c), NEW t \in Tasks, t = cur[c], ForkGoesOn(t),
           NEW s \in Tasks, s = fork[t].child, NEW list, mmap' = [mmap EXCEPT ![s] = list],
           UNCHANGED <<state, pg_dir, tables, pte, brk, lost>>,
           ListOK(list), CopyOf(GoesTo(fork[t], mmap[t]), list, mmap[t]),
           \/ free' = free /\ BlocksIn(list) = BlocksIn(mmap[s])
           \/ \E v \in VPages, p \in free :
                free' = free \ {p} /\ BlocksIn(list) = BlocksIn(mmap[s]) \cup {[v |-> v, page |-> p]}
    PROVE  SpaceInv'
<1>1. /\ state[s] = "building" /\ s /= t /\ s \in Live
      /\ \A u \in Tasks \ {t} : fork[u] /= NoFork => u /= s /\ fork[u].child /= s /\ fork[u].child \in Tasks
  BY ForkingIs
<1>2. /\ SpaceTypes /\ SpaceOK(s) /\ Own(s) \subseteq Pool \ free /\ free \subseteq Pool
      /\ tables[s] = NoTables /\ pte[s] = NoEntries /\ Orderly(pg_dir[s], NoTables, NoEntries, mmap[s])
      /\ Own(s) = Used(pg_dir[s], NoTables, NoEntries, mmap[s])
  BY <1>1 DEF SpaceInv, Apart, SpaceOK, Own, SpaceTypes
<1>21. /\ Orderly(pg_dir[s], NoTables, NoEntries, mmap[s])
       /\ Own(s) = Used(pg_dir[s], NoTables, NoEntries, mmap[s])
  BY <1>2
<1>3. /\ mmap'[s] = list /\ \A u \in Tasks \ {s} : mmap'[u] = mmap[u]
      /\ mmap' = [u \in Tasks |-> mmap'[u]]
  BY <1>2 DEF SpaceTypes
<1>4. /\ fork'[t] = GoesTo(fork[t], mmap[t]) /\ \A u \in Tasks \ {t} : fork'[u] = fork[u]
  <2>1. fork' = [fork EXCEPT ![t] = GoesTo(fork[t], mmap[t])]
    BY Zenon DEF ForkGoesOn, ForkVma, GoesTo
  <2> QED BY <2>1 DEF IInv, Shape
<1>5. fork'[t].child = s
  <2>1. \A at, orig : GoesTo(at, orig).child = at.child
    BY DEF GoesTo
  <2> QED BY <1>4, <2>1
<1>51. fork'[t] /= NoFork => CopyOf(fork'[t], mmap'[fork'[t].child], mmap'[t])
  BY <1>1, <1>3, <1>4, <1>5
<1>52. \A u \in Tasks \ {t} :
         /\ fork'[u] = fork[u]
         /\ fork[u] /= NoFork => u /= s /\ fork[u].child /= s /\ fork[u].child \in Tasks
  BY <1>1, <1>4
<1>53. \A u \in Tasks \ {s} : mmap'[u] = mmap[u]
  BY <1>3
<1>6. CopiesOK'
  BY <1>51, <1>52, <1>53, CopiesStep
<1>7. \A u \in Tasks \ {s} : Same(u)
  BY <1>3 DEF Same
<1>8. Before(s) = Own(s) /\ Before(s)' = Used(pg_dir[s], NoTables, NoEntries, list)
  BY <1>1, <1>2, <1>3 DEF Before, Live, Own
<1>9. CASE free' = free /\ BlocksIn(list) = BlocksIn(mmap[s])
  <2>1. /\ Orderly(pg_dir[s], NoTables, NoEntries, list)
        /\ Used(pg_dir[s], NoTables, NoEntries, list) = Own(s)
    BY <1>21, <1>9, SameBlocks
  <2>2. SpaceOK(s)'
    BY <1>1, <1>2, <1>3, <2>1 DEF SpaceOK
  <2>3. Moves(s)
    BY <1>2, <1>8, <1>9, <2>1 DEF Moves
  <2>4. SpaceTypes'
    BY <1>2, <1>3, <1>9 DEF SpaceTypes
  <2> QED BY <1>6, <1>7, <2>2, <2>3, <2>4, OneTaskStep
<1>10. CASE \E v \in VPages, p \in free :
              free' = free \ {p} /\ BlocksIn(list) = BlocksIn(mmap[s]) \cup {[v |-> v, page |-> p]}
  <2>0. PICK v \in VPages, p \in free :
              free' = free \ {p} /\ BlocksIn(list) = BlocksIn(mmap[s]) \cup {[v |-> v, page |-> p]}
    BY <1>10
  <2>1. p \in Pool /\ p \notin Own(s)
    BY <1>2
  <2>2. /\ p /= pg_dir[s] /\ p \notin PagesIn(mmap[s])
        /\ \A x \in Tables : NoTables[x] /= p
        /\ \A w \in VPages : NoEntries[w] = p => w = v
    <3>1. p /= Null
      BY <2>1, Places
    <3>2. /\ \A x \in Tables : NoTables[x] = Null
          /\ \A w \in VPages : NoEntries[w] = Null
      BY DEF NoTables, NoEntries
    <3>3. p /= pg_dir[s] /\ p \notin PagesIn(mmap[s])
      BY <1>21, <2>1, InUsed
    <3> QED BY <3>1, <3>2, <3>3
  <2>21. BlocksIn(list) = BlocksIn(mmap[s]) \cup {[v |-> v, page |-> p]}
    BY <2>0
  <2>22. WithPage(pg_dir[s], NoTables, NoEntries, mmap[s], list, p)
    BY <1>21, <2>1, <2>2, <2>21, BlockOrderly, Zenon
  <2>3. /\ Orderly(pg_dir[s], NoTables, NoEntries, list)
        /\ Used(pg_dir[s], NoTables, NoEntries, list) = Own(s) \cup {p}
    BY <1>21, <2>22 DEF WithPage
  <2>4. SpaceOK(s)'
    BY <1>1, <1>2, <1>3, <2>3 DEF SpaceOK
  <2>5. Moves(s)
    <3>1. Before(s) = Own(s) /\ Before(s)' = Own(s) \cup {p} /\ lost' = lost
      BY <1>8, <2>3
    <3>2. free' = free \ {p} /\ p \in free /\ Own(s) \cap free = {}
      BY <1>2, <2>0
    <3> QED BY <3>1, <3>2 DEF Moves
  <2>6. SpaceTypes'
    BY <1>2, <1>3, <2>0 DEF SpaceTypes
  <2> QED BY <1>6, <1>7, <2>4, <2>5, <2>6, OneTaskStep
<1> QED BY <1>9, <1>10

(* find_vma finds an area if there is one around the address.              *)
LEMMA FoundSome ==
    ASSUME NEW list \in Seq(Vma), NEW k \in 1..Len(list), NEW off, off < list[k].end
    PROVE  find_vma(list, list[k].area, off) /= 0
<1> DEFINE Found == {j \in 1..Len(list) : list[j].area = list[k].area /\ off < list[j].end}
<1>1. Found /= {} /\ Found \in SUBSET Nat /\ 0 \notin Found
  OBVIOUS
<1>2. find_vma(list, list[k].area, off) = CHOOSE i \in Found : \A j \in Found : i <= j
  BY <1>1 DEF find_vma
<1> HIDE DEF Found
<1>3. \E i \in Found : \A j \in Found : i <= j
  BY <1>1, LeastNat
<1>4. (CHOOSE i \in Found : \A j \in Found : i <= j) \in Found
  BY <1>3, Zenon
<1> QED BY <1>1, <1>2, <1>4

(* find_vma finds the area at the head of the list, if the address is in   *)
(* it.                                                                     *)
LEMMA FoundHead ==
    ASSUME NEW list \in Seq(Vma), Len(list) > 0, NEW off, off < list[1].end
    PROVE  find_vma(list, list[1].area, off) = 1
<1>1. 1 \in 1..Len(list)
  OBVIOUS
<1>2. find_vma(list, list[1].area, off) /= 0
  BY <1>1, FoundSome
<1>3. find_vma(list, list[1].area, off) \in 1..Len(list) /\ find_vma(list, list[1].area, off) <= 1
  BY <1>1, <1>2, FoundVma
<1> QED BY <1>3

(* sys_fork copies an area: with a page of its own, shared, or empty.      *)
LEMMA ForkAreaSpace ==
    ASSUME IInv, SpaceInv, NEW c \in CPUs, ForkArea(c)
    PROVE  SpaceInv'
<1>0. PICK t \in Tasks, s \in Tasks : t = cur[c] /\ s = fork[t].child
  BY ForkingIs DEF ForkArea
<1> DEFINE at == fork[t]
           orig == mmap[t]
           list == mmap[s]
           a == orig[at.vma]
           List(lma) == setup_vma(list, NewVma(a.area, a.end, lma))
<1>1. /\ Forking(c) /\ InLoop(t) /\ at.pb = 0 /\ ForkGoesOn(t)
      /\ UNCHANGED <<state, pg_dir, tables, pte, brk, lost>>
  BY <1>0 DEF ForkArea, history
<1>2. \/ /\ IsShared(a) \/ a.lma = Null
         /\ mmap' = [mmap EXCEPT ![s] = List(a.lma)]
         /\ free' = free
      \/ /\ ~IsShared(a) /\ a.lma /= Null
         /\ \E p \in First(free) :
              /\ free' = free \ {p}
              /\ mmap' = [mmap EXCEPT ![s] =
                     add_pages_block(List(p), find_vma(List(p), a.area, 0), <<a.area, 0>>, p)]
  BY <1>0 DEF ForkArea, ForkVma
<1>3. /\ ListOK(orig) /\ orig \in Seq(Vma) /\ ListOK(list) /\ list \in Seq(Vma)
      /\ CopyOf(at, list, orig) /\ at.vma <= Len(orig)
  <2>1. ListOK(orig) /\ ListOK(list)
    BY DEF SpaceInv, SpaceOK
  <2>2. fork[t] /= NoFork
    BY <1>0, <1>1 DEF Forking
  <2>3. CopyOf(at, list, orig)
    BY <1>0, <2>2 DEF SpaceInv
  <2> QED BY <1>1, <2>1, <2>3 DEF ListOK, AreasOK, InLoop
<1>4. s \in Live /\ Own(s) \subseteq Pool \ free /\ free \subseteq Pool
  BY <1>0, <1>1, ForkingIs DEF SpaceInv, Apart, SpaceTypes
<1>41. \A q \in PagesIn(list) : q \in Own(s)
  BY InUsed DEF Own
<1> HIDE DEF at, orig, list
<1>5. at.vma \in 1..Len(orig) /\ Len(list) = at.vma - 1 /\ Len(list) \in Nat
  BY <1>1, <1>3 DEF CopyOf, Copied
<1>6. /\ a \in Vma /\ AreaOK(a)
      /\ a.area \in Areas /\ a.end \in 0..MaxBrk /\ a.lma \in Frames \cup {Null}
  BY <1>3, <1>5, VmaType DEF ListOK, AreasOK, Vma
<1>7. \A lma : /\ NewVma(a.area, a.end, lma).area = a.area /\ NewVma(a.area, a.end, lma).end = a.end
               /\ NewVma(a.area, a.end, lma).lma = lma /\ NewVma(a.area, a.end, lma).blocks = <<>>
  BY DEF NewVma
<1>8. \A lma \in Frames \cup {Null} : NewVma(a.area, a.end, lma) \in Vma
  BY <1>6 DEF NewVma, Vma
<1> HIDE DEF a
<1>9. CASE (IsShared(a) \/ a.lma = Null) /\ mmap' = [mmap EXCEPT ![s] = List(a.lma)] /\ free' = free
  <2> DEFINE w == NewVma(a.area, a.end, a.lma)
  <2>1. /\ w \in Vma /\ w.area = a.area /\ w.end = a.end /\ w.lma = a.lma
        /\ w.blocks = <<>> /\ Len(w.blocks) = 0
    BY <1>6, <1>7, <1>8
  <2> HIDE DEF w
  <2>2. AreaOK(w)
    BY <1>6, <2>1 DEF AreaOK
  <2>3. w.lma \notin Pool
    BY <1>6, <1>9, <2>1, Places DEF AreaOK, IsShared
  <2>4. w.area = "heap" /\ w.end > 0 =>
          \A k \in 1..Len(list) : ~(list[k].area = "heap" /\ list[k].end > 0)
    <3> SUFFICES ASSUME w.area = "heap", w.end > 0, NEW k \in 1..Len(list),
                        list[k].area = "heap", list[k].end > 0
                 PROVE  FALSE
      OBVIOUS
    <3>1. PICK m \in 1..Len(orig) : m < at.vma /\ orig[m].area = "heap" /\ orig[m].end > 0
      <4>1. /\ list[k].area = orig[Len(list) + 1 - k].area
            /\ list[k].end = orig[Len(list) + 1 - k].end
        BY <1>3 DEF CopyOf
      <4>2. Len(list) + 1 - k \in 1..Len(orig) /\ Len(list) + 1 - k < at.vma
        BY <1>5
      <4> QED BY <4>1, <4>2
    <3>2. m = at.vma
      BY <1>3, <1>5, <2>1, <3>1 DEF ListOK, AreasOK, OneHeap, a
    <3> QED BY <1>5, <3>1, <3>2
  <2>5. ListOK(setup_vma(list, w)) /\ BlocksIn(setup_vma(list, w)) = BlocksIn(list)
    BY <1>3, <2>1, <2>2, <2>3, <2>4, SetupOK DEF ListOK
  <2>6. CopyOf(GoesTo(at, orig), setup_vma(list, w), orig)
    <3>1. /\ Len(setup_vma(list, w)) = Len(list) + 1 /\ setup_vma(list, w)[1] = w
          /\ \A k \in 1..Len(list) : setup_vma(list, w)[k + 1] = list[k]
      BY <1>3, <2>1, Prepended
    <3>2. setup_vma(list, w)[1].area = orig[at.vma].area /\ setup_vma(list, w)[1].end = orig[at.vma].end
      BY <2>1, <3>1 DEF a
    <3>3. at.pb = 0
      BY <1>1
    <3>4. \A k \in 1..Len(list) : /\ setup_vma(list, w)[k + 1].area = list[k].area
                                  /\ setup_vma(list, w)[k + 1].end = list[k].end
      BY <3>1
    <3>5. Len(setup_vma(list, w)) = Len(list) + 1
      BY <3>1
    <3> HIDE DEF a
    <3> QED BY <1>3, <3>2, <3>3, <3>4, <3>5, CopyArea
  <2>7. mmap' = [mmap EXCEPT ![s] = setup_vma(list, w)]
    BY <1>9 DEF w
  <2>8. PICK new : new = setup_vma(list, w)
    OBVIOUS
  <2>9. Forking(c) /\ ForkGoesOn(t) /\ UNCHANGED <<state, pg_dir, tables, pte, brk, lost>>
    BY <1>1
  <2>10. /\ ListOK(new) /\ CopyOf(GoesTo(fork[t], mmap[t]), new, mmap[t])
         /\ mmap' = [mmap EXCEPT ![s] = new]
    BY <2>5, <2>6, <2>7, <2>8 DEF at, orig
  <2>11. free' = free /\ BlocksIn(new) = BlocksIn(mmap[s])
    BY <1>9, <2>5, <2>8 DEF list
  <2> QED BY <1>0, <2>9, <2>10, <2>11, ForkLoopStep
<1>10. CASE /\ ~IsShared(a) /\ a.lma /= Null
            /\ \E p \in First(free) :
                 /\ free' = free \ {p}
                 /\ mmap' = [mmap EXCEPT ![s] =
                        add_pages_block(List(p), find_vma(List(p), a.area, 0), <<a.area, 0>>, p)]
  <2>1. PICK p \in First(free) :
                 /\ free' = free \ {p}
                 /\ mmap' = [mmap EXCEPT ![s] =
                        add_pages_block(List(p), find_vma(List(p), a.area, 0), <<a.area, 0>>, p)]
    BY <1>10
  <2>2. p \in free /\ p \in Pool /\ p \notin PagesIn(list) /\ p \in Frames
    BY <1>4, <1>41 DEF First, Frames
  <2>3. a.area = "data" /\ a.end = PageSize
    BY <1>6, <1>10 DEF AreaOK, IsShared, Areas
  <2> DEFINE w == NewVma("data", PageSize, p)
             new == add_pages_block(setup_vma(list, w), 1, <<"data", 0>>, p)
  <2>4. w \in Vma /\ w.area = "data" /\ w.end = PageSize
    BY <1>7, <1>8, <2>2, <2>3
  <2>5. find_vma(setup_vma(list, w), "data", 0) = 1
    <3>1. /\ setup_vma(list, w) \in Seq(Vma) /\ Len(setup_vma(list, w)) > 0
          /\ setup_vma(list, w)[1].area = "data" /\ 0 < setup_vma(list, w)[1].end
      <4>1. /\ setup_vma(list, w) \in Seq(Vma) /\ Len(setup_vma(list, w)) = Len(list) + 1
            /\ setup_vma(list, w)[1] = w
        BY <1>3, <2>4, Prepended
      <4>2. Len(list) \in Nat /\ PageSize > 0
        BY <1>3, SizesAssumption
      <4> QED BY <2>4, <4>1, <4>2
    <3> QED BY <3>1, FoundHead
  <2>6. mmap' = [mmap EXCEPT ![s] = new]
    BY <2>1, <2>3, <2>5
  <2>7. /\ ListOK(new) /\ Len(new) = Len(list) + 1
        /\ \A k \in 1..Len(list) : new[k + 1].area = list[k].area /\ new[k + 1].end = list[k].end
        /\ new[1].area = "data" /\ new[1].end = PageSize
        /\ BlocksIn(new) = BlocksIn(list) \cup {[v |-> <<"data", 0>>, page |-> p]}
    BY <1>3, <2>2, <2>4, DataOK
  <2> HIDE DEF new
  <2>8. CopyOf(GoesTo(at, orig), new, orig)
    <3>1. new[1].area = orig[at.vma].area /\ new[1].end = orig[at.vma].end
      BY <2>3, <2>7 DEF a
    <3>2. at.pb = 0
      BY <1>1
    <3> HIDE DEF a
    <3> QED BY <1>3, <2>7, <3>1, <3>2, CopyArea
  <2>9. <<"data", 0>> \in VPages
    BY DEF VPages, Areas
  <2>10. \E v \in VPages, q \in free :
            free' = free \ {q} /\ BlocksIn(new) = BlocksIn(list) \cup {[v |-> v, page |-> q]}
    BY <2>1, <2>2, <2>7, <2>9
  <2> QED BY <1>0, <1>1, <2>6, <2>7, <2>8, <2>10, ForkLoopStep DEF at, orig, list
<1> QED BY <1>2, <1>9, <1>10

(* The block of the parent's heap belongs into the child's area of the     *)
(* same size.                                                              *)
LEMMA ForkBlockSpace ==
    ASSUME IInv, SpaceInv, NEW c \in CPUs, ForkBlock(c)
    PROVE  SpaceInv'
<1>0. PICK t \in Tasks, s \in Tasks : t = cur[c] /\ s = fork[t].child
  BY ForkingIs DEF ForkBlock
<1> DEFINE at == fork[t]
           orig == mmap[t]
           list == mmap[s]
           a == orig[at.vma]
           b == a.blocks[at.pb]
           k == find_vma(list, a.area, 0)
<1>1. /\ Forking(c) /\ InLoop(t) /\ at.pb > 0 /\ k /= 0 /\ ForkGoesOn(t)
      /\ UNCHANGED <<state, pg_dir, tables, pte, brk, lost>>
  BY <1>0 DEF ForkBlock, ForkVma, history
<1>2. PICK p \in First(free) :
         free' = free \ {p} /\ mmap' = [mmap EXCEPT ![s] = add_pages_block(list, k, b.v, p)]
  <2>1. mmap[s] = list /\ mmap = [u \in Tasks |-> mmap[u]]
    BY DEF SpaceInv, SpaceTypes
  <2> QED BY <1>0, <2>1 DEF ForkBlock, ForkVma
<1>3. /\ ListOK(orig) /\ orig \in Seq(Vma) /\ ListOK(list) /\ list \in Seq(Vma)
      /\ CopyOf(at, list, orig)
  <2>1. ListOK(orig) /\ ListOK(list)
    BY DEF SpaceInv, SpaceOK
  <2>2. fork[t] /= NoFork
    BY <1>0, <1>1 DEF Forking
  <2>3. CopyOf(at, list, orig)
    BY <1>0, <2>2 DEF SpaceInv
  <2> QED BY <2>1, <2>3 DEF ListOK, AreasOK
<1>4. s \in Live /\ Own(s) \subseteq Pool \ free /\ free \subseteq Pool /\ p \in free
  BY <1>0, <1>1, ForkingIs DEF SpaceInv, Apart, SpaceTypes, First
<1>5. p \in Pool /\ p \notin PagesIn(list)
  BY <1>4, InUsed DEF Own
<1> HIDE DEF at, orig, list
<1>6. /\ at.vma \in Nat \ {0} /\ at.pb \in Nat /\ Len(list) = at.vma /\ at.vma <= Len(orig) /\ Len(orig) \in Nat
      /\ a.lma = Null /\ at.pb <= Len(a.blocks)
  BY <1>1, <1>3 DEF CopyOf, Copied
<1>7. at.vma \in 1..Len(orig) /\ at.pb \in 1..Len(a.blocks)
  <2>1. at.vma \in 1..Len(orig)
    BY <1>6
  <2>2. Len(a.blocks) \in Nat
    BY <1>3, <2>1, VmaType
  <2> HIDE DEF a
  <2> QED BY <1>1, <1>6, <2>1, <2>2
<1>8. AreaOK(a) /\ b.v \in VPages /\ a.end \in 0..MaxBrk /\ a.area \in Areas
  BY <1>3, <1>7, VmaType DEF ListOK, AreasOK, Vma
<1>9. a.area = "heap"
  BY <1>6, <1>8, Places DEF AreaOK, Areas
<1>10. b.v[1] = "heap" /\ b.v[2] < Upper(a.end)
  BY <1>7, <1>8, <1>9 DEF AreaOK
<1>11. a.end > 0
  <2>1. b.v[2] \in Nat /\ b.v \in HeapPages
    BY <1>8, <1>10, Places
  <2> QED BY <1>8, <1>10, <2>1, UpperIs
<1>12. k \in 1..Len(list) /\ list[k].area = "heap" /\ 0 < list[k].end
  BY <1>1, <1>3, <1>9, FoundVma
<1>13. list[k].end = a.end
  <2> HIDE DEF k
  <2> DEFINE m == Len(list) + 1 - k
  <2>1. m \in 1..Len(orig) /\ list[k].area = orig[m].area /\ list[k].end = orig[m].end
    BY <1>3, <1>6, <1>12 DEF CopyOf
  <2> HIDE DEF m
  <2>2. m = at.vma
    BY <1>3, <1>7, <1>9, <1>11, <1>12, <2>1 DEF ListOK, AreasOK, OneHeap
  <2> QED BY <2>1, <2>2
<1> DEFINE new == add_pages_block(list, k, b.v, p)
<1>14. /\ AreasOK(new) /\ BlocksIn(new) = BlocksIn(list) \cup {[v |-> b.v, page |-> p]}
       /\ Recorded(new) /\ Len(new) = Len(list)
       /\ \A l \in 1..Len(list) : new[l].area = list[l].area /\ new[l].end = list[l].end
  <2> HIDE DEF k, b
  <2>1. b.v[1] = list[k].area /\ (list[k].area = "heap" => b.v[2] < Upper(list[k].end))
    BY <1>10, <1>12, <1>13
  <2> QED BY <1>3, <1>5, <1>8, <1>12, <2>1, AppendOK DEF ListOK
<1> HIDE DEF new
<1>15. CopyOf(GoesTo(at, orig), new, orig)
  <2> HIDE DEF a
  <2> QED BY <1>1, <1>3, <1>14, CopyBlock
<1>16. mmap' = [mmap EXCEPT ![s] = new]
  BY <1>2 DEF new
<1>17. \E v \in VPages, q \in free :
            free' = free \ {q} /\ BlocksIn(new) = BlocksIn(list) \cup {[v |-> v, page |-> q]}
  BY <1>2, <1>4, <1>8, <1>14
<1>18. ListOK(new)
  BY <1>14 DEF ListOK
<1> QED BY <1>0, <1>1, <1>15, <1>16, <1>17, <1>18, ForkLoopStep DEF at, orig, list

(* setup_pg_for_addr stops the CPU: all that changes is that the pages it  *)
(* has taken are lost.                                                     *)
LEMMA NoTableStep ==
    ASSUME SpaceInv, NEW c \in CPUs, NoTable(c, free), UNCHANGED <<state, pg_dir, mmap, brk, fork>>
    PROVE  SpaceInv'
<1>1. UNCHANGED <<tables, pte>> /\ free' = {} /\ lost' = lost \cup free
  BY DEF NoTable
<1>2. \A u \in Tasks : Same(u)
  BY <1>1 DEF Same
<1>3. pg_dir' \in [Tasks -> Pool \cup {Null}] /\ brk' \in [Tasks -> 0..MaxBrk]
  BY DEF SpaceInv, SpaceTypes
<1> QED BY <1>1, <1>2, <1>3, FrameStep

(* The areas with a place in memory, and where they are.                   *)
WithPlace(list) == {<<list[k].area, 0>> : k \in HasLma(list)}

PlaceIn(list) == [v \in WithPlace(list) |-> list[find_vma(list, v[1], 0)].lma]

(* The program's areas are mapped to the image, or to blocks.              *)
ProgramMap(V, to, list) ==
    /\ V \subseteq {<<"text", 0>>, <<"data", 0>>}
    /\ \A v \in V : to[v] \in Frames \cup {Null}
    /\ <<"text", 0>> \in V => to[<<"text", 0>>] \notin Pool
    /\ <<"data", 0>> \in V /\ to[<<"data", 0>>] \in Pool =>
         [v |-> <<"data", 0>>, page |-> to[<<"data", 0>>]] \in BlocksIn(list)

(* setup_user_page_mappings maps the text to the image and the data to the *)
(* image or to the page that the copy of the area has in its block.        *)
LEMMA Placed ==
    ASSUME NEW list, ListOK(list)
    PROVE  ProgramMap(WithPlace(list), PlaceIn(list), list)
<1> DEFINE V == WithPlace(list)
           to == PlaceIn(list)
<1>0. list \in Seq(Vma) /\ \A k \in 1..Len(list) : AreaOK(list[k]) /\ list[k] \in Vma
  BY VmaType DEF ListOK, AreasOK
<1>1. ASSUME NEW k \in HasLma(list)
      PROVE  k \in 1..Len(list) /\ list[k].area \in {"text", "data"} /\ list[k].end = PageSize
  <2>1. k \in 1..Len(list) /\ list[k].lma /= Null
    BY DEF HasLma
  <2>2. list[k].area \in Areas /\ AreaOK(list[k])
    BY <1>0, <2>1 DEF Vma
  <2> QED BY <2>1, <2>2 DEF AreaOK, Areas
<1>2. V \subseteq {<<"text", 0>>, <<"data", 0>>}
  BY <1>1 DEF WithPlace
<1>3. ASSUME NEW v \in V
      PROVE  \E m \in 1..Len(list) : list[m].area = v[1] /\ to[v] = list[m].lma
  <2>1. PICK k \in HasLma(list) : v = <<list[k].area, 0>>
    BY DEF WithPlace
  <2>2. v[1] = list[k].area /\ k \in 1..Len(list) /\ 0 < list[k].end
    BY <1>1, <2>1, SizesAssumption
  <2>3. find_vma(list, v[1], 0) /= 0
    BY <1>0, <2>2, FoundSome
  <2>4. find_vma(list, v[1], 0) \in 1..Len(list) /\ list[find_vma(list, v[1], 0)].area = v[1]
    BY <1>0, <2>3, FoundVma
  <2>5. to[v] = list[find_vma(list, v[1], 0)].lma
    BY DEF PlaceIn
  <2> QED BY <2>4, <2>5
<1> HIDE DEF V, to
<1>4. ASSUME NEW v \in V PROVE to[v] \in Frames \cup {Null}
  <2>1. PICK m \in 1..Len(list) : list[m].area = v[1] /\ to[v] = list[m].lma
    BY <1>3
  <2> QED BY <1>0, <2>1 DEF Vma
<1>5. ASSUME <<"text", 0>> \in V PROVE to[<<"text", 0>>] \notin Pool
  <2>1. PICK m \in 1..Len(list) : list[m].area = "text" /\ to[<<"text", 0>>] = list[m].lma
    BY <1>3, <1>5
  <2> QED BY <1>0, <2>1, Places DEF AreaOK
<1>6. ASSUME <<"data", 0>> \in V, to[<<"data", 0>>] \in Pool
      PROVE  [v |-> <<"data", 0>>, page |-> to[<<"data", 0>>]] \in BlocksIn(list)
  <2>1. PICK m \in 1..Len(list) : list[m].area = "data" /\ to[<<"data", 0>>] = list[m].lma
    BY <1>3, <1>6
  <2> QED BY <1>6, <2>1 DEF ListOK, Recorded
<1>7. ProgramMap(V, to, list)
  BY <1>2, <1>4, <1>5, <1>6 DEF ProgramMap
<1> QED BY <1>7 DEF V, to

(* An address space without entries gets its tables and those for the      *)
(* program's areas.                                                        *)
LEMMA ImageMapped ==
    ASSUME SpaceTypes, NEW s \in Tasks, tables[s] = NoTables, pte[s] = NoEntries,
           NEW list, ListOK(list), NEW dir, Orderly(dir, NoTables, NoEntries, list),
           NEW avail \in SUBSET Pool, avail \cap Used(dir, NoTables, NoEntries, list) = {},
           NEW V, NEW to, ProgramMap(V, to, list), add_single_map(s, V, to, avail)
    PROVE  /\ tables' \in [Tasks -> [Tables -> Pool \cup {Null}]]
           /\ pte' \in [Tasks -> [VPages -> Frames \cup {Null}]]
           /\ \A u \in Tasks \ {s} : tables'[u] = tables[u] /\ pte'[u] = pte[u]
           /\ free' \subseteq avail
           /\ \A v \in HeapPages : pte'[s][v] = Null
           /\ Orderly(dir, tables'[s], pte'[s], list)
           /\ \A q : q \in Used(dir, tables'[s], pte'[s], list) <=>
                q \in Used(dir, NoTables, NoEntries, list) \/ (q \in avail /\ q \notin free')
<1>1. /\ V \in SUBSET VPages /\ <<"text", 0>> \in VPages /\ <<"data", 0>> \in VPages
      /\ \A v \in V : to[v] \in Frames \cup {Null}
  BY DEF VPages, Areas, ProgramMap
<1>2. /\ tables' \in [Tasks -> [Tables -> Pool \cup {Null}]]
      /\ pte' \in [Tasks -> [VPages -> Frames \cup {Null}]]
      /\ \A u \in Tasks \ {s} : tables'[u] = tables[u] /\ pte'[u] = pte[u]
      /\ MoreTables(tables[s], tables'[s], avail, free')
      /\ Filled(pte[s], pte'[s], V, to)
  BY <1>1, MapIs, Zenon
<1>3. \A v \in VPages : pte'[s][v] = IF v \in V THEN to[v] ELSE Null
  BY <1>2 DEF NoEntries, Filled
<1>4. \A v \in HeapPages : pte'[s][v] = Null
  BY <1>3, Places DEF ProgramMap
<1>5. /\ Orderly(dir, tables'[s], NoEntries, list)
      /\ Used(dir, tables'[s], NoEntries, list) = Used(dir, NoTables, NoEntries, list) \cup (avail \ free')
  BY <1>2, TablesOrderly
<1>6. /\ pte'[s][<<"text", 0>>] \notin Pool
      /\ pte'[s][<<"data", 0>>] \in Pool =>
           [v |-> <<"data", 0>>, page |-> pte'[s][<<"data", 0>>]] \in BlocksIn(list)
  BY <1>1, <1>3, Places DEF ProgramMap
<1>7. /\ Orderly(dir, tables'[s], pte'[s], list)
      /\ Used(dir, tables'[s], pte'[s], list) = Used(dir, tables'[s], NoEntries, list)
  <2> DEFINE tabs == tables'[s]
             ents == pte'[s]
  <2>1. /\ Orderly(dir, tabs, NoEntries, list) /\ \A v \in HeapPages : ents[v] = Null
        /\ ents[<<"text", 0>>] \notin Pool
        /\ ents[<<"data", 0>>] \in Pool =>
             [v |-> <<"data", 0>>, page |-> ents[<<"data", 0>>]] \in BlocksIn(list)
    BY <1>4, <1>5, <1>6
  <2> HIDE DEF tabs, ents
  <2>2. /\ Orderly(dir, tabs, ents, list)
        /\ Used(dir, tabs, ents, list) = Used(dir, tabs, NoEntries, list)
    BY <2>1, ImageOrderly
  <2> QED BY <2>2 DEF tabs, ents
<1>8. free' \subseteq avail
  BY <1>2 DEF MoreTables
<1> QED BY <1>2, <1>4, <1>5, <1>7, <1>8

(* sys_fork maps the copies of the areas that have a place in memory.      *)
LEMMA ForkEndsSpace ==
    ASSUME IInv, SpaceInv, NEW c \in CPUs, ForkEnds(c)
    PROVE  SpaceInv'
<1>0. PICK t \in Tasks, s \in Tasks : t = cur[c] /\ s = fork[t].child
  BY ForkingIs DEF ForkEnds
<1> DEFINE list == mmap[s]
           V == WithPlace(list)
           to == PlaceIn(list)
           dir == pg_dir[s]
<1>1. /\ Forking(c) /\ UNCHANGED <<pg_dir, mmap>>
      /\ \/ /\ add_single_map(s, V, to, free)
            /\ brk' = [brk EXCEPT ![s] = brk[t]]
            /\ state' = [state EXCEPT ![s] = "user"]
            /\ fork' = [fork EXCEPT ![t] = NoFork]
            /\ UNCHANGED lost
         \/ NoTable(c, free) /\ UNCHANGED <<brk, state, fork>>
  <2> DEFINE ch == fork[cur[c]].child
  <2>1. /\ Forking(c) /\ UNCHANGED <<pg_dir, mmap>>
        /\ \/ /\ add_single_map(ch, WithPlace(mmap[ch]), PlaceIn(mmap[ch]), free)
              /\ brk' = [brk EXCEPT ![ch] = brk[cur[c]]]
              /\ state' = [state EXCEPT ![ch] = "user"]
              /\ fork' = [fork EXCEPT ![cur[c]] = NoFork]
              /\ UNCHANGED lost
           \/ NoTable(c, free) /\ UNCHANGED <<brk, state, fork>>
    BY Zenon DEF ForkEnds, WithPlace, PlaceIn
  <2>2. ch = s /\ cur[c] = t
    BY <1>0
  <2> HIDE DEF ch
  <2> QED BY <2>1, <2>2
<1>2. CASE NoTable(c, free) /\ UNCHANGED <<brk, state, fork>>
  BY <1>1, <1>2, NoTableStep
<1>3. CASE /\ add_single_map(s, V, to, free)
           /\ brk' = [brk EXCEPT ![s] = brk[t]]
           /\ state' = [state EXCEPT ![s] = "user"]
           /\ fork' = [fork EXCEPT ![t] = NoFork]
           /\ UNCHANGED lost
  <2>1. /\ state[t] = "user" /\ state[s] = "building" /\ s \in Live
        /\ \A u \in Tasks \ {t} : fork[u] /= NoFork => u /= s /\ fork[u].child /= s /\ fork[u].child \in Tasks
    BY <1>0, <1>1, ForkingIs
  <2>2. /\ SpaceTypes /\ SpaceOK(s) /\ SpaceOK(t) /\ Own(s) \subseteq Pool \ free /\ free \subseteq Pool
        /\ CopyOf(fork[t], list, mmap[t])
    BY <1>0, <1>1, <2>1 DEF SpaceInv, Apart, SpaceTypes, Forking
  <2>3. /\ ListOK(list) /\ ListOK(mmap[t]) /\ tables[s] = NoTables /\ pte[s] = NoEntries
        /\ Orderly(dir, NoTables, NoEntries, list) /\ Own(s) = Used(dir, NoTables, NoEntries, list)
        /\ HeapEnds(brk[t], pte[t], mmap[t])
    BY <2>1, <2>2 DEF SpaceOK, Own
  <2>4. ProgramMap(V, to, list)
    BY <2>3, Placed
  <2>5. add_single_map(s, V, to, free)
    BY <1>3
  <2> HIDE DEF V, to, list, dir
  <2>6. /\ tables' \in [Tasks -> [Tables -> Pool \cup {Null}]]
        /\ pte' \in [Tasks -> [VPages -> Frames \cup {Null}]]
        /\ \A u \in Tasks \ {s} : tables'[u] = tables[u] /\ pte'[u] = pte[u]
        /\ free' \subseteq free
        /\ \A v \in HeapPages : pte'[s][v] = Null
        /\ Orderly(dir, tables'[s], pte'[s], list)
        /\ Used(dir, tables'[s], pte'[s], list) = Used(dir, NoTables, NoEntries, list) \cup (free \ free')
    <3>1. free \cap Used(dir, NoTables, NoEntries, list) = {}
      BY <2>2, <2>3
    <3>2. free \in SUBSET Pool
      BY <2>2
    <3>3. /\ SpaceTypes /\ tables[s] = NoTables /\ pte[s] = NoEntries /\ ListOK(list)
          /\ Orderly(dir, NoTables, NoEntries, list)
      BY <2>2, <2>3
    <3>4. /\ tables' \in [Tasks -> [Tables -> Pool \cup {Null}]]
          /\ pte' \in [Tasks -> [VPages -> Frames \cup {Null}]]
          /\ \A u \in Tasks \ {s} : tables'[u] = tables[u] /\ pte'[u] = pte[u]
          /\ free' \subseteq free
          /\ \A v \in HeapPages : pte'[s][v] = Null
          /\ Orderly(dir, tables'[s], pte'[s], list)
      BY <2>4, <2>5, <3>1, <3>2, <3>3, ImageMapped, Zenon
    <3>5. \A q : q \in Used(dir, tables'[s], pte'[s], list) <=>
              q \in Used(dir, NoTables, NoEntries, list) \/ (q \in free /\ q \notin free')
      BY <2>4, <2>5, <3>1, <3>2, <3>3, ImageMapped, Zenon
    <3> QED BY <3>4, <3>5
  <2>7. /\ state'[s] = "user" /\ brk'[s] = brk[t] /\ brk' \in [Tasks -> 0..MaxBrk]
        /\ \A u \in Tasks \ {s} : state'[u] = state[u] /\ brk'[u] = brk[u]
        /\ fork'[t] = NoFork /\ \A u \in Tasks \ {t} : fork'[u] = fork[u]
    BY <1>3, <2>2 DEF IInv, Shape, SpaceTypes
  <2>8. SpaceTypes'
    BY <1>1, <2>2, <2>6, <2>7 DEF SpaceTypes
  <2>9. \A u \in Tasks \ {s} : Same(u)
    BY <1>1, <2>6, <2>7 DEF Same
  <2>10. CopiesOK'
    BY <1>1, <2>1, <2>7, CopiesStep
  <2>11. HeapEnds(brk'[s], pte'[s], list)
    <3>1. ASSUME NEW k \in 1..Len(list), list[k].area = "heap" PROVE list[k].end \in {0, brk[t]}
      <4>1. /\ list[k].area = mmap[t][Len(list) + 1 - k].area
            /\ list[k].end = mmap[t][Len(list) + 1 - k].end
        BY <2>2 DEF CopyOf
      <4>2. Len(list) \in Nat /\ Len(mmap[t]) \in Nat /\ Len(list) <= Len(mmap[t])
        BY <2>2, <2>3 DEF CopyOf, ListOK, AreasOK
      <4>3. Len(list) + 1 - k \in 1..Len(mmap[t])
        BY <4>2
      <4> QED BY <2>3, <3>1, <4>1, <4>3 DEF HeapEnds
    <3> QED BY <2>6, <2>7, <3>1 DEF HeapEnds
  <2>12. SpaceOK(s)'
    BY <1>1, <2>3, <2>6, <2>7, <2>11 DEF SpaceOK, list, dir
  <2>13. Before(s) = Own(s) /\ Before(s)' = Own(s) \cup (free \ free')
    BY <1>1, <2>1, <2>3, <2>6, <2>7 DEF Before, Live, Own, list, dir
  <2>14. Moves(s)
    <3>1. Own(s) \cap free = {} /\ lost' = lost
      BY <1>3, <2>2
    <3> QED BY <2>6, <2>13, <3>1 DEF Moves
  <2> QED BY <2>8, <2>9, <2>10, <2>12, <2>14, OneTaskStep
<1> QED BY <1>1, <1>2, <1>3

(* A list without blocks and without a heap.                               *)
NoHeap(list) ==
    /\ ListOK(list) /\ BlocksIn(list) = {}
    /\ \A k \in 1..Len(list) : list[k].area /= "heap"

(* One more area of the program.                                           *)
LEMMA ImageArea ==
    ASSUME NEW list, NoHeap(list), NEW a \in {"text", "data"}
    PROVE  NoHeap(<<NewVma(a, PageSize, Lma(a))>> \o list)
<1> DEFINE w == NewVma(a, PageSize, Lma(a))
<1>1. /\ w.area = a /\ w.end = PageSize /\ w.lma = Lma(a) /\ w.blocks = <<>> /\ Len(w.blocks) = 0
  BY DEF NewVma
<1>2. w \in Vma
  BY SizesAssumption DEF NewVma, Vma, Frames, Areas
<1>3. AreaOK(w) /\ w.lma \notin Pool
  BY <1>1, Places DEF AreaOK
<1> HIDE DEF w
<1>4. list \in Seq(Vma) /\ Len(list) \in Nat
  BY DEF NoHeap, ListOK, AreasOK
<1>5. ListOK(setup_vma(list, w)) /\ BlocksIn(setup_vma(list, w)) = {}
  BY <1>1, <1>2, <1>3, SetupOK DEF NoHeap, ListOK
<1>6. ASSUME NEW k \in 1..Len(setup_vma(list, w)) PROVE setup_vma(list, w)[k].area /= "heap"
  <2>1. /\ Len(setup_vma(list, w)) = Len(list) + 1 /\ setup_vma(list, w)[1] = w
        /\ \A j \in 1..Len(list) : setup_vma(list, w)[j + 1] = list[j]
    BY <1>2, <1>4, Prepended
  <2>2. CASE k = 1
    BY <1>1, <2>1, <2>2
  <2>3. CASE k /= 1
    <3>1. PICK j \in 1..Len(list) : k = j + 1
      BY <1>4, <2>1, <2>3
    <3> QED BY <2>1, <3>1 DEF NoHeap
  <2> QED BY <2>2, <2>3
<1> QED BY <1>5, <1>6 DEF NoHeap, setup_vma, w

(* The areas of the first process: any of the program's.                   *)
LEMMA ImageList ==
    ASSUME NEW set_up,
           NEW list, list = (IF "data" \in set_up THEN <<NewVma("data", PageSize, Lma("data"))>> ELSE <<>>)
                            \o (IF "text" \in set_up THEN <<NewVma("text", PageSize, Lma("text"))>> ELSE <<>>)
    PROVE  NoHeap(list)
<1> DEFINE wt == NewVma("text", PageSize, Lma("text"))
           wd == NewVma("data", PageSize, Lma("data"))
           rest == IF "text" \in set_up THEN <<wt>> ELSE <<>>
<1>1. NoHeap(<<>>)
  BY NothingIn DEF NoHeap
<1>2. NoHeap(<<wt>> \o <<>>)
  BY <1>1, ImageArea
<1>3. <<wt>> \o <<>> = <<wt>>
  OBVIOUS
<1>4. NoHeap(rest)
  BY <1>1, <1>2, <1>3
<1>5. <<>> \o rest = rest
  OBVIOUS
<1> HIDE DEF rest
<1>6. NoHeap(<<wd>> \o rest)
  BY <1>4, ImageArea
<1>7. list = <<wd>> \o rest \/ list = <<>> \o rest
  BY DEF rest
<1> HIDE DEF wd, wt
<1> QED BY <1>4, <1>5, <1>6, <1>7

(* The first process.                                                      *)
LEMMA UserTestSpace ==
    ASSUME IInv, SpaceInv, NEW c \in CPUs, UserTest(c)
    PROVE  SpaceInv'
<1> DEFINE Lst(set_up) == (IF "data" \in set_up THEN <<NewVma("data", PageSize, Lma("data"))>> ELSE <<>>)
                            \o (IF "text" \in set_up THEN <<NewVma("text", PageSize, Lma("text"))>> ELSE <<>>)
           Img(V) == [v \in V |-> Lma(v[1])]
<1>1. PICK set_up \in SUBSET {"text", "data"}, dir \in First(free) :
        /\ pg_dir' = [pg_dir EXCEPT ![1] = dir]
        /\ mmap' = [mmap EXCEPT ![1] = Lst(set_up)]
        /\ add_single_map(1, {<<a, 0>> : a \in set_up}, Img({<<a, 0>> : a \in set_up}), free \ {dir})
  BY Zenon DEF UserTest
<1>2. /\ state[1] = "kernel" /\ brk' = [brk EXCEPT ![1] = PageSize]
      /\ state' = [state EXCEPT ![1] = "user"] /\ UNCHANGED <<fork, lost>>
  BY DEF UserTest, history
<1>3. 1 \in Tasks
  BY SizesAssumption DEF Tasks
<1>4. PICK list, V, to, avail :
        /\ list = Lst(set_up) /\ V = {<<a, 0>> : a \in set_up} /\ to = Img(V) /\ avail = free \ {dir}
        /\ add_single_map(1, V, to, avail)
  BY <1>1
<1>5. NoHeap(list)
  BY <1>4, ImageList
<1>6. ProgramMap(V, to, list)
  <2>1. V \subseteq {<<"text", 0>>, <<"data", 0>>}
    BY <1>4
  <2>2. \A v \in V : to[v] = Lma(v[1])
    BY <1>4
  <2>3. /\ <<"text", 0>> \in V => to[<<"text", 0>>] = Lma("text")
        /\ <<"data", 0>> \in V => to[<<"data", 0>>] = Lma("data")
    BY <2>2
  <2>4. \A v \in V : to[v] \in Frames \cup {Null}
    BY <2>1, <2>3 DEF Frames
  <2> QED BY <2>1, <2>3, <2>4, Places DEF ProgramMap
<1>7. /\ SpaceTypes /\ free \subseteq Pool /\ dir \in free /\ mmap[1] = <<>>
      /\ tables[1] = NoTables /\ pte[1] = NoEntries /\ dir \in Pool
  BY <1>2, <1>3 DEF SpaceInv, SpaceTypes, SpaceOK, First
<1>8. /\ Orderly(dir, NoTables, NoEntries, list)
      /\ Used(dir, NoTables, NoEntries, list) = {dir}
  BY <1>5, <1>7, EmptyOrderly DEF NoHeap
<1>9. avail \in SUBSET Pool /\ avail \cap Used(dir, NoTables, NoEntries, list) = {} /\ ListOK(list)
  BY <1>4, <1>5, <1>7, <1>8 DEF NoHeap
<1>10. /\ tables' \in [Tasks -> [Tables -> Pool \cup {Null}]]
       /\ pte' \in [Tasks -> [VPages -> Frames \cup {Null}]]
       /\ \A u \in Tasks \ {1} : tables'[u] = tables[u] /\ pte'[u] = pte[u]
       /\ free' \subseteq avail
       /\ \A v \in HeapPages : pte'[1][v] = Null
       /\ Orderly(dir, tables'[1], pte'[1], list)
       /\ \A q : q \in Used(dir, tables'[1], pte'[1], list) <=>
                q \in Used(dir, NoTables, NoEntries, list) \/ (q \in avail /\ q \notin free')
  <2>1. PICK s \in Tasks : s = 1
    BY <1>3
  <2>2. /\ SpaceTypes /\ tables[s] = NoTables /\ pte[s] = NoEntries /\ add_single_map(s, V, to, avail)
    BY <1>4, <1>7, <2>1
  <2>3. /\ tables' \in [Tasks -> [Tables -> Pool \cup {Null}]]
        /\ pte' \in [Tasks -> [VPages -> Frames \cup {Null}]]
        /\ \A u \in Tasks \ {s} : tables'[u] = tables[u] /\ pte'[u] = pte[u]
        /\ free' \subseteq avail
        /\ \A v \in HeapPages : pte'[s][v] = Null
        /\ Orderly(dir, tables'[s], pte'[s], list)
        /\ \A q : q \in Used(dir, tables'[s], pte'[s], list) <=>
                 q \in Used(dir, NoTables, NoEntries, list) \/ (q \in avail /\ q \notin free')
    BY <1>6, <1>8, <1>9, <2>2, ImageMapped, Zenon
  <2> QED BY <2>1, <2>3
<1>11. /\ pg_dir'[1] = dir /\ mmap'[1] = list /\ state'[1] = "user"
       /\ pg_dir' \in [Tasks -> Pool \cup {Null}] /\ mmap' = [u \in Tasks |-> mmap'[u]]
       /\ brk' \in [Tasks -> 0..MaxBrk]
       /\ \A u \in Tasks \ {1} : /\ pg_dir'[u] = pg_dir[u] /\ mmap'[u] = mmap[u]
                                 /\ state'[u] = state[u] /\ brk'[u] = brk[u]
  <2>1. mmap' = [mmap EXCEPT ![1] = list] /\ mmap = [u \in Tasks |-> mmap[u]]
    BY <1>1, <1>4, <1>7 DEF SpaceTypes
  <2>2. mmap'[1] = list /\ mmap' = [u \in Tasks |-> mmap'[u]] /\ \A u \in Tasks \ {1} : mmap'[u] = mmap[u]
    <3> HIDE DEF Lst, Img
    <3> QED BY <1>3, <2>1
  <2>3. PageSize \in 0..MaxBrk
    BY SizesAssumption
  <2> HIDE DEF Lst, Img
  <2>4. /\ pg_dir'[1] = dir /\ pg_dir' \in [Tasks -> Pool \cup {Null}]
        /\ \A u \in Tasks \ {1} : pg_dir'[u] = pg_dir[u]
    BY <1>1, <1>3, <1>7 DEF SpaceTypes
  <2>5. /\ brk' \in [Tasks -> 0..MaxBrk] /\ \A u \in Tasks \ {1} : brk'[u] = brk[u]
    BY <1>2, <1>3, <1>7, <2>3 DEF SpaceTypes
  <2>6. state'[1] = "user" /\ \A u \in Tasks \ {1} : state'[u] = state[u]
    BY <1>2, <1>3 DEF IInv, Shape
  <2> QED BY <2>2, <2>4, <2>5, <2>6
<1>12. SpaceTypes'
  BY <1>4, <1>7, <1>10, <1>11 DEF SpaceTypes
<1>13. \A u \in Tasks \ {1} : Same(u)
  BY <1>10, <1>11 DEF Same
<1>14. CopiesOK'
  <2>1. fork[1] = NoFork
    BY <1>2, <1>3 DEF IInv, OnCpu
  <2> QED BY <1>2, <1>3, <1>11, <2>1, UserApart, CopiesStep
<1>15. HeapEnds(brk'[1], pte'[1], list)
  BY <1>5, <1>10 DEF HeapEnds, NoHeap
<1>16. SpaceOK(1)'
  BY <1>9, <1>10, <1>11, <1>15 DEF SpaceOK
<1>17. Before(1) = {} /\ \A q : q \in Before(1)' <=> q = dir \/ (q \in free /\ q /= dir /\ q \notin free')
  BY <1>2, <1>3, <1>4, <1>8, <1>10, <1>11 DEF Before, Live, Own
<1>18. Moves(1)
  <2>1. free' \subseteq free /\ dir \notin free' /\ lost' = lost
    BY <1>2, <1>4, <1>10
  <2> QED BY <1>7, <1>17, <2>1 DEF Moves
<1> QED BY <1>3, <1>12, <1>13, <1>14, <1>16, <1>18, OneTaskStep

(* The page of an address inside an area.                                  *)
LEMMA PageIn ==
    ASSUME NEW a \in Areas, NEW off \in Offsets(a)
    PROVE  /\ PageOf(a, off) \in VPages /\ PageOf(a, off)[1] = a
           /\ a = "heap" => \A e \in 0..MaxBrk : off < e => PageOf(a, off)[2] < Upper(e)
<1>1. PageOf(a, off) = <<a, off \div PageSize>>
  BY DEF PageOf
<1>2. CASE a = "heap"
  <2>1. off \in 0..MaxBrk /\ off < MaxBrk /\ MaxBrk \in 0..MaxBrk
    BY <1>2, SizesAssumption DEF Offsets
  <2>2. off \div PageSize \in Nat /\ off \div PageSize < Upper(MaxBrk) /\ Upper(MaxBrk) \in Nat
    BY <2>1, SizesAssumption, DivBound, UpperIs
  <2>3. off \div PageSize \in 0..(Upper(MaxBrk) - 1)
    BY <2>2
  <2>4. <<a, off \div PageSize>> \in VPages
    BY <1>2, <2>3 DEF VPages, HeapPages
  <2>5. \A e \in 0..MaxBrk : off < e => off \div PageSize < Upper(e)
    BY <2>1, UpperIs
  <2> QED BY <1>1, <2>4, <2>5
<1>3. CASE a /= "heap"
  <2>1. off = 0 /\ off \div PageSize = 0
    BY <1>3, SizesAssumption DEF Offsets
  <2> QED BY <1>1, <1>3, <2>1 DEF VPages
<1> QED BY <1>2, <1>3

(* A fault takes a page and perhaps tables, and one of the process or of   *)
(* the lost pages is the page.                                             *)
LEMMA FaultStep ==
    ASSUME IInv, SpaceInv, NEW s \in Tasks, state[s] = "user", fork[s] = NoFork, NEW p \in free,
           NEW list, mmap' = [mmap EXCEPT ![s] = list], ListOK(list), HeapEnds(brk[s], pte'[s], list),
           UNCHANGED <<state, pg_dir, brk, fork>>,
           tables' \in [Tasks -> [Tables -> Pool \cup {Null}]],
           pte' \in [Tasks -> [VPages -> Frames \cup {Null}]],
           \A u \in Tasks \ {s} : tables'[u] = tables[u] /\ pte'[u] = pte[u],
           Orderly(pg_dir[s], tables'[s], pte'[s], list), free' \subseteq free \ {p},
           NEW X, Used(pg_dir[s], tables'[s], pte'[s], list) = Own(s) \cup ((free \ {p}) \ free') \cup X,
           X \subseteq {p}, lost \subseteq lost', p \in X \cup lost'
    PROVE  SpaceInv'
<1>1. /\ s \in Live /\ SpaceTypes /\ Own(s) \subseteq Pool \ free /\ free \subseteq Pool
  BY DEF SpaceInv, Apart, Live, SpaceTypes
<1>2. /\ mmap'[s] = list /\ mmap' = [u \in Tasks |-> mmap'[u]]
      /\ \A u \in Tasks \ {s} : mmap'[u] = mmap[u]
  BY <1>1 DEF SpaceTypes
<1>3. SpaceTypes'
  BY <1>1, <1>2 DEF SpaceTypes
<1>4. \A u \in Tasks \ {s} : Same(u)
  BY <1>2 DEF Same
<1>5. CopiesOK'
  BY <1>2, UserApart, CopiesStep
<1>6. SpaceOK(s)'
  BY <1>2 DEF SpaceOK
<1>7. Before(s) = Own(s) /\ Before(s)' = Own(s) \cup ((free \ {p}) \ free') \cup X
  BY <1>1, <1>2 DEF Before, Live, Own
<1>8. Moves(s)
  BY <1>1, <1>7 DEF Moves
<1> QED BY <1>3, <1>4, <1>5, <1>6, <1>8, OneTaskStep

(* A page fault maps and records a page, or loses it.                      *)
LEMMA PageFaultSpace ==
    ASSUME IInv, SpaceInv, NEW c \in CPUs, NEW a \in Areas, NEW off \in Offsets(a), PageFault(c, a, off)
    PROVE  SpaceInv'
<1>0. PICK s \in Tasks : s = cur[c]
  BY InUserIs DEF PageFault
<1>1. PICK v, k : v = PageOf(a, off) /\ k = find_vma(mmap[s], a, off)
  OBVIOUS
<1>2. InUser(c) /\ k /= 0 /\ UNCHANGED <<state, pg_dir, brk, fork>>
  BY <1>0, <1>1 DEF PageFault
<1>3. PICK p \in First(free) :
        \/ /\ add_single_map(s, {v}, [x \in {v} |-> p], free \ {p})
           /\ \/ mmap' = [mmap EXCEPT ![s] = add_pages_block(@, k, v, p)] /\ UNCHANGED lost
              \/ /\ lost' = lost \cup (IF pte[s][v] = Null THEN {} ELSE {p})
                 /\ UNCHANGED mmap
        \/ NoTable(c, free) /\ UNCHANGED mmap
  BY <1>0, <1>1 DEF PageFault
<1>4. CASE NoTable(c, free) /\ UNCHANGED mmap
  BY <1>2, <1>4, NoTableStep
<1>5. CASE /\ add_single_map(s, {v}, [x \in {v} |-> p], free \ {p})
           /\ \/ mmap' = [mmap EXCEPT ![s] = add_pages_block(@, k, v, p)] /\ UNCHANGED lost
              \/ /\ lost' = lost \cup (IF pte[s][v] = Null THEN {} ELSE {p})
                 /\ UNCHANGED mmap
  <2>1. PICK dir, tabs, ents, list, tabs2, ents2, avail, to :
          /\ dir = pg_dir[s] /\ tabs = tables[s] /\ ents = pte[s] /\ list = mmap[s]
          /\ tabs2 = tables'[s] /\ ents2 = pte'[s] /\ avail = free \ {p} /\ to = [x \in {v} |-> p]
    OBVIOUS
  <2>2. /\ state[s] = "user" /\ fork[s] = NoFork /\ s \in Live
    BY <1>0, <1>2, InUserIs
  <2>3. /\ SpaceTypes /\ free \subseteq Pool /\ Own(s) \subseteq Pool \ free /\ p \in free /\ p \in Pool
        /\ ents \in [VPages -> Frames \cup {Null}]
    BY <2>1, <2>2 DEF SpaceInv, SpaceTypes, Apart, First
  <2>4. /\ ListOK(list) /\ Orderly(dir, tabs, ents, list) /\ HeapEnds(brk[s], ents, list)
        /\ Own(s) = Used(dir, tabs, ents, list)
    BY <2>1, <2>2 DEF SpaceInv, SpaceOK, Own
  <2>5. /\ v \in VPages /\ v[1] = a
        /\ a = "heap" => \A e \in 0..MaxBrk : off < e => v[2] < Upper(e)
    BY <1>1, PageIn
  <2>6. /\ list \in Seq(Vma) /\ k \in 1..Len(list) /\ list[k].area = a /\ off < list[k].end
        /\ list[k].end \in 0..MaxBrk
    <3>1. list \in Seq(Vma)
      BY <2>4 DEF ListOK, AreasOK
    <3>2. k \in 1..Len(list) /\ list[k].area = a /\ off < list[k].end
      BY <1>1, <1>2, <2>1, <3>1, FoundVma
    <3> QED BY <3>1, <3>2, VmaType DEF Vma
  <2>7. /\ tables' \in [Tasks -> [Tables -> Pool \cup {Null}]]
        /\ pte' \in [Tasks -> [VPages -> Frames \cup {Null}]]
        /\ \A u \in Tasks \ {s} : tables'[u] = tables[u] /\ pte'[u] = pte[u]
        /\ MoreTables(tabs, tabs2, avail, free')
        /\ Filled(ents, ents2, {v}, to)
    <3>1. add_single_map(s, {v}, to, avail)
      BY <1>5, <2>1
    <3>2. {v} \in SUBSET VPages /\ avail \in SUBSET Pool
      BY <2>1, <2>3, <2>5
    <3>3. \A x \in {v} : to[x] \in Frames \cup {Null}
      BY <2>1, <2>3 DEF Frames
    <3>4. /\ tables' \in [Tasks -> [Tables -> Pool \cup {Null}]]
          /\ pte' \in [Tasks -> [VPages -> Frames \cup {Null}]]
          /\ \A u \in Tasks \ {s} : tables'[u] = tables[u] /\ pte'[u] = pte[u]
          /\ MoreTables(tables[s], tables'[s], avail, free')
          /\ Filled(pte[s], pte'[s], {v}, to)
      BY <2>3, <3>1, <3>2, <3>3, MapIs, Zenon
    <3> QED BY <2>1, <3>4
  <2>8. \A w \in VPages : ents2[w] = IF w = v /\ ents[w] = Null THEN p ELSE ents[w]
    <3>1. to[v] = p
      BY <2>1
    <3> QED BY <2>7, <3>1 DEF Filled
  <2>9. /\ Orderly(dir, tabs2, ents, list)
        /\ Used(dir, tabs2, ents, list) = Own(s) \cup (avail \ free')
    <3>1. avail \in SUBSET Pool /\ avail \cap Used(dir, tabs, ents, list) = {}
      BY <2>1, <2>3, <2>4
    <3> QED BY <2>4, <2>7, <3>1, TablesOrderly
  <2>10. free' \subseteq avail
    BY <2>7 DEF MoreTables
  <2>11. p \notin Used(dir, tabs2, ents, list)
    BY <2>1, <2>3, <2>9
  <2>12. /\ Orderly(dir, tabs2, ents2, list)
         /\ Used(dir, tabs2, ents2, list) =
              Own(s) \cup (avail \ free') \cup (IF ents[v] = Null THEN {p} ELSE {})
         /\ \A w \in VPages : ents2[w] = p => w = v
    <3>0. \A w \in VPages : ents[w] /= p
      BY <2>3, <2>11, InUsed
    <3>1. CASE ents[v] = Null
      <4>1. \A w \in VPages : ents2[w] = IF w = v THEN p ELSE ents[w]
        BY <2>8, <3>1
      <4>2. /\ Orderly(dir, tabs2, ents2, list)
            /\ Used(dir, tabs2, ents2, list) = Used(dir, tabs2, ents, list) \cup {p}
        BY <2>3, <2>5, <2>9, <2>11, <3>1, <4>1, EntryOrderly
      <4> QED BY <2>9, <3>0, <3>1, <4>1, <4>2
    <3>2. CASE ents[v] /= Null
      <4>1. ents2 \in [VPages -> Frames \cup {Null}]
        BY <2>1, <2>7
      <4>2. ents2 = ents
        BY <2>3, <2>8, <3>2, <4>1
      <4> QED BY <2>9, <3>0, <3>2, <4>2
    <3> QED BY <3>1, <3>2
  <2>13. \A w \in HeapPages : w[2] >= Upper(brk[s]) => ents2[w] = Null
    <3> SUFFICES ASSUME NEW w \in HeapPages, w[2] >= Upper(brk[s]) PROVE ents2[w] = Null
      OBVIOUS
    <3>1. w \in VPages /\ ents[w] = Null /\ w[2] \in Nat /\ w[1] = "heap"
      BY <2>4, Places DEF HeapEnds
    <3>2. CASE w = v
      <4>1. a = "heap" /\ v[2] < Upper(list[k].end)
        BY <2>5, <2>6, <3>1, <3>2
      <4>2. off \in Int
        BY <4>1 DEF Offsets
      <4>3. list[k].end \in {0, brk[s]} /\ Upper(list[k].end) \in Nat /\ Upper(0) = 0
        BY <2>4, <2>6, <4>1, UpperIs DEF HeapEnds
      <4> QED BY <3>1, <3>2, <4>1, <4>3
    <3>3. CASE w /= v
      BY <2>8, <3>1, <3>3
    <3> QED BY <3>2, <3>3
  <2>14. CASE mmap' = [mmap EXCEPT ![s] = add_pages_block(@, k, v, p)] /\ UNCHANGED lost
    <3>1. PICK new : new = add_pages_block(list, k, v, p)
      OBVIOUS
    <3>2. mmap' = [mmap EXCEPT ![s] = new]
      BY <2>1, <2>14, <3>1
    <3>3. p /= dir /\ p \notin PagesIn(list) /\ \A x \in Tables : tabs2[x] /= p
      BY <2>3, <2>11, InUsed, Places
    <3>4. /\ AreasOK(new) /\ Recorded(new) /\ Len(new) = Len(list)
          /\ BlocksIn(new) = BlocksIn(list) \cup {[v |-> v, page |-> p]}
          /\ \A l \in 1..Len(list) : new[l].area = list[l].area /\ new[l].end = list[l].end
      <4>1. AreasOK(list) /\ Recorded(list)
        BY <2>4 DEF ListOK
      <4>2. v[1] = list[k].area /\ (list[k].area = "heap" => v[2] < Upper(list[k].end))
        BY <2>5, <2>6
      <4> QED BY <2>3, <2>5, <2>6, <3>1, <3>3, <4>1, <4>2, AppendOK
    <3>5. /\ Orderly(dir, tabs2, ents2, new)
          /\ Used(dir, tabs2, ents2, new) = Used(dir, tabs2, ents2, list) \cup {p}
      BY <2>3, <2>5, <2>12, <3>3, <3>4, BlockOrderly DEF WithPage
    <3>6. Used(dir, tabs2, ents2, new) = Own(s) \cup (avail \ free') \cup {p}
      BY <2>12, <3>5
    <3>7. HeapEnds(brk[s], ents2, new) /\ ListOK(new)
      BY <2>4, <2>13, <3>4 DEF HeapEnds, ListOK
    <3>8. p \in {p} \cup lost' /\ {p} \subseteq {p} /\ lost \subseteq lost'
      BY <2>14
    <3> QED BY <1>2, <2>1, <2>2, <2>3, <2>7, <2>10, <3>2, <3>5, <3>6, <3>7, <3>8, FaultStep
  <2>15. CASE lost' = lost \cup (IF pte[s][v] = Null THEN {} ELSE {p}) /\ UNCHANGED mmap
    <3>1. mmap' = [mmap EXCEPT ![s] = list]
      BY <2>1, <2>3, <2>15 DEF SpaceTypes
    <3>2. PICK X : X = IF ents[v] = Null THEN {p} ELSE {}
      OBVIOUS
    <3>3. X \subseteq {p} /\ p \in X \cup lost' /\ lost \subseteq lost'
      BY <2>1, <2>15, <3>2
    <3>4. HeapEnds(brk[s], ents2, list)
      BY <2>4, <2>13 DEF HeapEnds
    <3>5. Used(dir, tabs2, ents2, list) = Own(s) \cup (avail \ free') \cup X
      BY <2>12, <3>2
    <3>6. Orderly(dir, tabs2, ents2, list) /\ ListOK(list)
      BY <2>4, <2>12
    <3> QED BY <1>2, <2>1, <2>2, <2>3, <2>7, <2>10, <3>1, <3>3, <3>4, <3>5, <3>6, FaultStep
  <2> QED BY <1>5, <2>14, <2>15
<1> QED BY <1>3, <1>4, <1>5

(* sys_brk found the heap's area, the only one of the heap that is not     *)
(* empty, or there is none.                                                *)
LEMMA HeapFound ==
    ASSUME NEW list, ListOK(list), NEW k, k = find_vma(list, "heap", 0)
    PROVE  /\ k /= 0 => /\ k \in 1..Len(list) /\ list[k].area = "heap" /\ list[k].end > 0
                        /\ \A l \in 1..Len(list) : l /= k /\ list[l].area = "heap" => list[l].end = 0
           /\ k = 0 => \A l \in 1..Len(list) : list[l].area = "heap" => list[l].end = 0
<1>0. list \in Seq(Vma) /\ OneHeap(list)
  BY DEF ListOK, AreasOK
<1>1. ASSUME NEW l \in 1..Len(list) PROVE list[l].end \in Nat
  <2>1. list[l] \in Vma
    BY <1>0, VmaType
  <2>2. list[l].end \in 0..MaxBrk
    BY <2>1 DEF Vma
  <2> QED BY <2>2
<1>2. ASSUME k /= 0
      PROVE  /\ k \in 1..Len(list) /\ list[k].area = "heap" /\ list[k].end > 0
             /\ \A l \in 1..Len(list) : l /= k /\ list[l].area = "heap" => list[l].end = 0
  <2>1. k \in 1..Len(list) /\ list[k].area = "heap" /\ 0 < list[k].end
    BY <1>0, <1>2, FoundVma
  <2> QED BY <1>0, <1>1, <2>1 DEF OneHeap
<1>3. ASSUME k = 0, NEW l \in 1..Len(list), list[l].area = "heap" PROVE list[l].end = 0
  <2>1. ~(0 < list[l].end)
    BY <1>0, <1>3, FoundSome
  <2> QED BY <1>1, <2>1
<1> QED BY <1>2, <1>3

(* The end of the heap stays or moves up: no page changes hands.           *)
LEMMA BrkStep ==
    ASSUME IInv, SpaceInv, NEW s \in Tasks, state[s] = "user", fork[s] = NoFork,
           NEW b \in 0..MaxBrk, Upper(b) >= Upper(brk[s]), HeapEndsAt(s, b, mmap[s]),
           brk' = [brk EXCEPT ![s] = b], UNCHANGED <<free, state, pg_dir, tables, pte, fork, lost>>
    PROVE  SpaceInv'
<1>0. PICK list, k : list = mmap[s] /\ k = find_vma(list, "heap", 0)
  OBVIOUS
<1>1. /\ SpaceTypes /\ SpaceOK(s) /\ s \in Live /\ ListOK(list) /\ brk[s] \in 0..MaxBrk
      /\ HeapEnds(brk[s], pte[s], list) /\ Orderly(pg_dir[s], tables[s], pte[s], list)
      /\ Own(s) \cap free = {}
  BY <1>0 DEF SpaceInv, Apart, SpaceTypes, SpaceOK, Live
<1>2. list \in Seq(Vma) /\ Upper(b) \in Nat /\ Upper(brk[s]) \in Nat
  BY <1>1, UpperIs DEF ListOK, AreasOK
<1>3. \E new : /\ mmap' = [mmap EXCEPT ![s] = new] /\ ListOK(new) /\ BlocksIn(new) = BlocksIn(list)
               /\ \A l \in 1..Len(new) : new[l].area = "heap" => new[l].end \in {0, b}
  <2>1. CASE k /= 0
    <3>1. PICK new : new = SetEnd(list, k, b)
      OBVIOUS
    <3>2. mmap' = [mmap EXCEPT ![s] = new]
      BY <1>0, <2>1, <3>1 DEF HeapEndsAt, HeapVma, SetEnd
    <3>3. /\ k \in 1..Len(list) /\ list[k].area = "heap" /\ list[k].end > 0
          /\ \A l \in 1..Len(list) : l /= k /\ list[l].area = "heap" => list[l].end = 0
      BY <1>0, <1>1, <2>1, HeapFound
    <3>4. list[k].end = brk[s]
      BY <1>1, <3>3 DEF HeapEnds
    <3>5. Upper(list[k].end) <= Upper(b)
      BY <1>2, <3>4
    <3>6. /\ ListOK(new) /\ Len(new) = Len(list) /\ BlocksIn(new) = BlocksIn(list)
          /\ \A l \in 1..Len(list) : l /= k => new[l] = list[l]
          /\ new[k].end = b
      BY <1>1, <3>1, <3>3, <3>5, EndOK
    <3>7. \A l \in 1..Len(new) : new[l].area = "heap" => new[l].end \in {0, b}
      BY <3>3, <3>6
    <3> QED BY <3>2, <3>6, <3>7
  <2>2. CASE k = 0
    <3>1. \A l \in 1..Len(list) : list[l].area = "heap" => list[l].end = 0
      BY <1>0, <1>1, <2>2, HeapFound
    <3>2. CASE mmap' = [mmap EXCEPT ![s] = list]
      BY <1>1, <3>1, <3>2
    <3>3. CASE mmap' = [mmap EXCEPT ![s] = setup_vma(list, NewVma("heap", b, Null))]
      <4>1. PICK w, new : w = NewVma("heap", b, Null) /\ new = setup_vma(list, w)
        OBVIOUS
      <4>2. w \in Vma /\ w.area = "heap" /\ w.end = b /\ w.lma = Null /\ w.blocks = <<>> /\ Len(w.blocks) = 0
        BY <4>1 DEF NewVma, Vma, Areas
      <4>3. AreaOK(w) /\ w.lma \notin Pool
        BY <4>2, Places DEF AreaOK
      <4>4. \A l \in 1..Len(list) : ~(list[l].area = "heap" /\ list[l].end > 0)
        BY <3>1
      <4>5. ListOK(new) /\ BlocksIn(new) = BlocksIn(list)
        BY <1>1, <4>1, <4>2, <4>3, <4>4, SetupOK DEF ListOK
      <4>6. ASSUME NEW l \in 1..Len(new), new[l].area = "heap" PROVE new[l].end \in {0, b}
        <5>0. Len(list) \in Nat
          BY <1>2
        <5>01. /\ Len(setup_vma(list, w)) = Len(list) + 1 /\ setup_vma(list, w)[1] = w
               /\ \A j \in 1..Len(list) : setup_vma(list, w)[j + 1] = list[j]
          BY <1>2, <4>2, Prepended
        <5>1. /\ Len(new) = Len(list) + 1 /\ new[1] = w /\ Len(list) \in Nat
              /\ \A j \in 1..Len(list) : new[j + 1] = list[j]
          BY <4>1, <5>0, <5>01
        <5>2. CASE l = 1
          BY <4>2, <5>1, <5>2
        <5>3. CASE l /= 1
          <6>1. PICK j \in 1..Len(list) : l = j + 1
            BY <5>1, <5>3
          <6> QED BY <3>1, <4>6, <5>1, <6>1
        <5> QED BY <5>2, <5>3
      <4> QED BY <3>3, <4>1, <4>5, <4>6
    <3> QED BY <1>0, <2>2, <3>2, <3>3 DEF HeapEndsAt, HeapVma
  <2> QED BY <2>1, <2>2
<1>4. PICK new : /\ mmap' = [mmap EXCEPT ![s] = new] /\ ListOK(new) /\ BlocksIn(new) = BlocksIn(list)
                 /\ \A l \in 1..Len(new) : new[l].area = "heap" => new[l].end \in {0, b}
  BY <1>3
<1>5. /\ mmap'[s] = new /\ mmap' = [u \in Tasks |-> mmap'[u]]
      /\ \A u \in Tasks \ {s} : mmap'[u] = mmap[u]
  BY <1>1, <1>4 DEF SpaceTypes
<1>6. brk'[s] = b /\ brk' \in [Tasks -> 0..MaxBrk] /\ \A u \in Tasks \ {s} : brk'[u] = brk[u]
  BY <1>1 DEF SpaceTypes
<1>7. HeapEnds(b, pte[s], new)
  <2>1. ASSUME NEW v \in HeapPages, v[2] >= Upper(b) PROVE pte[s][v] = Null
    <3>1. v[2] \in Nat
      BY Places
    <3>2. v[2] >= Upper(brk[s])
      BY <1>2, <2>1, <3>1
    <3> QED BY <1>1, <3>2 DEF HeapEnds
  <2> QED BY <1>4, <2>1 DEF HeapEnds
<1>8. /\ Orderly(pg_dir[s], tables[s], pte[s], new)
      /\ Used(pg_dir[s], tables[s], pte[s], new) = Own(s)
  BY <1>0, <1>1, <1>4, SameBlocks DEF Own
<1>9. SpaceTypes'
  BY <1>1, <1>5, <1>6 DEF SpaceTypes
<1>10. \A u \in Tasks \ {s} : Same(u)
  BY <1>5, <1>6 DEF Same
<1>11. CopiesOK'
  BY <1>5, UserApart, CopiesStep
<1>12. SpaceOK(s)'
  BY <1>4, <1>5, <1>6, <1>7, <1>8 DEF SpaceOK
<1>13. Before(s) = Own(s) /\ Before(s)' = Own(s)
  BY <1>1, <1>5, <1>8 DEF Before, Live, Own
<1>14. Moves(s)
  BY <1>1, <1>13 DEF Moves
<1> QED BY <1>9, <1>10, <1>11, <1>12, <1>14, OneTaskStep

(* brk stays: at most an area for the heap is made.                        *)
LEMMA BrkQuerySpace ==
    ASSUME IInv, SpaceInv, NEW c \in CPUs, BrkQuery(c)
    PROVE  SpaceInv'
<1>0. PICK s \in Tasks : s = cur[c]
  BY InUserIs DEF BrkQuery
<1>1. /\ InUser(c) /\ HeapEndsAt(s, brk[s], mmap[s])
      /\ UNCHANGED <<free, state, pg_dir, tables, pte, fork, lost>> /\ brk' = brk
  BY <1>0 DEF BrkQuery, history
<1>2. state[s] = "user" /\ fork[s] = NoFork
  BY <1>0, <1>1, InUserIs
<1>3. brk[s] \in 0..MaxBrk /\ brk' = [brk EXCEPT ![s] = brk[s]]
  BY <1>1 DEF SpaceInv, SpaceTypes
<1>4. Upper(brk[s]) >= Upper(brk[s])
  BY <1>3, UpperIs
<1>5. PICK b \in 0..MaxBrk : b = brk[s]
  BY <1>3
<1> QED BY <1>1, <1>2, <1>3, <1>4, <1>5, BrkStep

(* brk moves the end of the heap up.                                       *)
LEMMA BrkGrowsSpace ==
    ASSUME IInv, SpaceInv, NEW c \in CPUs, NEW b \in 0..MaxBrk, BrkGrows(c, b)
    PROVE  SpaceInv'
<1>0. PICK s \in Tasks : s = cur[c]
  BY InUserIs DEF BrkGrows
<1>1. /\ InUser(c) /\ HeapEndsAt(s, b, mmap[s]) /\ Upper(b) >= Upper(brk[s])
      /\ UNCHANGED <<free, state, pg_dir, tables, pte, fork, lost>> /\ brk' = [brk EXCEPT ![s] = b]
  BY <1>0 DEF BrkGrows, history
<1>2. state[s] = "user" /\ fork[s] = NoFork
  BY <1>0, <1>1, InUserIs
<1> QED BY <1>1, <1>2, BrkStep

(* All blocks of the heap are in the area that is not empty.               *)
LEMMA HeapBlocks ==
    ASSUME NEW list, ListOK(list), NEW k \in 1..Len(list), list[k].area = "heap", list[k].end > 0,
           NEW q \in BlocksIn(list), q.v \in HeapPages
    PROVE  \E j \in 1..Len(list[k].blocks) : list[k].blocks[j] = q
<1>0. list \in Seq(Vma) /\ OneHeap(list)
  BY DEF ListOK, AreasOK
<1>1. PICK l \in 1..Len(list) : \E i \in 1..Len(list[l].blocks) : list[l].blocks[i] = q
  BY InBlocks
<1>2. AreaOK(list[l]) /\ list[l].end \in 0..MaxBrk
  BY <1>0, VmaType DEF ListOK, AreasOK, Vma
<1>3. q.v[1] = "heap" /\ q.v[2] \in Nat
  BY Places
<1>4. list[l].area = "heap" /\ q.v[2] < Upper(list[l].end)
  BY <1>1, <1>2, <1>3 DEF AreaOK
<1>5. list[l].end > 0
  BY <1>2, <1>3, <1>4, UpperIs
<1>6. l = k
  BY <1>0, <1>4, <1>5 DEF OneHeap
<1> QED BY <1>1, <1>6

(* brk clears entries of the heap, and drops the blocks of their pages.    *)
Cleared(ents, left, gone) == \A v \in VPages : left[v] = IF v \in gone THEN Null ELSE ents[v]

(* What this does to the pages in use: no page that was mapped at gone is  *)
(* left, and all others are, except for those of blocks that were dropped. *)
Shrunk(used, rest, ents, list, gone) ==
    /\ \A v \in gone : ents[v] /= Null => ents[v] \in used /\ ents[v] \notin rest
    /\ rest \subseteq used
    /\ \A p \in used : \/ p \in rest
                       \/ p /= Null /\ \E v \in gone : ents[v] = p
                       \/ \E q \in BlocksIn(list) : q.v \in gone /\ q.page = p

(* An address space stays in order when a part of the heap goes; a page    *)
(* that was mapped there has no other use in it.                           *)
LEMMA ClearedOrderly ==
    ASSUME NEW dir, NEW tabs, NEW ents, NEW list, Orderly(dir, tabs, ents, list),
           NEW gone \in SUBSET HeapPages,
           NEW left, Cleared(ents, left, gone), NEW new, BlocksIn(new) = Without(list, gone)
    PROVE  /\ Orderly(dir, tabs, left, new)
           /\ Shrunk(Used(dir, tabs, ents, list), Used(dir, tabs, left, new), ents, list, gone)
<1>00. /\ \A v \in VPages : left[v] = IF v \in gone THEN Null ELSE ents[v]
       /\ BlocksIn(new) = {q \in BlocksIn(list) : q.v \notin gone}
  BY DEF Cleared, Without
<1>0. /\ Null \notin Pool /\ gone \subseteq VPages /\ BlocksIn(new) \subseteq BlocksIn(list)
      /\ \A q \in BlocksIn(new) : q.v \notin gone
  BY <1>00, Places
<1>1. PagesIn(new) \subseteq PagesIn(list)
  BY <1>0 DEF PagesIn
<1>2. \A v \in VPages : left[v] \in Pool => left[v] = ents[v] /\ v \notin gone
  BY <1>0, <1>00
<1>3. \A v \in HeapPages : left[v] \in Pool \cup {Null}
  BY <1>00, Places DEF Orderly
<1>4. ASSUME NEW v \in VPages, left[v] \in Pool
      PROVE  /\ left[v] /= dir
             /\ \A x \in Tables : left[v] /= tabs[x]
             /\ \A w \in VPages : left[w] = left[v] => w = v
             /\ \A b \in BlocksIn(new) : b.page = left[v] => b.v = v
  <2>1. ents[v] \in Pool /\ left[v] = ents[v]
    BY <1>2, <1>4
  <2>2. \A w \in VPages : left[w] = left[v] => ents[w] = ents[v]
    BY <1>2, <1>4, <2>1
  <2> QED BY <1>0, <2>1, <2>2 DEF Orderly
<1>5. Orderly(dir, tabs, left, new)
  <2>1. dir \in Pool \ PagesIn(new) /\ \A x \in Tables : tabs[x] \notin {dir} \cup PagesIn(new)
    BY <1>1 DEF Orderly
  <2>2. \A x, y \in Tables : tabs[x] /= Null /\ tabs[x] = tabs[y] => x = y
    BY DEF Orderly
  <2> QED BY <1>3, <1>4, <2>1, <2>2 DEF Orderly
<1>6. ASSUME NEW v \in gone, ents[v] /= Null
      PROVE  ents[v] \in Used(dir, tabs, ents, list) /\ ents[v] \notin Used(dir, tabs, left, new)
  <2>1. ents[v] \in Pool /\ v \in VPages
    BY <1>0, <1>6 DEF Orderly
  <2>2. ents[v] /= dir /\ \A x \in Tables : ents[v] /= tabs[x]
    BY <2>1 DEF Orderly
  <2>3. ents[v] \notin PagesIn(new)
    <3> SUFFICES ASSUME NEW q \in BlocksIn(new), q.page = ents[v] PROVE FALSE
      BY DEF PagesIn
    <3>1. q.v = v
      BY <1>0, <2>1 DEF Orderly
    <3> QED BY <1>0, <3>1
  <2>4. \A w \in VPages : left[w] /= ents[v]
    <3> SUFFICES ASSUME NEW w \in VPages, left[w] = ents[v] PROVE FALSE
      OBVIOUS
    <3>1. left[w] = ents[w] /\ w \notin gone
      BY <1>2, <2>1
    <3>2. w = v
      BY <2>1, <3>1 DEF Orderly
    <3> QED BY <3>1, <3>2
  <2> QED BY <2>1, <2>2, <2>3, <2>4, InUsed
<1>7. ASSUME NEW p \in Used(dir, tabs, left, new) PROVE p \in Used(dir, tabs, ents, list)
  BY <1>1, <1>2, InUsed
<1>8. ASSUME NEW p \in Used(dir, tabs, ents, list)
      PROVE  \/ p \in Used(dir, tabs, left, new)
             \/ p /= Null /\ \E v \in gone : ents[v] = p
             \/ \E q \in BlocksIn(list) : q.v \in gone /\ q.page = p
  <2>1. CASE p \in PagesIn(list)
    <3>1. PICK q \in BlocksIn(list) : q.page = p
      BY <2>1 DEF PagesIn
    <3>2. q.v \notin gone => p \in PagesIn(new)
      BY <1>00, <3>1 DEF PagesIn
    <3> QED BY <3>1, <3>2, InUsed
  <2>2. CASE p \in Pool /\ \E v \in VPages : ents[v] = p
    <3>1. PICK v \in VPages : ents[v] = p
      BY <2>2
    <3>2. v \notin gone => left[v] = p
      BY <1>00, <3>1
    <3> QED BY <1>0, <2>2, <3>1, <3>2, InUsed
  <2>3. CASE p = dir \/ (p /= Null /\ \E x \in Tables : tabs[x] = p)
    BY <2>3, InUsed
  <2> QED BY <2>1, <2>2, <2>3, InUsed
<1> QED BY <1>5, <1>6, <1>7, <1>8 DEF Shrunk

(* The pages between the ends are pages of the heap, and those of the heap *)
(* that are not among them are below the new end.                          *)
LEMMA BeyondIs ==
    ASSUME NEW s \in Tasks, brk[s] \in 0..MaxBrk, NEW b \in 0..MaxBrk
    PROVE  /\ Beyond(s, b) \in SUBSET HeapPages
           /\ \A v \in HeapPages : v \notin Beyond(s, b) /\ v[2] < Upper(brk[s]) => v[2] < Upper(b)
           /\ \A v \in HeapPages : v \notin Beyond(s, b) /\ v[2] >= Upper(b) => v[2] >= Upper(brk[s])
<1>1. Upper(b) \in Nat /\ Upper(brk[s]) \in Nat /\ Upper(MaxBrk) \in Nat /\ Upper(brk[s]) <= Upper(MaxBrk)
  BY UpperIs, SizesAssumption
<1>2. Beyond(s, b) \in SUBSET HeapPages
  BY <1>1 DEF Beyond, HeapPages
<1>3. ASSUME NEW v \in HeapPages, v \notin Beyond(s, b)
      PROVE  ~(v[2] >= Upper(b) /\ v[2] < Upper(brk[s])) /\ v[2] \in Nat
  <2>1. v = <<"heap", v[2]>> /\ v[2] \in Nat
    BY Places
  <2>2. ASSUME v[2] >= Upper(b), v[2] < Upper(brk[s]) PROVE FALSE
    <3>1. v[2] \in Upper(b)..(Upper(brk[s]) - 1)
      BY <1>1, <2>1, <2>2
    <3> QED BY <1>3, <2>1, <3>1 DEF Beyond
  <2> QED BY <2>1, <2>2
<1> QED BY <1>1, <1>2, <1>3

(* brk frees the pages beyond the new end, and loses those that are only   *)
(* in blocks.                                                              *)
LEMMA BrkShrinksSpace ==
    ASSUME IInv, SpaceInv, NEW c \in CPUs, NEW b \in 0..MaxBrk, BrkShrinks(c, b)
    PROVE  SpaceInv'
<1>0. PICK s \in Tasks : s = cur[c]
  BY InUserIs DEF BrkShrinks
<1>1. PICK list, k, gone : list = mmap[s] /\ k = find_vma(list, "heap", 0) /\ gone = Beyond(s, b)
  OBVIOUS
<1>2. /\ InUser(c) /\ k /= 0
      /\ free' = free \cup Unmapped(s, gone)
      /\ lost' = lost \cup ({list[k].blocks[j].page :
                               j \in {i \in 1..Len(list[k].blocks) : list[k].blocks[i].v \in gone}}
                             \ Unmapped(s, gone))
      /\ pte' = [pte EXCEPT ![s] = [v \in VPages |-> IF v \in gone THEN Null ELSE pte[s][v]]]
      /\ brk' = [brk EXCEPT ![s] = b]
      /\ UNCHANGED <<state, pg_dir, tables, fork>>
  BY <1>0, <1>1 DEF BrkShrinks, HeapVma
<1>3. PICK kept \in Kept(list[k].blocks, gone) :
         HeapEndsAt(s, b, [list EXCEPT ![k].blocks = kept])
  BY <1>0, <1>1 DEF BrkShrinks, HeapVma
<1>4. PICK new : new = SetEnd(SetBlocks(list, k, kept), k, b)
  OBVIOUS
<1>5. mmap' = [mmap EXCEPT ![s] = new]
  BY <1>1, <1>2, <1>3, <1>4 DEF HeapEndsAt, HeapVma, SetBlocks, SetEnd
<1>6. /\ SpaceTypes /\ SpaceOK(s) /\ s \in Live /\ ListOK(list) /\ brk[s] \in 0..MaxBrk
      /\ HeapEnds(brk[s], pte[s], list) /\ Orderly(pg_dir[s], tables[s], pte[s], list)
      /\ Own(s) \subseteq Pool \ free /\ free \subseteq Pool
      /\ state[s] = "user" /\ fork[s] = NoFork
  BY <1>0, <1>1, <1>2, InUserIs DEF SpaceInv, Apart, SpaceTypes, SpaceOK
<1>7. /\ k \in 1..Len(list) /\ list[k].area = "heap" /\ list[k].end > 0
      /\ \A l \in 1..Len(list) : l /= k /\ list[l].area = "heap" => list[l].end = 0
  BY <1>1, <1>2, <1>6, HeapFound
<1>8. /\ gone \in SUBSET HeapPages
      /\ \A v \in HeapPages : v \notin gone /\ v[2] < Upper(brk[s]) => v[2] < Upper(b)
      /\ \A v \in HeapPages : v \notin gone /\ v[2] >= Upper(b) => v[2] >= Upper(brk[s])
  BY <1>1, <1>6, BeyondIs
<1>9. ASSUME NEW j \in 1..Len(list[k].blocks), list[k].blocks[j].v \notin gone
      PROVE  list[k].blocks[j].v[2] < Upper(b)
  <2>1. list[k].blocks[j].v \in VPages
    BY <1>6, <1>7, VmaType DEF ListOK, AreasOK
  <2>2. list[k].blocks[j].v[1] = "heap" /\ list[k].blocks[j].v[2] < Upper(list[k].end)
    BY <1>6, <1>7 DEF ListOK, AreasOK, AreaOK
  <2>3. list[k].end = brk[s]
    BY <1>6, <1>7 DEF HeapEnds
  <2>4. list[k].blocks[j].v \in HeapPages
    BY <2>1, <2>2, Places
  <2> QED BY <1>8, <1>9, <2>2, <2>3, <2>4
<1>91. EndsBefore(list[k].blocks, gone, b)
  BY <1>9 DEF EndsBefore
<1>92. ListOK(list) /\ k \in 1..Len(list) /\ list[k].area = "heap" /\ list[k].end > 0
  BY <1>6, <1>7
<1>93. gone \in SUBSET HeapPages
  BY <1>8
<1>94. HeapCut(list, new, k, gone, b)
  BY <1>4, <1>91, <1>92, <1>93, KeptOK, Zenon
<1>10. /\ ListOK(new) /\ Len(new) = Len(list)
       /\ \A l \in 1..Len(list) : l /= k => new[l] = list[l]
       /\ new[k].area = "heap" /\ new[k].end = b
       /\ BlocksIn(new) = Without(list, gone)
  BY <1>94 DEF HeapCut
<1>11. /\ mmap'[s] = new /\ mmap' = [u \in Tasks |-> mmap'[u]]
       /\ \A u \in Tasks \ {s} : mmap'[u] = mmap[u]
  BY <1>5, <1>6 DEF SpaceTypes
<1>12. /\ brk'[s] = b /\ brk' \in [Tasks -> 0..MaxBrk] /\ \A u \in Tasks \ {s} : brk'[u] = brk[u]
  BY <1>2, <1>6 DEF SpaceTypes
<1>13. /\ pte' \in [Tasks -> [VPages -> Frames \cup {Null}]]
       /\ \A u \in Tasks \ {s} : pte'[u] = pte[u]
       /\ \A v \in VPages : pte'[s][v] = IF v \in gone THEN Null ELSE pte[s][v]
  BY <1>2, <1>6 DEF SpaceTypes
<1>14. PICK left : left = pte'[s]
  OBVIOUS
<1>15. \A v \in VPages : left[v] = IF v \in gone THEN Null ELSE pte[s][v]
  BY <1>13, <1>14
<1>151. Cleared(pte[s], left, gone)
  BY <1>15 DEF Cleared
<1>16. /\ Orderly(pg_dir[s], tables[s], left, new)
       /\ Shrunk(Used(pg_dir[s], tables[s], pte[s], list), Used(pg_dir[s], tables[s], left, new),
                 pte[s], list, gone)
  BY <1>6, <1>8, <1>10, <1>151, ClearedOrderly
<1>17. HeapEnds(b, left, new)
  <2>1. \A l \in 1..Len(new) : new[l].area = "heap" => new[l].end \in {0, b}
    BY <1>7, <1>10
  <2>2. ASSUME NEW v \in HeapPages, v[2] >= Upper(b) PROVE left[v] = Null
    BY <1>6, <1>8, <1>15, <2>2, Places DEF HeapEnds
  <2> QED BY <2>1, <2>2 DEF HeapEnds
<1>18. Before(s) = Used(pg_dir[s], tables[s], pte[s], list)
  BY <1>1, <1>6 DEF Before, Own
<1>19. Before(s)' = Used(pg_dir[s], tables[s], left, new)
  BY <1>2, <1>6, <1>11, <1>14 DEF Before, Live, Own
<1>20. \A p : p \in Unmapped(s, gone) <=> p /= Null /\ \E v \in gone : pte[s][v] = p
  BY DEF Unmapped
<1>21. ASSUME NEW q \in BlocksIn(list), q.v \in gone PROVE q.page \in lost' \cup free'
  <2>1. q.v \in HeapPages
    BY <1>8, <1>21
  <2>2. PICK j \in 1..Len(list[k].blocks) : list[k].blocks[j] = q
    BY <1>6, <1>7, <2>1, HeapBlocks
  <2> QED BY <1>2, <1>21, <2>2
<1>22. Moves(s)
  <2>1. Before(s) \cap free = {}
    BY <1>1, <1>6, <1>18 DEF Own
  <2>2. free' \cap Before(s)' = {}
    BY <1>2, <1>16, <1>18, <1>19, <1>20, <2>1 DEF Shrunk
  <2>3. free' \cup Before(s)' \subseteq free \cup Before(s)
    BY <1>2, <1>16, <1>18, <1>19, <1>20 DEF Shrunk
  <2>4. free \cup lost \subseteq free' \cup lost'
    BY <1>2
  <2>5. ASSUME NEW p \in Before(s) PROVE p \in free' \cup lost' \cup Before(s)'
    BY <1>2, <1>16, <1>18, <1>19, <1>20, <1>21 DEF Shrunk
  <2> QED BY <2>2, <2>3, <2>4, <2>5 DEF Moves
<1>23. SpaceTypes'
  <2>1. free' \subseteq Pool
    BY <1>2, <1>1, <1>6, <1>16, <1>20 DEF Own, Shrunk
  <2> QED BY <1>2, <1>6, <1>11, <1>12, <1>13, <2>1 DEF SpaceTypes
<1>24. \A u \in Tasks \ {s} : Same(u)
  BY <1>2, <1>11, <1>12, <1>13 DEF Same
<1>25. CopiesOK'
  BY <1>2, <1>6, <1>11, UserApart, CopiesStep
<1>26. SpaceOK(s)'
  BY <1>2, <1>6, <1>10, <1>11, <1>12, <1>14, <1>16, <1>17 DEF SpaceOK
<1> QED BY <1>22, <1>23, <1>24, <1>25, <1>26, OneTaskStep

(* At the start all pages are free.                                        *)
LEMMA InitSpace == Init => SpaceInv
<1> SUFFICES ASSUME Init PROVE SpaceInv
  OBVIOUS
<1>1. /\ free = Pool /\ Live = {} /\ \A t \in Tasks : state[t] \in {"kernel", "unused"}
  BY DEF Init, Live
<1>2. NoTables \in [Tables -> Pool \cup {Null}] /\ NoEntries \in [VPages -> Frames \cup {Null}]
  BY DEF NoTables, NoEntries
<1>3. SpaceTypes
  BY <1>2, SizesAssumption DEF Init, SpaceTypes
<1>4. \A t \in Tasks : SpaceOK(t)
  BY <1>1, NothingIn DEF Init, SpaceOK
<1>5. \A t \in Tasks : fork[t] = NoFork
  BY DEF Init
<1>6. Apart /\ Known
  BY <1>1 DEF Apart, Known
<1> QED BY <1>3, <1>4, <1>5, <1>6 DEF SpaceInv

(* Every action keeps the pages in order.                                  *)
LEMMA NextSpace == IInv /\ SpaceInv /\ [Next]_vars => SpaceInv'
<1> SUFFICES ASSUME IInv, SpaceInv, [Next]_vars PROVE SpaceInv'
  OBVIOUS
<1>1. ASSUME UNCHANGED <<free, state, pg_dir, tables, pte, mmap, brk, fork, lost>> PROVE SpaceInv'
  <2>1. \A u \in Tasks : Same(u)
    BY <1>1 DEF Same
  <2>2. pg_dir' \in [Tasks -> Pool \cup {Null}] /\ brk' \in [Tasks -> 0..MaxBrk]
    BY <1>1 DEF SpaceInv, SpaceTypes
  <2> QED BY <1>1, <2>1, <2>2, FrameStep
<1>2. CASE UNCHANGED vars
  BY <1>1, <1>2 DEF vars, space, history
<1>3. ASSUME NEW c \in CPUs, NEW v, NEW b, Schedule(c) \/ Touch(c, v) \/ BrkPanics(c, b)
      PROVE  SpaceInv'
  BY <1>1, <1>3 DEF Schedule, Touch, BrkPanics, space, history
<1>4. ASSUME NEW c \in CPUs, \E a \in Areas : \E off \in Offsets(a) : PageFault(c, a, off)
      PROVE  SpaceInv'
  BY <1>4, PageFaultSpace
<1>5. ASSUME NEW c \in CPUs, \/ ForkFailsEarly(c) \/ ForkBegins(c) \/ ForkArea(c)
                            \/ ForkBlock(c) \/ ForkFails(c) \/ ForkEnds(c)
      PROVE  SpaceInv'
  BY <1>5, ForkFailsEarlySpace, ForkBeginsSpace, ForkAreaSpace, ForkBlockSpace, ForkFailsSpace,
     ForkEndsSpace
<1>6. ASSUME NEW c \in CPUs, BrkQuery(c) \/ \E b \in 0..MaxBrk : BrkGrows(c, b) \/ BrkShrinks(c, b)
      PROVE  SpaceInv'
  BY <1>6, BrkQuerySpace, BrkGrowsSpace, BrkShrinksSpace
<1>7. ASSUME NEW c \in CPUs, UserTest(c) \/ do_exit(c) PROVE SpaceInv'
  BY <1>7, UserTestSpace, ExitSpace
<1>8. CASE Next
  <2>1. PICK c \in CPUs :
          \/ Schedule(c) \/ UserTest(c) \/ do_exit(c)
          \/ \E v \in VPages \cap Watched : Touch(c, v)
          \/ \E a \in Areas : \E off \in Offsets(a) : PageFault(c, a, off)
          \/ ForkFailsEarly(c) \/ ForkBegins(c) \/ ForkArea(c) \/ ForkBlock(c)
          \/ ForkFails(c) \/ ForkEnds(c)
          \/ BrkQuery(c)
          \/ \E b \in 0..MaxBrk : BrkGrows(c, b) \/ BrkShrinks(c, b) \/ BrkPanics(c, b)
    BY <1>8 DEF Next
  <2>2. CASE UserTest(c) \/ do_exit(c)
    BY <1>7, <2>2
  <2>3. CASE \E a \in Areas : \E off \in Offsets(a) : PageFault(c, a, off)
    BY <1>4, <2>3
  <2>4. CASE \/ ForkFailsEarly(c) \/ ForkBegins(c) \/ ForkArea(c)
             \/ ForkBlock(c) \/ ForkFails(c) \/ ForkEnds(c)
    BY <1>5, <2>4
  <2>5. CASE BrkQuery(c) \/ \E b \in 0..MaxBrk : BrkGrows(c, b) \/ BrkShrinks(c, b)
    BY <1>6, <2>5
  <2>6. CASE \/ Schedule(c)
             \/ \E v \in VPages \cap Watched : Touch(c, v)
             \/ \E b \in 0..MaxBrk : BrkPanics(c, b)
    BY <1>3, <2>6
  <2> QED BY <2>1, <2>2, <2>3, <2>4, <2>5, <2>6
<1> QED BY <1>2, <1>8

(* The three kinds of pages that a task holds.                             *)
IsDir(t, h) == h = <<t, "dir", 0, 0, pg_dir[t]>>

IsTable(t, h, x) == x \in Tables /\ tables[t][x] /= Null /\ h = <<t, "table", x, 0, tables[t][x]>>

IsBlock(t, h, k, j) ==
    /\ k \in 1..Len(mmap[t]) /\ j \in 1..Len(mmap[t][k].blocks)
    /\ h = <<t, "block", k, j, mmap[t][k].blocks[j].page>>

(* What a task holds is one of these.                                      *)
LEMMA Kinds ==
    ASSUME NEW t, NEW h
    PROVE  h \in Holdings(t) <=> \/ IsDir(t, h)
                                 \/ \E x : IsTable(t, h, x)
                                 \/ \E k, j : IsBlock(t, h, k, j)
<1>1. h \in {<<t, "dir", 0, 0, pg_dir[t]>>} <=> IsDir(t, h)
  BY DEF IsDir
<1>2. h \in {<<t, "table", x, 0, tables[t][x]>> : x \in {y \in Tables : tables[t][y] /= Null}}
        <=> \E x : IsTable(t, h, x)
  BY DEF IsTable
<1>3. h \in UNION {{<<t, "block", k, j, mmap[t][k].blocks[j].page>> :
                      j \in 1..Len(mmap[t][k].blocks)} : k \in 1..Len(mmap[t])}
        <=> \E k, j : IsBlock(t, h, k, j)
  BY DEF IsBlock
<1> QED BY <1>1, <1>2, <1>3, Zenon DEF Holdings

(* The page of a block is among the pages of the list.                     *)
LEMMA BlockHeld ==
    ASSUME NEW t, NEW h, NEW k, NEW j, IsBlock(t, h, k, j)
    PROVE  h[5] \in PagesIn(mmap[t])
<1>1. h[5] = mmap[t][k].blocks[j].page
  BY DEF IsBlock
<1>2. mmap[t][k].blocks[j] \in BlocksIn(mmap[t])
  BY InBlocks DEF IsBlock
<1> QED BY <1>1, <1>2 DEF PagesIn

(* What a task holds is among its pages, and these it holds or maps.       *)
LEMMA HeldIs ==
    ASSUME SpaceInv, NEW t \in Live
    PROVE  /\ \A h \in Holdings(t) : h[5] \in Own(t)
           /\ Held(t) \cup Reachable(t) = Own(t)
<1>1. ASSUME NEW h \in Holdings(t) PROVE h[5] \in Own(t)
  <2>1. CASE IsDir(t, h)
    BY <2>1, InUsed DEF IsDir, Own
  <2>2. ASSUME NEW x, IsTable(t, h, x) PROVE h[5] \in Own(t)
    BY <2>2, InUsed DEF IsTable, Own
  <2>3. ASSUME NEW k, NEW j, IsBlock(t, h, k, j) PROVE h[5] \in Own(t)
    BY <2>3, BlockHeld, InUsed DEF Own
  <2> QED BY <2>1, <2>2, <2>3, Kinds
<1>2. ASSUME NEW p \in Reachable(t) PROVE p \in Own(t)
  BY InUsed DEF Own, Reachable
<1>3. ASSUME NEW p \in Own(t) PROVE p \in Held(t) \cup Reachable(t)
  <2>1. CASE p = pg_dir[t]
    <3>1. PICK h : h = <<t, "dir", 0, 0, pg_dir[t]>>
      OBVIOUS
    <3>2. h \in Holdings(t) /\ h[5] = p
      BY <2>1, <3>1, Kinds DEF IsDir
    <3> QED BY <3>2 DEF Held
  <2>2. CASE p \in PagesIn(mmap[t])
    <3>1. PICK q \in BlocksIn(mmap[t]) : q.page = p
      BY <2>2 DEF PagesIn
    <3>2. PICK k \in 1..Len(mmap[t]) : \E j \in 1..Len(mmap[t][k].blocks) : mmap[t][k].blocks[j] = q
      BY InBlocks
    <3>3. PICK j \in 1..Len(mmap[t][k].blocks) : mmap[t][k].blocks[j] = q
      BY <3>2
    <3>4. PICK h : h = <<t, "block", k, j, mmap[t][k].blocks[j].page>>
      OBVIOUS
    <3>5. IsBlock(t, h, k, j) /\ h[5] = p
      BY <3>1, <3>3, <3>4 DEF IsBlock
    <3>6. h \in Holdings(t)
      BY <3>5, Kinds
    <3> QED BY <3>5, <3>6 DEF Held
  <2>3. CASE p /= Null /\ \E x \in Tables : tables[t][x] = p
    <3>1. PICK x \in Tables : tables[t][x] = p
      BY <2>3
    <3>2. PICK h : h = <<t, "table", x, 0, tables[t][x]>>
      OBVIOUS
    <3>3. IsTable(t, h, x) /\ h[5] = p
      BY <2>3, <3>1, <3>2 DEF IsTable
    <3>4. h \in Holdings(t)
      BY <3>3, Kinds
    <3> QED BY <3>3, <3>4 DEF Held
  <2>4. CASE p \in Pool /\ \E v \in VPages : pte[t][v] = p
    BY <2>4 DEF Reachable
  <2> QED BY <2>1, <2>2, <2>3, <2>4, InUsed DEF Own
<1> QED BY <1>1, <1>2, <1>3 DEF Held

(* Within one address space, a page is one thing.                          *)
LEMMA HeldOnce ==
    ASSUME SpaceInv, NEW t \in Live, NEW g \in Holdings(t), NEW h \in Holdings(t), g[5] = h[5]
    PROVE  g = h
<1>0. Orderly(pg_dir[t], tables[t], pte[t], mmap[t]) /\ Distinct(mmap[t])
  BY DEF SpaceInv, SpaceOK, Live, ListOK, AreasOK
<1>1. ASSUME NEW a, NEW b, a[5] = b[5], IsDir(t, a), ~IsDir(t, b), b \in Holdings(t) PROVE FALSE
  <2>1. b[5] = pg_dir[t]
    BY <1>1 DEF IsDir
  <2>2. ASSUME NEW x, IsTable(t, b, x) PROVE FALSE
    BY <1>0, <2>1, <2>2 DEF IsTable, Orderly
  <2>3. ASSUME NEW k, NEW j, IsBlock(t, b, k, j) PROVE FALSE
    BY <1>0, <2>1, <2>3, BlockHeld DEF Orderly
  <2> QED BY <1>1, <2>2, <2>3, Kinds
<1>2. ASSUME NEW a, NEW b, a[5] = b[5], NEW x, IsTable(t, a, x), NEW k, NEW j, IsBlock(t, b, k, j) PROVE FALSE
  <2>1. a[5] = tables[t][x] /\ x \in Tables
    BY <1>2 DEF IsTable
  <2>2. b[5] \in PagesIn(mmap[t])
    BY <1>2, BlockHeld
  <2> QED BY <1>0, <1>2, <2>1, <2>2 DEF Orderly
<1>3. CASE IsDir(t, g) /\ IsDir(t, h)
  BY <1>3 DEF IsDir
<1>4. ASSUME NEW x, IsTable(t, g, x), NEW y, IsTable(t, h, y) PROVE g = h
  <2>1. tables[t][x] = tables[t][y]
    BY <1>4 DEF IsTable
  <2>2. x \in Tables /\ y \in Tables /\ tables[t][x] /= Null
    BY <1>4 DEF IsTable
  <2>3. \A v, w \in Tables : tables[t][v] /= Null /\ tables[t][v] = tables[t][w] => v = w
    BY <1>0 DEF Orderly
  <2>4. x = y
    BY <2>1, <2>2, <2>3
  <2> QED BY <1>4, <2>4 DEF IsTable
<1>5. ASSUME NEW k, NEW j, IsBlock(t, g, k, j), NEW l, NEW i, IsBlock(t, h, l, i) PROVE g = h
  <2>1. mmap[t][k].blocks[j].page = mmap[t][l].blocks[i].page
    BY <1>5 DEF IsBlock
  <2>2. k = l /\ j = i
    <3>1. /\ k \in 1..Len(mmap[t]) /\ j \in 1..Len(mmap[t][k].blocks)
          /\ l \in 1..Len(mmap[t]) /\ i \in 1..Len(mmap[t][l].blocks)
      BY <1>5 DEF IsBlock
    <3>2. Distinct(mmap[t])
      BY <1>0
    <3>3. SamePlace(k, j, l, i)
      BY <2>1, <3>1, <3>2, OneBlock, Zenon
    <3> QED BY <3>3 DEF SamePlace
  <2> QED BY <1>5, <2>2 DEF IsBlock
<1>6. g[5] = h[5] /\ h[5] = g[5]
  OBVIOUS
<1> QED BY <1>1, <1>2, <1>3, <1>4, <1>5, <1>6, Kinds

(* The invariant gives every page one use.                                 *)
LEMMA SpaceOneUse == SpaceInv => OneUse
<1> SUFFICES ASSUME SpaceInv PROVE OneUse
  OBVIOUS
<1> DEFINE all == UNION {Holdings(t) : t \in Live}
<1>0. /\ \A t \in Live : Own(t) \subseteq Pool \ free
      /\ \A t, u \in Live : t /= u => Own(t) \cap Own(u) = {}
  BY DEF SpaceInv, Apart
<1>1. ASSUME NEW g \in all, NEW h \in all, g[5] = h[5] PROVE g = h
  <2>1. PICK t \in Live : g \in Holdings(t)
    OBVIOUS
  <2>2. PICK u \in Live : h \in Holdings(u)
    OBVIOUS
  <2>3. g[5] \in Own(t) /\ h[5] \in Own(u)
    BY <2>1, <2>2, HeldIs
  <2>4. t = u
    BY <1>0, <1>1, <2>3
  <2> QED BY <1>1, <2>1, <2>2, <2>4, HeldOnce
<1>2. ASSUME NEW h \in all PROVE h[5] \notin free
  <2>1. PICK t \in Live : h \in Holdings(t)
    OBVIOUS
  <2> QED BY <1>0, <2>1, HeldIs
<1>3. ASSUME NEW t \in Live
      PROVE  Reachable(t) \cap (free \cup UNION {Held(u) \cup Reachable(u) : u \in Live \ {t}}) = {}
  <2>1. Reachable(t) \subseteq Own(t)
    BY HeldIs
  <2>2. ASSUME NEW u \in Live \ {t} PROVE Reachable(t) \cap (Held(u) \cup Reachable(u)) = {}
    <3>1. Held(u) \cup Reachable(u) = Own(u) /\ Own(t) \cap Own(u) = {}
      BY <1>0, HeldIs
    <3> QED BY <2>1, <3>1
  <2>3. Reachable(t) \cap free = {}
    BY <1>0, <2>1
  <2> QED BY <2>2, <2>3
<1> QED BY <1>1, <1>2, <1>3 DEF OneUse

(* The invariant accounts for every page.                                  *)
LEMMA SpaceLost == SpaceInv => LostForAReason
<1> SUFFICES ASSUME SpaceInv, NEW p \in Pool
             PROVE  p \in free \cup lost \cup UNION {Held(t) \cup Reachable(t) : t \in Live}
  BY DEF LostForAReason
<1>1. p \in free \cup lost \/ \E t \in Live : p \in Own(t)
  BY DEF SpaceInv, Known
<1>2. \A t \in Live : Held(t) \cup Reachable(t) = Own(t)
  BY HeldIs
<1> QED BY <1>1, <1>2

(* The blocks of the heap are in an area, and the area ends at brk.        *)
LEMMA SpaceHeap == SpaceInv => HeapEndsAtBrk
<1> SUFFICES ASSUME SpaceInv, NEW t \in Tasks, state[t] = "user"
             PROVE  /\ \A v \in HeapPages : v[2] >= Upper(brk[t]) => pte[t][v] = Null
                    /\ \A k \in 1..Len(mmap[t]) : \A j \in 1..Len(mmap[t][k].blocks) :
                         mmap[t][k].area = "heap" => mmap[t][k].blocks[j].v[2] < Upper(brk[t])
  BY DEF HeapEndsAtBrk
<1>1. /\ ListOK(mmap[t]) /\ HeapEnds(brk[t], pte[t], mmap[t]) /\ brk[t] \in 0..MaxBrk
  BY DEF SpaceInv, SpaceOK, SpaceTypes
<1>2. ASSUME NEW k \in 1..Len(mmap[t]), NEW j \in 1..Len(mmap[t][k].blocks), mmap[t][k].area = "heap"
      PROVE  mmap[t][k].blocks[j].v[2] < Upper(brk[t])
  <2>1. mmap[t] \in Seq(Vma) /\ AreaOK(mmap[t][k])
    BY <1>1 DEF ListOK, AreasOK
  <2>2. mmap[t][k].blocks[j].v \in VPages
    BY <2>1, VmaType
  <2>3. mmap[t][k].blocks[j].v[1] = "heap" /\ mmap[t][k].blocks[j].v[2] < Upper(mmap[t][k].end)
    BY <1>2, <2>1 DEF AreaOK
  <2>4. mmap[t][k].blocks[j].v[2] \in Nat
    BY <2>2, <2>3, Places
  <2>5. mmap[t][k].end \in {0, brk[t]}
    BY <1>1, <1>2 DEF HeapEnds
  <2>6. Upper(0) = 0 /\ Upper(brk[t]) \in Nat
    BY <1>1, UpperIs
  <2> QED BY <2>3, <2>4, <2>5, <2>6
<1> QED BY <1>1, <1>2 DEF HeapEnds

(* A page is free, or one table or one block of one process; and no        *)
(* process can reach a free page or one that another process uses.  So     *)
(* fork, page faults, brk and exit never free a page twice, and never hand *)
(* out one that is in use, for any number of processes, areas, blocks and  *)
(* pages.                                                                  *)
THEOREM AddressSpaceOneUse == Spec => []OneUse
BY InitInv, NextInv, InitSpace, NextSpace, SpaceOneUse, PTL DEF Spec

(* exit_mm, brk and the error paths of sys_fork and do_el0_sync lose no    *)
(* page but in the ways that are marked in the actions: every page is      *)
(* free, in the hands of a live process, or lost for one of them.          *)
THEOREM AddressSpaceLostForAReason == Spec => []LostForAReason
BY InitInv, NextInv, InitSpace, NextSpace, SpaceLost, PTL DEF Spec

(* Beyond the end of the heap nothing is mapped and no block is kept, also *)
(* after fork has copied the areas, the blocks and brk one by one.         *)
THEOREM AddressSpaceHeapEndsAtBrk == Spec => []HeapEndsAtBrk
BY InitInv, NextInv, InitSpace, NextSpace, SpaceHeap, PTL DEF Spec
=============================================================================

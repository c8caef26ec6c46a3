---------------------------- MODULE AddressSpace ----------------------------
(***************************************************************************)
(* The memory of user processes: page tables (mm/page_table.c), areas and  *)
(* their blocks of pages (kernel/sched.c), fork, brk and page faults       *)
(* (kernel/isr.c), and the TLB of each CPU.  A process runs on the CPU of  *)
(* its slot only; its pid is its address space identifier.                 *)
(*                                                                         *)
(* text stands for the areas that all processes share (text, rodata, the   *)
(* UART), data for those that have a place in the kernel image (data and   *)
(* bss), heap for the anonymous ones; the stack is one that brk never      *)
(* moves.  text and data have one page each.  An address is an area and an *)
(* offset in it.                                                           *)
(***************************************************************************)
EXTENDS Integers, Sequences, FiniteSets

CONSTANTS
    NumCPUs,        \* NUM_CPUS
    NumTasks,       \* MAX_NUM_PROCESSES
    NumPages,       \* pages that get_free_pages can hand out
    PageSize,       \* PAGE_SIZE
    MaxBrk,         \* MAX_BRK_ADDR, counted from start_brk
    PagesPerTable,  \* pages under one table of the last layer
    MaxVmas,        \* bound: areas of one process
    MaxLeaks,       \* bound: pages that page faults leave to be lost
    MaxForks,       \* bound: calls of fork that get a slot and a pg_dir
    Watched         \* bound: the pages whose translations are followed

ASSUME SizesAssumption ==
    /\ NumCPUs \in Nat \ {0} /\ NumTasks \in Nat \ {0}
    /\ NumPages \in Nat /\ NumPages >= 3     \* tables of the first process
    /\ PageSize \in Nat \ {0} /\ MaxBrk \in Nat \ {0} /\ PageSize <= MaxBrk
    /\ PagesPerTable \in Nat \ {0} /\ MaxVmas \in Nat /\ MaxLeaks \in Nat /\ MaxForks \in Nat
    /\ Watched \subseteq {"text", "data", "heap"} \X Nat

CPUs == 0..(NumCPUs - 1)

Tasks == 1..NumTasks

(* The slots that get_next_proc of a CPU looks at.                         *)
Home(t) == (t - 1) % NumCPUs

Pool == 1..NumPages

Null == 0

(* Pages of the kernel image that hold the program's text and data.        *)
Lma(area) == IF area = "text" THEN NumPages + 1 ELSE NumPages + 2

(* UPPER_PAGE_ADDR, as a number of pages.                                  *)
Upper(off) == (off + PageSize - 1) \div PageSize

Areas == {"text", "data", "heap"}

HeapPages == {<<"heap", i>> : i \in 0..(Upper(MaxBrk) - 1)}

VPages == {<<a, 0>> : a \in Areas \ {"heap"}} \cup HeapPages

(* PAGE_ADDR                                                               *)
PageOf(area, off) == <<area, off \div PageSize>>

(* The table of the last layer that a page is in (get_pg_entry_index); all *)
(* of them hang on table 0 of the middle layer.                            *)
Leaf(v) == IF v[1] = "heap" THEN 1 + (v[2] \div PagesPerTable) ELSE 1

Tables == {0} \cup {Leaf(v) : v \in VPages}

VARIABLES
    free,       \* the pages that are not in use
    state,      \* task_struct.state
    pg_dir,     \* task_struct.pg_dir
    tables,     \* the tables of the middle and the last layer, by place
    pte,        \* the entries of the last layer
    mmap,       \* mm_struct.mmap: the list of areas
    brk,        \* mm_struct.brk, counted from start_brk
    fork,       \* where a process is in sys_fork
    cur,        \* the process on each CPU, 0 if none
    ttbr0,      \* TTBR0_EL1 of each CPU: address space identifier and table
    tlb,        \* the translations that each CPU remembers
    halted,     \* the CPUs that panic or a failed assertion has stopped
    lost,       \* history: pages that nobody will ever free, for one of the
                \* known reasons
    forks       \* history: calls of fork, for the bound

space == <<pg_dir, tables, pte, mmap, brk>>
cpu == <<cur, ttbr0, halted>>
history == <<lost, forks>>
vars == <<free, state, space, fork, cpu, tlb, history>>

Frames == Pool \cup {Lma("text"), Lma("data")}

(* struct pages_block; pages are allocated one by one.                     *)
Block == [v : VPages, page : Pool]

(* struct vm_area_struct; lma is Null for the anonymous areas (-1).        *)
Vma == [area : Areas, end : 0..MaxBrk, lma : Frames \cup {Null}, blocks : Seq(Block)]

(* sys_fork at area vma, and at block pb of it once the area is set up.    *)
ForkState == [child : Tasks \cup {0}, vma : Nat, pb : Nat]

NoFork == [child |-> 0, vma |-> 0, pb |-> 0]

(* page is Null in what is left over from a process that had the same pid. *)
Translation == [asid : Tasks, v : VPages, page : Frames \cup {Null}]

NoTables == [x \in Tables |-> Null]

NoEntries == [v \in VPages |-> Null]

TypeOK ==
    /\ free \subseteq Pool
    /\ state \in [Tasks -> {"unused", "kernel", "building", "user", "stopped"}]
    /\ pg_dir \in [Tasks -> Pool \cup {Null}]
    /\ tables \in [Tasks -> [Tables -> Pool \cup {Null}]]
    /\ pte \in [Tasks -> [VPages -> Frames \cup {Null}]]
    /\ mmap \in [Tasks -> Seq(Vma)]
    /\ brk \in [Tasks -> 0..MaxBrk]
    /\ fork \in [Tasks -> ForkState]
    /\ cur \in [CPUs -> Tasks \cup {0}]
    /\ ttbr0 \in [CPUs -> [asid : Tasks \cup {0}, dir : Pool \cup {Null}]]
    /\ tlb \in [CPUs -> SUBSET Translation]
    /\ halted \subseteq CPUs
    /\ lost \subseteq Pool
    /\ forks \in Nat

(* kernel_thread has made task 1, which will become the first process.     *)
Init ==
    /\ free = Pool
    /\ state = [t \in Tasks |-> IF t = 1 THEN "kernel" ELSE "unused"]
    /\ pg_dir = [t \in Tasks |-> Null]
    /\ tables = [t \in Tasks |-> NoTables]
    /\ pte = [t \in Tasks |-> NoEntries]
    /\ mmap = [t \in Tasks |-> <<>>]
    /\ brk = [t \in Tasks |-> 0]
    /\ fork = [t \in Tasks |-> NoFork]
    /\ cur = [c \in CPUs |-> 0]
    /\ ttbr0 = [c \in CPUs |-> [asid |-> 0, dir |-> Null]]
    /\ tlb = [c \in CPUs |-> {}]
    /\ halted = {}
    /\ lost = {}
    /\ forks = 0

(* The CPU executes code of its process, in user mode.                     *)
InUser(c) ==
    /\ c \notin halted
    /\ cur[c] /= 0
    /\ state[cur[c]] = "user"
    /\ fork[cur[c]] = NoFork

-----------------------------------------------------------------------------
(* Areas and blocks.                                                       *)

NewVma(area, end, lma) ==
    [area |-> area, end |-> end, lma |-> lma, blocks |-> <<>>]

(* setup_vma puts the new area at the head of the list.                    *)
setup_vma(list, vma) == <<vma>> \o list

(* find_vma: the place in the list of the first area around an address, or *)
(* 0.  An area that has shrunk to nothing is never found.                  *)
find_vma(list, area, off) ==
    LET Hits == {k \in 1..Len(list) : list[k].area = area /\ off < list[k].end}
    IN  IF Hits = {} THEN 0 ELSE CHOOSE k \in Hits : \A j \in Hits : k <= j

add_pages_block(list, k, v, page) ==
    [list EXCEPT ![k].blocks = Append(@, [v |-> v, page |-> page])]

BlockPages(vma) == {vma.blocks[j].page : j \in 1..Len(vma.blocks)}

IsShared(vma) == vma.area = "text"

-----------------------------------------------------------------------------
(* Page tables.                                                            *)

(* The page that get_free_pages returns, if there is one.                  *)
First(avail) == {p \in avail : \A q \in avail : p <= q}

(* The tables that setup_pg_for_addr has to allocate for a set of pages.   *)
Missing(t, V) == {x \in {0} \cup {Leaf(v) : v \in V} : V /= {} /\ tables[t][x] = Null}

(* get_zeroed_pages, once for every missing table: the first free pages.   *)
Allotments(need, avail) ==
    {f \in [need -> avail] :
        /\ \A x, y \in need : x < y => f[x] < f[y]
        /\ \A x \in need, p \in avail : p < f[x] => \E y \in need : f[y] = p}

CanMap(t, V, avail) == Cardinality(Missing(t, V)) <= Cardinality(avail)

(* add_single_map for the pages V of task t, to the frames to[v], with the *)
(* free pages avail.  An entry that is there already is left alone.        *)
add_single_map(t, V, to, avail) ==
    \E got \in Allotments(Missing(t, V), avail) :
        /\ tables' = [tables EXCEPT ![t] =
                [x \in Tables |-> IF x \in Missing(t, V) THEN got[x] ELSE @[x]]]
        /\ pte' = [pte EXCEPT ![t] =
                [v \in VPages |-> IF v \in V /\ @[v] = Null THEN to[v] ELSE @[v]]]
        /\ free' = avail \ {got[x] : x \in Missing(t, V)}

(* A table cannot be allocated: the assertion in setup_pg_for_addr stops   *)
(* the CPU, and the pages it has just taken are of no more use.            *)
NoTable(c, taken) ==
    /\ free' = {}
    /\ lost' = lost \cup taken
    /\ halted' = halted \cup {c}
    /\ UNCHANGED <<tables, pte>>

-----------------------------------------------------------------------------
(* schedule().                                                             *)

Ready(c) == {t \in Tasks : Home(t) = c /\ state[t] \in {"kernel", "user"}}

(* Mutant: TTBR0 is written only when another identifier comes in.         *)
MutantSwitchTo(c, n) ==
    /\ cur' = [cur EXCEPT ![c] = n]
    /\ ttbr0' = IF n /= 0 /\ ttbr0[c].asid /= n
                THEN [ttbr0 EXCEPT ![c] = [asid |-> n, dir |-> pg_dir[n]]]
                ELSE ttbr0

(* TTBR0 keeps its value when a thread without page tables comes in.       *)
SwitchTo(c, n) ==
    /\ cur' = [cur EXCEPT ![c] = n]
    /\ ttbr0' = IF n /= 0 /\ pg_dir[n] /= Null
                THEN [ttbr0 EXCEPT ![c] = [asid |-> n, dir |-> pg_dir[n]]]
                ELSE ttbr0

(* A tick in user mode, or a process sleeps in a system call.  0 stands    *)
(* for the swapper and the kernel threads, which leave TTBR0 and all that  *)
(* is modelled here alone.                                                 *)
Schedule(c) ==
    /\ c \notin halted
    /\ cur[c] /= 0 => fork[cur[c]] = NoFork
    /\ \E n \in Ready(c) : n /= cur[c] /\ SwitchTo(c, n)
    /\ UNCHANGED <<free, state, space, fork, halted, tlb, history>>

-----------------------------------------------------------------------------
(* The first process.                                                      *)

(***************************************************************************)
(* user_test in main.c: the areas of the program, mapped to the image.     *)
(* Failures of setup_vma are only printed.  Without text or data the       *)
(* kernel's own accesses to the new address space end in panic.            *)
(***************************************************************************)
UserTest(c) ==
    /\ c \notin halted /\ cur[c] = 1 /\ state[1] = "kernel"
    /\ \E set_up \in SUBSET {"text", "data"}, dir \in First(free) :
        LET Area(a) == IF a \in set_up THEN <<NewVma(a, PageSize, Lma(a))>> ELSE <<>>
            list    == Area("data") \o Area("text")
            V       == {<<a, 0>> : a \in set_up}
        IN  /\ pg_dir' = [pg_dir EXCEPT ![1] = dir]
            /\ mmap' = [mmap EXCEPT ![1] = list]
            /\ add_single_map(1, V, [v \in V |-> Lma(v[1])], free \ {dir})
            /\ ttbr0' = [ttbr0 EXCEPT ![c] = [asid |-> 1, dir |-> dir]]
            /\ halted' = IF set_up = {"text", "data"} THEN halted
                         ELSE halted \cup {c}
    /\ brk' = [brk EXCEPT ![1] = PageSize]
    /\ state' = [state EXCEPT ![1] = "user"]
    /\ UNCHANGED <<fork, cur, tlb, history>>

-----------------------------------------------------------------------------
(* Accesses of a process.                                                  *)

Hits(c, v) == {e \in tlb[c] : e.asid = ttbr0[c].asid /\ e.v = v}

(* The hardware walks the tables and remembers the result.                 *)
Touch(c, v) ==
    /\ InUser(c)
    /\ Hits(c, v) = {} /\ pte[cur[c]][v] /= Null
    /\ tlb' = [tlb EXCEPT ![c] = @ \cup {[asid |-> ttbr0[c].asid, v |-> v,
                                          page |-> pte[cur[c]][v]]}]
    /\ UNCHANGED <<free, state, space, fork, cpu, history>>

(* There is no translation, or the page is read-only and is written to.    *)
Faults(c, v) == v[1] = "text" \/ (Hits(c, v) = {} /\ pte[cur[c]][v] = Null)

-----------------------------------------------------------------------------
(* What exit_mm will free, and what not.                                   *)

(* Mutant: the table of the middle layer is forgotten.                     *)
MutantFreed(t) ==
    ({pg_dir[t]} \cup {tables[t][x] : x \in Tables \ {0}}
       \cup UNION {BlockPages(mmap[t][k]) :
                     k \in {j \in 1..Len(mmap[t]) : ~IsShared(mmap[t][j])}})
    \ {Null}

(* free_page_tables and free_pages_blocks: what exit_mm frees.             *)
Freed(t) ==
    ({pg_dir[t]} \cup {tables[t][x] : x \in Tables}
       \cup UNION {BlockPages(mmap[t][k]) :
                     k \in {j \in 1..Len(mmap[t]) : ~IsShared(mmap[t][j])}})
    \ {Null}

(* What it cannot find: pages that were mapped and not recorded, and the   *)
(* blocks of shared areas.                                                 *)
NotFreed(t) ==
    (({pte[t][v] : v \in VPages} \cap Pool)
       \cup UNION {BlockPages(mmap[t][k]) : k \in 1..Len(mmap[t])})
    \ Freed(t)

(* The bound on the pages that exit_mm will not find.                      *)
MayLeak == Cardinality(lost \cup UNION {NotFreed(t) : t \in Tasks}) < MaxLeaks

(***************************************************************************)
(* do_el0_sync for an address inside an area: a new page is mapped, if the *)
(* entry is empty, and recorded, if there is memory for the record.  A     *)
(* write to a read-only page comes here too.  A page that is neither       *)
(* mapped nor recorded is lost.  (Without a free page the handler returns  *)
(* and the access faults again.)                                           *)
(***************************************************************************)
PageFault(c, area, off) ==
    LET t == cur[c]
        v == PageOf(area, off)
        k == find_vma(mmap[t], area, off)
    IN  /\ InUser(c) /\ Faults(c, v)
        /\ k /= 0
        /\ \E p \in First(free) :
            IF CanMap(t, {v}, free \ {p})
            THEN /\ add_single_map(t, {v}, [x \in {v} |-> p], free \ {p})
                 /\ \/ /\ area /= "text" \/ MayLeak
                       /\ mmap' = [mmap EXCEPT ![t] = add_pages_block(@, k, v, p)]
                       /\ UNCHANGED lost
                    \/ /\ MayLeak
                       /\ lost' = lost \cup (IF pte[t][v] = Null THEN {} ELSE {p})
                       /\ UNCHANGED mmap
                 /\ UNCHANGED halted
            ELSE NoTable(c, free) /\ UNCHANGED mmap
        /\ UNCHANGED <<state, pg_dir, brk, fork, cur, ttbr0, tlb, forks>>

-----------------------------------------------------------------------------
(* The end of a process.                                                   *)

(* exit_mm.  What the freed tables and lists still contain is of no        *)
(* interest; task_struct.pg_dir keeps its value.                           *)
exit_mm(t) ==
    /\ free' = free \cup Freed(t)
    /\ lost' = lost \cup NotFreed(t)
    /\ tables' = [tables EXCEPT ![t] = NoTables]
    /\ pte' = [pte EXCEPT ![t] = NoEntries]
    /\ mmap' = [mmap EXCEPT ![t] = <<>>]

(* do_exit, called by sys_exit at any time, or by do_el0_sync for an       *)
(* access outside of all areas; schedule() finds another thread.           *)
do_exit(c) ==
    /\ InUser(c)
    /\ exit_mm(cur[c])
    /\ state' = [state EXCEPT ![cur[c]] = "stopped"]
    /\ \E n \in (Ready(c) \ {cur[c]}) \cup {0} : SwitchTo(c, n)
    /\ UNCHANGED <<pg_dir, brk, fork, halted, tlb, forks>>

-----------------------------------------------------------------------------
(* sys_fork.                                                               *)

(* Stopped tasks that get_task_slot passes on its way to slot n.           *)
Reclaimed(n) == {t \in Tasks : t < n /\ state[t] = "stopped"}

(* The TLB of this CPU forgets the identifiers of the stopped tasks; those *)
(* of the other CPUs do not (tlbi aside1 is not broadcast).                *)
invalidate_tlb_by_asid(c, S) ==
    tlb' = [d \in CPUs |->
              IF d = c THEN {e \in tlb[d] : e.asid \notin S}
              ELSE {[e EXCEPT !.page = IF e.asid \in S THEN Null ELSE @] : e \in tlb[d]}]

(* The slots where get_task_slot can stop: the first that is not in use,   *)
(* or the end of the table.                                                *)
FirstUnused(n) == state[n] = "unused" /\ \A t \in Tasks : t < n => state[t] /= "unused"

(* get_task_slot without a free slot, or no memory for mm or pg_dir: only  *)
(* the stopped slots have been cleared.                                    *)
ForkFailsEarly(c) ==
    /\ InUser(c)
    /\ \E n \in 1..(NumTasks + 1) :
        /\ IF n \in Tasks THEN FirstUnused(n) ELSE \A t \in Tasks : state[t] /= "unused"
        /\ invalidate_tlb_by_asid(c, Reclaimed(n))
        /\ state' = [t \in Tasks |-> IF t \in Reclaimed(n) THEN "unused" ELSE state[t]]
        /\ pg_dir' = [t \in Tasks |-> IF t \in Reclaimed(n) THEN Null ELSE pg_dir[t]]
        /\ brk' = [t \in Tasks |-> IF t \in Reclaimed(n) THEN 0 ELSE brk[t]]
    /\ UNCHANGED <<free, tables, pte, mmap, fork, cpu, history>>

(* A slot, mm and pg_dir.                                                  *)
ForkBegins(c) ==
    /\ InUser(c)
    /\ forks < MaxForks /\ forks' = forks + 1
    /\ \E n \in Tasks, dir \in First(free) :
        /\ FirstUnused(n)
        /\ invalidate_tlb_by_asid(c, Reclaimed(n))
        /\ state' = [t \in Tasks |-> IF t = n THEN "building"
                                     ELSE IF t \in Reclaimed(n) THEN "unused" ELSE state[t]]
        /\ pg_dir' = [t \in Tasks |-> IF t = n THEN dir
                                      ELSE IF t \in Reclaimed(n) THEN Null ELSE pg_dir[t]]
        /\ brk' = [t \in Tasks |-> IF t \in Reclaimed(n) THEN 0 ELSE brk[t]]
        /\ fork' = [fork EXCEPT ![cur[c]] = [child |-> n, vma |-> 1, pb |-> 0]]
        /\ free' = free \ {dir}
    /\ UNCHANGED <<tables, pte, mmap, cpu, lost>>

Forking(c) == c \notin halted /\ cur[c] /= 0 /\ fork[cur[c]] /= NoFork

(* The area and the block that sys_fork is at.                             *)
ForkVma(t) == mmap[t][fork[t].vma]

InLoop(t) == fork[t].vma <= Len(mmap[t])

(* On to the next block of an anonymous area, or to the next area.         *)
ForkGoesOn(t) ==
    LET at == fork[t]
        more == ForkVma(t).lma = Null /\ at.pb < Len(ForkVma(t).blocks)
    IN  fork' = [fork EXCEPT ![t] =
            [child |-> at.child,
             vma   |-> IF more THEN at.vma ELSE at.vma + 1,
             pb    |-> IF more THEN at.pb + 1 ELSE 0]]

(* An area of the parent: shared as it is; copied into a new page if it    *)
(* has a place of its own; set up empty if it is anonymous.                *)
ForkArea(c) ==
    LET t     == cur[c]
        child == fork[t].child
        vma   == ForkVma(t)
        List(lma) == setup_vma(mmap[child], NewVma(vma.area, vma.end, lma))
    IN  /\ Forking(c) /\ InLoop(t) /\ fork[t].pb = 0
        /\ IF IsShared(vma) \/ vma.lma = Null
           THEN /\ mmap' = [mmap EXCEPT ![child] = List(vma.lma)]
                /\ UNCHANGED free
           ELSE \E p \in First(free) :
                /\ free' = free \ {p}
                /\ mmap' = [mmap EXCEPT ![child] =
                       add_pages_block(List(p), find_vma(List(p), vma.area, 0), <<vma.area, 0>>, p)]
        /\ ForkGoesOn(t)
        /\ UNCHANGED <<state, pg_dir, tables, pte, brk, cpu, tlb, history>>

(* A block of an anonymous area, copied into a new page.                   *)
ForkBlock(c) ==
    LET t     == cur[c]
        child == fork[t].child
        b     == ForkVma(t).blocks[fork[t].pb]
        k     == find_vma(mmap[child], ForkVma(t).area, 0)
    IN  /\ Forking(c) /\ InLoop(t) /\ fork[t].pb > 0
        /\ k /= 0
        /\ \E p \in First(free) :
            /\ free' = free \ {p}
            /\ mmap' = [mmap EXCEPT ![child] = add_pages_block(@, k, b.v, p)]
        /\ ForkGoesOn(t)
        /\ UNCHANGED <<state, pg_dir, tables, pte, brk, cpu, tlb, history>>

(* An allocation in the loop fails: the page at hand is given back, then   *)
(* exit_mm and free_task_slot for the child.                               *)
ForkFails(c) ==
    LET child == fork[cur[c]].child
    IN  /\ Forking(c) /\ InLoop(cur[c])
        /\ exit_mm(child)
        /\ state' = [state EXCEPT ![child] = "unused"]
        /\ pg_dir' = [pg_dir EXCEPT ![child] = Null]
        /\ fork' = [fork EXCEPT ![cur[c]] = NoFork]
        /\ UNCHANGED <<brk, cpu, tlb, forks>>

(* setup_user_page_mappings: the areas with a place in memory are mapped,  *)
(* the anonymous ones are not, whether blocks were copied or not.          *)
HasLma(list) == {k \in 1..Len(list) : list[k].lma /= Null}

ForkEnds(c) ==
    LET t     == cur[c]
        child == fork[t].child
        list  == mmap[child]
        V     == {<<list[k].area, 0>> : k \in HasLma(list)}
        to    == [v \in V |-> list[find_vma(list, v[1], 0)].lma]
    IN  /\ Forking(c) /\ ~InLoop(t)
        /\ IF CanMap(child, V, free)
           THEN /\ add_single_map(child, V, to, free)
                /\ brk' = [brk EXCEPT ![child] = brk[t]]
                /\ state' = [state EXCEPT ![child] = "user"]
                /\ fork' = [fork EXCEPT ![t] = NoFork]
                /\ UNCHANGED <<halted, lost>>
           ELSE NoTable(c, free) /\ UNCHANGED <<brk, state, fork>>
        /\ UNCHANGED <<pg_dir, mmap, cur, ttbr0, tlb, forks>>

-----------------------------------------------------------------------------
(* sys_brk.                                                                *)

(* The heap's area, or 0.                                                  *)
HeapVma(t) == find_vma(mmap[t], "heap", 0)

(* The end of sys_brk: the heap's area ends at brk; if there is none, or   *)
(* if it was empty, another one is made (or not, without memory for it).   *)
HeapEndsAt(t, b, list) ==
    IF HeapVma(t) /= 0
    THEN mmap' = [mmap EXCEPT ![t] = [list EXCEPT ![HeapVma(t)].end = b]]
    ELSE \/ Len(list) < MaxVmas
            /\ mmap' = [mmap EXCEPT ![t] = setup_vma(list, NewVma("heap", b, Null))]
         \/ mmap' = [mmap EXCEPT ![t] = list]

(* addr is 0 or out of range: brk stays (sbrk begins with brk(0)).         *)
BrkQuery(c) ==
    /\ InUser(c)
    /\ HeapEndsAt(cur[c], brk[cur[c]], mmap[cur[c]])
    /\ UNCHANGED <<free, state, pg_dir, tables, pte, brk, fork, cpu, tlb, history>>

BrkGrows(c, b) ==
    /\ InUser(c)
    /\ Upper(b) >= Upper(brk[cur[c]])
    /\ HeapEndsAt(cur[c], b, mmap[cur[c]])
    /\ brk' = [brk EXCEPT ![cur[c]] = b]
    /\ UNCHANGED <<free, state, pg_dir, tables, pte, fork, cpu, tlb, history>>

(* Mutant: the first page beyond the new end is left out.                  *)
MutantBeyond(t, b) == {<<"heap", i>> : i \in (Upper(b) + 1)..(Upper(brk[t]) - 1)}

(* The pages between the new and the old end of the heap.                  *)
Beyond(t, b) == {<<"heap", i>> : i \in Upper(b)..(Upper(brk[t]) - 1)}

(* Mutant: the translations are kept.                                      *)
Mutantinvalidate_tlb_by_va(c, asid, V) == UNCHANGED tlb

(* The TLB of this CPU forgets the pages; the process runs on no other.    *)
invalidate_tlb_by_va(c, asid, V) ==
    tlb' = [tlb EXCEPT ![c] = {e \in @ : ~(e.asid = asid /\ e.v \in V)}]

(* Mutant: the blocks stay on the list.                                    *)
MutantKept(blocks, gone) == {blocks}

(* The elements of a set of numbers in their order.                        *)
InOrder(S) ==
    {f \in [1..Cardinality(S) -> S] :
        /\ \A i, j \in DOMAIN f : i < j => f[i] < f[j]
        /\ \A x \in S : \E i \in DOMAIN f : f[i] = x}

(* What is left of the list after list_del of the blocks of the pages gone *)
(* (a set with one element).                                               *)
Kept(blocks, gone) ==
    {[i \in DOMAIN f |-> blocks[f[i]]] :
        f \in InOrder({j \in 1..Len(blocks) : blocks[j].v \notin gone})}

(* unmap_one_user_page, for each of the pages: what it frees.  Where a     *)
(* table is missing it reads physical page 0, which is empty on this       *)
(* machine: as if the entry were empty.                                    *)
Unmapped(t, V) == {pte[t][v] : v \in V} \ {Null}

(***************************************************************************)
(* unmap_user_page_mapping frees the pages that are mapped and clears      *)
(* their entries and translations; then the blocks of the range are taken  *)
(* off the list.  A page that is only in a block (a copy made by fork) is  *)
(* lost.                                                                   *)
(***************************************************************************)
BrkShrinks(c, b) ==
    LET t    == cur[c]
        k    == HeapVma(t)
        gone == Beyond(t, b)
        old  == mmap[t][k].blocks
    IN  /\ InUser(c)
        /\ Upper(b) < Upper(brk[t]) /\ k /= 0
        /\ free' = free \cup Unmapped(t, gone)
        /\ lost' = lost \cup ({old[j].page : j \in {i \in 1..Len(old) : old[i].v \in gone}}
                                \ Unmapped(t, gone))
        /\ pte' = [pte EXCEPT ![t] = [v \in VPages |-> IF v \in gone THEN Null ELSE @[v]]]
        /\ invalidate_tlb_by_va(c, t, gone)
        /\ \E kept \in Kept(old, gone) : HeapEndsAt(t, b, [mmap[t] EXCEPT ![k].blocks = kept])
        /\ brk' = [brk EXCEPT ![t] = b]
        /\ UNCHANGED <<state, pg_dir, tables, fork, cpu, forks>>

(* The heap has no area yet: the kernel walks the list of a null pointer.  *)
BrkPanics(c, b) ==
    /\ InUser(c)
    /\ Upper(b) < Upper(brk[cur[c]]) /\ HeapVma(cur[c]) = 0
    /\ halted' = halted \cup {c}
    /\ UNCHANGED <<free, state, space, fork, cur, ttbr0, tlb, history>>

-----------------------------------------------------------------------------
Offsets(area) == IF area = "heap" THEN 0..(MaxBrk - 1) ELSE {0}

Next ==
    \E c \in CPUs :
        \/ Schedule(c) \/ UserTest(c) \/ do_exit(c)
        \/ \E v \in VPages \cap Watched : Touch(c, v)
        \/ \E a \in Areas : \E off \in Offsets(a) : PageFault(c, a, off)
        \/ ForkFailsEarly(c) \/ ForkBegins(c) \/ ForkArea(c) \/ ForkBlock(c)
        \/ ForkFails(c) \/ ForkEnds(c)
        \/ BrkQuery(c)
        \/ \E b \in 0..MaxBrk : BrkGrows(c, b) \/ BrkShrinks(c, b) \/ BrkPanics(c, b)

Spec == Init /\ [][Next]_vars

-----------------------------------------------------------------------------
Live == {t \in Tasks : state[t] \in {"building", "user"}}

(* Everything that has been allocated for a task, with its place.          *)
Holdings(t) ==
    {<<t, "dir", 0, 0, pg_dir[t]>>}
    \cup {<<t, "table", x, 0, tables[t][x]>> : x \in {y \in Tables : tables[t][y] /= Null}}
    \cup UNION {{<<t, "block", k, j, mmap[t][k].blocks[j].page>> :
                   j \in 1..Len(mmap[t][k].blocks)} : k \in 1..Len(mmap[t])}

Held(t) == {h[5] : h \in Holdings(t)}

Reachable(t) == {pte[t][v] : v \in VPages} \cap Pool

(* A page has one use: it is free, or it is one table or one block of one  *)
(* process.  So nothing is freed twice and the table of a process is       *)
(* nobody's data.  No process can reach a free page, or one that another   *)
(* process uses.                                                           *)
OneUse ==
    LET all == UNION {Holdings(t) : t \in Live}
    IN  /\ \A g, h \in all : g[5] = h[5] => g = h
        /\ \A h \in all : h[5] \notin free
        /\ \A t \in Live :
             Reachable(t) \cap (free \cup UNION {Held(u) \cup Reachable(u) : u \in Live \ {t}}) = {}

(* A page that is not free is in the hands of a live process, or was lost  *)
(* in one of the ways that are marked in the actions: a fault that could   *)
(* not record its page, a write to a read-only page, or a heap that        *)
(* shrinks over the copies made by fork.                                   *)
LostForAReason ==
    Pool \subseteq free \cup lost \cup UNION {Held(t) \cup Reachable(t) : t \in Live}

(* A process runs on its own, complete tables, though TTBR0 points to the  *)
(* freed tables of a dead process until a task with tables comes in.       *)
RunsOnOwnTables ==
    \A c \in CPUs : cur[c] /= 0 /\ state[cur[c]] = "user" =>
        ttbr0[c] = [asid |-> cur[c], dir |-> pg_dir[cur[c]]]

(* Beyond the (rounded) end of the heap nothing is mapped and no block is  *)
(* kept, so that an access there ends the process, as test_sbrk_unmap      *)
(* expects, and memory that comes back by brk is new.                      *)
HeapEndsAtBrk ==
    \A t \in {x \in Tasks : state[x] = "user"} :
        /\ \A v \in HeapPages : v[2] >= Upper(brk[t]) => pte[t][v] = Null
        /\ \A k \in 1..Len(mmap[t]) : \A j \in 1..Len(mmap[t][k].blocks) :
             mmap[t][k].area = "heap" => mmap[t][k].blocks[j].v[2] < Upper(brk[t])

(* A translation that a CPU remembers for a process is that of its tables, *)
(* unless it was made for an earlier process with the same pid whose slot  *)
(* another CPU has cleared.                                                *)
StaleForAReason ==
    \A c \in CPUs : \A e \in tlb[c] :
        state[e.asid] = "user" /\ e.page /= Null => pte[e.asid][e.v] = e.page
=============================================================================

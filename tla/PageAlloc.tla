----------------------------- MODULE PageAlloc ------------------------------
(***************************************************************************)
(* The page allocator of mm/memory.c: a table with one byte per page,      *)
(* searched first-fit and changed a page at a time, without any lock.      *)
(* The kernel code of a task is not preempted, so each CPU runs one call   *)
(* at a time; the calls of two CPUs interleave at every access to the      *)
(* table.  (The swapper is preempted: it counts as a CPU of its own.)      *)
(***************************************************************************)
EXTENDS Integers

CONSTANTS
    CPUs,       \* the CPUs that free pages
    Allocators, \* the CPUs that allocate pages
    NumPages,   \* MAX_NUM_PAGES
    Orders      \* the orders that callers ask for

ASSUME NumPagesAssumption == NumPages \in Nat

ASSUME AllocatorsAssumption == Allocators \subseteq CPUs

ASSUME OrdersAssumption == Orders \subseteq Nat

VARIABLES
    usage,      \* pages_usage
    pc,         \* where each CPU is
    num,        \* number of pages of the call in progress
    i,          \* loop counter of the call in progress
    count,      \* free_count of find_free_pages
    first,      \* first_page of the call in progress
    held,       \* the blocks <<first page, pages>> that a CPU has allocated
    failed      \* free_pages has reached its assert(0)

locals == <<num, i, count, first>>
vars == <<usage, pc, locals, held, failed>>

Pages == 0..(NumPages - 1)

Labels == {"idle", "scan", "mark", "none", "free", "stopped"}

TypeOK ==
    /\ usage \in [Pages -> {0, 1}]
    /\ pc \in [CPUs -> Labels]
    /\ num \in [CPUs -> Nat]
    /\ i \in [CPUs -> Nat]
    /\ count \in [CPUs -> 0..NumPages]
    /\ first \in [CPUs -> Pages]
    /\ held \in [CPUs -> SUBSET (Pages \X (1..NumPages))]
    /\ failed \in BOOLEAN

Init ==
    /\ usage = [p \in Pages |-> 0]
    /\ pc = [c \in CPUs |-> "idle"]
    /\ num = [c \in CPUs |-> 0]
    /\ i = [c \in CPUs |-> 0]
    /\ count = [c \in CPUs |-> 0]
    /\ first = [c \in CPUs |-> 0]
    /\ held = [c \in CPUs |-> {}]
    /\ failed = FALSE

Goto(c, from, to) ==
    /\ pc[c] = from
    /\ pc' = [pc EXCEPT ![c] = to]

(* Locals that are dead once a call has returned.                          *)
Forget(c) ==
    /\ num' = [num EXCEPT ![c] = 0]
    /\ i' = [i EXCEPT ![c] = 0]
    /\ count' = [count EXCEPT ![c] = 0]
    /\ first' = [first EXCEPT ![c] = 0]

-----------------------------------------------------------------------------
(* get_free_pages(order) and find_free_pages(1 << order).                  *)

GetFreePages(c, order) ==
    /\ Goto(c, "idle", "scan")
    /\ num' = [num EXCEPT ![c] = 2^order]
    /\ UNCHANGED <<usage, i, count, first, held, failed>>

(* Mutant: a used page does not end the run of free ones.                  *)
MutantScanUsed(c) ==
    /\ pc[c] = "scan" /\ i[c] < NumPages
    /\ usage[i[c]] /= 0
    /\ i' = [i EXCEPT ![c] = i[c] + 1]
    /\ UNCHANGED <<usage, pc, num, count, first, held, failed>>

(* A used page starts the count again.                                     *)
ScanUsed(c) ==
    /\ pc[c] = "scan" /\ i[c] < NumPages
    /\ usage[i[c]] /= 0
    /\ count' = [count EXCEPT ![c] = 0]
    /\ i' = [i EXCEPT ![c] = i[c] + 1]
    /\ UNCHANGED <<usage, pc, num, first, held, failed>>

ScanFree(c) ==
    /\ pc[c] = "scan" /\ i[c] < NumPages
    /\ usage[i[c]] = 0
    /\ count[c] + 1 < num[c]
    /\ count' = [count EXCEPT ![c] = count[c] + 1]
    /\ i' = [i EXCEPT ![c] = i[c] + 1]
    /\ UNCHANGED <<usage, pc, num, first, held, failed>>

(* The last page of a long enough run.                                     *)
ScanFound(c) ==
    /\ Goto(c, "scan", "mark")
    /\ i[c] < NumPages
    /\ usage[i[c]] = 0
    /\ count[c] + 1 = num[c]
    /\ first' = [first EXCEPT ![c] = i[c] - num[c] + 1]
    /\ i' = [i EXCEPT ![c] = i[c] - num[c] + 1]
    /\ count' = [count EXCEPT ![c] = 0]
    /\ UNCHANGED <<usage, num, held, failed>>

(* No run is long enough: get_free_pages will return NULL.                 *)
ScanNone(c) ==
    /\ Goto(c, "scan", "none")
    /\ i[c] >= NumPages
    /\ UNCHANGED <<usage, locals, held, failed>>

GetNull(c) ==
    /\ Goto(c, "none", "idle")
    /\ Forget(c)
    /\ UNCHANGED <<usage, held, failed>>

Mark(c) ==
    /\ pc[c] = "mark" /\ i[c] < first[c] + num[c]
    /\ usage' = [usage EXCEPT ![i[c]] = 1]
    /\ i' = [i EXCEPT ![c] = i[c] + 1]
    /\ UNCHANGED <<pc, num, count, first, held, failed>>

GetReturn(c) ==
    /\ Goto(c, "mark", "idle")
    /\ i[c] = first[c] + num[c]
    /\ held' = [held EXCEPT ![c] = @ \cup {<<first[c], num[c]>>}]
    /\ Forget(c)
    /\ UNCHANGED <<usage, failed>>

-----------------------------------------------------------------------------
(* free_pages(addr, order) of a block that CPU d has allocated; a process  *)
(* that fork has placed on another CPU frees its pages there.              *)

FreePages(c, d, b) ==
    /\ b \in held[d]
    /\ Goto(c, "idle", "free")
    /\ held' = [held EXCEPT ![d] = @ \ {b}]
    /\ first' = [first EXCEPT ![c] = b[1]]
    /\ num' = [num EXCEPT ![c] = b[2]]
    /\ UNCHANGED <<usage, i, count, failed>>

(* Mutant: the loop ends before the last page.                             *)
MutantFreeFewer(c) == pc[c] = "free" /\ i[c] + 1 < num[c]

FreeMore(c) == pc[c] = "free" /\ i[c] < num[c]

(* One page is freed, or assert(0) stops the CPU.                          *)
FreeOne(c) ==
    /\ FreeMore(c)
    /\ IF usage[first[c] + i[c]] = 1
       THEN /\ usage' = [usage EXCEPT ![first[c] + i[c]] = 0]
            /\ i' = [i EXCEPT ![c] = i[c] + 1]
            /\ UNCHANGED <<pc, failed>>
       ELSE /\ failed' = TRUE
            /\ pc' = [pc EXCEPT ![c] = "stopped"]
            /\ UNCHANGED <<usage, i>>
    /\ UNCHANGED <<num, count, first, held>>

FreeReturn(c) ==
    /\ ~FreeMore(c)
    /\ Goto(c, "free", "idle")
    /\ Forget(c)
    /\ UNCHANGED <<usage, held, failed>>

-----------------------------------------------------------------------------
Get(c) ==
    \/ ScanUsed(c) \/ ScanFree(c) \/ ScanFound(c) \/ ScanNone(c) \/ GetNull(c)
    \/ Mark(c) \/ GetReturn(c)

Next ==
    \E c \in CPUs :
        \/ c \in Allocators /\ \E order \in Orders : GetFreePages(c, order)
        \/ Get(c)
        \/ \E d \in CPUs : \E b \in held[d] : FreePages(c, d, b)
        \/ FreeOne(c) \/ FreeReturn(c)

Spec == Init /\ [][Next]_vars

-----------------------------------------------------------------------------
Cells(b) == b[1]..(b[1] + b[2] - 1)

Blocks == UNION {held[c] : c \in CPUs}

(* No page belongs to two callers, and every page of a block that a caller *)
(* holds is marked as used: nobody else can be given it.                   *)
BlocksDisjoint ==
    /\ \A c, d \in CPUs : \A a \in held[c], b \in held[d] :
        <<c, a>> /= <<d, b>> => Cells(a) \cap Cells(b) = {}
    /\ \A b \in Blocks : \A p \in Cells(b) : usage[p] = 1

(* The pages of the call in progress that are marked as used.              *)
InProgress(c) ==
    CASE pc[c] = "mark" -> first[c]..(i[c] - 1)
      [] pc[c] = "free" -> (first[c] + i[c])..(first[c] + num[c] - 1)
      [] OTHER -> {}

(* Every page marked as used can be freed again: no call loses a page.     *)
NoPageLost ==
    \A p \in Pages : usage[p] = 1 =>
        \/ \E b \in Blocks : p \in Cells(b)
        \/ \E c \in CPUs : p \in InProgress(c)

(* The assertion in free_pages, that a page it frees is in use, holds.     *)
AssertionHolds == ~failed
=============================================================================

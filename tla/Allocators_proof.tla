-------------------------- MODULE Allocators_proof ---------------------------
(***************************************************************************)
(* Proofs about the two allocators of mm/: PageAlloc, for any number of    *)
(* pages, orders and CPUs that free pages (without a lock it is right as   *)
(* long as at most one CPU allocates), and Kmalloc, for any layout of the  *)
(* blocks, any pool and all sizes that callers ask for.                    *)
(***************************************************************************)
EXTENDS PageAlloc, Kmalloc, FiniteSetTheorems, WellFoundedInduction, TLAPS

-----------------------------------------------------------------------------
(* PageAlloc.                                                              *)

(* get_free_pages takes no lock, so at most one CPU may be in it.          *)
OneAllocator == \A c, d \in Allocators : c = d

Shape ==
    /\ usage \in [Pages -> {0, 1}]
    /\ pc \in [CPUs -> Labels]
    /\ num = [c \in CPUs |-> num[c]]
    /\ i \in [CPUs -> Nat]
    /\ count \in [CPUs -> Nat]
    /\ first \in [CPUs -> Nat]
    /\ held \in [CPUs -> SUBSET (Nat \X Nat)]
    /\ failed = FALSE

(* What a CPU knows of the table: the pages that a search has counted, and *)
(* those that it is going to mark, are free.                               *)
Knows(c) ==
    /\ pc[c] = "idle" => i[c] = 0 /\ count[c] = 0
    /\ pc[c] \in {"scan", "mark"} => c \in Allocators
    /\ pc[c] = "scan" => /\ count[c] <= i[c] /\ i[c] <= NumPages
                         /\ \A p \in (i[c] - count[c])..(i[c] - 1) : usage[p] = 0
    /\ pc[c] = "mark" => /\ num[c] \in Nat /\ first[c] <= i[c] /\ i[c] <= first[c] + num[c]
                         /\ first[c] + num[c] <= NumPages
                         /\ \A p \in i[c]..(first[c] + num[c] - 1) : usage[p] = 0
    /\ pc[c] = "free" => num[c] \in Nat /\ i[c] <= num[c] /\ first[c] + num[c] <= NumPages

(* Blocks and the pages of calls in progress are in use, and lie apart.    *)
Apart ==
    /\ \A c \in CPUs : \A b \in held[c] :
        b[1] + b[2] <= NumPages /\ \A p \in Cells(b) : usage[p] = 1
    /\ \A c \in CPUs : \A p \in InProgress(c) : usage[p] = 1
    /\ \A c, d \in CPUs : \A a \in held[c], b \in held[d] :
        <<c, a>> /= <<d, b>> => Cells(a) \cap Cells(b) = {}
    /\ \A c, d \in CPUs : \A b \in held[d] : InProgress(c) \cap Cells(b) = {}
    /\ \A c, d \in CPUs : c /= d => InProgress(c) \cap InProgress(d) = {}

IInv == Shape /\ (\A c \in CPUs : Knows(c)) /\ Apart /\ NoPageLost

-----------------------------------------------------------------------------
(* The start: all pages are free.                                          *)
LEMMA InitInv == Init => IInv
<1> SUFFICES ASSUME Init PROVE IInv
  OBVIOUS
<1>1. Shape
  BY DEF Init, Shape, Labels
<1>2. \A c \in CPUs : Knows(c)
  BY DEF Init, Knows
<1>3. Apart /\ NoPageLost
  BY DEF Init, Apart, NoPageLost, InProgress
<1> QED BY <1>1, <1>2, <1>3 DEF IInv

(* Steps that leave the table, the blocks and the pages in progress alone. *)
LEMMA Frame ==
    ASSUME Apart, NoPageLost, UNCHANGED <<usage, held>>,
           \A c \in CPUs : InProgress(c)' = InProgress(c)
    PROVE  Apart' /\ NoPageLost'
BY DEF Apart, NoPageLost, Cells, Blocks

(* The search.                                                             *)
LEMMA ScanInv ==
    ASSUME IInv, NEW c \in CPUs,
           \/ c \in Allocators /\ \E order \in Orders : GetFreePages(c, order)
           \/ ScanUsed(c) \/ ScanFree(c) \/ ScanFound(c) \/ ScanNone(c) \/ GetNull(c)
    PROVE  IInv'
<1> USE NumPagesAssumption, AllocatorsAssumption DEF IInv, Shape
<1>1. UNCHANGED <<usage, held, failed>> /\ \A d \in CPUs \ {c} : pc'[d] = pc[d]
  BY DEF GetFreePages, ScanUsed, ScanFree, ScanFound, ScanNone, GetNull, Goto
<1>2. \A d \in CPUs \ {c} : num'[d] = num[d] /\ i'[d] = i[d] /\ count'[d] = count[d] /\ first'[d] = first[d]
  BY DEF GetFreePages, ScanUsed, ScanFree, ScanFound, ScanNone, GetNull, Goto, Forget, locals
<1>3. Shape' /\ Knows(c)' /\ InProgress(c) = {} /\ InProgress(c)' = {}
  <2>1. CASE c \in Allocators /\ \E order \in Orders : GetFreePages(c, order)
    BY <2>1 DEF GetFreePages, Goto, Knows, InProgress, Labels
  <2>2. CASE ScanUsed(c)
    BY <2>2 DEF ScanUsed, Knows, InProgress
  <2>3. CASE ScanFree(c)
    BY <2>3 DEF ScanFree, Knows, InProgress
  <2>4. CASE ScanFound(c)
    <3>1. /\ pc[c] = "scan" /\ pc'[c] = "mark" /\ num'[c] = num[c] /\ num[c] = count[c] + 1
          /\ i[c] \in Nat /\ count[c] \in Nat /\ i[c] < NumPages /\ usage[i[c]] = 0
          /\ num' = num /\ first'[c] = i[c] - num[c] + 1 /\ i'[c] = i[c] - num[c] + 1
      BY <2>4 DEF ScanFound, Goto
    <3>2. c \in Allocators /\ count[c] <= i[c] /\ \A p \in (i[c] - count[c])..(i[c] - 1) : usage[p] = 0
      BY <3>1 DEF Knows
    <3>3. first'[c] = i[c] - count[c] /\ i'[c] = i[c] - count[c] /\ i[c] - count[c] \in Nat
      BY <3>1, <3>2
    <3>4. \A p \in i'[c]..(first'[c] + num'[c] - 1) : usage'[p] = 0
      BY <1>1, <3>1, <3>2, <3>3
    <3>5. Knows(c)'
      BY <3>1, <3>2, <3>3, <3>4 DEF Knows
    <3>6. InProgress(c) = {} /\ InProgress(c)' = {}
      BY <3>1, <3>3 DEF InProgress
    <3>7. Shape'
      BY <2>4, <3>1, <3>3 DEF ScanFound, Goto, Labels
    <3> QED BY <3>5, <3>6, <3>7
  <2>5. CASE ScanNone(c) \/ GetNull(c)
    BY <2>5 DEF ScanNone, GetNull, Goto, Forget, locals, Knows, InProgress, Labels
  <2> QED BY <2>1, <2>2, <2>3, <2>4, <2>5
<1>4. \A d \in CPUs \ {c} : Knows(d)' /\ InProgress(d)' = InProgress(d)
  <2> SUFFICES ASSUME NEW d \in CPUs \ {c} PROVE Knows(d)' /\ InProgress(d)' = InProgress(d)
    OBVIOUS
  <2>1. /\ Knows(d) /\ UNCHANGED usage /\ pc'[d] = pc[d] /\ num'[d] = num[d]
        /\ i'[d] = i[d] /\ count'[d] = count[d] /\ first'[d] = first[d]
    BY <1>1, <1>2
  <2> HIDE DEF IInv, Shape
  <2> QED BY <2>1 DEF Knows, InProgress
<1> QED BY <1>1, <1>3, <1>4, Frame

(* The marking of the pages found: no other CPU searches meanwhile.        *)
LEMMA MarkInv ==
    ASSUME OneAllocator, IInv, NEW c \in CPUs, Mark(c)
    PROVE  IInv'
<1> USE NumPagesAssumption DEF IInv, Shape
<1> DEFINE q == i[c]
<1>1. /\ pc[c] = "mark" /\ q \in Nat /\ q < first[c] + num[c] /\ UNCHANGED <<pc, num, count, first, held, failed>>
      /\ usage' = [usage EXCEPT ![q] = 1] /\ i' = [i EXCEPT ![c] = q + 1]
  BY DEF Mark
<1>2. /\ c \in Allocators /\ num[c] \in Nat /\ first[c] \in Nat /\ first[c] <= q /\ first[c] + num[c] <= NumPages
      /\ \A p \in q..(first[c] + num[c] - 1) : usage[p] = 0
  BY <1>1 DEF Knows
<1>3. q \in Pages /\ usage[q] = 0 /\ usage'[q] = 1 /\ \A p \in Pages \ {q} : usage'[p] = usage[p]
  <2>1. q \in Pages /\ q \in q..(first[c] + num[c] - 1)
    BY <1>1, <1>2 DEF Pages
  <2> QED BY <1>1, <1>2, <2>1
<1>4. Shape'
  BY <1>1, <1>3
<1>5. Knows(c)'
  <2>1. \A p \in (q + 1)..(first[c] + num[c] - 1) : p \in Pages \ {q} /\ usage[p] = 0
    BY <1>1, <1>2 DEF Pages
  <2> QED BY <1>1, <1>2, <1>3, <2>1 DEF Knows
<1>6. \A d \in CPUs \ {c} : Knows(d)' /\ InProgress(d)' = InProgress(d)
  <2> SUFFICES ASSUME NEW d \in CPUs \ {c} PROVE Knows(d)' /\ InProgress(d)' = InProgress(d)
    OBVIOUS
  <2>1. pc[d] \notin {"scan", "mark"} /\ Knows(d)
    BY <1>2 DEF Knows, OneAllocator
  <2> QED BY <1>1, <2>1 DEF Knows, InProgress
<1>7. InProgress(c)' = InProgress(c) \cup {q}
  BY <1>1, <1>2 DEF InProgress
<1>8. \A d \in CPUs : q \notin InProgress(d) /\ \A b \in held[d] : q \notin Cells(b)
  BY <1>3 DEF Apart
<1>9. /\ \A d \in CPUs : \A p \in InProgress(d) : p \in Pages \ {q} /\ usage[p] = 1
      /\ \A d \in CPUs : \A b \in held[d] : \A p \in Cells(b) : p \in Pages \ {q} /\ usage[p] = 1
  <2>1. \A d \in CPUs : \A p \in InProgress(d) : p \in Pages /\ usage[p] = 1
    BY DEF Apart, InProgress, Knows, Pages
  <2>2. \A d \in CPUs : \A b \in held[d] : \A p \in Cells(b) : p \in Pages /\ usage[p] = 1
    <3> SUFFICES ASSUME NEW d \in CPUs, NEW b \in held[d], NEW p \in Cells(b) PROVE p \in Pages /\ usage[p] = 1
      OBVIOUS
    <3>1. b \in Nat \X Nat /\ b[1] + b[2] <= NumPages
      BY DEF Apart
    <3> QED BY <3>1 DEF Apart, Cells, Pages
  <2> QED BY <1>8, <2>1, <2>2
<1>10. Apart'
  <2>1. \A d \in CPUs : \A b \in held'[d] : b[1] + b[2] <= NumPages /\ \A p \in Cells(b) : usage'[p] = 1
    BY <1>1, <1>3, <1>9 DEF Apart
  <2>2. \A d \in CPUs : \A p \in InProgress(d)' : usage'[p] = 1
    BY <1>3, <1>6, <1>7, <1>9
  <2>3. \A d, e \in CPUs : \A a \in held'[d], b \in held'[e] : <<d, a>> /= <<e, b>> => Cells(a) \cap Cells(b) = {}
    BY <1>1 DEF Apart
  <2>4. \A d, e \in CPUs : \A b \in held'[e] : InProgress(d)' \cap Cells(b) = {}
    BY <1>1, <1>6, <1>7, <1>8 DEF Apart
  <2>5. \A d, e \in CPUs : d /= e => InProgress(d)' \cap InProgress(e)' = {}
    BY <1>6, <1>7, <1>8 DEF Apart
  <2> QED BY <2>1, <2>2, <2>3, <2>4, <2>5 DEF Apart, Cells
<1>11. NoPageLost'
  <2>1. \A d \in CPUs : InProgress(d) \subseteq InProgress(d)'
    BY <1>6, <1>7
  <2> QED BY <1>1, <1>3, <1>7, <2>1 DEF NoPageLost, Blocks, Cells
<1> QED BY <1>4, <1>5, <1>6, <1>10, <1>11

(* The pages marked become a block of the caller.                          *)
LEMMA GetReturnInv ==
    ASSUME IInv, NEW c \in CPUs, GetReturn(c)
    PROVE  IInv'
<1> USE NumPagesAssumption DEF IInv, Shape
<1> DEFINE b0 == <<first[c], num[c]>>
<1>1. /\ pc[c] = "mark" /\ pc' = [pc EXCEPT ![c] = "idle"] /\ i[c] = first[c] + num[c]
      /\ held' = [held EXCEPT ![c] = held[c] \cup {b0}] /\ UNCHANGED <<usage, failed>>
      /\ num' = [num EXCEPT ![c] = 0] /\ i' = [i EXCEPT ![c] = 0]
      /\ count' = [count EXCEPT ![c] = 0] /\ first' = [first EXCEPT ![c] = 0]
  BY DEF GetReturn, Goto, Forget
<1>2. num[c] \in Nat /\ first[c] \in Nat /\ first[c] + num[c] <= NumPages
  BY <1>1 DEF Knows
<1>3. Shape' /\ Knows(c)'
  BY <1>1, <1>2 DEF Knows, Labels
<1>4. \A d \in CPUs \ {c} : Knows(d)' /\ InProgress(d)' = InProgress(d)
  BY <1>1 DEF Knows, InProgress
<1>5. InProgress(c) = Cells(b0) /\ InProgress(c)' = {}
  BY <1>1, <1>2 DEF InProgress, Cells
<1>6. \A d \in CPUs : \A b \in held'[d] : b \in held[d] \/ (d = c /\ b = b0)
  BY <1>1
<1>7. b0 \in held'[c] /\ \A d \in CPUs : held[d] \subseteq held'[d]
  BY <1>1
<1>8. Apart'
  <2>1. \A d \in CPUs : \A b \in held'[d] : b[1] + b[2] <= NumPages /\ \A p \in Cells(b) : usage'[p] = 1
    <3> SUFFICES ASSUME NEW d \in CPUs, NEW b \in held'[d]
                 PROVE  b[1] + b[2] <= NumPages /\ \A p \in Cells(b) : usage'[p] = 1
      OBVIOUS
    <3>1. CASE b \in held[d]
      BY <1>1, <3>1 DEF Apart
    <3>2. CASE b = b0
      <4>1. \A p \in Cells(b0) : usage[p] = 1
        BY <1>5 DEF Apart
      <4> QED BY <1>1, <1>2, <3>2, <4>1
    <3> QED BY <1>6, <3>1, <3>2
  <2>2. \A d \in CPUs : \A p \in InProgress(d)' : usage'[p] = 1
    BY <1>1, <1>4, <1>5 DEF Apart
  <2>3. \A d, e \in CPUs : \A a \in held'[d], b \in held'[e] : <<d, a>> /= <<e, b>> => Cells(a) \cap Cells(b) = {}
    <3> SUFFICES ASSUME NEW d \in CPUs, NEW e \in CPUs, NEW a \in held'[d], NEW b \in held'[e], <<d, a>> /= <<e, b>>
                 PROVE  Cells(a) \cap Cells(b) = {}
      OBVIOUS
    <3>1. CASE a \in held[d] /\ b \in held[e]
      BY <3>1 DEF Apart
    <3>2. CASE d = c /\ a = b0 /\ b \in held[e]
      BY <1>5, <3>2 DEF Apart
    <3>3. CASE a \in held[d] /\ e = c /\ b = b0
      BY <1>5, <3>3 DEF Apart
    <3> HIDE DEF b0
    <3> QED BY <1>6, <3>1, <3>2, <3>3
  <2>4. \A d, e \in CPUs : \A b \in held'[e] : InProgress(d)' \cap Cells(b) = {}
    BY <1>4, <1>5, <1>6 DEF Apart
  <2>5. \A d, e \in CPUs : d /= e => InProgress(d)' \cap InProgress(e)' = {}
    BY <1>4, <1>5 DEF Apart
  <2> QED BY <2>1, <2>2, <2>3, <2>4, <2>5 DEF Apart, Cells
<1>9. NoPageLost'
  <2> SUFFICES ASSUME NEW p \in Pages, usage[p] = 1
               PROVE  (\E b \in Blocks' : p \in Cells(b)) \/ \E d \in CPUs : p \in InProgress(d)'
    BY <1>1 DEF NoPageLost, Cells
  <2> HIDE DEF b0
  <2>1. CASE \E b \in Blocks : p \in Cells(b)
    BY <1>7, <2>1 DEF Blocks
  <2>2. CASE \E d \in CPUs : p \in InProgress(d)
    BY <1>4, <1>5, <1>7, <2>2 DEF Blocks
  <2> QED BY <2>1, <2>2 DEF NoPageLost
<1> QED BY <1>3, <1>4, <1>8, <1>9

(* A block is handed to free_pages, perhaps by another CPU.                *)
LEMMA FreePagesInv ==
    ASSUME IInv, NEW c \in CPUs, NEW d \in CPUs, NEW b0 \in held[d], FreePages(c, d, b0)
    PROVE  IInv'
<1> USE NumPagesAssumption DEF IInv, Shape
<1>1. /\ pc[c] = "idle" /\ pc' = [pc EXCEPT ![c] = "free"]
      /\ held' = [held EXCEPT ![d] = held[d] \ {b0}] /\ UNCHANGED <<usage, i, count, failed>>
      /\ first' = [first EXCEPT ![c] = b0[1]] /\ num' = [num EXCEPT ![c] = b0[2]]
  BY DEF FreePages, Goto
<1>2. b0 \in Nat \X Nat /\ b0[1] + b0[2] <= NumPages /\ i[c] = 0
  BY <1>1 DEF Apart, Knows
<1>3. Shape' /\ Knows(c)'
  <2>1. b0[1] \in Nat /\ b0[2] \in Nat
    BY <1>2
  <2>2. Shape'
    BY <1>1, <2>1 DEF Labels
  <2>3. pc'[c] = "free" /\ num'[c] = b0[2] /\ first'[c] = b0[1] /\ i'[c] = 0
    BY <1>1, <1>2
  <2> QED BY <1>2, <2>1, <2>2, <2>3 DEF Knows
<1>4. \A e \in CPUs \ {c} : Knows(e)' /\ InProgress(e)' = InProgress(e)
  BY <1>1 DEF Knows, InProgress
<1>5. InProgress(c) = {} /\ InProgress(c)' = Cells(b0)
  BY <1>1, <1>2 DEF InProgress, Cells
<1>6. \A e \in CPUs : \A b \in held'[e] : b \in held[e] /\ <<e, b>> /= <<d, b0>>
  BY <1>1
<1>7. \A e \in CPUs : \A b \in held[e] : b \in held'[e] \/ b = b0
  BY <1>1
<1>8. Apart'
  <2>1. \A e \in CPUs : \A b \in held'[e] : b[1] + b[2] <= NumPages /\ \A p \in Cells(b) : usage'[p] = 1
    BY <1>1, <1>6 DEF Apart
  <2>2. \A e \in CPUs : \A p \in InProgress(e)' : usage'[p] = 1
    BY <1>1, <1>4, <1>5 DEF Apart
  <2>3. \A e, f \in CPUs : \A a \in held'[e], b \in held'[f] : <<e, a>> /= <<f, b>> => Cells(a) \cap Cells(b) = {}
    BY <1>6 DEF Apart
  <2>4. \A e, f \in CPUs : \A b \in held'[f] : InProgress(e)' \cap Cells(b) = {}
    BY <1>4, <1>5, <1>6 DEF Apart
  <2>5. \A e, f \in CPUs : e /= f => InProgress(e)' \cap InProgress(f)' = {}
    BY <1>4, <1>5 DEF Apart
  <2> QED BY <2>1, <2>2, <2>3, <2>4, <2>5 DEF Apart, Cells
<1>9. NoPageLost'
  <2> SUFFICES ASSUME NEW p \in Pages, usage[p] = 1
               PROVE  (\E b \in Blocks' : p \in Cells(b)) \/ \E e \in CPUs : p \in InProgress(e)'
    BY <1>1 DEF NoPageLost, Cells
  <2>1. CASE \E b \in Blocks : p \in Cells(b)
    BY <1>5, <1>7, <2>1 DEF Blocks
  <2>2. CASE \E e \in CPUs : p \in InProgress(e)
    BY <1>4, <1>5, <2>2
  <2> QED BY <2>1, <2>2 DEF NoPageLost
<1> QED BY <1>3, <1>4, <1>8, <1>9

(* One page is freed.  It is in use, so that the assertion holds.          *)
LEMMA FreeOneInv ==
    ASSUME IInv, NEW c \in CPUs, FreeOne(c)
    PROVE  IInv'
<1> USE NumPagesAssumption DEF IInv, Shape
<1> DEFINE q == first[c] + i[c]
<1>1. /\ pc[c] = "free" /\ i[c] < num[c] /\ num[c] \in Nat /\ first[c] + num[c] <= NumPages
      /\ first[c] \in Nat /\ i[c] \in Nat
  BY DEF FreeOne, FreeMore, Knows
<1>2. q \in InProgress(c) /\ q \in Pages
  BY <1>1 DEF InProgress, Pages
<1>3. usage[q] = 1
  BY <1>2 DEF Apart
<1>4. /\ usage' = [usage EXCEPT ![q] = 0] /\ i' = [i EXCEPT ![c] = i[c] + 1]
      /\ UNCHANGED <<pc, failed, num, count, first, held>>
  BY <1>3 DEF FreeOne
<1>5. usage'[q] = 0 /\ \A p : p /= q => (p \in Pages => usage'[p] = usage[p])
  BY <1>2, <1>4
<1>6. Shape' /\ Knows(c)'
  BY <1>1, <1>2, <1>4 DEF Knows
<1>7. \A d \in CPUs \ {c} : Knows(d)' /\ InProgress(d)' = InProgress(d)
  <2> SUFFICES ASSUME NEW d \in CPUs \ {c} PROVE Knows(d)' /\ InProgress(d)' = InProgress(d)
    OBVIOUS
  <2>1. pc'[d] = pc[d] /\ num'[d] = num[d] /\ i'[d] = i[d] /\ count'[d] = count[d] /\ first'[d] = first[d]
    BY <1>4
  <2>2. \A p \in Pages : usage[p] = 0 => usage'[p] = 0
    BY <1>5
  <2>3. Knows(d)
    OBVIOUS
  <2>4. pc[d] = "scan" => \A p \in (i[d] - count[d])..(i[d] - 1) : p \in Pages
    BY <2>3 DEF Knows, Pages
  <2>5. pc[d] = "mark" => \A p \in i[d]..(first[d] + num[d] - 1) : p \in Pages
    BY <2>3 DEF Knows, Pages
  <2>6. Knows(d)'
    BY <2>1, <2>2, <2>3, <2>4, <2>5 DEF Knows
  <2> QED BY <2>1, <2>6 DEF InProgress
<1>8. InProgress(c)' = InProgress(c) \ {q}
  BY <1>1, <1>4 DEF InProgress
<1>9. /\ \A d \in CPUs \ {c} : q \notin InProgress(d)
      /\ \A d \in CPUs : \A b \in held[d] : q \notin Cells(b)
  BY <1>2 DEF Apart
<1>10. \A d \in CPUs : \A p \in InProgress(d)' : p \in InProgress(d) /\ p \in Pages /\ p /= q
  <2>1. \A d \in CPUs : \A p \in InProgress(d) : p \in Pages
    BY DEF InProgress, Knows, Pages
  <2> QED BY <1>7, <1>8, <1>9, <2>1
<1>11. Apart'
  <2>1. \A d \in CPUs : \A b \in held'[d] : b[1] + b[2] <= NumPages /\ \A p \in Cells(b) : usage'[p] = 1
    <3> SUFFICES ASSUME NEW d \in CPUs, NEW b \in held[d]
                 PROVE  b[1] + b[2] <= NumPages /\ \A p \in Cells(b) : usage'[p] = 1
      BY <1>4
    <3>1. b \in Nat \X Nat /\ b[1] + b[2] <= NumPages /\ \A p \in Cells(b) : usage[p] = 1
      BY DEF Apart
    <3>2. \A p \in Cells(b) : p \in Pages
      BY <3>1 DEF Cells, Pages
    <3> QED BY <1>5, <1>9, <3>1, <3>2
  <2>2. \A d \in CPUs : \A p \in InProgress(d)' : usage'[p] = 1
    BY <1>5, <1>10 DEF Apart
  <2>3. \A d, e \in CPUs : \A a \in held'[d], b \in held'[e] : <<d, a>> /= <<e, b>> => Cells(a) \cap Cells(b) = {}
    BY <1>4 DEF Apart
  <2>4. \A d, e \in CPUs : \A b \in held'[e] : InProgress(d)' \cap Cells(b) = {}
    BY <1>4, <1>10 DEF Apart
  <2>5. \A d, e \in CPUs : d /= e => InProgress(d)' \cap InProgress(e)' = {}
    BY <1>10 DEF Apart
  <2> QED BY <2>1, <2>2, <2>3, <2>4, <2>5 DEF Apart, Cells
<1>12. NoPageLost'
  BY <1>4, <1>5, <1>7, <1>8 DEF NoPageLost, Blocks, Cells
<1> QED BY <1>6, <1>7, <1>11, <1>12

(* free_pages returns.                                                     *)
LEMMA FreeReturnInv ==
    ASSUME IInv, NEW c \in CPUs, FreeReturn(c)
    PROVE  IInv'
<1> USE NumPagesAssumption DEF IInv, Shape
<1>1. /\ pc[c] = "free" /\ pc' = [pc EXCEPT ![c] = "idle"] /\ ~(i[c] < num[c]) /\ UNCHANGED <<usage, held, failed>>
      /\ num' = [num EXCEPT ![c] = 0] /\ i' = [i EXCEPT ![c] = 0]
      /\ count' = [count EXCEPT ![c] = 0] /\ first' = [first EXCEPT ![c] = 0]
  BY DEF FreeReturn, FreeMore, Goto, Forget
<1>2. Shape' /\ Knows(c)'
  BY <1>1 DEF Knows, Labels
<1>3. \A d \in CPUs \ {c} : Knows(d)' /\ InProgress(d)' = InProgress(d)
  BY <1>1 DEF Knows, InProgress
<1>4. InProgress(c) = {} /\ InProgress(c)' = {}
  BY <1>1 DEF InProgress, Knows
<1> QED BY <1>1, <1>2, <1>3, <1>4, Frame

-----------------------------------------------------------------------------
(* Every step keeps the invariant.                                         *)
LEMMA NextInv == OneAllocator /\ IInv /\ [Next]_vars => IInv'
<1> SUFFICES ASSUME OneAllocator, IInv, [Next]_vars PROVE IInv'
  OBVIOUS
<1>1. CASE UNCHANGED vars
  BY <1>1 DEF vars, locals, IInv, Shape, Knows, Apart, NoPageLost, InProgress, Blocks, Cells
<1>2. CASE Next
  <2>1. PICK c \in CPUs :
            \/ c \in Allocators /\ \E order \in Orders : GetFreePages(c, order)
            \/ Get(c)
            \/ \E d \in CPUs : \E b \in held[d] : FreePages(c, d, b)
            \/ FreeOne(c) \/ FreeReturn(c)
    BY <1>2 DEF Next
  <2> QED BY <2>1, ScanInv, MarkInv, GetReturnInv, FreePagesInv, FreeOneInv, FreeReturnInv DEF Get
<1> QED BY <1>1, <1>2

(* The invariant holds in all states if at most one CPU allocates.         *)
THEOREM PageAllocInvariant == OneAllocator => (Spec => []IInv)
<1> SUFFICES ASSUME OneAllocator PROVE Spec => []IInv
  OBVIOUS
<1>1. Init => IInv
  BY InitInv
<1>2. IInv /\ [Next]_vars => IInv'
  BY NextInv
<1> QED BY <1>1, <1>2, PTL DEF Spec

(* No page has two owners, and what is allocated is marked as used, while  *)
(* any number of CPUs free blocks under the search of the one that         *)
(* allocates (find_free_pages and free_pages take no lock).                *)
THEOREM PageAllocBlocksDisjoint == OneAllocator => (Spec => []BlocksDisjoint)
<1>1. IInv => BlocksDisjoint
  BY DEF IInv, Apart, BlocksDisjoint, Blocks
<1> QED BY <1>1, PageAllocInvariant, PTL

(* Every page marked as used belongs to a block or to a call in progress,  *)
(* so that free_pages can give it back.                                    *)
THEOREM PageAllocNoPageLost == OneAllocator => (Spec => []NoPageLost)
<1>1. IInv => NoPageLost
  BY DEF IInv
<1> QED BY <1>1, PageAllocInvariant, PTL

(* With one allocator the assertion in free_pages, that a page to be freed *)
(* is in use, holds; the run page_alloc_smp shows that two suffice to      *)
(* break it.                                                               *)
THEOREM PageAllocAssertionHolds == OneAllocator => (Spec => []AssertionHolds)
<1>1. IInv => AssertionHolds
  BY DEF IInv, Shape, AssertionHolds
<1> QED BY <1>1, PageAllocInvariant, PTL

-----------------------------------------------------------------------------
(* Kmalloc: the chain of blocks.                                           *)

(* Where the block at p ends.                                              *)
End(m, p) == p + m.hdr[p].blk_len

(* What a header holds, and the whole of the memory.                       *)
HeaderType == [in_use : {0, 1}, blk_len : Nat, user_len : Nat]

Typed(m) ==
    /\ m = [hdr |-> m.hdr, tail |-> m.tail, end |-> m.end]
    /\ m.end \in Nat
    /\ DOMAIN m.hdr \subseteq Nat /\ m.hdr \in [DOMAIN m.hdr -> HeaderType]
    /\ DOMAIN m.tail \subseteq Nat /\ m.tail \in [DOMAIN m.tail -> Nat]

(* Blocks are aligned, like the end of the pool.                           *)
Placed(m) ==
    \A p \in DOMAIN m.hdr \cup {m.end} : Start <= p /\ (p - Start) % Align = 0

(* The first block is at the start, each has room for header and tail, and *)
(* ends where another one begins or at the end of the pool.                *)
Linked(m) ==
    /\ Start \in DOMAIN m.hdr
    /\ \A p \in DOMAIN m.hdr :
        /\ m.hdr[p].blk_len >= HeadSize + TailSize
        /\ End(m, p) \in DOMAIN m.hdr \cup {m.end}
        /\ End(m, p) <= m.end

(* Blocks do not overlap, and there are no gaps between them.              *)
Ordered(m) ==
    \A p, q \in DOMAIN m.hdr : p < q => End(m, p) <= q

Covered(m) ==
    \A p \in DOMAIN m.hdr \cup {m.end} :
        p # Start => \E q \in DOMAIN m.hdr : End(m, q) = p

(* Tails lead back.                                                        *)
Tailed(m) ==
    /\ \A p \in DOMAIN m.hdr :
        /\ End(m, p) - TailSize \in DOMAIN m.tail
        /\ m.tail[End(m, p) - TailSize] = p
    /\ \A t \in DOMAIN m.tail : \E p \in DOMAIN m.hdr : t = End(m, p) - TailSize

(* The chain of blocks is whole.                                           *)
Chain(m) ==
    Typed(m) /\ Placed(m) /\ Linked(m) /\ Ordered(m) /\ Covered(m) /\ Tailed(m)

-----------------------------------------------------------------------------
(* A multiple of Align is so many times Align.                             *)
LEMMA Quotient ==
    ASSUME NEW a \in Int, a % Align = 0
    PROVE  a \div Align \in Int /\ a = Align * (a \div Align)
BY KmallocAssumption

(* What is so many times Align is a multiple of it.                        *)
LEMMA Product ==
    ASSUME NEW a \in Int, NEW k \in Int, a = Align * k
    PROVE  a % Align = 0
BY KmallocAssumption

(* Sums and differences of multiples.                                      *)
LEMMA Multiples ==
    ASSUME NEW a \in Int, NEW b \in Int, a % Align = 0, b % Align = 0
    PROVE  (a + b) % Align = 0 /\ (a - b) % Align = 0
<1> DEFINE k == a \div Align
           l == b \div Align
<1>1. k \in Int /\ l \in Int /\ a = Align * k /\ b = Align * l
  BY Quotient
<1> HIDE DEF k, l
<1>2. a + b = Align * (k + l) /\ a - b = Align * (k - l)
  BY <1>1, KmallocAssumption
<1> QED BY <1>1, <1>2, Product

(* ALIGNED rounds up to a multiple.                                        *)
LEMMA AlignedIs ==
    ASSUME NEW n \in Nat
    PROVE  ALIGNED(n) \in Nat /\ ALIGNED(n) >= n /\ ALIGNED(n) % Align = 0
BY KmallocAssumption DEF ALIGNED

-----------------------------------------------------------------------------
(* What init_free_blk changes.                                             *)
Cleared(m, n, p, size) ==
    /\ n.end = m.end
    /\ DOMAIN n.hdr = {q \in DOMAIN m.hdr : q + HeadSize <= p \/ p + size <= q} \cup {p}
    /\ n.hdr[p] = Header(0, size, 0)
    /\ \A q \in DOMAIN n.hdr : q # p => n.hdr[q] = m.hdr[q]
    /\ DOMAIN n.tail = {t \in DOMAIN m.tail : t + TailSize <= p \/ p + size <= t}
                         \cup {p + size - TailSize}
    /\ n.tail[p + size - TailSize] = p
    /\ \A t \in DOMAIN n.tail : t # p + size - TailSize => n.tail[t] = m.tail[t]

(* The fields of a header.                                                 *)
LEMMA HeaderIs ==
    ASSUME NEW u, NEW l, NEW n
    PROVE  /\ Header(u, l, n).in_use = u
           /\ Header(u, l, n).blk_len = l
           /\ Header(u, l, n).user_len = n
           /\ u \in {0, 1} /\ l \in Nat /\ n \in Nat => Header(u, l, n) \in HeaderType
BY DEF Header, HeaderType

(* init_free_blk does what Cleared says.                                   *)
LEMMA InitFreeBlk ==
    ASSUME NEW m, Typed(m), NEW p \in Nat, NEW size \in Nat, size >= HeadSize + TailSize
    PROVE  LET n == init_free_blk(m, p, size) IN Typed(n) /\ Cleared(m, n, p, size)
<1> DEFINE n == init_free_blk(m, p, size)
           h == Rewritten(m.hdr, p, size, HeadSize, p, Header(0, size, 0))
           t == Rewritten(m.tail, p, size, TailSize, p + size - TailSize, p)
<1>1. n.hdr = h /\ n.tail = t /\ n.end = m.end
      /\ n = [hdr |-> n.hdr, tail |-> n.tail, end |-> n.end]
  <2> HIDE DEF h, t
  <2>1. m = [hdr |-> m.hdr, tail |-> m.tail, end |-> m.end]
    BY DEF Typed
  <2>2. n = [m EXCEPT !.hdr = h, !.tail = t]
    BY DEF init_free_blk, h, t
  <2>3. n = [hdr |-> h, tail |-> t, end |-> m.end]
    BY <2>1, <2>2
  <2> QED BY <2>3
<1>2. /\ DOMAIN h = {q \in DOMAIN m.hdr : q + HeadSize <= p \/ p + size <= q} \cup {p}
      /\ h[p] = Header(0, size, 0)
      /\ \A q \in DOMAIN h : q # p => h[q] = m.hdr[q]
      /\ h = [q \in DOMAIN h |-> h[q]]
  BY DEF Rewritten
<1>3. /\ DOMAIN t = {q \in DOMAIN m.tail : q + TailSize <= p \/ p + size <= q}
                       \cup {p + size - TailSize}
      /\ t[p + size - TailSize] = p
      /\ \A q \in DOMAIN t : q # p + size - TailSize => t[q] = m.tail[q]
      /\ t = [q \in DOMAIN t |-> t[q]]
  BY DEF Rewritten
<1> HIDE DEF n, h, t
<1>4. h \in [DOMAIN h -> HeaderType] /\ DOMAIN h \subseteq Nat
  <2>1. Header(0, size, 0) \in HeaderType
    BY HeaderIs
  <2>2. \A q \in DOMAIN h : h[q] \in HeaderType
    BY <1>2, <2>1 DEF Typed
  <2>3. DOMAIN h \subseteq Nat
    BY <1>2 DEF Typed
  <2> QED BY <1>2, <2>2, <2>3
<1>5. t \in [DOMAIN t -> Nat] /\ DOMAIN t \subseteq Nat
  <2>1. \A q \in DOMAIN t : t[q] \in Nat
    BY <1>3 DEF Typed
  <2>2. p + size - TailSize \in Nat
    BY KmallocAssumption
  <2>3. DOMAIN t \subseteq Nat
    BY <1>3, <2>2 DEF Typed
  <2> QED BY <1>3, <2>1, <2>3
<1>7. Cleared(m, n, p, size)
  BY <1>1, <1>2, <1>3 DEF Cleared
<1>6. Typed(n)
  BY <1>1, <1>4, <1>5 DEF Typed
<1> QED BY <1>6, <1>7 DEF n

-----------------------------------------------------------------------------
(* What clearing does to a chain.                                          *)

(* The facts about addresses that a whole chain gives.                     *)
LEMMA ChainArith ==
    ASSUME NEW m, Chain(m)
    PROVE  /\ Start \in DOMAIN m.hdr /\ m.end \in Nat
           /\ DOMAIN m.hdr \subseteq Nat /\ DOMAIN m.tail \subseteq Nat
           /\ \A p \in DOMAIN m.hdr :
                /\ m.hdr[p] \in HeaderType /\ m.hdr[p].blk_len \in Nat
                /\ m.hdr[p].user_len \in Nat /\ m.hdr[p].in_use \in {0, 1}
                /\ End(m, p) \in Nat /\ p + HeadSize + TailSize <= End(m, p)
                /\ Start <= p /\ End(m, p) <= m.end /\ p < m.end
                /\ End(m, p) \in DOMAIN m.hdr \cup {m.end}
           /\ \A p, q \in DOMAIN m.hdr : p < q => End(m, p) <= q
           /\ \A p, q \in DOMAIN m.hdr : End(m, p) = End(m, q) => p = q
<1>1. /\ Start \in DOMAIN m.hdr /\ m.end \in Nat
      /\ DOMAIN m.hdr \subseteq Nat /\ DOMAIN m.tail \subseteq Nat
  BY DEF Chain, Typed, Linked
<1>2. ASSUME NEW p \in DOMAIN m.hdr
      PROVE  /\ m.hdr[p] \in HeaderType /\ m.hdr[p].blk_len \in Nat
             /\ m.hdr[p].user_len \in Nat /\ m.hdr[p].in_use \in {0, 1}
             /\ End(m, p) \in Nat /\ p + HeadSize + TailSize <= End(m, p)
             /\ Start <= p /\ End(m, p) <= m.end /\ p < m.end
             /\ End(m, p) \in DOMAIN m.hdr \cup {m.end}
  <2>1. m.hdr[p] \in HeaderType /\ p \in Nat
    BY DEF Chain, Typed
  <2>2. m.hdr[p].blk_len \in Nat /\ m.hdr[p].user_len \in Nat /\ m.hdr[p].in_use \in {0, 1}
    BY <2>1 DEF HeaderType
  <2>3. /\ m.hdr[p].blk_len >= HeadSize + TailSize /\ End(m, p) <= m.end
        /\ End(m, p) \in DOMAIN m.hdr \cup {m.end}
    BY DEF Chain, Linked
  <2>4. Start <= p
    BY DEF Chain, Placed
  <2>5. End(m, p) = p + m.hdr[p].blk_len
    BY DEF End
  <2> QED BY <1>1, <2>1, <2>2, <2>3, <2>4, <2>5, KmallocAssumption
<1>3. \A p, q \in DOMAIN m.hdr : p < q => End(m, p) <= q
  BY DEF Chain, Ordered
<1>4. \A p, q \in DOMAIN m.hdr : End(m, p) = End(m, q) => p = q
  <2> SUFFICES ASSUME NEW p \in DOMAIN m.hdr, NEW q \in DOMAIN m.hdr, p < q,
                      End(m, p) = End(m, q)
               PROVE  FALSE
      BY <1>1
  <2> QED BY <1>1, <1>2, <1>3, KmallocAssumption
<1> QED BY <1>1, <1>2, <1>3, <1>4

(* Clearing a row of blocks, from the one at a up to e, makes one of them. *)
LEMMA Span ==
    ASSUME NEW m, Chain(m), NEW a \in DOMAIN m.hdr, NEW e \in DOMAIN m.hdr \cup {m.end},
           a < e, NEW n, Typed(n), Cleared(m, n, a, e - a)
    PROVE  /\ Chain(n) /\ n.end = m.end
           /\ DOMAIN n.hdr = {q \in DOMAIN m.hdr : q <= a \/ e <= q}
           /\ n.hdr[a] = Header(0, e - a, 0)
           /\ \A q \in DOMAIN n.hdr : q # a => n.hdr[q] = m.hdr[q]
           /\ End(n, a) = e
           /\ \A q \in DOMAIN n.hdr : q # a => End(n, q) = End(m, q)
<1> DEFINE D == DOMAIN m.hdr
           E == DOMAIN n.hdr
<1>1. /\ a \in D /\ e \in D \cup {m.end} /\ a < e
      /\ Start \in D /\ m.end \in Nat /\ D \subseteq Nat /\ a \in Nat /\ e \in Nat /\ n.end = m.end
      /\ HeadSize \in Nat /\ TailSize \in Nat /\ HeadSize > 0 /\ TailSize > 0
      /\ e - a + a = e /\ a + (e - a) = e
  BY ChainArith, KmallocAssumption DEF Cleared
<1>2. \A p \in D : /\ End(m, p) \in Nat /\ p + HeadSize + TailSize <= End(m, p) /\ Start <= p
                   /\ End(m, p) <= m.end /\ p < m.end /\ End(m, p) \in D \cup {m.end}
  BY ChainArith
<1>3. \A p, q \in D : p < q => End(m, p) <= q
  BY ChainArith
<1>4. \A q \in D : /\ q < e => End(m, q) <= e
                   /\ q + HeadSize <= a <=> q < a
  BY <1>1, <1>2, <1>3
<1>5. E = {q \in D : q <= a \/ e <= q}
  <2>1. E = {q \in D : q + HeadSize <= a \/ a + (e - a) <= q} \cup {a}
    BY DEF Cleared
  <2> HIDE DEF D, E
  <2>2. \A q \in D : (q + HeadSize <= a \/ a + (e - a) <= q \/ q = a) <=> (q <= a \/ e <= q)
    BY <1>1, <1>4
  <2> QED BY <1>1, <2>1, <2>2
<1>6. n.hdr[a] = Header(0, e - a, 0) /\ \A q \in E : q # a => n.hdr[q] = m.hdr[q]
  BY DEF Cleared
<1>7. End(n, a) = e
  BY <1>1, <1>6, HeaderIs DEF End
<1>8. \A q \in E : q # a => End(n, q) = End(m, q)
  BY <1>6 DEF End
<1>t. /\ DOMAIN n.tail = {t \in DOMAIN m.tail : t + TailSize <= a \/ e <= t} \cup {e - TailSize}
      /\ n.tail[e - TailSize] = a
      /\ \A t \in DOMAIN n.tail : t # e - TailSize => n.tail[t] = m.tail[t]
  BY <1>1 DEF Cleared
<1>u. /\ \A p \in D : End(m, p) - TailSize \in DOMAIN m.tail /\ m.tail[End(m, p) - TailSize] = p
      /\ \A t \in DOMAIN m.tail : \E p \in D : t = End(m, p) - TailSize
  BY DEF Chain, Tailed
<1>v. \A p \in D \cup {m.end} : p # Start => \E q \in D : End(m, q) = p
  BY DEF Chain, Covered
<1>p. \A p \in D \cup {m.end} : (p - Start) % Align = 0 /\ Start <= p
  BY DEF Chain, Placed
<1>h. n.hdr[a].blk_len = e - a /\ \A q \in E : q # a => n.hdr[q].blk_len = m.hdr[q].blk_len
  BY <1>6, HeaderIs
<1>l. \A p \in D : m.hdr[p].blk_len >= HeadSize + TailSize
  BY DEF Chain, Linked
<1> HIDE DEF D, E
<1>9. Placed(n)
  BY <1>1, <1>5, <1>p DEF Placed, E
<1>10. Linked(n)
  <2>1. Start \in E
    BY <1>1, <1>2, <1>5
  <2>2. \A p \in E : n.hdr[p].blk_len >= HeadSize + TailSize
    <3>1. e - a >= HeadSize + TailSize
      BY <1>1, <1>2, <1>3, <1>4
    <3> QED BY <1>5, <1>h, <1>l, <3>1
  <2>3. \A p \in E : End(n, p) \in E \cup {n.end} /\ End(n, p) <= n.end
    <3>1. e \in E \cup {n.end} /\ e <= n.end
      <4>1. CASE e = m.end
        BY <1>1, <4>1
      <4>2. CASE e \in D
        <5>1. e <= e /\ e <= m.end
          BY <1>1, <1>2, <4>2
        <5> QED BY <1>1, <1>5, <4>2, <5>1
      <4> QED BY <1>1, <4>1, <4>2
    <3>2. ASSUME NEW p \in E, p # a PROVE End(n, p) \in E \cup {n.end} /\ End(n, p) <= n.end
      BY <1>1, <1>2, <1>3, <1>4, <1>5, <1>8, <3>2
    <3> QED BY <1>7, <3>1, <3>2
  <2> QED BY <2>1, <2>2, <2>3 DEF Linked, E
<1>11. Ordered(n)
  <2> SUFFICES ASSUME NEW p \in E, NEW q \in E, p < q PROVE End(n, p) <= q
      BY DEF Ordered, E
  <2>1. CASE p = a
    BY <1>1, <1>5, <1>7, <2>1
  <2>2. CASE p # a
    BY <1>3, <1>5, <1>8, <2>2
  <2> QED BY <2>1, <2>2
<1>12. Covered(n)
  <2> SUFFICES ASSUME NEW p \in E \cup {n.end}, p # Start
               PROVE  \E q \in E : End(n, q) = p
      BY DEF Covered, E
  <2>1. PICK q \in D : End(m, q) = p
    BY <1>1, <1>5, <1>v
  <2>2. CASE p = e
    BY <1>1, <1>5, <1>7, <2>2
  <2>3. CASE p # e
    <3>1. q < a \/ e <= q
      BY <1>1, <1>2, <1>4, <1>5, <2>1, <2>3
    <3>2. q \in E /\ q # a
      BY <1>1, <1>5, <3>1
    <3> QED BY <1>8, <2>1, <3>2
  <2> QED BY <2>2, <2>3
<1>13. Tailed(n)
  <2>1. ASSUME NEW p \in E
        PROVE  End(n, p) - TailSize \in DOMAIN n.tail /\ n.tail[End(n, p) - TailSize] = p
    <3>1. CASE p = a
      BY <1>7, <1>t, <3>1
    <3>2. CASE p # a
      <4>1. p \in D /\ End(n, p) = End(m, p) /\ (p < a \/ e <= p)
        BY <1>1, <1>5, <1>8, <3>2
      <4>2. End(m, p) # e /\ End(m, p) \in Nat
        BY <1>1, <1>2, <1>3, <1>4, <3>2, <4>1
      <4>3. End(m, p) - TailSize + TailSize <= a \/ e <= End(m, p) - TailSize
        BY <1>1, <1>2, <1>3, <4>1
      <4>4. End(m, p) - TailSize \in DOMAIN m.tail /\ m.tail[End(m, p) - TailSize] = p
        BY <1>u, <4>1
      <4>5. End(m, p) - TailSize # e - TailSize
        BY <1>1, <4>2
      <4>6. End(m, p) - TailSize \in DOMAIN n.tail
        BY <1>t, <4>3, <4>4
      <4> QED BY <1>t, <4>1, <4>4, <4>5, <4>6
    <3> QED BY <3>1, <3>2
  <2>2. ASSUME NEW t \in DOMAIN n.tail
        PROVE  \E p \in E : t = End(n, p) - TailSize
    <3>1. CASE t = e - TailSize
      BY <1>1, <1>5, <1>7, <3>1
    <3>2. CASE t # e - TailSize
      <4>1. t \in DOMAIN m.tail /\ (t + TailSize <= a \/ e <= t)
        BY <1>t, <3>2
      <4>2. PICK p \in D : t = End(m, p) - TailSize
        BY <1>u, <4>1
      <4>3. p < a \/ e <= p
        BY <1>1, <1>2, <1>3, <1>4, <4>1, <4>2
      <4>4. p \in E /\ p # a
        BY <1>1, <1>5, <4>3
      <4> QED BY <1>8, <4>2, <4>4
    <3> QED BY <3>1, <3>2
  <2> QED BY <2>1, <2>2 DEF Tailed, E
<1>14. Chain(n)
  BY <1>9, <1>10, <1>11, <1>12, <1>13 DEF Chain
<1> QED BY <1>1, <1>5, <1>6, <1>7, <1>8, <1>14 DEF D, E

(* Clearing x bytes behind the last block makes a block of them.           *)
LEMMA Extend ==
    ASSUME NEW m, Chain(m), NEW x \in Nat, x >= HeadSize + TailSize, x % Align = 0,
           NEW l, l.hdr = m.hdr, l.tail = m.tail, l.end = m.end + x,
           NEW n, Typed(n), Cleared(l, n, m.end, x)
    PROVE  /\ Chain(n) /\ n.end = m.end + x
           /\ DOMAIN n.hdr = DOMAIN m.hdr \cup {m.end}
           /\ n.hdr[m.end] = Header(0, x, 0)
           /\ \A q \in DOMAIN m.hdr : n.hdr[q] = m.hdr[q] /\ q # m.end
           /\ End(n, m.end) = n.end
           /\ \A q \in DOMAIN m.hdr : End(n, q) = End(m, q)
<1> DEFINE D == DOMAIN m.hdr
           E == DOMAIN n.hdr
           a == m.end
           e == m.end + x
<1>1. /\ Start \in D /\ a \in Nat /\ D \subseteq Nat /\ e \in Nat /\ n.end = e
      /\ HeadSize \in Nat /\ TailSize \in Nat /\ HeadSize > 0 /\ TailSize > 0
      /\ a + HeadSize + TailSize <= e /\ a + x = e
  BY ChainArith, KmallocAssumption DEF Cleared
<1>2. \A p \in D : /\ End(m, p) \in Nat /\ p + HeadSize + TailSize <= End(m, p) /\ Start <= p
                   /\ End(m, p) <= a /\ p < a /\ End(m, p) \in D \cup {a}
  BY ChainArith
<1>3. \A p, q \in D : p < q => End(m, p) <= q
  BY ChainArith
<1>t. /\ DOMAIN n.tail = {t \in DOMAIN m.tail : t + TailSize <= a \/ e <= t} \cup {e - TailSize}
      /\ n.tail[e - TailSize] = a
      /\ \A t \in DOMAIN n.tail : t # e - TailSize => n.tail[t] = m.tail[t]
  BY <1>1 DEF Cleared
<1>u. /\ \A p \in D : End(m, p) - TailSize \in DOMAIN m.tail /\ m.tail[End(m, p) - TailSize] = p
      /\ \A t \in DOMAIN m.tail : \E p \in D : t = End(m, p) - TailSize
  BY DEF Chain, Tailed
<1>v. \A p \in D \cup {a} : p # Start => \E q \in D : End(m, q) = p
  BY DEF Chain, Covered
<1>p. \A p \in D \cup {a} : (p - Start) % Align = 0 /\ Start <= p
  BY DEF Chain, Placed
<1>5. E = D \cup {a}
  <2>1. E = {q \in D : q + HeadSize <= a \/ a + x <= q} \cup {a}
    BY DEF Cleared
  <2> HIDE DEF D, E, a, e
  <2>2. \A q \in D : q + HeadSize <= a
    BY <1>1, <1>2
  <2> QED BY <2>1, <2>2
<1>6. n.hdr[a] = Header(0, x, 0) /\ \A q \in D : n.hdr[q] = m.hdr[q] /\ q # a
  <2>1. \A q \in D : q # a
    BY <1>1, <1>2
  <2> QED BY <1>5, <2>1 DEF Cleared
<1>7. End(n, a) = e
  BY <1>1, <1>6, HeaderIs DEF End
<1>8. \A q \in D : End(n, q) = End(m, q)
  BY <1>6 DEF End
<1>h. n.hdr[a].blk_len = x /\ \A q \in D : n.hdr[q].blk_len = m.hdr[q].blk_len
  BY <1>6, HeaderIs
<1>l. \A p \in D : m.hdr[p].blk_len >= HeadSize + TailSize
  BY DEF Chain, Linked
<1>9. Placed(n)
  <2>1. (a - Start) % Align = 0 /\ a - Start \in Int /\ Start \in Int
    BY <1>1, <1>p, KmallocAssumption
  <2> HIDE DEF D, E, a, e
  <2>2. (a - Start + x) % Align = 0
    BY <2>1, Multiples
  <2>3. a - Start + x = e - Start /\ Start <= a /\ Start <= e
    BY <1>1, <1>p, <2>1
  <2>4. (e - Start) % Align = 0 /\ Start <= e
    BY <2>2, <2>3
  <2> HIDE DEF D, E, a, e
  <2> QED BY <1>1, <1>5, <1>p, <2>4 DEF Placed, E
<1> HIDE DEF D, E, a, e
<1>10. Linked(n)
  <2>1. \A p \in E : n.hdr[p].blk_len >= HeadSize + TailSize
    BY <1>5, <1>h, <1>l
  <2>2. \A p \in E : End(n, p) \in E \cup {n.end} /\ End(n, p) <= n.end
    BY <1>1, <1>2, <1>5, <1>7, <1>8
  <2> QED BY <1>1, <1>5, <2>1, <2>2 DEF Linked, E
<1>11. Ordered(n)
  <2> SUFFICES ASSUME NEW p \in E, NEW q \in E, p < q PROVE End(n, p) <= q
      BY DEF Ordered, E
  <2> QED BY <1>1, <1>2, <1>3, <1>5, <1>8
<1>12. Covered(n)
  <2> SUFFICES ASSUME NEW p \in E \cup {n.end}, p # Start
               PROVE  \E q \in E : End(n, q) = p
      BY DEF Covered, E
  <2>1. CASE p = e
    BY <1>5, <1>7, <2>1
  <2>2. CASE p # e
    BY <1>1, <1>5, <1>8, <1>v, <2>2
  <2> QED BY <2>1, <2>2
<1>13. Tailed(n)
  <2>1. ASSUME NEW p \in E
        PROVE  End(n, p) - TailSize \in DOMAIN n.tail /\ n.tail[End(n, p) - TailSize] = p
    <3>1. CASE p = a
      BY <1>7, <1>t, <3>1
    <3>2. CASE p # a
      <4>1. p \in D /\ End(n, p) = End(m, p)
        BY <1>5, <1>8, <3>2
      <4>2. End(m, p) - TailSize + TailSize <= a /\ End(m, p) - TailSize # e - TailSize
        BY <1>1, <1>2, <4>1
      <4>4. End(m, p) - TailSize \in DOMAIN m.tail /\ m.tail[End(m, p) - TailSize] = p
        BY <1>u, <4>1
      <4>6. End(m, p) - TailSize \in DOMAIN n.tail
        BY <1>t, <4>2, <4>4
      <4> QED BY <1>t, <4>1, <4>2, <4>4, <4>6
    <3> QED BY <3>1, <3>2
  <2>2. ASSUME NEW t \in DOMAIN n.tail
        PROVE  \E p \in E : t = End(n, p) - TailSize
    <3>1. CASE t = e - TailSize
      BY <1>5, <1>7, <3>1
    <3>2. CASE t # e - TailSize
      <4>1. t \in DOMAIN m.tail
        BY <1>t, <3>2
      <4> QED BY <1>5, <1>8, <1>u, <4>1
    <3> QED BY <3>1, <3>2
  <2> QED BY <2>1, <2>2 DEF Tailed, E
<1>14. Chain(n)
  BY <1>9, <1>10, <1>11, <1>12, <1>13 DEF Chain
<1> QED BY <1>1, <1>5, <1>6, <1>7, <1>8, <1>14 DEF D, E, a, e

(* The place of a tail, from the end of its block.                         *)
LEMMA TailPlace ==
    ASSUME NEW u \in Nat, NEW v \in Nat
    PROVE  (u # v => u - TailSize # v - TailSize) /\ u - TailSize + TailSize = u
BY KmallocAssumption

(* Clearing the two parts of a block makes two of it.                      *)
LEMMA Split ==
    ASSUME NEW m, Chain(m), NEW a \in DOMAIN m.hdr, NEW b \in Nat, NEW e, e = End(m, a),
           a + HeadSize + TailSize <= b, b + HeadSize + TailSize <= e, (b - a) % Align = 0,
           NEW c, Cleared(m, c, a, b - a),
           NEW n, Typed(n), Cleared(c, n, b, e - b)
    PROVE  /\ Chain(n) /\ n.end = m.end
           /\ b \notin DOMAIN m.hdr
           /\ DOMAIN n.hdr = DOMAIN m.hdr \cup {b}
           /\ n.hdr[a] = Header(0, b - a, 0)
           /\ n.hdr[b] = Header(0, e - b, 0)
           /\ \A q \in DOMAIN m.hdr : q # a => n.hdr[q] = m.hdr[q]
           /\ End(n, a) = b /\ End(n, b) = e
           /\ \A q \in DOMAIN m.hdr : q # a => End(n, q) = End(m, q)
<1> DEFINE D == DOMAIN m.hdr
           E == DOMAIN n.hdr
           T == DOMAIN m.tail
<1>1. /\ a \in D /\ Start \in D /\ m.end \in Nat /\ D \subseteq Nat /\ T \subseteq Nat
      /\ a \in Nat /\ b \in Nat /\ e \in Nat /\ n.end = m.end
      /\ HeadSize \in Nat /\ TailSize \in Nat /\ HeadSize > 0 /\ TailSize > 0
      /\ a + HeadSize + TailSize <= b /\ b + HeadSize + TailSize <= e
      /\ a + (b - a) = b /\ b + (e - b) = e
  BY ChainArith, KmallocAssumption DEF Cleared, End
<1>2. \A p \in D : /\ End(m, p) \in Nat /\ p + HeadSize + TailSize <= End(m, p) /\ Start <= p
                   /\ End(m, p) <= m.end /\ p < m.end /\ End(m, p) \in D \cup {m.end}
  BY ChainArith
<1>3. \A p, q \in D : p < q => End(m, p) <= q
  BY ChainArith
<1>u. /\ \A p \in D : End(m, p) - TailSize \in T /\ m.tail[End(m, p) - TailSize] = p
      /\ \A t \in T : \E p \in D : t = End(m, p) - TailSize
  BY DEF Chain, Tailed
<1>v. \A p \in D \cup {m.end} : p # Start => \E q \in D : End(m, q) = p
  BY DEF Chain, Covered
<1>p. \A p \in D \cup {m.end} : (p - Start) % Align = 0 /\ Start <= p
  BY DEF Chain, Placed
<1>l. \A p \in D : m.hdr[p].blk_len >= HeadSize + TailSize
  BY DEF Chain, Linked
<1>c. /\ DOMAIN c.hdr = {q \in D : q + HeadSize <= a \/ b <= q} \cup {a}
      /\ c.hdr[a] = Header(0, b - a, 0)
      /\ \A q \in DOMAIN c.hdr : q # a => c.hdr[q] = m.hdr[q]
      /\ DOMAIN c.tail = {t \in T : t + TailSize <= a \/ b <= t} \cup {b - TailSize}
      /\ c.tail[b - TailSize] = a
      /\ \A t \in DOMAIN c.tail : t # b - TailSize => c.tail[t] = m.tail[t]
  BY <1>1 DEF Cleared
<1>d. /\ E = {q \in DOMAIN c.hdr : q + HeadSize <= b \/ e <= q} \cup {b}
      /\ n.hdr[b] = Header(0, e - b, 0)
      /\ \A q \in E : q # b => n.hdr[q] = c.hdr[q]
      /\ DOMAIN n.tail = {t \in DOMAIN c.tail : t + TailSize <= b \/ e <= t} \cup {e - TailSize}
      /\ n.tail[e - TailSize] = b
      /\ \A t \in DOMAIN n.tail : t # e - TailSize => n.tail[t] = c.tail[t]
  BY <1>1 DEF Cleared
<1>4. /\ \A q \in D : q < a \/ q = a \/ e <= q
      /\ \A q \in D : q < a => q + HeadSize <= a
      /\ b \notin D
  <2> HIDE DEF D, T
  <2>1. \A q \in D : q < a \/ q = a \/ e <= q
    BY <1>1, <1>3
  <2>2. \A q \in D : q < a => q + HeadSize <= a
    BY <1>1, <1>2, <1>3
  <2>3. b \notin D
    BY <1>1, <2>1
  <2> QED BY <2>1, <2>2, <2>3
<1>5. DOMAIN c.hdr = D
  <2> HIDE DEF D
  <2> QED BY <1>1, <1>4, <1>c
<1>6. E = D \cup {b}
  <2>1. \A q \in D : q + HeadSize <= b \/ e <= q
    <3> HIDE DEF D
    <3> QED BY <1>1, <1>4
  <2> QED BY <1>5, <1>d, <2>1
<1>7. /\ n.hdr[a] = Header(0, b - a, 0)
      /\ n.hdr[b] = Header(0, e - b, 0)
      /\ \A q \in D : q # a => n.hdr[q] = m.hdr[q]
  <2>1. a # b /\ \A q \in D : q # b
    BY <1>1, <1>4
  <2> HIDE DEF D, E
  <2> QED BY <1>1, <1>5, <1>6, <1>c, <1>d, <2>1
<1>8. End(n, a) = b /\ End(n, b) = e
  BY <1>1, <1>7, HeaderIs DEF End
<1>9. \A q \in D : q # a => End(n, q) = End(m, q)
  BY <1>7 DEF End
<1>h. /\ n.hdr[a].blk_len = b - a /\ n.hdr[b].blk_len = e - b
      /\ \A q \in D : q # a => n.hdr[q].blk_len = m.hdr[q].blk_len
  BY <1>7, HeaderIs
<1>10. Placed(n)
  <2>1. /\ (a - Start) % Align = 0 /\ a - Start \in Int /\ b - a \in Int /\ Start \in Int
        /\ Start <= a
    BY <1>1, <1>p, KmallocAssumption
  <2>2. (a - Start + (b - a)) % Align = 0
    BY <2>1, Multiples
  <2>3. a - Start + (b - a) = b - Start /\ Start <= b
    BY <1>1, <2>1
  <2>4. (b - Start) % Align = 0 /\ Start <= b
    BY <2>2, <2>3
  <2> HIDE DEF D, E
  <2> QED BY <1>1, <1>6, <1>p, <2>4 DEF Placed, E
<1> HIDE DEF D, E, T
<1>11. Linked(n)
  <2>1. \A p \in E : n.hdr[p].blk_len >= HeadSize + TailSize
    <3>1. b - a >= HeadSize + TailSize /\ e - b >= HeadSize + TailSize
      BY <1>1
    <3> QED BY <1>6, <1>h, <1>l, <3>1
  <2>2. \A p \in E : End(n, p) \in E \cup {n.end} /\ End(n, p) <= n.end
    <3>1. e \in E \cup {n.end} /\ e <= n.end /\ b \in E /\ b <= n.end
      BY <1>1, <1>2, <1>6
    <3>2. ASSUME NEW p \in D, p # a PROVE End(n, p) \in E \cup {n.end} /\ End(n, p) <= n.end
      BY <1>1, <1>2, <1>6, <1>9, <3>2
    <3> QED BY <1>6, <1>8, <3>1, <3>2
  <2> QED BY <1>1, <1>6, <2>1, <2>2 DEF Linked, E
<1>12. Ordered(n)
  <2> SUFFICES ASSUME NEW p \in E, NEW q \in E, p < q PROVE End(n, p) <= q
      BY DEF Ordered, E
  <2>1. CASE p = a
    BY <1>1, <1>4, <1>6, <1>8, <2>1
  <2>2. CASE p = b
    BY <1>1, <1>4, <1>6, <1>8, <2>2
  <2>3. CASE p # a /\ p # b
    BY <1>1, <1>2, <1>3, <1>4, <1>6, <1>9, <2>3
  <2> QED BY <2>1, <2>2, <2>3
<1>13. Covered(n)
  <2> SUFFICES ASSUME NEW p \in E \cup {n.end}, p # Start
               PROVE  \E q \in E : End(n, q) = p
      BY DEF Covered, E
  <2>1. CASE p = b
    BY <1>1, <1>6, <1>8, <2>1
  <2>2. CASE p = e
    BY <1>6, <1>8, <2>2
  <2>3. CASE p # b /\ p # e
    <3>1. PICK q \in D : End(m, q) = p
      BY <1>1, <1>6, <1>v, <2>3
    <3>2. q # a
      BY <2>3, <3>1
    <3> QED BY <1>6, <1>9, <3>1, <3>2
  <2> QED BY <2>1, <2>2, <2>3
<1>t. \A q \in D : q # a => /\ End(m, q) # e /\ End(m, q) # b
                            /\ End(m, q) <= a \/ e <= End(m, q) - TailSize
  BY <1>1, <1>2, <1>3, <1>4
<1>14. Tailed(n)
  <2>1. ASSUME NEW p \in E
        PROVE  End(n, p) - TailSize \in DOMAIN n.tail /\ n.tail[End(n, p) - TailSize] = p
    <3>1. CASE p = b
      BY <1>8, <1>d, <3>1
    <3>2. CASE p = a
      <4>1. b - TailSize \in DOMAIN c.tail /\ b - TailSize + TailSize <= b /\ b - TailSize # e - TailSize
        BY <1>1, <1>c
      <4>2. b - TailSize \in DOMAIN n.tail
        BY <1>d, <4>1
      <4> QED BY <1>8, <1>c, <1>d, <3>2, <4>1, <4>2
    <3>3. CASE p # a /\ p # b
      <4>1. p \in D /\ End(n, p) = End(m, p) /\ End(m, p) \in Nat
        BY <1>2, <1>6, <1>9, <3>3
      <4> DEFINE t == End(m, p) - TailSize
      <4>2. t \in T /\ m.tail[t] = p
        BY <1>u, <4>1
      <4>3. t # e - TailSize /\ t # b - TailSize /\ (t + TailSize <= a \/ e <= t)
        <5>1. End(m, p) # e /\ End(m, p) # b /\ (End(m, p) <= a \/ e <= End(m, p) - TailSize)
          BY <1>t, <3>3, <4>1
        <5>2. t # e - TailSize /\ t # b - TailSize
          BY <1>1, <4>1, <5>1, TailPlace
        <5>3. t + TailSize = End(m, p)
          BY <4>1, TailPlace
        <5> QED BY <5>1, <5>2, <5>3
      <4> HIDE DEF t
      <4>4. t \in Nat /\ b <= e /\ a <= b
        <5>1. t \in Nat
          BY <1>1, <4>2
        <5>2. b <= e /\ a <= b
          BY <1>1
        <5> QED BY <5>1, <5>2
      <4>5. t \in DOMAIN c.tail
        BY <1>1, <1>c, <4>2, <4>3, <4>4
      <4>6. t \in DOMAIN n.tail
        BY <1>1, <1>d, <4>3, <4>4, <4>5
      <4>7. n.tail[t] = p
        BY <1>c, <1>d, <4>2, <4>3, <4>5, <4>6
      <4> QED BY <4>1, <4>6, <4>7 DEF t
    <3> QED BY <3>1, <3>2, <3>3
  <2>2. ASSUME NEW t \in DOMAIN n.tail
        PROVE  \E p \in E : t = End(n, p) - TailSize
    <3>1. CASE t = e - TailSize
      BY <1>6, <1>8, <3>1
    <3>2. CASE t = b - TailSize
      BY <1>1, <1>6, <1>8, <3>2
    <3>3. CASE t # e - TailSize /\ t # b - TailSize
      <4>1. t \in T
        BY <1>c, <1>d, <3>3
      <4>2. PICK p \in D : t = End(m, p) - TailSize
        BY <1>u, <4>1
      <4>3. p # a
        BY <3>3, <4>2
      <4> QED BY <1>6, <1>9, <4>2, <4>3
    <3> QED BY <3>1, <3>2, <3>3
  <2> QED BY <2>1, <2>2 DEF Tailed, E
<1>15. Chain(n)
  BY <1>10, <1>11, <1>12, <1>13, <1>14 DEF Chain
<1> QED BY <1>1, <1>4, <1>6, <1>7, <1>8, <1>9, <1>15 DEF D, E

-----------------------------------------------------------------------------
(* Walks along the chain.                                                  *)

(* A set of numbers has a least element: induction without an operator     *)
(* parameter.                                                              *)
LEMMA LeastNat ==
    ASSUME NEW S \in SUBSET Nat, S /= {}
    PROVE  \E x \in S : \A y \in S : x <= y
<1> DEFINE Less == {ss \in Nat \X Nat : ss[1] < ss[2]}
<1>1. IsWellFoundedOn(Less, Nat)
  BY NatLessThanWellFounded DEF OpToRel
<1>2. PICK x \in S : \A y \in S : <<y, x>> \notin Less
  BY <1>1, WFMin
<1>3. \A y \in S : ~(y < x)
  BY <1>2
<1> QED BY <1>3

(* g follows nx up to a cell of Stop; on the way a bounded rank falls.      *)
IsWalk(g, D, Stop, nx) == g = [q \in D |-> IF q \in Stop THEN q ELSE g[nx[q]]]

Falls(D, Stop, nx, rk, N) ==
    /\ N \in Nat
    /\ \A q \in D : rk[q] \in Nat /\ rk[q] <= N
    /\ \A q \in D : q \notin Stop => nx[q] \in D /\ rk[nx[q]] < rk[q]

(* R holds at the end of a walk, and from there back to its first cell.    *)
Holds(R, D, Stop, nx) ==
    /\ \A q \in D : q \in Stop => <<q, q>> \in R
    /\ \A q \in D, x \in D : q \notin Stop /\ <<nx[q], x>> \in R => <<q, x>> \in R

(* A walk along nx, on which a bounded rank falls until a cell of Stop is  *)
(* reached, is a function: the recursions of mm.c that follow the chain    *)
(* end.                                                                    *)
LEMMA WalkExists ==
    ASSUME NEW D, NEW Stop, NEW nx, NEW rk, NEW N, Falls(D, Stop, nx, rk, N)
    PROVE  \E g : IsWalk(g, D, Stop, nx)
<1>f. /\ N \in Nat
      /\ \A q \in D : rk[q] \in Nat /\ rk[q] <= N
      /\ \A q \in D : q \notin Stop => nx[q] \in D /\ rk[nx[q]] < rk[q]
  BY DEF Falls
<1> DEFINE Below(n) == {q \in D : rk[q] < n}
           Walks(g, n) == g = [q \in Below(n) |-> IF q \in Stop THEN q ELSE g[nx[q]]]
           Bad == {n \in Nat : ~\E g : Walks(g, n)}
<1>1. ASSUME NEW n \in Nat, NEW f, Walks(f, n) PROVE \E g : Walks(g, n + 1)
  <2> DEFINE g == [q \in Below(n + 1) |-> IF q \in Stop THEN q ELSE f[nx[q]]]
  <2>1. ASSUME NEW q \in Below(n + 1), q \notin Stop PROVE g[nx[q]] = f[nx[q]]
    <3>1. nx[q] \in Below(n) /\ nx[q] \in Below(n + 1)
      BY <1>f, <2>1
    <3>2. f[nx[q]] = IF nx[q] \in Stop THEN nx[q] ELSE f[nx[nx[q]]]
      BY <1>1, <3>1
    <3>3. g[nx[q]] = IF nx[q] \in Stop THEN nx[q] ELSE f[nx[nx[q]]]
      BY <3>1
    <3> QED BY <3>2, <3>3
  <2>2. Walks(g, n + 1)
    BY <2>1, Zenon
  <2> QED BY <2>2
<1>2. Bad = {}
  <2> SUFFICES ASSUME Bad # {} PROVE FALSE
      OBVIOUS
  <2>1. PICK n \in Bad : \A k \in Bad : n <= k
    <3> HIDE DEF Walks
    <3> QED BY LeastNat
  <2>2. n # 0
    <3> DEFINE g == [q \in Below(0) |-> q]
    <3>1. Below(0) = {}
      BY <1>f
    <3>2. Walks(g, 0)
      BY <3>1
    <3> HIDE DEF Walks
    <3>3. 0 \notin Bad
      BY <3>2
    <3> HIDE DEF Bad
    <3> QED BY <2>1, <3>3
  <2> HIDE DEF Walks
  <2>3. n \in Nat /\ n - 1 \in Nat /\ n - 1 + 1 = n /\ n - 1 \notin Bad
    <3>1. n \in Nat
      BY <2>1
    <3> HIDE DEF Bad
    <3> QED BY <2>1, <2>2, <3>1
  <2>4. PICK f : Walks(f, n - 1)
    BY <2>3
  <2>5. \E g : Walks(g, n - 1 + 1)
    BY <1>1, <2>3, <2>4
  <2> QED BY <2>1, <2>3, <2>5
<1>3. PICK g : Walks(g, N + 1)
  <2> HIDE DEF Walks
  <2>1. N + 1 \in Nat /\ N + 1 \notin Bad
    BY <1>2, <1>f
  <2> QED BY <2>1
<1>4. Below(N + 1) = D
  BY <1>f
<1> QED BY <1>3, <1>4 DEF IsWalk

(* Where a walk ends, and a relation R that holds from the last cell back  *)
(* to the first.                                                           *)
LEMMA WalkEnds ==
    ASSUME NEW D, NEW Stop, NEW nx, NEW rk, NEW N, Falls(D, Stop, nx, rk, N),
           NEW R, Holds(R, D, Stop, nx),
           NEW g, IsWalk(g, D, Stop, nx)
    PROVE  \A q \in D : g[q] \in D /\ g[q] \in Stop /\ <<q, g[q]>> \in R
<1>f. /\ \A q \in D : rk[q] \in Nat
      /\ \A q \in D : q \notin Stop => nx[q] \in D /\ rk[nx[q]] < rk[q]
      /\ \A q \in D : q \in Stop => <<q, q>> \in R
      /\ \A q \in D, x \in D : q \notin Stop /\ <<nx[q], x>> \in R => <<q, x>> \in R
  BY DEF Falls, Holds
<1> DEFINE Good(q) == g[q] \in D /\ g[q] \in Stop /\ <<q, g[q]>> \in R
           Bad == {rk[q] : q \in {p \in D : ~Good(p)}}
<1>1. \A q \in D : g[q] = IF q \in Stop THEN q ELSE g[nx[q]]
  BY Zenon DEF IsWalk
<1>2. SUFFICES ASSUME Bad # {} PROVE FALSE
  OBVIOUS
<1>3. PICK n \in Bad : \A k \in Bad : n <= k
  <2> HIDE DEF Good
  <2>1. Bad \in SUBSET Nat
    BY <1>f
  <2> HIDE DEF Bad
  <2> QED BY <1>2, <2>1, LeastNat
<1>4. PICK q \in D : ~Good(q) /\ rk[q] = n
  BY <1>3
<1>5. q \notin Stop
  BY <1>1, <1>4, <1>f
<1>6. nx[q] \in D /\ rk[nx[q]] < rk[q]
  BY <1>5, <1>f
<1>7. Good(nx[q])
  <2> HIDE DEF Good
  <2>1. rk[nx[q]] \in Nat /\ rk[q] \in Nat
    BY <1>6, <1>f
  <2>2. rk[nx[q]] \notin Bad
    <3> HIDE DEF Bad
    <3> QED BY <1>3, <1>4, <1>6, <2>1
  <2> QED BY <1>6, <2>2
<1>8. g[q] = g[nx[q]]
  BY <1>1, <1>5
<1> QED BY <1>4, <1>5, <1>6, <1>7, <1>8, <1>f

(* The block before another one, which the tail of the former leads to.    *)
LEMMA PrevBlk ==
    ASSUME NEW m, Chain(m), NEW p \in DOMAIN m.hdr
    PROVE  /\ p = Start => prev_mem_blk(m, p) = NULL
           /\ p # Start => /\ prev_mem_blk(m, p) \in DOMAIN m.hdr
                           /\ End(m, prev_mem_blk(m, p)) = p
                           /\ prev_mem_blk(m, p) # NULL /\ prev_mem_blk(m, p) < p
<1>1. CASE p = Start
  BY <1>1, KmallocAssumption DEF prev_mem_blk
<1>2. CASE p # Start
  <2>1. PICK q \in DOMAIN m.hdr : End(m, q) = p
    BY <1>2 DEF Chain, Covered
  <2>2. q \in Nat /\ Start <= q /\ q + HeadSize + TailSize <= p /\ p \in Nat
    BY <2>1, ChainArith
  <2>3. m.tail[p - TailSize] = q
    BY <2>1 DEF Chain, Tailed
  <2>4. ~(p - TailSize < Start) /\ q # 0 /\ q < p
    BY <2>2, KmallocAssumption
  <2>5. prev_mem_blk(m, p) = q
    BY <2>3, <2>4 DEF prev_mem_blk
  <2> QED BY <1>2, <2>1, <2>4, <2>5 DEF NULL
<1> QED BY <1>1, <1>2

(* The block behind another one, which ends where it begins.               *)
LEMMA NextBlk ==
    ASSUME NEW m, Chain(m), NEW p \in DOMAIN m.hdr
    PROVE  /\ End(m, p) = m.end => next_mem_blk(m, p) = NULL
           /\ End(m, p) # m.end => /\ next_mem_blk(m, p) = End(m, p)
                                   /\ End(m, p) \in DOMAIN m.hdr
                                   /\ End(m, p) # NULL /\ p < End(m, p)
<1>1. /\ End(m, p) \in DOMAIN m.hdr \cup {m.end} /\ End(m, p) <= m.end
      /\ p + HeadSize + TailSize <= End(m, p) /\ End(m, p) \in Nat /\ m.end \in Nat /\ p \in Nat
  BY ChainArith
<1>2. next_mem_blk(m, p) = IF End(m, p) >= m.end THEN NULL ELSE End(m, p)
  BY DEF next_mem_blk, End
<1>3. End(m, p) # 0 /\ p < End(m, p) /\ (End(m, p) >= m.end <=> End(m, p) = m.end)
  BY <1>1, KmallocAssumption
<1> QED BY <1>1, <1>2, <1>3 DEF NULL

(* most_prev: the blocks from its result up to p are free, and there is no *)
(* free one before them.                                                   *)
LEMMA MostPrev ==
    ASSUME NEW m, Chain(m), NEW p \in DOMAIN m.hdr
    PROVE  /\ most_prev(m, p) \in DOMAIN m.hdr /\ most_prev(m, p) <= p
           /\ \A r \in DOMAIN m.hdr : End(m, r) = most_prev(m, p) => ~is_blk_free(m, r)
           /\ \A r \in DOMAIN m.hdr : most_prev(m, p) <= r /\ r < p => is_blk_free(m, r)
<1> DEFINE D == DOMAIN m.hdr
           nx == [q \in D |-> prev_mem_blk(m, q)]
           Stop == {q \in D : ~(nx[q] # NULL /\ is_blk_free(m, nx[q]))}
           rk == [q \in D |-> q]
           R == {ss \in D \X D : /\ ss[2] <= ss[1]
                                 /\ \A r \in D : ss[2] <= r /\ r < ss[1] => is_blk_free(m, r)}
           go == CHOOSE g : g = [q \in D |-> LET r == prev_mem_blk(m, q)
                                             IN  IF r # NULL /\ is_blk_free(m, r) THEN g[r] ELSE q]
<1>1. most_prev(m, p) = go[p]
  BY DEF most_prev
<1>2. /\ D \subseteq Nat /\ m.end \in Nat /\ p \in D
      /\ \A q \in D : End(m, q) \in Nat /\ q < End(m, q) /\ q <= m.end /\ q \in Nat
      /\ \A q, r \in D : q < r => End(m, q) <= r
      /\ \A q, r \in D : End(m, q) = End(m, r) => q = r
  BY ChainArith, KmallocAssumption
<1>3. /\ nx[Start] = NULL
      /\ \A q \in D : q # Start => nx[q] \in D /\ End(m, nx[q]) = q /\ nx[q] # NULL /\ nx[q] < q
  BY PrevBlk DEF Chain, Linked
<1>4. \A q \in D : rk[q] \in Nat /\ rk[q] <= m.end
  BY <1>2
<1>5. \A q \in D : q \notin Stop => q # Start /\ nx[q] \in D /\ nx[q] < q /\ End(m, nx[q]) = q /\ is_blk_free(m, nx[q])
  <2> HIDE DEF nx
  <2> QED BY <1>3
<1>6. \A q \in D : q \notin Stop => nx[q] \in D /\ rk[nx[q]] < rk[q]
  <2> HIDE DEF nx, Stop
  <2> QED BY <1>5
<1>7. \A g : IsWalk(g, D, Stop, nx) <=> g = [q \in D |-> LET r == prev_mem_blk(m, q)
                                           IN  IF r # NULL /\ is_blk_free(m, r) THEN g[r] ELSE q]
  <2> SUFFICES ASSUME NEW g
               PROVE  \A q \in D : (IF q \in Stop THEN q ELSE g[nx[q]])
                                    = (LET r == prev_mem_blk(m, q)
                                       IN  IF r # NULL /\ is_blk_free(m, r) THEN g[r] ELSE q)
      BY Zenon DEF IsWalk
  <2>1. ASSUME NEW q \in D PROVE nx[q] = prev_mem_blk(m, q)
    OBVIOUS
  <2> QED BY <2>1
<1>8. \A q \in D : q \in Stop => <<q, q>> \in R
  BY <1>2
<1>9. \A q \in D, x \in D : q \notin Stop /\ <<nx[q], x>> \in R => <<q, x>> \in R
  <2> SUFFICES ASSUME NEW q \in D, NEW x \in D, q \notin Stop, <<nx[q], x>> \in R
               PROVE  <<q, x>> \in R
      OBVIOUS
  <2> DEFINE s == nx[q]
  <2>1. s \in D /\ s < q /\ End(m, s) = q /\ is_blk_free(m, s)
    BY <1>5
  <2>2. x <= s /\ \A r \in D : x <= r /\ r < s => is_blk_free(m, r)
    OBVIOUS
  <2> HIDE DEF s, nx, Stop, D
  <2>3. x <= q
    BY <1>2, <2>1, <2>2
  <2>4. \A r \in D : x <= r /\ r < q => is_blk_free(m, r)
    <3> SUFFICES ASSUME NEW r \in D, x <= r, r < q PROVE is_blk_free(m, r)
        OBVIOUS
    <3>1. r < s \/ r = s
      BY <1>2, <2>1
    <3> QED BY <2>1, <2>2, <3>1
  <2> QED BY <2>3, <2>4
<1> HIDE DEF D, nx, Stop, rk, R
<1>10. Falls(D, Stop, nx, rk, m.end)
  BY <1>2, <1>4, <1>6 DEF Falls
<1>11. IsWalk(go, D, Stop, nx)
  BY <1>7, <1>10, WalkExists, Zenon DEF go
<1>12. Holds(R, D, Stop, nx)
  BY <1>8, <1>9 DEF Holds
<1> HIDE DEF go
<1>15. \A q \in D : go[q] \in D /\ go[q] \in Stop /\ <<q, go[q]>> \in R
  BY <1>10, <1>11, <1>12, WalkEnds, Zenon
<1> DEFINE x == go[p]
<1>13. x \in D /\ x \in Stop /\ x <= p /\ \A r \in D : x <= r /\ r < p => is_blk_free(m, r)
  BY <1>2, <1>15 DEF R
<1>14. \A r \in D : End(m, r) = x => ~is_blk_free(m, r)
  <2> SUFFICES ASSUME NEW r \in D, End(m, r) = x PROVE ~is_blk_free(m, r)
      OBVIOUS
  <2> HIDE DEF x
  <2>1. x # Start
    <3>1. Start <= r /\ r < x /\ Start \in Nat /\ r \in Nat
      BY <1>2, ChainArith DEF D
    <3> QED BY <3>1
  <2>2. nx[x] = r
    BY <1>2, <1>3, <1>13, <2>1
  <2>3. r # NULL
    BY <1>3, <1>13, <2>1, <2>2
  <2> QED BY <1>13, <2>2, <2>3 DEF Stop
<1> QED BY <1>1, <1>13, <1>14 DEF D

(* most_next: the blocks behind p up to its result are free, and there is  *)
(* no free one behind them.                                                *)
LEMMA MostNext ==
    ASSUME NEW m, Chain(m), NEW p \in DOMAIN m.hdr
    PROVE  /\ most_next(m, p) \in DOMAIN m.hdr /\ p <= most_next(m, p)
           /\ \A r \in DOMAIN m.hdr : r = End(m, most_next(m, p)) => ~is_blk_free(m, r)
           /\ \A r \in DOMAIN m.hdr : p < r /\ r <= most_next(m, p) => is_blk_free(m, r)
<1> DEFINE D == DOMAIN m.hdr
           nx == [q \in D |-> next_mem_blk(m, q)]
           Stop == {q \in D : ~(nx[q] # NULL /\ is_blk_free(m, nx[q]))}
           rk == [q \in D |-> m.end - q]
           R == {ss \in D \X D : /\ ss[1] <= ss[2]
                                 /\ \A r \in D : ss[1] < r /\ r <= ss[2] => is_blk_free(m, r)}
           go == CHOOSE g : g = [q \in D |-> LET r == next_mem_blk(m, q)
                                             IN  IF r # NULL /\ is_blk_free(m, r) THEN g[r] ELSE q]
<1>1. most_next(m, p) = go[p]
  BY DEF most_next
<1>2. /\ D \subseteq Nat /\ m.end \in Nat /\ p \in D
      /\ \A q \in D : End(m, q) \in Nat /\ q < End(m, q) /\ q <= m.end /\ q \in Nat
      /\ \A q, r \in D : q < r => End(m, q) <= r
      /\ \A q, r \in D : End(m, q) = End(m, r) => q = r
  BY ChainArith, KmallocAssumption
<1>3. \A q \in D : /\ End(m, q) = m.end => nx[q] = NULL
                   /\ End(m, q) # m.end => nx[q] \in D /\ nx[q] = End(m, q) /\ nx[q] # NULL
  BY NextBlk
<1>4. \A q \in D : rk[q] \in Nat /\ rk[q] <= m.end
  BY <1>2
<1>5. \A q \in D : q \notin Stop =>
        nx[q] \in D /\ q < nx[q] /\ End(m, q) = nx[q] /\ is_blk_free(m, nx[q])
  <2> HIDE DEF nx, D
  <2> QED BY <1>2, <1>3
<1>6. \A q \in D : q \notin Stop => nx[q] \in D /\ rk[nx[q]] < rk[q]
  <2> SUFFICES ASSUME NEW q \in D, q \notin Stop PROVE nx[q] \in D /\ rk[nx[q]] < rk[q]
      OBVIOUS
  <2> HIDE DEF nx, Stop
  <2>1. nx[q] \in D /\ q < nx[q] /\ q \in Nat /\ nx[q] \in Nat /\ m.end \in Nat
    BY <1>2, <1>5
  <2> QED BY <2>1
<1>7. \A g : IsWalk(g, D, Stop, nx) <=> g = [q \in D |-> LET r == next_mem_blk(m, q)
                                           IN  IF r # NULL /\ is_blk_free(m, r) THEN g[r] ELSE q]
  <2> SUFFICES ASSUME NEW g
               PROVE  \A q \in D : (IF q \in Stop THEN q ELSE g[nx[q]])
                                    = (LET r == next_mem_blk(m, q)
                                       IN  IF r # NULL /\ is_blk_free(m, r) THEN g[r] ELSE q)
      BY Zenon DEF IsWalk
  <2>1. ASSUME NEW q \in D PROVE nx[q] = next_mem_blk(m, q)
    OBVIOUS
  <2> QED BY <2>1
<1>8. \A q \in D : q \in Stop => <<q, q>> \in R
  BY <1>2
<1>9. \A q \in D, x \in D : q \notin Stop /\ <<nx[q], x>> \in R => <<q, x>> \in R
  <2> SUFFICES ASSUME NEW q \in D, NEW x \in D, q \notin Stop, <<nx[q], x>> \in R
               PROVE  <<q, x>> \in R
      OBVIOUS
  <2> DEFINE s == nx[q]
  <2>1. s \in D /\ q < s /\ End(m, q) = s /\ is_blk_free(m, s)
    BY <1>5
  <2>2. s <= x /\ \A r \in D : s < r /\ r <= x => is_blk_free(m, r)
    OBVIOUS
  <2> HIDE DEF s, nx, Stop, D
  <2>3. q <= x
    BY <1>2, <2>1, <2>2
  <2>4. \A r \in D : q < r /\ r <= x => is_blk_free(m, r)
    <3> SUFFICES ASSUME NEW r \in D, q < r, r <= x PROVE is_blk_free(m, r)
        OBVIOUS
    <3>1. s < r \/ r = s
      BY <1>2, <2>1
    <3> QED BY <2>1, <2>2, <3>1
  <2> QED BY <2>3, <2>4
<1> HIDE DEF D, nx, Stop, rk, R
<1>10. Falls(D, Stop, nx, rk, m.end)
  BY <1>2, <1>4, <1>6 DEF Falls
<1>11. IsWalk(go, D, Stop, nx)
  BY <1>7, <1>10, WalkExists, Zenon DEF go
<1>12. Holds(R, D, Stop, nx)
  BY <1>8, <1>9 DEF Holds
<1> HIDE DEF go
<1>15. \A q \in D : go[q] \in D /\ go[q] \in Stop /\ <<q, go[q]>> \in R
  BY <1>10, <1>11, <1>12, WalkEnds, Zenon
<1> DEFINE x == go[p]
<1>13. x \in D /\ x \in Stop /\ p <= x /\ \A r \in D : p < r /\ r <= x => is_blk_free(m, r)
  BY <1>2, <1>15 DEF R
<1>14. \A r \in D : r = End(m, x) => ~is_blk_free(m, r)
  <2> SUFFICES ASSUME NEW r \in D, r = End(m, x) PROVE ~is_blk_free(m, r)
      OBVIOUS
  <2> HIDE DEF x
  <2>1. End(m, x) # m.end
    <3>1. r < m.end /\ r \in Nat /\ m.end \in Nat
      BY ChainArith DEF D
    <3> QED BY <3>1
  <2> QED BY <1>3, <1>13, <2>1 DEF Stop
<1> QED BY <1>1, <1>13, <1>14 DEF D

(* find_a_free_blk: a free block that is big enough, the first one in the  *)
(* order of addresses, or none if there is none.                           *)
LEMMA FindBlk ==
    ASSUME NEW m, Chain(m), NEW size
    PROVE  LET p == find_a_free_blk(m, size)
           IN  /\ p = NULL \/ (p \in DOMAIN m.hdr /\ is_blk_free(m, p) /\ big_mem_blk(m, p, size))
               /\ \A r \in DOMAIN m.hdr : p = NULL \/ r < p =>
                    ~(is_blk_free(m, r) /\ big_mem_blk(m, r, size))
<1> DEFINE D == DOMAIN m.hdr \cup {NULL}
           nx == [p \in D |-> next_mem_blk(m, p)]
           Stop == {p \in D : p = NULL \/ (is_blk_free(m, p) /\ big_mem_blk(m, p, size))}
           rk == [p \in D |-> IF p = NULL THEN 0 ELSE m.end - p]
           go == CHOOSE g : g = [p \in D |-> IF p = NULL \/ (is_blk_free(m, p) /\ big_mem_blk(m, p, size))
                                             THEN p ELSE g[next_mem_blk(m, p)]]
<1>1. find_a_free_blk(m, size) = go[Start]
  BY DEF find_a_free_blk
<1>2. /\ Start \in DOMAIN m.hdr /\ m.end \in Nat
      /\ \A q \in DOMAIN m.hdr : q \in Nat /\ q < m.end /\ q # NULL
  BY ChainArith, KmallocAssumption DEF NULL
<1>3. \A q \in DOMAIN m.hdr : next_mem_blk(m, q) = NULL \/
                              (next_mem_blk(m, q) \in DOMAIN m.hdr /\ q < next_mem_blk(m, q))
  BY NextBlk
<1>4. \A q \in D : q \notin Stop => nx[q] \in D /\ rk[nx[q]] < rk[q]
  <2> SUFFICES ASSUME NEW q \in D, q \notin Stop PROVE nx[q] \in D /\ rk[nx[q]] < rk[q]
      OBVIOUS
  <2>1. q \in DOMAIN m.hdr /\ q # NULL /\ rk[q] = m.end - q
    OBVIOUS
  <2>2. nx[q] = next_mem_blk(m, q)
    BY <2>1
  <2> DEFINE s == nx[q]
  <2>3. s = NULL \/ (s \in DOMAIN m.hdr /\ q < s /\ s # NULL)
    BY <1>2, <1>3, <2>1, <2>2
  <2>4. s \in D /\ rk[s] = IF s = NULL THEN 0 ELSE m.end - s
    BY <2>3
  <2> HIDE DEF s, nx, rk, D, Stop
  <2>5. rk[s] < rk[q]
    BY <1>2, <2>1, <2>3, <2>4
  <2> QED BY <2>4, <2>5 DEF s
<1>5. Falls(D, Stop, nx, rk, m.end)
  <2>1. \A q \in D : rk[q] \in Nat /\ rk[q] <= m.end
    <3>1. ASSUME NEW q \in D PROVE rk[q] = IF q = NULL THEN 0 ELSE m.end - q
      OBVIOUS
    <3> HIDE DEF rk
    <3> QED BY <1>2, <3>1
  <2> HIDE DEF D, Stop, nx, rk
  <2> QED BY <1>2, <1>4, <2>1 DEF Falls
<1>6. \A g : IsWalk(g, D, Stop, nx)
             <=> g = [p \in D |-> IF p = NULL \/ (is_blk_free(m, p) /\ big_mem_blk(m, p, size))
                                  THEN p ELSE g[next_mem_blk(m, p)]]
  <2> SUFFICES ASSUME NEW g
               PROVE  \A q \in D : (IF q \in Stop THEN q ELSE g[nx[q]])
                                    = (IF q = NULL \/ (is_blk_free(m, q) /\ big_mem_blk(m, q, size))
                                       THEN q ELSE g[next_mem_blk(m, q)])
      BY Zenon DEF IsWalk
  <2>1. ASSUME NEW q \in D PROVE nx[q] = next_mem_blk(m, q)
    OBVIOUS
  <2> QED BY <2>1
<1> DEFINE Fits(r) == is_blk_free(m, r) /\ big_mem_blk(m, r, size)
           None(q, x) == \A r \in DOMAIN m.hdr :
                            q # NULL /\ q <= r /\ (x = NULL \/ r < x) => ~Fits(r)
           R == {ss \in D \X D : None(ss[1], ss[2])}
<1>7. Holds(R, D, Stop, nx)
  <2>1. ASSUME NEW q \in D PROVE None(q, q)
    <3> HIDE DEF Fits
    <3> QED BY <1>2
  <2>2. ASSUME NEW q \in D, NEW x \in D, q \notin Stop, None(nx[q], x) PROVE None(q, x)
    <3>1. q \in DOMAIN m.hdr /\ ~Fits(q) /\ nx[q] = next_mem_blk(m, q) /\ q \in Nat
      BY <1>2, <2>2
    <3> SUFFICES ASSUME NEW r \in DOMAIN m.hdr, q <= r, x = NULL \/ r < x PROVE ~Fits(r)
        OBVIOUS
    <3> HIDE DEF Fits, nx, Stop
    <3>2. CASE r = q
      BY <3>1, <3>2
    <3>3. CASE r # q
      <4>1. End(m, q) <= r /\ r < m.end /\ r \in Nat /\ m.end \in Nat
        <5>1. q < r
          BY <1>2, <3>1, <3>3
        <5> QED BY <1>2, <3>1, <5>1, ChainArith
      <4>2. End(m, q) # m.end
        BY <4>1
      <4>3. nx[q] = End(m, q) /\ nx[q] # NULL
        BY <3>1, <4>2, NextBlk
      <4> QED BY <2>2, <4>1, <4>3
    <3> QED BY <3>2, <3>3
  <2>3. \A q \in D : q \in Stop => <<q, q>> \in R
    <3> HIDE DEF None, Stop
    <3> QED BY <2>1
  <2>4. \A q \in D, x \in D : q \notin Stop /\ <<nx[q], x>> \in R => <<q, x>> \in R
    <3> HIDE DEF None, Stop, nx
    <3> QED BY <2>2
  <2> HIDE DEF D, Stop, nx, R
  <2> QED BY <2>3, <2>4 DEF Holds
<1>8. Start \in D
  BY <1>2
<1> HIDE DEF D, Stop, nx, rk, R
<1>9. IsWalk(go, D, Stop, nx)
  BY <1>5, <1>6, WalkExists, Zenon DEF go
<1> HIDE DEF go
<1>10. go[Start] \in D /\ go[Start] \in Stop /\ <<Start, go[Start]>> \in R
  BY <1>5, <1>7, <1>8, <1>9, WalkEnds, Zenon
<1> DEFINE p == go[Start]
<1>11. None(Start, p)
  <2> HIDE DEF None
  <2> QED BY <1>10 DEF R
<1>12. \A r \in DOMAIN m.hdr : p = NULL \/ r < p => ~Fits(r)
  <2>1. Start # NULL /\ \A r \in DOMAIN m.hdr : Start <= r
    BY <1>2, ChainArith
  <2> HIDE DEF Fits, p
  <2> QED BY <1>11, <2>1
<1> QED BY <1>1, <1>10, <1>12 DEF D, Stop

-----------------------------------------------------------------------------
(* What the operations do to a chain.                                      *)

(* The blocks in use.                                                      *)
Busy(m) == {q \in DOMAIN m.hdr : m.hdr[q].in_use = 1}

(* The same blocks are in use, as before.                                  *)
SameBusy(m, n) == Busy(n) = Busy(m) /\ \A q \in Busy(m) : n.hdr[q] = m.hdr[q]

(* No two free blocks of S are neighbours.                                 *)
MergedIn(m, S) ==
    \A p, q \in S : is_blk_free(m, p) /\ is_blk_free(m, q) => End(m, p) # q

(* A block is free or in use.                                              *)
LEMMA FreeOrBusy ==
    ASSUME NEW m, Chain(m), NEW p \in DOMAIN m.hdr
    PROVE  is_blk_free(m, p) <=> p \notin Busy(m)
BY ChainArith DEF is_blk_free, Busy

(* merge_free_blk: the chain stays whole, free neighbours become one       *)
(* block, and nothing that is in use is touched.                           *)
LEMMA MergeFree ==
    ASSUME NEW m, Chain(m), NEW p \in DOMAIN m.hdr, is_blk_free(m, p),
           MergedIn(m, DOMAIN m.hdr \ {p}),
           NEW n, n = merge_free_blk(m, p)
    PROVE  Chain(n) /\ n.end = m.end /\ SameBusy(m, n) /\ MergedIn(n, DOMAIN n.hdr)
<1> DEFINE left == most_prev(m, p)
           right == most_next(m, p)
           e == End(m, right)
           D == DOMAIN m.hdr
           E == DOMAIN n.hdr
<1>1. /\ left \in D /\ left <= p
      /\ \A r \in D : End(m, r) = left => ~is_blk_free(m, r)
      /\ \A r \in D : left <= r /\ r < p => is_blk_free(m, r)
  BY MostPrev
<1>2. /\ right \in D /\ p <= right
      /\ \A r \in D : r = e => ~is_blk_free(m, r)
      /\ \A r \in D : p < r /\ r <= right => is_blk_free(m, r)
  BY MostNext
<1>3. n = init_free_blk(m, left, e - left)
  <2>1. e = right + m.hdr[right].blk_len
    BY DEF End
  <2>2. n = init_free_blk(m, left, right + m.hdr[right].blk_len - left)
    BY DEF merge_free_blk
  <2>3. left \in Nat /\ right \in Nat /\ m.hdr[right].blk_len \in Nat
    BY <1>1, <1>2, ChainArith
  <2> HIDE DEF left, right, e
  <2>4. e - left = right + m.hdr[right].blk_len - left
    BY <2>1, <2>3
  <2> QED BY <2>2, <2>4, Zenon
<1>4. /\ p \in D /\ D \subseteq Nat
      /\ \A q \in D : End(m, q) \in Nat /\ q + HeadSize + TailSize <= End(m, q)
      /\ \A q \in D : End(m, q) \in D \cup {m.end}
      /\ \A q, r \in D : q < r => End(m, q) <= r
      /\ HeadSize \in Nat \ {0} /\ TailSize \in Nat \ {0}
  BY ChainArith, KmallocAssumption
<1>a. is_blk_free(m, p) /\ MergedIn(m, D \ {p})
  OBVIOUS
<1> HIDE DEF left, right, D, E, e
<1>5. /\ left \in Nat /\ e \in Nat /\ left + HeadSize + TailSize <= e /\ p < e
      /\ e \in D \cup {m.end}
      /\ \A r \in D : right < r => e <= r
  BY <1>1, <1>2, <1>4 DEF e
<1>6. Typed(n) /\ Cleared(m, n, left, e - left)
  <2>1. e - left \in Nat /\ e - left >= HeadSize + TailSize
    BY <1>4, <1>5
  <2>2. Typed(m)
    BY DEF Chain
  <2> QED BY <1>3, <1>5, <2>1, <2>2, InitFreeBlk
<1>7. /\ Chain(n) /\ n.end = m.end
      /\ E = {q \in D : q <= left \/ e <= q}
      /\ n.hdr[left] = Header(0, e - left, 0)
      /\ \A q \in E : q # left => n.hdr[q] = m.hdr[q]
      /\ End(n, left) = e
      /\ \A q \in E : q # left => End(n, q) = End(m, q)
  <2>1. left < e
    BY <1>4, <1>5
  <2> QED BY <1>1, <1>5, <1>6, <2>1, Span DEF D, E
<1>8. \A r \in D : left <= r /\ r < e => is_blk_free(m, r)
  <2> SUFFICES ASSUME NEW r \in D, left <= r, r < e PROVE is_blk_free(m, r)
      OBVIOUS
  <2>0. r \in Nat /\ p \in Nat /\ right \in Nat /\ ~(right < r)
    BY <1>2, <1>4, <1>5
  <2>1. r < p \/ r = p \/ (p < r /\ r <= right)
    BY <2>0
  <2> QED BY <1>1, <1>2, <1>a, <2>1
<1>9. \A q \in D : is_blk_free(m, q) <=> q \notin Busy(m)
  BY FreeOrBusy DEF D
<1>10. \A q \in E : is_blk_free(n, q) <=> q \notin Busy(n)
  BY <1>7, FreeOrBusy DEF E
<1>11. left \in E /\ is_blk_free(n, left)
  BY <1>1, <1>4, <1>7, HeaderIs DEF is_blk_free
<1>12. \A q \in E : q # left => q \in D /\ (is_blk_free(n, q) <=> is_blk_free(m, q))
  BY <1>7 DEF is_blk_free
<1>13. \A q \in D : q \in Busy(m) => q \in E /\ q # left
  <2> SUFFICES ASSUME NEW q \in D, q \in Busy(m) PROVE q \in E /\ q # left
      OBVIOUS
  <2>1. ~(left <= q /\ q < e)
    BY <1>8, <1>9
  <2> QED BY <1>1, <1>4, <1>5, <1>7, <2>1
<1>14. SameBusy(m, n)
  <2>1. Busy(m) \subseteq D /\ Busy(n) \subseteq E
    BY DEF Busy, D, E
  <2>2. \A q \in Busy(m) : q \in Busy(n) /\ n.hdr[q] = m.hdr[q]
    BY <1>7, <1>9, <1>10, <1>12, <1>13, <2>1
  <2>3. \A q \in Busy(n) : q \in Busy(m)
    BY <1>9, <1>10, <1>11, <1>12, <2>1
  <2> QED BY <2>2, <2>3 DEF SameBusy
<1>15. MergedIn(n, E)
  <2> SUFFICES ASSUME NEW r \in E, NEW q \in E, is_blk_free(n, r), is_blk_free(n, q),
                      End(n, r) = q
               PROVE  FALSE
      BY DEF MergedIn
  <2>1. q # r
    <3>1. q \in Nat /\ r \in Nat /\ r < End(n, r)
      BY <1>4, <1>7, ChainArith DEF E
    <3> QED BY <3>1
  <2>2. CASE r = left
    <3>1. q # left /\ q = e /\ q \in D
      BY <1>7, <1>12, <2>1, <2>2
    <3> QED BY <1>2, <1>12, <3>1
  <2>3. CASE q = left
    <3>1. r # left /\ r \in D /\ End(m, r) = left
      BY <1>7, <1>12, <2>1, <2>3
    <3> QED BY <1>1, <1>12, <3>1
  <2>4. CASE r # left /\ q # left
    <3>1. \A s \in E : s # left => s # p
      BY <1>1, <1>4, <1>5, <1>7
    <3>2. r \in D \ {p} /\ q \in D \ {p} /\ is_blk_free(m, r) /\ is_blk_free(m, q)
      BY <1>12, <2>4, <3>1
    <3>3. End(m, r) = q
      BY <1>7, <2>4
    <3> QED BY <1>a, <3>2, <3>3 DEF MergedIn
  <2> QED BY <2>2, <2>3, <2>4
<1> QED BY <1>7, <1>14, <1>15 DEF E

(* A new mark in a header moves nothing.                                   *)
LEMMA SetUse ==
    ASSUME NEW m, Chain(m), NEW p \in DOMAIN m.hdr, NEW u \in {0, 1}, NEW l \in Nat,
           NEW n, n = [m EXCEPT !.hdr[p] = Header(u, m.hdr[p].blk_len, l)]
    PROVE  /\ Chain(n) /\ n.end = m.end /\ DOMAIN n.hdr = DOMAIN m.hdr
           /\ n.hdr[p] = Header(u, m.hdr[p].blk_len, l)
           /\ \A q \in DOMAIN m.hdr : q # p => n.hdr[q] = m.hdr[q]
           /\ \A q \in DOMAIN m.hdr : End(n, q) = End(m, q)
<1> DEFINE D == DOMAIN m.hdr
           v == Header(u, m.hdr[p].blk_len, l)
<1>1. Typed(m) /\ Placed(m) /\ Linked(m) /\ Ordered(m) /\ Covered(m) /\ Tailed(m)
  BY DEF Chain
<1>2. v \in HeaderType /\ v.blk_len = m.hdr[p].blk_len
  BY ChainArith, HeaderIs
<1>3. m = [hdr |-> m.hdr, tail |-> m.tail, end |-> m.end] /\ m.hdr \in [D -> HeaderType]
  BY <1>1 DEF Typed
<1> HIDE DEF v
<1>4. n = [hdr |-> [m.hdr EXCEPT ![p] = v], tail |-> m.tail, end |-> m.end]
  BY <1>3 DEF v
<1>5. n.hdr = [m.hdr EXCEPT ![p] = v] /\ n.tail = m.tail /\ n.end = m.end
  BY <1>4
<1>6. /\ DOMAIN n.hdr = D /\ n.hdr \in [D -> HeaderType] /\ n.hdr[p] = v
      /\ \A q \in D : q # p => n.hdr[q] = m.hdr[q]
  BY <1>2, <1>3, <1>5
<1>7. \A q \in D : n.hdr[q].blk_len = m.hdr[q].blk_len
  BY <1>2, <1>6
<1>8. \A q \in D : End(n, q) = End(m, q)
  BY <1>7 DEF End
<1>9. Typed(n)
  <2>1. n = [hdr |-> n.hdr, tail |-> n.tail, end |-> n.end]
    BY <1>4, <1>5
  <2> QED BY <1>1, <1>5, <1>6, <2>1 DEF Typed
<1>10. Placed(n)
  BY <1>1, <1>5, <1>6 DEF Placed
<1>11. Linked(n)
  BY <1>1, <1>5, <1>6, <1>7, <1>8 DEF Linked
<1>12. Ordered(n) /\ Covered(n)
  BY <1>1, <1>5, <1>6, <1>8 DEF Ordered, Covered
<1>13. Tailed(n)
  BY <1>1, <1>5, <1>6, <1>8 DEF Tailed
<1>14. Chain(n)
  BY <1>9, <1>10, <1>11, <1>12, <1>13 DEF Chain
<1> QED BY <1>5, <1>6, <1>8, <1>14 DEF v

(* split_mem_blk, and what a block is before it is marked: it has room for *)
(* size bytes, and nothing that is in use is touched.                      *)
LEMMA CutBlk ==
    ASSUME NEW m, Chain(m), MergedIn(m, DOMAIN m.hdr), NEW p \in DOMAIN m.hdr,
           is_blk_free(m, p), NEW size \in Nat, size % Align = 0, big_mem_blk(m, p, size),
           NEW n, n = IF should_split(m, p, size) THEN split_mem_blk(m, p, size) ELSE m
    PROVE  /\ Chain(n) /\ n.end = m.end /\ p \in DOMAIN n.hdr /\ SameBusy(m, n)
           /\ p + HeadSize + size + TailSize <= End(n, p)
           /\ MergedIn(n, DOMAIN n.hdr \ {p})
<1> DEFINE new == HeadSize + size + TailSize
           len == m.hdr[p].blk_len
           e == End(m, p)
           b == p + new
           D == DOMAIN m.hdr
<1>1. /\ p \in D /\ D \subseteq Nat /\ p \in Nat /\ len \in Nat /\ e \in Nat /\ e = p + len
      /\ HeadSize \in Nat \ {0} /\ TailSize \in Nat \ {0} /\ new \in Nat /\ b \in Nat
      /\ m.end \in Nat /\ e <= m.end /\ e \in D \cup {m.end}
      /\ \A q \in D : End(m, q) \in D \cup {m.end}
  BY ChainArith, KmallocAssumption DEF End
<1>2. is_blk_free(m, p) /\ MergedIn(m, D)
  OBVIOUS
<1>3. CASE ~should_split(m, p, size)
  <2>1. n = m
    BY <1>3
  <2>2. len - HeadSize - TailSize >= size
    BY DEF big_mem_blk
  <2>3. p + HeadSize + size + TailSize <= e
    <3> HIDE DEF new, len, e, b, D
    <3> QED BY <1>1, <2>2
  <2> QED BY <2>1, <2>3 DEF MergedIn, SameBusy
<1>4. CASE should_split(m, p, size)
  <2> DEFINE c == init_free_blk(m, p, new)
  <2>1. n = init_free_blk(c, next_mem_blk(c, p), len - new)
    BY <1>4 DEF split_mem_blk
  <2>2. len > HeadSize + size + TailSize + HeadSize + TailSize
    BY <1>4 DEF should_split
  <2>3. new = HeadSize + size + TailSize
    OBVIOUS
  <2>4. b = p + new
    OBVIOUS
  <2>5. Typed(m)
    BY DEF Chain
  <2> HIDE DEF len, e, b, D, new
  <2>6. /\ b - p = new /\ e - b = len - new /\ new >= HeadSize + TailSize
        /\ p + HeadSize + TailSize <= b /\ b + HeadSize + TailSize <= e
        /\ e - b \in Nat /\ e - b >= HeadSize + TailSize /\ p # b /\ b < m.end
    BY <1>1, <2>2, <2>3, <2>4
  <2>7. Typed(c) /\ Cleared(m, c, p, b - p)
    BY <1>1, <2>5, <2>6, InitFreeBlk
  <2> HIDE DEF c
  <2>8. next_mem_blk(c, p) = b
    <3>1. c.end = m.end /\ c.hdr[p] = Header(0, b - p, 0)
      BY <2>7 DEF Cleared
    <3>2. c.hdr[p].blk_len = b - p
      BY <3>1, HeaderIs
    <3>3. p + (b - p) = b /\ ~(b >= m.end)
      BY <1>1, <2>6
    <3> QED BY <3>1, <3>2, <3>3 DEF next_mem_blk
  <2>9. Typed(n) /\ Cleared(c, n, b, e - b)
    <3>1. n = init_free_blk(c, b, e - b)
      BY <2>1, <2>6, <2>8
    <3> QED BY <1>1, <2>6, <2>7, <3>1, InitFreeBlk
  <2>10. (b - p) % Align = 0
    <3>1. HeadSize \in Int /\ TailSize \in Int /\ HeadSize % Align = 0 /\ TailSize % Align = 0
      BY KmallocAssumption
    <3>2. (HeadSize + size) % Align = 0 /\ HeadSize + size \in Int
      BY <3>1, Multiples
    <3>3. (HeadSize + size + TailSize) % Align = 0
      BY <3>1, <3>2, Multiples
    <3> QED BY <2>3, <2>6, <3>3
  <2>11. /\ Chain(n) /\ n.end = m.end
         /\ b \notin D
         /\ DOMAIN n.hdr = D \cup {b}
         /\ n.hdr[p] = Header(0, b - p, 0)
         /\ n.hdr[b] = Header(0, e - b, 0)
         /\ \A q \in D : q # p => n.hdr[q] = m.hdr[q]
         /\ End(n, p) = b /\ End(n, b) = e
         /\ \A q \in D : q # p => End(n, q) = End(m, q)
    <3>1. e = End(m, p) /\ b \in Nat
      BY <1>1 DEF e
    <3>2. p + HeadSize + TailSize <= b /\ b + HeadSize + TailSize <= e
      BY <2>6
    <3> QED BY <2>7, <2>9, <2>10, <3>1, <3>2, Split DEF D
  <2>12. p + HeadSize + size + TailSize <= End(n, p)
    BY <1>1, <2>3, <2>4, <2>11
  <2>13. is_blk_free(n, p) /\ is_blk_free(n, b)
    BY <2>11, HeaderIs DEF is_blk_free
  <2>14. \A q \in D : q # p => (is_blk_free(n, q) <=> is_blk_free(m, q))
    BY <2>11 DEF is_blk_free
  <2>15. \A q \in D : is_blk_free(m, q) <=> q \notin Busy(m)
    BY FreeOrBusy DEF D
  <2>16. \A q \in D \cup {b} : is_blk_free(n, q) <=> q \notin Busy(n)
    BY <2>11, FreeOrBusy
  <2>17. SameBusy(m, n)
    <3>1. Busy(m) \subseteq D /\ Busy(n) \subseteq D \cup {b}
      BY <2>11 DEF Busy, D
    <3>2. \A q \in Busy(m) : q # p /\ q \in Busy(n) /\ n.hdr[q] = m.hdr[q]
      BY <1>2, <2>11, <2>14, <2>15, <2>16, <3>1
    <3>3. \A q \in Busy(n) : q \in Busy(m)
      BY <2>13, <2>14, <2>15, <2>16, <3>1
    <3> QED BY <3>2, <3>3 DEF SameBusy
  <2>18. MergedIn(n, DOMAIN n.hdr \ {p})
    <3> SUFFICES ASSUME NEW r \in (D \cup {b}) \ {p}, NEW q \in (D \cup {b}) \ {p},
                        is_blk_free(n, r), is_blk_free(n, q), End(n, r) = q
                 PROVE  FALSE
        BY <2>11 DEF MergedIn
    <3>1. CASE r = b
      <4>1. q = e /\ q \in D
        BY <2>6, <2>11, <3>1, <1>1
      <4>2. q # p /\ is_blk_free(m, q) /\ p \in D /\ End(m, p) = q
        BY <1>1, <2>14, <4>1 DEF e
      <4> QED BY <1>2, <4>1, <4>2 DEF MergedIn
    <3>2. CASE r # b /\ q = b
      <4>1. r \in D /\ End(m, r) = b
        BY <2>11, <3>2
      <4> QED BY <1>1, <2>6, <2>11, <4>1
    <3>3. CASE r # b /\ q # b
      <4>1. r \in D /\ q \in D /\ End(m, r) = q /\ is_blk_free(m, r) /\ is_blk_free(m, q)
        BY <2>11, <2>14, <3>3
      <4> QED BY <1>2, <4>1 DEF MergedIn
    <3> QED BY <3>1, <3>2, <3>3
  <2> QED BY <1>1, <2>11, <2>12, <2>17, <2>18 DEF D
<1> QED BY <1>3, <1>4

(* mark_mem_blk: the block found is in use now, for what was asked.        *)
LEMMA MarkBlk ==
    ASSUME NEW m, Chain(m), MergedIn(m, DOMAIN m.hdr), NEW p \in DOMAIN m.hdr,
           is_blk_free(m, p), NEW size \in Nat, size % Align = 0, big_mem_blk(m, p, size),
           NEW len \in Nat, NEW n, n = mark_mem_blk(m, p, size, len)
    PROVE  /\ Chain(n) /\ n.end = m.end /\ MergedIn(n, DOMAIN n.hdr)
           /\ p \notin Busy(m) /\ Busy(n) = Busy(m) \cup {p}
           /\ \A q \in Busy(m) : n.hdr[q] = m.hdr[q] /\ End(n, q) = End(m, q)
           /\ n.hdr[p].user_len = len
           /\ p + HeadSize + size + TailSize <= End(n, p)
<1> DEFINE c == IF should_split(m, p, size) THEN split_mem_blk(m, p, size) ELSE m
<1>1. /\ Chain(c) /\ c.end = m.end /\ p \in DOMAIN c.hdr /\ SameBusy(m, c)
      /\ p + HeadSize + size + TailSize <= End(c, p)
      /\ MergedIn(c, DOMAIN c.hdr \ {p})
  <2> HIDE DEF c
  <2> QED BY CutBlk DEF c
<1>2. n = [c EXCEPT !.hdr[p] = Header(1, c.hdr[p].blk_len, len)]
  BY DEF mark_mem_blk
<1> HIDE DEF c
<1>3. /\ Chain(n) /\ n.end = c.end /\ DOMAIN n.hdr = DOMAIN c.hdr
      /\ n.hdr[p] = Header(1, c.hdr[p].blk_len, len)
      /\ \A q \in DOMAIN c.hdr : q # p => n.hdr[q] = c.hdr[q]
      /\ \A q \in DOMAIN c.hdr : End(n, q) = End(c, q)
  BY <1>1, <1>2, SetUse
<1>4. n.hdr[p].in_use = 1 /\ n.hdr[p].user_len = len /\ ~is_blk_free(n, p)
  BY <1>3, HeaderIs DEF is_blk_free
<1>5. p \notin Busy(m) /\ p \notin Busy(c)
  BY <1>1, FreeOrBusy DEF SameBusy
<1>6. Busy(n) = Busy(c) \cup {p}
  BY <1>1, <1>3, <1>4 DEF Busy
<1>7. \A q \in Busy(m) : n.hdr[q] = m.hdr[q] /\ End(n, q) = End(m, q)
  <2>1. \A q \in Busy(m) : q \in DOMAIN c.hdr /\ q # p /\ c.hdr[q] = m.hdr[q]
    BY <1>1, <1>5 DEF SameBusy, Busy
  <2> QED BY <1>3, <2>1 DEF End
<1>8. MergedIn(n, DOMAIN n.hdr)
  BY <1>1, <1>3, <1>4 DEF MergedIn, is_blk_free
<1> QED BY <1>1, <1>3, <1>4, <1>5, <1>6, <1>7, <1>8 DEF SameBusy

(* free_mem_blk: the block is free now, and merged with its neighbours.    *)
LEMMA FreeBlk ==
    ASSUME NEW m, Chain(m), MergedIn(m, DOMAIN m.hdr), NEW p \in Busy(m),
           NEW n, n = free_mem_blk(m, p)
    PROVE  /\ Chain(n) /\ n.end = m.end /\ MergedIn(n, DOMAIN n.hdr)
           /\ Busy(n) = Busy(m) \ {p}
           /\ \A q \in Busy(n) : n.hdr[q] = m.hdr[q] /\ End(n, q) = End(m, q)
<1> DEFINE c == [m EXCEPT !.hdr[p] = Header(0, m.hdr[p].blk_len, m.hdr[p].user_len)]
<1>1. n = merge_free_blk(c, p)
  BY DEF free_mem_blk
<1> HIDE DEF c
<1>2. p \in DOMAIN m.hdr /\ m.hdr[p].user_len \in Nat
  BY ChainArith DEF Busy
<1>3. /\ Chain(c) /\ c.end = m.end /\ DOMAIN c.hdr = DOMAIN m.hdr
      /\ c.hdr[p] = Header(0, m.hdr[p].blk_len, m.hdr[p].user_len)
      /\ \A q \in DOMAIN m.hdr : q # p => c.hdr[q] = m.hdr[q]
      /\ \A q \in DOMAIN m.hdr : End(c, q) = End(m, q)
  BY <1>2, SetUse DEF c
<1>4. c.hdr[p].in_use = 0 /\ is_blk_free(c, p)
  BY <1>3, HeaderIs DEF is_blk_free
<1>5. MergedIn(c, DOMAIN c.hdr \ {p})
  BY <1>3 DEF MergedIn, is_blk_free
<1>6. Chain(n) /\ n.end = c.end /\ SameBusy(c, n) /\ MergedIn(n, DOMAIN n.hdr)
  BY <1>1, <1>2, <1>3, <1>4, <1>5, MergeFree
<1>7. Busy(c) = Busy(m) \ {p}
  <2>1. \A q \in DOMAIN m.hdr : c.hdr[q].in_use = 1 <=> (q # p /\ m.hdr[q].in_use = 1)
    BY <1>3, <1>4
  <2> QED BY <1>3, <2>1 DEF Busy
<1>8. \A q \in Busy(n) : n.hdr[q] = m.hdr[q] /\ End(n, q) = End(m, q)
  BY <1>3, <1>6, <1>7 DEF SameBusy, End, Busy
<1> QED BY <1>3, <1>6, <1>7, <1>8 DEF SameBusy

-----------------------------------------------------------------------------
(* Sums.                                                                   *)

(* g[s] is the sum of f over s, for each s of a family of subsets of D that *)
(* is closed under taking out an element.                                  *)
SumsOver(g, f, F) ==
    g = [s \in F |-> IF s = {} THEN 0 ELSE LET x == CHOOSE x \in s : TRUE IN f[x] + g[s \ {x}]]

(* Induction on the subsets of a finite set, without an operator parameter. *)
LEMMA SubsetInduction ==
    ASSUME NEW D, IsFiniteSet(D), NEW P,
           \A s \in SUBSET D : (\A x \in s : s \ {x} \in P) => s \in P
    PROVE  \A s \in SUBSET D : s \in P
<1> DEFINE Bad == {Cardinality(s) : s \in {r \in SUBSET D : r \notin P}}
<1>1. \A s \in SUBSET D : IsFiniteSet(s) /\ Cardinality(s) \in Nat
  BY FS_Subset, FS_CardinalityType
<1> SUFFICES ASSUME Bad # {} PROVE FALSE
  OBVIOUS
<1>2. PICK n \in Bad : \A k \in Bad : n <= k
  <2>1. Bad \in SUBSET Nat
    BY <1>1
  <2> HIDE DEF Bad
  <2> QED BY <2>1, LeastNat
<1>3. PICK s \in SUBSET D : s \notin P /\ Cardinality(s) = n
  BY <1>2
<1>4. PICK x \in s : s \ {x} \notin P
  BY <1>3
<1>5. s \ {x} \in SUBSET D /\ Cardinality(s \ {x}) = Cardinality(s) - 1
  BY <1>1, FS_RemoveElement
<1>6. Cardinality(s \ {x}) \in Bad
  BY <1>4, <1>5
<1>7. Cardinality(s) \in Nat
  BY <1>1
<1> HIDE DEF Bad
<1> QED BY <1>2, <1>3, <1>5, <1>6, <1>7

(* The sum over the subsets of a finite set is a function.                 *)
LEMMA SumExists ==
    ASSUME NEW D, IsFiniteSet(D), NEW f
    PROVE  \E g : SumsOver(g, f, SUBSET D)
<1> DEFINE Below(n) == {s \in SUBSET D : Cardinality(s) < n}
           Bad == {n \in Nat : ~\E g : SumsOver(g, f, Below(n))}
<1>1. \A s \in SUBSET D : IsFiniteSet(s) /\ Cardinality(s) \in Nat
  BY FS_Subset, FS_CardinalityType
<1>2. ASSUME NEW n \in Nat, NEW h, SumsOver(h, f, Below(n)) PROVE \E g : SumsOver(g, f, Below(n + 1))
  <2> DEFINE g == [s \in Below(n + 1) |->
                     IF s = {} THEN 0 ELSE LET x == CHOOSE x \in s : TRUE IN f[x] + h[s \ {x}]]
  <2>1. ASSUME NEW s \in Below(n) PROVE s \in Below(n + 1) /\ g[s] = h[s]
    <3>1. s \in Below(n + 1)
      BY <1>1
    <3>2. h[s] = IF s = {} THEN 0 ELSE LET x == CHOOSE x \in s : TRUE IN f[x] + h[s \ {x}]
      BY <1>2, Zenon DEF SumsOver
    <3>3. g[s] = IF s = {} THEN 0 ELSE LET x == CHOOSE x \in s : TRUE IN f[x] + h[s \ {x}]
      BY <3>1, Zenon
    <3> QED BY <3>1, <3>2, <3>3, Zenon
  <2>2. ASSUME NEW s \in Below(n + 1), NEW x \in s PROVE s \ {x} \in Below(n)
    <3>1. s \ {x} \in SUBSET D /\ Cardinality(s \ {x}) = Cardinality(s) - 1
      BY <1>1, FS_RemoveElement
    <3>2. Cardinality(s) \in Nat /\ Cardinality(s) < n + 1
      BY <1>1
    <3> QED BY <3>1, <3>2
  <2>3. ASSUME NEW s \in Below(n + 1), s # {}
        PROVE  g[s \ {CHOOSE x \in s : TRUE}] = h[s \ {CHOOSE x \in s : TRUE}]
    <3>1. (CHOOSE x \in s : TRUE) \in s
      BY <2>3
    <3> QED BY <2>1, <2>2, <3>1
  <2>4. SumsOver(g, f, Below(n + 1))
    <3> DEFINE A(s) == IF s = {} THEN 0 ELSE LET x == CHOOSE x \in s : TRUE IN f[x] + h[s \ {x}]
               B(s) == IF s = {} THEN 0 ELSE LET x == CHOOSE x \in s : TRUE IN f[x] + g[s \ {x}]
    <3>1. \A s \in Below(n + 1) : A(s) = B(s)
      <4> SUFFICES ASSUME NEW s \in Below(n + 1), s # {}
                   PROVE  f[CHOOSE x \in s : TRUE] + h[s \ {CHOOSE x \in s : TRUE}]
                          = f[CHOOSE x \in s : TRUE] + g[s \ {CHOOSE x \in s : TRUE}]
          OBVIOUS
      <4> DEFINE y == CHOOSE x \in s : TRUE
      <4>1. g[s \ {y}] = h[s \ {y}]
        BY <2>3
      <4> HIDE DEF y, g
      <4> QED BY <4>1 DEF y
    <3>2. g = [s \in Below(n + 1) |-> A(s)]
      OBVIOUS
    <3> HIDE DEF A, B, g, Below
    <3>3. g = [s \in Below(n + 1) |-> B(s)]
      BY <3>1, <3>2
    <3> QED BY <3>3, Zenon DEF SumsOver, B
  <2> QED BY <2>4
<1>3. Bad = {}
  <2> SUFFICES ASSUME Bad # {} PROVE FALSE
      OBVIOUS
  <2>1. PICK n \in Bad : \A k \in Bad : n <= k
    BY LeastNat
  <2>2. n # 0
    <3> DEFINE g == [s \in Below(0) |-> 0]
    <3>1. Below(0) = {}
      BY <1>1
    <3>2. SumsOver(g, f, Below(0))
      BY <3>1 DEF SumsOver
    <3> QED BY <3>2
  <2>3. n \in Nat
    BY <2>1
  <2>4. n - 1 \in Nat /\ n - 1 + 1 = n /\ n - 1 \notin Bad
    <3> HIDE DEF Bad
    <3> QED BY <2>1, <2>2, <2>3
  <2>5. PICK h : SumsOver(h, f, Below(n - 1))
    BY <2>4
  <2>6. \E g : SumsOver(g, f, Below(n - 1 + 1))
    <3> HIDE DEF Below
    <3> QED BY <1>2, <2>4, <2>5
  <2> QED BY <2>1, <2>4, <2>6
<1> DEFINE N == Cardinality(D) + 1
<1>4. N \in Nat /\ Below(N) = SUBSET D
  <2>1. Cardinality(D) \in Nat
    BY FS_CardinalityType
  <2>2. \A s \in SUBSET D : Cardinality(s) <= Cardinality(D)
    BY FS_Subset
  <2>3. \A s \in SUBSET D : Cardinality(s) < N
    BY <1>1, <2>1, <2>2
  <2> QED BY <2>1, <2>3
<1>5. \E g : SumsOver(g, f, Below(N))
  <2>1. N \notin Bad
    BY <1>3
  <2> HIDE DEF N
  <2> QED BY <1>4, <2>1
<1> QED BY <1>4, <1>5

(* The same for the whole of a finite set, on which f has numbers.         *)
IsSum(g, f, D) ==
    IsFiniteSet(D) /\ (\A x \in D : f[x] \in Nat) /\ SumsOver(g, f, SUBSET D)

(* Any element can be taken out of the sum first.                          *)
LEMMA SumTake ==
    ASSUME NEW D, NEW f, NEW g, IsSum(g, f, D)
    PROVE  \A s \in SUBSET D : g[s] \in Nat /\ \A x \in s : g[s] = f[x] + g[s \ {x}]
<1>a. IsFiniteSet(D) /\ (\A x \in D : f[x] \in Nat) /\ SumsOver(g, f, SUBSET D)
  BY DEF IsSum
<1> DEFINE P == {s \in SUBSET D : /\ g[s] \in Nat
                                  /\ \A x \in s : /\ g[s \ {x}] \in Nat
                                                  /\ g[s] = f[x] + g[s \ {x}]}
<1>1. ASSUME NEW s \in SUBSET D, \A x \in s : s \ {x} \in P
      PROVE  s \in P
  <2>1. g[s] = IF s = {} THEN 0 ELSE LET x == CHOOSE x \in s : TRUE IN f[x] + g[s \ {x}]
    BY <1>a, Zenon DEF SumsOver
  <2>2. CASE s = {}
    BY <2>1, <2>2
  <2>3. CASE s # {}
    <3> DEFINE y == CHOOSE x \in s : TRUE
    <3>1. y \in s /\ g[s] = f[y] + g[s \ {y}]
      BY <2>1, <2>3
    <3> HIDE DEF y
    <3>2. s \ {y} \in P /\ g[s \ {y}] \in Nat /\ f[y] \in Nat
      BY <1>1, <1>a, <3>1
    <3>3. g[s] \in Nat
      BY <3>1, <3>2
    <3>4. ASSUME NEW x \in s, x # y PROVE g[s] = f[x] + g[s \ {x}]
      <4> DEFINE r == s \ {x, y}
      <4>1. (s \ {y}) \ {x} = r /\ (s \ {x}) \ {y} = r /\ x \in s \ {y} /\ y \in s \ {x}
        BY <3>1, <3>4
      <4>2. s \ {x} \in P
        BY <1>1
      <4>3. g[r] \in Nat /\ f[x] \in Nat
        BY <1>a, <3>2, <4>1
      <4>4. g[s \ {y}] = f[x] + g[r]
        BY <3>2, <4>1
      <4>5. g[s \ {x}] = f[y] + g[r]
        BY <4>1, <4>2
      <4> QED BY <3>1, <3>2, <4>3, <4>4, <4>5
    <3>5. \A x \in s : g[s \ {x}] \in Nat
      BY <1>1
    <3> QED BY <3>1, <3>3, <3>4, <3>5
  <2> QED BY <2>2, <2>3
<1> HIDE DEF P
<1>2. \A s \in SUBSET D : s \in P
  BY <1>1, <1>a, SubsetInduction
<1> QED BY <1>2 DEF P

(* Functions that agree on a set have the same sums over it.               *)
LEMMA SumAgree ==
    ASSUME NEW D, NEW E, D \subseteq E, NEW f, NEW k, \A x \in D : f[x] = k[x],
           NEW g, IsSum(g, f, D), NEW h, IsSum(h, k, E)
    PROVE  g[D] = h[D]
<1>a. IsFiniteSet(D) /\ SumsOver(g, f, SUBSET D) /\ SumsOver(h, k, SUBSET E)
  BY DEF IsSum
<1> DEFINE P == {s \in SUBSET D : g[s] = h[s]}
<1>1. ASSUME NEW s \in SUBSET D, \A x \in s : s \ {x} \in P
      PROVE  s \in P
  <2>0. s \in SUBSET E
    OBVIOUS
  <2>1. g[s] = IF s = {} THEN 0 ELSE LET x == CHOOSE x \in s : TRUE IN f[x] + g[s \ {x}]
    BY <1>a, Zenon DEF SumsOver
  <2>2. h[s] = IF s = {} THEN 0 ELSE LET x == CHOOSE x \in s : TRUE IN k[x] + h[s \ {x}]
    BY <1>a, <2>0, Zenon DEF SumsOver
  <2>3. CASE s = {}
    BY <2>1, <2>2, <2>3
  <2>4. CASE s # {}
    <3> DEFINE y == CHOOSE x \in s : TRUE
    <3>1. y \in s /\ g[s] = f[y] + g[s \ {y}] /\ h[s] = k[y] + h[s \ {y}]
      BY <2>1, <2>2, <2>4
    <3> HIDE DEF y
    <3>2. g[s \ {y}] = h[s \ {y}] /\ f[y] = k[y]
      BY <1>1, <3>1
    <3> QED BY <3>1, <3>2
  <2> QED BY <2>3, <2>4
<1> HIDE DEF P
<1>2. \A s \in SUBSET D : s \in P
  BY <1>1, <1>a, SubsetInduction
<1> QED BY <1>2 DEF P

(* What all callers have asked for.                                        *)
Asked(f) == MapThenSumSet(LAMBDA a : f[a], DOMAIN f)

(* MapThenSumSet is such a sum.                                            *)
LEMMA AskedIs ==
    ASSUME NEW f, NEW D, D = DOMAIN f, IsFiniteSet(D), \A x \in D : f[x] \in Nat
    PROVE  \E g : IsSum(g, f, D) /\ Asked(f) = g[D]
<1> DEFINE go == CHOOSE g : g = [s \in SUBSET D |-> IF s = {} THEN 0
                                 ELSE LET x == CHOOSE x \in s : TRUE IN f[x] + g[s \ {x}]]
<1>1. Asked(f) = go[D]
  BY DEF Asked, MapThenSumSet, MapThenFoldSet
<1>2. \E g : SumsOver(g, f, SUBSET D)
  BY SumExists
<1>3. SumsOver(go, f, SUBSET D)
  BY <1>2, Zenon DEF SumsOver
<1> QED BY <1>1, <1>3 DEF IsSum

(* Nobody has asked for anything.                                          *)
LEMMA AskedEmpty == Asked(<<>>) = 0
<1>1. DOMAIN <<>> = {}
  OBVIOUS
<1>2. PICK g : IsSum(g, <<>>, {}) /\ Asked(<<>>) = g[{}]
  BY <1>1, AskedIs, FS_EmptySet
<1>3. {} \in SUBSET {}
  OBVIOUS
<1> QED BY <1>2, <1>3, Zenon DEF SumsOver, IsSum

(* A new caller.                                                           *)
LEMMA AskedWith ==
    ASSUME NEW f, NEW D, D = DOMAIN f, IsFiniteSet(D), \A x \in D : f[x] \in Nat,
           NEW a, a \notin D, NEW v \in Nat
    PROVE  Asked(With(f, a, v)) = Asked(f) + v
<1> DEFINE k == With(f, a, v)
           E == D \cup {a}
<1>1. DOMAIN k = E /\ k[a] = v /\ \A x \in D : f[x] = k[x]
  BY DEF With
<1>2. IsFiniteSet(E) /\ \A x \in E : k[x] \in Nat
  BY <1>1, FS_AddElement
<1>3. PICK g : IsSum(g, f, D) /\ Asked(f) = g[D]
  BY AskedIs
<1>a. E \in SUBSET E /\ a \in E /\ E \ {a} = D /\ D \subseteq E /\ D \in SUBSET D
  OBVIOUS
<1> HIDE DEF k, E
<1>4. PICK h : IsSum(h, k, E) /\ Asked(k) = h[E]
  BY <1>1, <1>2, AskedIs
<1>5. h[E] = k[a] + h[E \ {a}]
  BY <1>4, <1>a, SumTake
<1>7. g[D] = h[D]
  BY <1>1, <1>3, <1>4, <1>a, SumAgree
<1>8. g[D] \in Nat
  BY <1>3, <1>a, SumTake
<1> QED BY <1>1, <1>3, <1>4, <1>5, <1>7, <1>8, <1>a DEF k

(* A caller that leaves.                                                   *)
LEMMA AskedWithout ==
    ASSUME NEW f, NEW E, E = DOMAIN f, IsFiniteSet(E), \A x \in E : f[x] \in Nat,
           NEW a \in E
    PROVE  Asked(Restrict(f, E \ {a})) = Asked(f) - f[a]
<1> DEFINE k == Restrict(f, E \ {a})
           D == E \ {a}
<1>1. DOMAIN k = D /\ \A x \in D : k[x] = f[x]
  BY DEF Restrict
<1>2. IsFiniteSet(D) /\ \A x \in D : k[x] \in Nat
  BY <1>1, FS_RemoveElement
<1>4. PICK h : IsSum(h, f, E) /\ Asked(f) = h[E]
  BY AskedIs
<1>a. E \in SUBSET E /\ a \in E /\ E \ {a} = D /\ D \subseteq E /\ D \in SUBSET E /\ f[a] \in Nat
  OBVIOUS
<1> HIDE DEF k, D
<1>3. PICK g : IsSum(g, k, D) /\ Asked(k) = g[D]
  BY <1>1, <1>2, AskedIs
<1>5. h[E] = f[a] + h[D]
  <2>1. \A s \in SUBSET E : h[s] \in Nat /\ \A x \in s : h[s] = f[x] + h[s \ {x}]
    BY <1>4, SumTake
  <2>2. h[E] = f[a] + h[E \ {a}]
    BY <1>a, <2>1, Zenon
  <2> QED BY <1>a, <2>2
<1>7. g[D] = h[D]
  BY <1>1, <1>3, <1>4, <1>a, SumAgree
<1>8. h[D] \in Nat
  BY <1>4, <1>a, SumTake
<1>9. g[D] = h[E] - f[a]
  BY <1>5, <1>7, <1>8, <1>a
<1> QED BY <1>3, <1>4, <1>9 DEF k

-----------------------------------------------------------------------------
(* The pool as a whole.                                                    *)

(* The pool that init_mm makes.                                            *)
LEMMA FirstPool ==
    ASSUME NEW n, n = init_free_blk([hdr |-> <<>>, tail |-> <<>>,
                                     end |-> Start + HeadSize + TailSize],
                                    Start, HeadSize + TailSize)
    PROVE  /\ Chain(n) /\ n.end = Start + HeadSize + TailSize
           /\ Busy(n) = {} /\ MergedIn(n, DOMAIN n.hdr)
<1> DEFINE m == [hdr |-> <<>>, tail |-> <<>>, end |-> Start + HeadSize + TailSize]
           e == Start + HeadSize + TailSize
<1>1. /\ Start \in Nat /\ HeadSize \in Nat \ {0} /\ TailSize \in Nat \ {0} /\ e \in Nat
      /\ Start + (HeadSize + TailSize) = e /\ HeadSize + TailSize \in Nat
      /\ Start + (HeadSize + TailSize) - TailSize = e - TailSize
  BY KmallocAssumption
<1>2. /\ m.hdr = <<>> /\ m.tail = <<>> /\ m.end = e
      /\ DOMAIN <<>> = {} /\ <<>> \in [{} -> HeaderType] /\ <<>> \in [{} -> Nat]
  OBVIOUS
<1>3. Typed(m)
  <2>1. m = [hdr |-> m.hdr, tail |-> m.tail, end |-> m.end]
    OBVIOUS
  <2> HIDE DEF m
  <2> QED BY <1>1, <1>2, <2>1 DEF Typed
<1>4. n = init_free_blk(m, Start, HeadSize + TailSize)
  OBVIOUS
<1> HIDE DEF m, e
<1>5. Typed(n) /\ Cleared(m, n, Start, HeadSize + TailSize)
  BY <1>1, <1>3, <1>4, InitFreeBlk
<1>6. /\ n.end = e /\ DOMAIN n.hdr = {Start}
      /\ n.hdr[Start] = Header(0, HeadSize + TailSize, 0)
      /\ DOMAIN n.tail = {e - TailSize} /\ n.tail[e - TailSize] = Start
  BY <1>1, <1>2, <1>5 DEF Cleared
<1>7. n.hdr[Start].blk_len = HeadSize + TailSize /\ n.hdr[Start].in_use = 0
  BY <1>6, HeaderIs
<1>8. End(n, Start) = e
  BY <1>1, <1>7 DEF End
<1>9. Placed(n)
  <2>1. (Start - Start) % Align = 0
    BY KmallocAssumption
  <2>2. (HeadSize + TailSize) % Align = 0
    <3>1. HeadSize \in Int /\ TailSize \in Int /\ HeadSize % Align = 0 /\ TailSize % Align = 0
      BY KmallocAssumption
    <3> QED BY <3>1, Multiples
  <2>3. e - Start = HeadSize + TailSize /\ Start <= e /\ Start <= Start
    BY <1>1
  <2> QED BY <1>6, <2>1, <2>2, <2>3 DEF Placed
<1>10. Linked(n)
  <2>1. e <= e /\ HeadSize + TailSize >= HeadSize + TailSize
    BY <1>1
  <2> QED BY <1>6, <1>7, <1>8, <2>1 DEF Linked
<1>11. Ordered(n) /\ Covered(n)
  <2>1. ~(Start < Start)
    BY <1>1
  <2> QED BY <1>6, <1>8, <2>1 DEF Ordered, Covered
<1>12. Tailed(n)
  BY <1>6, <1>8 DEF Tailed
<1>13. Chain(n)
  BY <1>5, <1>9, <1>10, <1>11, <1>12 DEF Chain
<1>14. Busy(n) = {}
  BY <1>6, <1>7 DEF Busy
<1>15. MergedIn(n, DOMAIN n.hdr)
  <2>1. e # Start
    BY <1>1 DEF e
  <2> QED BY <1>6, <1>8, <2>1 DEF MergedIn
<1> QED BY <1>6, <1>13, <1>14, <1>15 DEF e

(* enlarge_mem_pool: what sbrk gives becomes one free block with what was  *)
(* free before it.                                                         *)
LEMMA EnlargePool ==
    ASSUME NEW m, Chain(m), MergedIn(m, DOMAIN m.hdr), NEW x, x = m.end - Start,
           NEW n, n = merge_free_blk(init_free_blk([m EXCEPT !.end = m.end + x], m.end, x), m.end)
    PROVE  Chain(n) /\ n.end = m.end + x /\ SameBusy(m, n) /\ MergedIn(n, DOMAIN n.hdr)
<1> DEFINE l == [m EXCEPT !.end = m.end + x]
           c == init_free_blk(l, m.end, x)
           D == DOMAIN m.hdr
<1>1. /\ m.end \in Nat /\ x \in Nat /\ x >= HeadSize + TailSize /\ m.end + x \in Nat
      /\ \A q \in D : q \in Nat /\ End(m, q) \in Nat /\ q < m.end /\ End(m, q) <= m.end
  <2>1. Start \in D /\ End(m, Start) <= m.end /\ Start + HeadSize + TailSize <= End(m, Start)
        /\ End(m, Start) \in Nat /\ m.end \in Nat
        /\ \A q \in D : q \in Nat /\ End(m, q) \in Nat /\ q < m.end /\ End(m, q) <= m.end
    BY ChainArith
  <2> QED BY <2>1, KmallocAssumption
<1>2. x % Align = 0
  BY DEF Chain, Placed
<1>3. m = [hdr |-> m.hdr, tail |-> m.tail, end |-> m.end] /\ Typed(m)
  BY DEF Chain, Typed
<1>4. l = [hdr |-> m.hdr, tail |-> m.tail, end |-> m.end + x]
  BY <1>3
<1>5. l.hdr = m.hdr /\ l.tail = m.tail /\ l.end = m.end + x
  BY <1>4
<1>6. n = merge_free_blk(c, m.end) /\ c = init_free_blk(l, m.end, x)
  OBVIOUS
<1>m. MergedIn(m, D)
  OBVIOUS
<1> HIDE DEF l, c, D
<1>7. Typed(l)
  <2>1. l = [hdr |-> l.hdr, tail |-> l.tail, end |-> l.end]
    BY <1>4, <1>5
  <2> QED BY <1>1, <1>3, <1>5, <2>1 DEF Typed
<1>8. Typed(c) /\ Cleared(l, c, m.end, x)
  BY <1>1, <1>6, <1>7, InitFreeBlk
<1>9. /\ Chain(c) /\ c.end = m.end + x
      /\ DOMAIN c.hdr = D \cup {m.end}
      /\ c.hdr[m.end] = Header(0, x, 0)
      /\ \A q \in D : c.hdr[q] = m.hdr[q] /\ q # m.end
      /\ End(c, m.end) = c.end
      /\ \A q \in D : End(c, q) = End(m, q)
  BY <1>1, <1>2, <1>5, <1>8, Extend DEF D
<1>10. c.hdr[m.end].in_use = 0 /\ is_blk_free(c, m.end) /\ m.end \in DOMAIN c.hdr
  BY <1>9, HeaderIs DEF is_blk_free
<1>11. MergedIn(c, DOMAIN c.hdr \ {m.end})
  BY <1>9, <1>m DEF MergedIn, is_blk_free
<1>12. SameBusy(m, c)
  <2>1. Busy(c) = Busy(m)
    BY <1>9, <1>10 DEF Busy, D
  <2> QED BY <1>9, <2>1 DEF SameBusy, Busy, D
<1>13. Chain(n) /\ n.end = c.end /\ SameBusy(c, n) /\ MergedIn(n, DOMAIN n.hdr)
  BY <1>6, <1>9, <1>10, <1>11, MergeFree
<1> QED BY <1>9, <1>12, <1>13 DEF SameBusy

(* What callers hold, by the blocks in use.                                *)
HeldIn(m, f) ==
    /\ DOMAIN f = {p + HeadSize : p \in Busy(m)}
    /\ \A p \in Busy(m) :
        /\ m.hdr[p].user_len = f[p + HeadSize]
        /\ p + HeadSize + f[p + HeadSize] + TailSize <= End(m, p)

(* Blocks in use and what their callers got correspond one to one.         *)
LEMMA BusyNat ==
    ASSUME NEW m, Chain(m)
    PROVE  /\ Busy(m) \subseteq DOMAIN m.hdr
           /\ \A p \in Busy(m) : p \in Nat /\ p + HeadSize \in Nat /\ (p + HeadSize) - HeadSize = p
           /\ \A p, q \in Busy(m) : p + HeadSize = q + HeadSize => p = q
<1>1. Busy(m) \subseteq DOMAIN m.hdr /\ DOMAIN m.hdr \subseteq Nat
  BY ChainArith DEF Busy
<1> QED BY <1>1, KmallocAssumption

(* Callers keep what they have when the blocks in use stay as they are.    *)
LEMMA HeldSame ==
    ASSUME NEW m, NEW n, NEW f, HeldIn(m, f), SameBusy(m, n)
    PROVE  HeldIn(n, f)
<1>1. \A p \in Busy(m) : n.hdr[p] = m.hdr[p] /\ End(n, p) = End(m, p)
  BY DEF SameBusy, End
<1> QED BY <1>1 DEF HeldIn, SameBusy

(* The block of a new caller.                                              *)
LEMMA HeldWith ==
    ASSUME NEW m, Chain(m), NEW n, NEW f, HeldIn(m, f), NEW p \in Nat, p \notin Busy(m),
           Busy(n) = Busy(m) \cup {p},
           \A q \in Busy(m) : n.hdr[q] = m.hdr[q] /\ End(n, q) = End(m, q),
           NEW v, n.hdr[p].user_len = v, p + HeadSize + v + TailSize <= End(n, p)
    PROVE  p + HeadSize \notin DOMAIN f /\ HeldIn(n, With(f, p + HeadSize, v))
<1> DEFINE a == p + HeadSize
           k == With(f, a, v)
<1>1. \A q \in Busy(m) : q + HeadSize # a
  BY BusyNat, KmallocAssumption
<1>2. DOMAIN f = {q + HeadSize : q \in Busy(m)}
      /\ \A q \in Busy(m) : /\ m.hdr[q].user_len = f[q + HeadSize]
                            /\ q + HeadSize + f[q + HeadSize] + TailSize <= End(m, q)
  BY DEF HeldIn
<1>3. DOMAIN k = DOMAIN f \cup {a} /\ k[a] = v
      /\ \A x \in DOMAIN f : x # a => k[x] = f[x]
  BY DEF With
<1>a. a = p + HeadSize
  OBVIOUS
<1> HIDE DEF k, a
<1>4. a \notin DOMAIN f
  BY <1>1, <1>2
<1>5. \A q \in Busy(m) : k[q + HeadSize] = f[q + HeadSize]
  BY <1>1, <1>2, <1>3
<1>6. DOMAIN k = {q + HeadSize : q \in Busy(n)}
  BY <1>2, <1>3, <1>a
<1>7. ASSUME NEW q \in Busy(n)
      PROVE  /\ n.hdr[q].user_len = k[q + HeadSize]
             /\ q + HeadSize + k[q + HeadSize] + TailSize <= End(n, q)
  <2>1. CASE q = p
    BY <1>3, <1>a, <2>1
  <2>2. CASE q \in Busy(m)
    BY <1>2, <1>5, <2>2
  <2> QED BY <2>1, <2>2
<1>8. HeldIn(n, k)
  BY <1>6, <1>7 DEF HeldIn
<1> QED BY <1>4, <1>8 DEF k, a

(* A block that its caller has given back.                                 *)
LEMMA HeldWithout ==
    ASSUME NEW m, Chain(m), NEW n, NEW f, HeldIn(m, f), NEW p \in Busy(m),
           Busy(n) = Busy(m) \ {p},
           \A q \in Busy(n) : n.hdr[q] = m.hdr[q] /\ End(n, q) = End(m, q)
    PROVE  HeldIn(n, Restrict(f, DOMAIN f \ {p + HeadSize}))
<1> DEFINE a == p + HeadSize
           k == Restrict(f, DOMAIN f \ {a})
<1>1. \A q \in Busy(m) : q + HeadSize = a => q = p
  BY BusyNat
<1>2. DOMAIN f = {q + HeadSize : q \in Busy(m)}
      /\ \A q \in Busy(m) : /\ m.hdr[q].user_len = f[q + HeadSize]
                            /\ q + HeadSize + f[q + HeadSize] + TailSize <= End(m, q)
  BY DEF HeldIn
<1>3. DOMAIN k = DOMAIN f \ {a} /\ \A x \in DOMAIN f : x # a => k[x] = f[x]
  BY DEF Restrict
<1>a. a = p + HeadSize
  OBVIOUS
<1> HIDE DEF k, a
<1>5. \A q \in Busy(n) : q \in Busy(m) /\ k[q + HeadSize] = f[q + HeadSize]
  BY <1>1, <1>2, <1>3
<1>6. DOMAIN k = {q + HeadSize : q \in Busy(n)}
  BY <1>1, <1>2, <1>3, <1>a
<1>8. HeldIn(n, k)
  BY <1>2, <1>5, <1>6 DEF HeldIn
<1> QED BY <1>8 DEF k, a

(* The inductive invariant.                                                *)
PoolInv ==
    /\ Chain(mem) /\ brk = mem.end /\ MergedIn(mem, DOMAIN mem.hdr)
    /\ req \in Sizes \cup {0}
    /\ IsFiniteSet(DOMAIN owned) /\ \A a \in DOMAIN owned : owned[a] \in Nat
    /\ HeldIn(mem, owned)
    /\ total = Asked(owned)

(* The pool that init_mm makes satisfies the invariant.                    *)
LEMMA PoolInit == init_mm => PoolInv
<1> SUFFICES ASSUME init_mm PROVE PoolInv
  OBVIOUS
<1>1. /\ Chain(mem) /\ mem.end = Start + HeadSize + TailSize
      /\ Busy(mem) = {} /\ MergedIn(mem, DOMAIN mem.hdr)
  BY FirstPool DEF init_mm
<1>2. owned = <<>> /\ DOMAIN owned = {} /\ total = 0 /\ req = 0
      /\ brk = Start + HeadSize + TailSize
  BY DEF init_mm
<1>3. HeldIn(mem, owned)
  BY <1>1, <1>2 DEF HeldIn
<1>4. IsFiniteSet(DOMAIN owned)
  BY <1>2, FS_EmptySet
<1>5. total = Asked(owned)
  BY <1>2, AskedEmpty
<1> QED BY <1>1, <1>2, <1>3, <1>4, <1>5 DEF PoolInv

(* Each step keeps it: kmalloc, with all that the search may end in, and   *)
(* kfree.                                                                  *)
LEMMA PoolStep == PoolInv /\ [KmallocNext]_pool => PoolInv'
<1> SUFFICES ASSUME PoolInv, [KmallocNext]_pool PROVE PoolInv'
  OBVIOUS
<1>1. /\ Chain(mem) /\ brk = mem.end /\ MergedIn(mem, DOMAIN mem.hdr)
      /\ req \in Sizes \cup {0}
      /\ IsFiniteSet(DOMAIN owned) /\ (\A a \in DOMAIN owned : owned[a] \in Nat)
      /\ HeldIn(mem, owned)
      /\ total = Asked(owned)
  BY DEF PoolInv
<1>2. ASSUME NEW n \in Sizes, Alloc(n) PROVE PoolInv'
  BY <1>1, <1>2 DEF PoolInv, Alloc
<1>3. CASE enlarge_mem_pool
  <2> DEFINE x == mem.end - Start
  <2>1. /\ mem' = merge_free_blk(init_free_blk([mem EXCEPT !.end = mem.end + x], mem.end, x), mem.end)
        /\ brk' = mem.end + x /\ total' = total /\ req' = req /\ owned' = owned
    BY <1>1, <1>3 DEF enlarge_mem_pool
  <2> HIDE DEF x
  <2>2. /\ Chain(mem') /\ (mem').end = mem.end + x /\ SameBusy(mem, mem')
        /\ MergedIn(mem', DOMAIN (mem').hdr)
    BY <1>1, <2>1, EnlargePool DEF x
  <2>3. HeldIn(mem', owned)
    BY <1>1, <2>2, HeldSame
  <2> QED BY <1>1, <2>1, <2>2, <2>3 DEF PoolInv
<1>4. CASE AllocNull
  BY <1>1, <1>4 DEF PoolInv, AllocNull
<1>5. CASE AllocReturn
  <2> DEFINE p == Found
             size == ALIGNED(req)
             a == p + HeadSize
  <2>1. /\ req # 0 /\ p # NULL /\ mem' = mark_mem_blk(mem, p, size, req)
        /\ total' = total + req /\ owned' = With(owned, a, req) /\ req' = 0 /\ brk' = brk
    BY <1>5 DEF AllocReturn
  <2>2. req \in Nat /\ size \in Nat /\ size >= req /\ size % Align = 0
    <3>1. req \in Nat
      BY <1>1, KmallocAssumption
    <3> QED BY <3>1, AlignedIs
  <2>3. p \in DOMAIN mem.hdr /\ is_blk_free(mem, p) /\ big_mem_blk(mem, p, size)
    BY <1>1, <2>1, FindBlk DEF Found
  <2> HIDE DEF p, size
  <2>4. /\ Chain(mem') /\ (mem').end = mem.end /\ MergedIn(mem', DOMAIN (mem').hdr)
        /\ p \notin Busy(mem) /\ Busy(mem') = Busy(mem) \cup {p}
        /\ \A q \in Busy(mem) : (mem').hdr[q] = mem.hdr[q] /\ End(mem', q) = End(mem, q)
        /\ (mem').hdr[p].user_len = req
        /\ p + HeadSize + size + TailSize <= End(mem', p)
    BY <1>1, <2>1, <2>2, <2>3, MarkBlk
  <2>5. p \in Nat /\ p + HeadSize + req + TailSize <= End(mem', p)
    <3>1. p \in Nat
      BY <1>1, <2>3, ChainArith
    <3>2. p \in DOMAIN (mem').hdr
      BY <2>4 DEF Busy
    <3>3. End(mem', p) \in Nat
      BY <2>4, <3>2, ChainArith
    <3> QED BY <2>2, <2>4, <3>1, <3>3, KmallocAssumption
  <2>6. a \notin DOMAIN owned /\ HeldIn(mem', With(owned, a, req))
    BY <1>1, <2>4, <2>5, HeldWith
  <2> HIDE DEF a
  <2>7. Asked(With(owned, a, req)) = Asked(owned) + req
    BY <1>1, <2>2, <2>6, AskedWith
  <2>8. /\ IsFiniteSet(DOMAIN With(owned, a, req))
        /\ \A b \in DOMAIN With(owned, a, req) : With(owned, a, req)[b] \in Nat
    <3>1. IsFiniteSet(DOMAIN owned \cup {a})
      BY <1>1, FS_AddElement
    <3> QED BY <1>1, <2>2, <3>1 DEF With
  <2> QED BY <1>1, <2>1, <2>4, <2>6, <2>7, <2>8 DEF PoolInv
<1>6. ASSUME NEW a \in DOMAIN owned, Free(a) PROVE PoolInv'
  <2>1. PICK p \in Busy(mem) : a = p + HeadSize
    BY <1>1, <1>6 DEF HeldIn
  <2>2. a - HeadSize = p /\ p \in DOMAIN mem.hdr /\ mem.hdr[p].in_use = 1
    <3>1. (p + HeadSize) - HeadSize = p
      BY <1>1, <2>1, BusyNat
    <3> QED BY <2>1, <3>1 DEF Busy
  <2>3. mem_blk_ok(mem, a - HeadSize)
    BY <2>2 DEF mem_blk_ok
  <2>4. /\ mem' = free_mem_blk(mem, p) /\ total' = total - mem.hdr[p].user_len
        /\ owned' = Restrict(owned, DOMAIN owned \ {a}) /\ brk' = brk /\ req' = req
    BY <1>6, <2>2, <2>3 DEF Free
  <2>5. /\ Chain(mem') /\ (mem').end = mem.end /\ MergedIn(mem', DOMAIN (mem').hdr)
        /\ Busy(mem') = Busy(mem) \ {p}
        /\ \A q \in Busy(mem') : (mem').hdr[q] = mem.hdr[q] /\ End(mem', q) = End(mem, q)
    BY <1>1, <2>1, <2>4, FreeBlk
  <2>6. HeldIn(mem', Restrict(owned, DOMAIN owned \ {a}))
    BY <1>1, <2>1, <2>5, HeldWithout
  <2>7. mem.hdr[p].user_len = owned[a]
    BY <1>1, <2>1 DEF HeldIn
  <2>8. Asked(Restrict(owned, DOMAIN owned \ {a})) = Asked(owned) - owned[a]
    BY <1>1, <1>6, AskedWithout
  <2>9. /\ IsFiniteSet(DOMAIN Restrict(owned, DOMAIN owned \ {a}))
        /\ \A b \in DOMAIN Restrict(owned, DOMAIN owned \ {a}) :
             Restrict(owned, DOMAIN owned \ {a})[b] \in Nat
    <3>1. IsFiniteSet(DOMAIN owned \ {a})
      BY <1>1, FS_RemoveElement
    <3> QED BY <1>1, <3>1 DEF Restrict
  <2> QED BY <1>1, <2>4, <2>5, <2>6, <2>7, <2>8, <2>9 DEF PoolInv
<1>7. CASE UNCHANGED pool
  BY <1>1, <1>7 DEF PoolInv, pool
<1> QED BY <1>2, <1>3, <1>4, <1>5, <1>6, <1>7 DEF KmallocNext, AllocStep

(* The pool stays as PoolInv says, for every layout of headers and tails,  *)
(* every size of the pool and all sizes asked for.                         *)
THEOREM PoolInvariant == KmallocSpec => []PoolInv
BY PoolInit, PoolStep, PTL DEF KmallocSpec

(* The blocks fill the pool without a gap and the tails lead back,         *)
(* whatever init_free_blk, split_mem_blk, merge_free_blk and               *)
(* enlarge_mem_pool have done to them.                                     *)
THEOREM KmallocChainIntact == KmallocSpec => []ChainIntact
<1>1. PoolInv => ChainIntact
  <2> SUFFICES ASSUME PoolInv PROVE ChainIntact
    OBVIOUS
  <2>0. Chain(mem) /\ brk = mem.end /\ Start \in DOMAIN mem.hdr
    BY ChainArith DEF PoolInv
  <2>e. \A p \in DOMAIN mem.hdr : BlockEnd(p) = End(mem, p)
    BY DEF BlockEnd, End
  <2>1. ASSUME NEW p \in DOMAIN mem.hdr
        PROVE  /\ End(mem, p) \in DOMAIN mem.hdr \cup {mem.end}
               /\ mem.hdr[p].blk_len >= HeadSize + TailSize /\ mem.hdr[p].blk_len % Align = 0
               /\ ~\E q \in DOMAIN mem.hdr : p < q /\ q < End(mem, p)
    <3>1. /\ p \in Nat /\ End(mem, p) \in Nat /\ mem.hdr[p].blk_len \in Nat
          /\ End(mem, p) \in DOMAIN mem.hdr \cup {mem.end}
          /\ DOMAIN mem.hdr \subseteq Nat
          /\ \A q \in DOMAIN mem.hdr : p < q => End(mem, p) <= q
      BY <2>0, ChainArith
    <3>2. mem.hdr[p].blk_len >= HeadSize + TailSize
      BY <2>0 DEF Chain, Linked
    <3>3. mem.hdr[p].blk_len % Align = 0
      <4>1. (p - Start) % Align = 0 /\ (End(mem, p) - Start) % Align = 0
        BY <2>0, <3>1 DEF Chain, Placed
      <4>2. p - Start \in Int /\ End(mem, p) - Start \in Int
        BY <3>1, KmallocAssumption
      <4>3. ((End(mem, p) - Start) - (p - Start)) % Align = 0
        BY <4>1, <4>2, Multiples
      <4>4. End(mem, p) = p + mem.hdr[p].blk_len /\ Start \in Nat
        BY KmallocAssumption DEF End
      <4>5. (End(mem, p) - Start) - (p - Start) = mem.hdr[p].blk_len
        BY <3>1, <4>4
      <4> QED BY <4>3, <4>5
    <3>4. ~\E q \in DOMAIN mem.hdr : p < q /\ q < End(mem, p)
      BY <3>1
    <3> QED BY <3>1, <3>2, <3>3, <3>4
  <2>2. /\ \A p \in DOMAIN mem.hdr : mem.tail[End(mem, p) - TailSize] = p
        /\ DOMAIN mem.tail = {End(mem, p) - TailSize : p \in DOMAIN mem.hdr}
    BY <2>0 DEF Chain, Tailed
  <2> QED BY <2>0, <2>1, <2>2, <2>e DEF ChainIntact, Headers
<1> QED BY <1>1, PoolInvariant, PTL

(* free_mem_blk and enlarge_mem_pool leave no two free neighbours behind,  *)
(* and mark_mem_blk makes none.                                            *)
THEOREM KmallocFullyMerged == KmallocSpec => []FullyMerged
<1>1. PoolInv => FullyMerged
  BY DEF PoolInv, FullyMerged, MergedIn, Headers, BlockEnd, End
<1> QED BY <1>1, PoolInvariant, PTL

(* What alloc_mem returned lies in a block of its own until free_mem, and  *)
(* total_length is the sum of what was asked for.                          *)
THEOREM KmallocCallersHaveBlocks == KmallocSpec => []CallersHaveBlocks
<1>1. PoolInv => CallersHaveBlocks
  <2> SUFFICES ASSUME PoolInv PROVE CallersHaveBlocks
    OBVIOUS
  <2>0. Chain(mem) /\ HeldIn(mem, owned) /\ \A a \in DOMAIN owned : owned[a] \in Nat
    BY DEF PoolInv
  <2>1. {p + HeadSize : p \in {q \in Headers : mem.hdr[q].in_use = 1}} = DOMAIN owned
    BY <2>0 DEF HeldIn, Busy, Headers
  <2>2. ASSUME NEW a \in DOMAIN owned
        PROVE  /\ mem.hdr[a - HeadSize].user_len = owned[a]
               /\ a + owned[a] <= BlockEnd(a - HeadSize) - TailSize
    <3>1. PICK p \in Busy(mem) : a = p + HeadSize
      BY <2>0 DEF HeldIn
    <3>2. a - HeadSize = p /\ p \in Nat /\ p \in DOMAIN mem.hdr
      <4>1. (p + HeadSize) - HeadSize = p /\ p \in Nat /\ p \in DOMAIN mem.hdr
        BY <2>0, <3>1, BusyNat
      <4> QED BY <3>1, <4>1
    <3>3. mem.hdr[p].user_len = owned[a] /\ a + owned[a] + TailSize <= End(mem, p)
      BY <2>0, <3>1 DEF HeldIn
    <3>4. End(mem, p) \in Nat /\ BlockEnd(p) = End(mem, p) /\ owned[a] \in Nat
      BY <2>0, <3>2, ChainArith DEF BlockEnd, End
    <3>5. a + owned[a] <= End(mem, p) - TailSize
      BY <3>1, <3>2, <3>3, <3>4, KmallocAssumption
    <3> QED BY <3>2, <3>3, <3>4, <3>5
  <2>3. total = MapThenSumSet(LAMBDA a : owned[a], DOMAIN owned)
    BY DEF PoolInv, Asked
  <2> QED BY <2>1, <2>2, <2>3 DEF CallersHaveBlocks
<1> QED BY <1>1, PoolInvariant, PTL

(* First fit: the block that alloc_mem marks is the first that is free and *)
(* large enough; it grows the pool, or returns NULL, only if none is.      *)
FirstFit ==
    LET Fits(p) == is_blk_free(mem, p) /\ big_mem_blk(mem, p, ALIGNED(req))
    IN  /\ AllocReturn => Fits(Found) /\ \A p \in Headers : p < Found => ~Fits(p)
        /\ enlarge_mem_pool \/ AllocNull => \A p \in Headers : ~Fits(p)

(* alloc_mem never overlooks a block, whatever splits and merges have made *)
(* of the chain that find_a_free_blk follows.                              *)
THEOREM KmallocFirstFit == KmallocSpec => [][FirstFit]_pool
<1>1. PoolInv => FirstFit
  <2> SUFFICES ASSUME PoolInv PROVE FirstFit
    OBVIOUS
  <2> DEFINE Fits(p) == is_blk_free(mem, p) /\ big_mem_blk(mem, p, ALIGNED(req))
  <2>1. Chain(mem)
    BY DEF PoolInv
  <2>2. Found = NULL \/ (Found \in DOMAIN mem.hdr /\ Fits(Found))
    BY <2>1, FindBlk DEF Found
  <2>3. \A r \in DOMAIN mem.hdr : Found = NULL \/ r < Found => ~Fits(r)
    BY <2>1, FindBlk DEF Found
  <2>4. (AllocReturn => Found # NULL) /\ (enlarge_mem_pool \/ AllocNull => Found = NULL)
    BY DEF AllocReturn, enlarge_mem_pool, AllocNull
  <2> HIDE DEF Fits
  <2> QED BY <2>2, <2>3, <2>4 DEF FirstFit, Headers, Fits
<1>2. PoolInv /\ [KmallocNext]_pool => [FirstFit]_pool
  BY <1>1
<1> QED BY <1>2, PoolInvariant, PTL DEF KmallocSpec
=============================================================================

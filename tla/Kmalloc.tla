------------------------------ MODULE Kmalloc -------------------------------
(***************************************************************************)
(* The allocator of mm/mm.c, as kmalloc and kfree of mm/memory.c use it.   *)
(* The pool is a row of blocks: a header, the memory of the caller and a   *)
(* tail that points back to the header.  Free neighbours are merged, a     *)
(* block that is too large is split, and the pool is doubled with sbrk     *)
(* when nothing fits.                                                      *)
(*                                                                         *)
(* Memory is a record: hdr holds the headers with a valid magic number,    *)
(* tail the tails, by address; whatever is cleared over them is gone.  All *)
(* is done under the lock of the pool, which req stands for: the size that *)
(* its holder looks for.                                                   *)
(***************************************************************************)
EXTENDS Integers, FiniteSetsExt, Functions

CONSTANTS
    HeadSize,   \* sizeof (struct mem_blk)
    TailSize,   \* sizeof (struct mem_blk_tail)
    Align,      \* 8 bytes
    Start,      \* MEM_POOL_START
    PoolSize,   \* MEM_POOL_SIZE
    Sizes       \* sizes that callers ask for

ASSUME KmallocAssumption ==
    /\ HeadSize \in Nat \ {0} /\ TailSize \in Nat \ {0} /\ Align \in Nat \ {0}
    /\ HeadSize % Align = 0 /\ TailSize % Align = 0     \* is_mem_blk_aligned; a pointer
    /\ Start \in Nat /\ TailSize <= Start
    /\ PoolSize \in Nat /\ HeadSize + TailSize <= PoolSize
    /\ Sizes \subseteq Nat \ {0}

VARIABLES
    mem,        \* the memory of the pool and pool->end
    brk,        \* last of kernel_mock_sbrk
    total,      \* pool->total_length
    req,        \* size asked for by the holder of the lock, or 0
    owned       \* what callers hold: user_start |-> size

pool == <<mem, brk, total, req, owned>>

NULL == 0

ALIGNED(n) == ((n + Align - 1) \div Align) * Align

(* The function f with the value v at a.                                   *)
With(f, a, v) == [x \in DOMAIN f \cup {a} |-> IF x = a THEN v ELSE f[x]]

(* The headers or tails f, of which only those that clearing n bytes at p  *)
(* leaves alone survive, and a new one v at a.                             *)
Rewritten(f, p, n, width, a, v) ==
    [x \in {y \in DOMAIN f : y + width <= p \/ p + n <= y} \cup {a} |->
        IF x = a THEN v ELSE f[x]]

Header(in_use, blk_len, user_len) ==
    [in_use |-> in_use, blk_len |-> blk_len, user_len |-> user_len]

(* init_free_blk: memset, header, tail.                                    *)
init_free_blk(m, p, size) ==
    [m EXCEPT !.hdr = Rewritten(@, p, size, HeadSize, p, Header(0, size, 0)),
              !.tail = Rewritten(@, p, size, TailSize, p + size - TailSize, p)]

prev_mem_blk(m, p) == IF p - TailSize < Start THEN NULL ELSE m.tail[p - TailSize]

next_mem_blk(m, p) ==
    LET next == p + m.hdr[p].blk_len IN IF next >= m.end THEN NULL ELSE next

(* Mutant: the tail is forgotten.                                          *)
MutantBig(m, p, size) == m.hdr[p].blk_len - HeadSize >= size

big_mem_blk(m, p, size) == m.hdr[p].blk_len - HeadSize - TailSize >= size

is_blk_free(m, p) == m.hdr[p].in_use = 0

(* The first and the last of the free blocks around p.                     *)
most_prev(m, p) ==
    LET go[q \in DOMAIN m.hdr] ==
            LET r == prev_mem_blk(m, q)
            IN  IF r # NULL /\ is_blk_free(m, r) THEN go[r] ELSE q
    IN  go[p]

most_next(m, p) ==
    LET go[q \in DOMAIN m.hdr] ==
            LET r == next_mem_blk(m, q)
            IN  IF r # NULL /\ is_blk_free(m, r) THEN go[r] ELSE q
    IN  go[p]

(* Mutant: only the blocks after p are looked at.                          *)
MutantMerge(m, p) ==
    LET right == most_next(m, p)
    IN  init_free_blk(m, p, right + m.hdr[right].blk_len - p)

merge_free_blk(m, p) ==
    LET left == most_prev(m, p)
        right == most_next(m, p)
    IN  init_free_blk(m, left, right + m.hdr[right].blk_len - left)

(* The first block in the order of addresses that is free and big enough.  *)
find_a_free_blk(m, size) ==
    LET go[p \in DOMAIN m.hdr \cup {NULL}] ==
            IF p = NULL \/ (is_blk_free(m, p) /\ big_mem_blk(m, p, size))
            THEN p ELSE go[next_mem_blk(m, p)]
    IN  go[Start]

should_split(m, p, size) ==
    m.hdr[p].blk_len > HeadSize + size + TailSize + HeadSize + TailSize

(* Mutant: the rest gets the length of the whole.                          *)
MutantSplit(m, p, size) ==
    LET new == HeadSize + size + TailSize
    IN  init_free_blk(init_free_blk(m, p, new), p + new, m.hdr[p].blk_len)

split_mem_blk(m, p, size) ==
    LET new == HeadSize + size + TailSize
        cut == init_free_blk(m, p, new)
    IN  init_free_blk(cut, next_mem_blk(cut, p), m.hdr[p].blk_len - new)

mark_mem_blk(m, p, size, user_len) ==
    LET cut == IF should_split(m, p, size) THEN split_mem_blk(m, p, size) ELSE m
    IN  [cut EXCEPT !.hdr[p] = Header(1, @.blk_len, user_len)]

free_mem_blk(m, p) ==
    merge_free_blk([m EXCEPT !.hdr[p] = Header(0, @.blk_len, @.user_len)], p)

mem_blk_ok(m, p) == p \in DOMAIN m.hdr /\ m.hdr[p].in_use = 1

-----------------------------------------------------------------------------
init_mm ==
    /\ mem = init_free_blk([hdr |-> <<>>, tail |-> <<>>, end |-> Start + HeadSize + TailSize],
                           Start, HeadSize + TailSize)
    /\ brk = Start + HeadSize + TailSize
    /\ total = 0
    /\ req = 0
    /\ owned = <<>>

(* alloc_mem takes the lock; find_a_free_blk begins.                       *)
Alloc(n) ==
    /\ req = 0
    /\ req' = n
    /\ UNCHANGED <<mem, brk, total, owned>>

Found == find_a_free_blk(mem, ALIGNED(req))

(* kernel_mock_sbrk                                                        *)
SbrkFits(n) == brk + n <= Start + PoolSize

(* Nothing fits: the pool is doubled, and the search starts again.         *)
enlarge_mem_pool ==
    LET increment == mem.end - Start
        larger == [mem EXCEPT !.end = @ + increment]
    IN  /\ req # 0 /\ Found = NULL
        /\ SbrkFits(increment)
        /\ mem' = merge_free_blk(init_free_blk(larger, brk, increment), brk)
        /\ brk' = brk + increment
        /\ UNCHANGED <<total, req, owned>>

(* Mutant: the lock is not released.                                       *)
MutantAllocNull ==
    /\ req # 0 /\ Found = NULL
    /\ ~SbrkFits(mem.end - Start)
    /\ UNCHANGED <<mem, brk, total, req, owned>>

(* Nothing fits, and sbrk fails: alloc_mem returns NULL.                   *)
AllocNull ==
    /\ req # 0 /\ Found = NULL
    /\ ~SbrkFits(mem.end - Start)
    /\ req' = 0
    /\ UNCHANGED <<mem, brk, total, owned>>

(* A block is marked and alloc_mem returns it.                             *)
AllocReturn ==
    /\ req # 0 /\ Found # NULL
    /\ mem' = mark_mem_blk(mem, Found, ALIGNED(req), req)
    /\ total' = total + req
    /\ owned' = With(owned, Found + HeadSize, req)
    /\ req' = 0
    /\ UNCHANGED brk

(* free_mem; a pointer to something else than a block in use is refused.   *)
Free(a) ==
    /\ req = 0
    /\ LET p == a - HeadSize
       IN  IF mem_blk_ok(mem, p)
           THEN /\ total' = total - mem.hdr[p].user_len
                /\ mem' = free_mem_blk(mem, p)
           ELSE UNCHANGED <<total, mem>>
    /\ owned' = Restrict(owned, DOMAIN owned \ {a})
    /\ UNCHANGED <<brk, req>>

-----------------------------------------------------------------------------
AllocStep == enlarge_mem_pool \/ AllocNull \/ AllocReturn

KmallocNext ==
    \/ \E n \in Sizes : Alloc(n)
    \/ AllocStep
    \/ \E a \in DOMAIN owned : Free(a)

KmallocSpec == init_mm /\ [][KmallocNext]_pool

(* The holder of the lock goes on.                                         *)
KmallocFairSpec == KmallocSpec /\ WF_pool(AllocStep)

-----------------------------------------------------------------------------
Headers == DOMAIN mem.hdr

BlockEnd(p) == p + mem.hdr[p].blk_len

(* The blocks fill the pool without a gap, from pool->start to pool->end,  *)
(* which is where sbrk will go on; the tail of each one leads back to it;  *)
(* and each has room for a header, a tail and an aligned piece of memory.  *)
ChainIntact ==
    /\ Start \in Headers
    /\ brk = mem.end
    /\ \A p \in Headers :
        /\ BlockEnd(p) \in Headers \cup {mem.end}
        /\ mem.hdr[p].blk_len >= HeadSize + TailSize /\ mem.hdr[p].blk_len % Align = 0
        /\ ~\E q \in Headers : p < q /\ q < BlockEnd(p)
    /\ DOMAIN mem.tail = {BlockEnd(p) - TailSize : p \in Headers}
    /\ \A p \in Headers : mem.tail[BlockEnd(p) - TailSize] = p

(* What a caller holds lies between the header and the tail of a block of  *)
(* its own that is in use, so that kfree will accept it; no block is in    *)
(* use without a caller; and total_length is what all callers have asked   *)
(* for (get_pool_malloc_total_length compares it with the blocks).         *)
CallersHaveBlocks ==
    /\ {p + HeadSize : p \in {q \in Headers : mem.hdr[q].in_use = 1}} = DOMAIN owned
    /\ \A a \in DOMAIN owned :
        /\ mem.hdr[a - HeadSize].user_len = owned[a]
        /\ a + owned[a] <= BlockEnd(a - HeadSize) - TailSize
    /\ total = MapThenSumSet(LAMBDA a : owned[a], DOMAIN owned)

(* No two free blocks are neighbours, whatever the order of the calls: the *)
(* search finds a gap if there is one.                                     *)
FullyMerged ==
    \A p, q \in Headers :
        is_blk_free(mem, p) /\ is_blk_free(mem, q) => BlockEnd(p) # q

(* The recursion of find_a_free_blk and enlarge_mem_pool ends, and the     *)
(* lock is released.                                                       *)
AllocEnds == req # 0 ~> req = 0
=============================================================================

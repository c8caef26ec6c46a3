------------------------------ MODULE Exclusion -----------------------------
(***************************************************************************)
(* What spin_lock/spin_unlock (kernel/irq.S) and mutex_lock/mutex_unlock   *)
(* (kernel/mutex.c) promise to the code between the two calls: it is       *)
(* entered only when nobody is inside, and only the one inside leaves.     *)
(***************************************************************************)
CONSTANT Users  \* those who call lock and unlock

VARIABLE inside \* the users between the return of lock and their unlock

Empty == inside = {}

Enter(u) ==
    /\ Empty
    /\ inside' = inside \cup {u}

Leave(u) ==
    /\ u \in inside
    /\ inside' = inside \ {u}

Passage == \E u \in Users : Enter(u) \/ Leave(u)

Promise == Empty /\ [][Passage]_inside
=============================================================================

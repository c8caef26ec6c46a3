---------------------------- MODULE BoundedFifo -----------------------------
(***************************************************************************)
(* What the kernel log promises: a bounded queue of bytes.  A message is   *)
(* appended as a whole or refused as a whole, and a refusal is recorded    *)
(* for ever; a read removes bytes from the front and delivers them.        *)
(***************************************************************************)
EXTENDS Sequences, Naturals

CONSTANTS
    Bytes,
    Capacity,
    MaxLen      \* longest message

VARIABLES
    q,          \* bytes stored and not yet delivered
    lost,       \* has a message been refused
    out         \* what the last read delivered

Init == q = <<>> /\ lost = FALSE /\ out = <<>>

Messages == UNION {[1..n -> Bytes] : n \in 1..MaxLen}

Put(m) ==
    /\ Len(q) + Len(m) <= Capacity
    /\ q' = q \o m
    /\ UNCHANGED <<lost, out>>

(* Refused only if it does not fit.                                        *)
Refuse(n) ==
    /\ Len(q) + n > Capacity
    /\ lost' = TRUE
    /\ UNCHANGED <<q, out>>

Get(n) ==
    /\ out' = SubSeq(q, 1, n)
    /\ q' = SubSeq(q, n + 1, Len(q))
    /\ UNCHANGED lost

Next ==
    \/ \E m \in Messages : Put(m)
    \/ \E n \in 1..MaxLen : Refuse(n)
    \/ \E n \in 0..Len(q) : Get(n)

Spec == Init /\ [][Next]_<<q, lost, out>>
=============================================================================

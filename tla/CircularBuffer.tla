--------------------------- MODULE CircularBuffer ---------------------------
(***************************************************************************)
(* lib/circular_buffer.c: a ring of bytes with a writer side and a reader  *)
(* side that run at the same time.  Writers exclude each other with        *)
(* cbuf_wlock and readers with cbuf_rlock, but nothing orders a writer and *)
(* a reader: only the rule that a pointer moves after the bytes have been  *)
(* copied.  Copying a byte is a step of its own.                           *)
(***************************************************************************)
EXTENDS Sequences, Integers

CONSTANTS
    Writers,    \* contexts that call write_concurrent_cbuf
    Readers,    \* contexts that call read_concurrent_cbuf
    NoOne,      \* owner of a free lock
    Bytes,      \* values of a byte
    Length,     \* circular_buffer.length
    MaxLen      \* longest message and longest read

ASSUME LengthAssumption == Length \in Nat \ {0}

ASSUME MaxLenAssumption == MaxLen \in Nat

ASSUME NoOneAssumption == NoOne \notin Writers \cup Readers

ASSUME BytesAssumption == Bytes /= {}

VARIABLES
    buffer,             \* circular_buffer.buffer
    rp, wp,             \* circular_buffer.rp and wp, as indices of buffer
    write_overflow,     \* concurrent_cbuf.write_overflow
    wlock, rlock,       \* owners of cbuf_wlock and cbuf_rlock
    wpc, wcur, wdata,   \* of each writer: place, local wp, bytes still to copy
    rpc, rcur, rleft,   \* of each reader: place, local rp, bytes still to copy
    rdata,              \* of each reader: bytes copied so far
    out                 \* bytes that the last read returned

wvars == <<wlock, wpc, wcur, wdata>>
rvars == <<rlock, rpc, rcur, rleft, rdata>>
vars == <<buffer, rp, wp, write_overflow, out, wvars, rvars>>

Index == 0..(Length - 1)

Messages == UNION {[1..n -> Bytes] : n \in 1..MaxLen}

TypeOK ==
    /\ buffer \in [Index -> Bytes]
    /\ rp \in Index /\ wp \in Index
    /\ write_overflow \in BOOLEAN
    /\ wlock \in Writers \cup {NoOne}
    /\ rlock \in Readers \cup {NoOne}
    /\ wpc \in [Writers -> {"idle", "check", "copy", "unlock"}]
    /\ wcur \in [Writers -> Index]
    /\ wdata \in [Writers -> Seq(Bytes)]
    /\ rpc \in [Readers -> {"idle", "check", "copy", "unlock"}]
    /\ rcur \in [Readers -> Index]
    /\ rleft \in [Readers -> Nat]
    /\ rdata \in [Readers -> Seq(Bytes)]
    /\ out \in Seq(Bytes)

(* init_concurrent_cbuf.                                                   *)
Init ==
    /\ \E b \in Bytes : buffer = [i \in Index |-> b]
    /\ rp = 0 /\ wp = 0
    /\ write_overflow = FALSE
    /\ wlock = NoOne /\ rlock = NoOne
    /\ wpc = [w \in Writers |-> "idle"]
    /\ wcur = [w \in Writers |-> 0]
    /\ wdata = [w \in Writers |-> <<>>]
    /\ rpc = [r \in Readers |-> "idle"]
    /\ rcur = [r \in Readers |-> 0]
    /\ rleft = [r \in Readers |-> 0]
    /\ rdata = [r \in Readers |-> <<>>]
    /\ out = <<>>

(* wp++, and back to begin at end.                                         *)
Inc(i) == IF i + 1 = Length THEN 0 ELSE i + 1

(* store_len of read_circular_buffer: the bytes from pointer a up to b.    *)
Stored(a, b) == IF b >= a THEN b - a ELSE Length - (a - b)

(* Mutant: the ring may be filled up, and then looks empty.                *)
MutantRoom == IF wp >= rp THEN Length - (wp - rp) ELSE rp - wp

(* The room that write_circular_buffer computes from rp and wp.            *)
Room == IF wp >= rp THEN Length - 1 - (wp - rp) ELSE rp - 1 - wp

-----------------------------------------------------------------------------
(* write_concurrent_cbuf.                                                  *)

WGoto(w, from, to) ==
    /\ wpc[w] = from
    /\ wpc' = [wpc EXCEPT ![w] = to]

(* Mutant: cbuf_wlock is not taken.                                        *)
MutantWCall(w, m) ==
    /\ WGoto(w, "idle", "check")
    /\ wdata' = [wdata EXCEPT ![w] = m]
    /\ UNCHANGED <<buffer, rp, wp, write_overflow, out, wlock, wcur, rvars>>

WCall(w, m) ==
    /\ WGoto(w, "idle", "check")
    /\ wlock = NoOne /\ wlock' = w
    /\ wdata' = [wdata EXCEPT ![w] = m]
    /\ UNCHANGED <<buffer, rp, wp, write_overflow, out, wcur, rvars>>

(* Not enough room: -1, and the wrapper notes the overflow.                *)
WRefuse(w) ==
    /\ WGoto(w, "check", "unlock")
    /\ Room < Len(wdata[w])
    /\ write_overflow' = TRUE
    /\ UNCHANGED <<buffer, rp, wp, out, wlock, wcur, wdata, rvars>>

WBegin(w) ==
    /\ WGoto(w, "check", "copy")
    /\ Room >= Len(wdata[w])
    /\ wcur' = [wcur EXCEPT ![w] = wp]
    /\ UNCHANGED <<buffer, rp, wp, write_overflow, out, wlock, wdata, rvars>>

WCopy(w) ==
    /\ wpc[w] = "copy" /\ wdata[w] /= <<>>
    /\ buffer' = [buffer EXCEPT ![wcur[w]] = Head(wdata[w])]
    /\ wcur' = [wcur EXCEPT ![w] = Inc(wcur[w])]
    /\ wdata' = [wdata EXCEPT ![w] = Tail(wdata[w])]
    /\ UNCHANGED <<rp, wp, write_overflow, out, wlock, wpc, rvars>>

(* p->wp = wp, after the copy.                                             *)
WPublish(w) ==
    /\ WGoto(w, "copy", "unlock")
    /\ wdata[w] = <<>>
    /\ wp' = wcur[w]
    /\ UNCHANGED <<buffer, rp, write_overflow, out, wlock, wcur, wdata, rvars>>

WReturn(w) ==
    /\ WGoto(w, "unlock", "idle")
    /\ wlock' = NoOne
    /\ wdata' = [wdata EXCEPT ![w] = <<>>]
    /\ wcur' = [wcur EXCEPT ![w] = 0]
    /\ UNCHANGED <<buffer, rp, wp, write_overflow, out, rvars>>

-----------------------------------------------------------------------------
(* read_concurrent_cbuf.                                                   *)

RGoto(r, from, to) ==
    /\ rpc[r] = from
    /\ rpc' = [rpc EXCEPT ![r] = to]

RCall(r, n) ==
    /\ RGoto(r, "idle", "check")
    /\ rlock = NoOne /\ rlock' = r
    /\ rleft' = [rleft EXCEPT ![r] = n]
    /\ UNCHANGED <<buffer, rp, wp, write_overflow, out, wvars, rcur, rdata>>

(* Mutant: as many bytes as were asked for, stored or not.                 *)
MutantRBegin(r) ==
    /\ RGoto(r, "check", "copy")
    /\ rcur' = [rcur EXCEPT ![r] = rp]
    /\ rdata' = [rdata EXCEPT ![r] = <<>>]
    /\ UNCHANGED <<buffer, rp, wp, write_overflow, out, wvars, rlock, rleft>>

(* to_read_len = min(length, store_len).                                   *)
RBegin(r) ==
    /\ RGoto(r, "check", "copy")
    /\ rcur' = [rcur EXCEPT ![r] = rp]
    /\ rleft' = [rleft EXCEPT ![r] =
                    IF rleft[r] <= Stored(rp, wp) THEN rleft[r] ELSE Stored(rp, wp)]
    /\ rdata' = [rdata EXCEPT ![r] = <<>>]
    /\ UNCHANGED <<buffer, rp, wp, write_overflow, out, wvars, rlock>>

RCopy(r) ==
    /\ rpc[r] = "copy" /\ rleft[r] > 0
    /\ rdata' = [rdata EXCEPT ![r] = Append(@, buffer[rcur[r]])]
    /\ rcur' = [rcur EXCEPT ![r] = Inc(rcur[r])]
    /\ rleft' = [rleft EXCEPT ![r] = rleft[r] - 1]
    /\ UNCHANGED <<buffer, rp, wp, write_overflow, out, wvars, rlock, rpc>>

(* p->rp = rp, after the copy.                                             *)
RPublish(r) ==
    /\ RGoto(r, "copy", "unlock")
    /\ rleft[r] = 0
    /\ rp' = rcur[r]
    /\ out' = rdata[r]
    /\ UNCHANGED <<buffer, wp, write_overflow, wvars, rlock, rcur, rleft, rdata>>

RReturn(r) ==
    /\ RGoto(r, "unlock", "idle")
    /\ rlock' = NoOne
    /\ rdata' = [rdata EXCEPT ![r] = <<>>]
    /\ rcur' = [rcur EXCEPT ![r] = 0]
    /\ UNCHANGED <<buffer, rp, wp, write_overflow, out, wvars, rleft>>

-----------------------------------------------------------------------------
Next ==
    \/ \E w \in Writers :
        \/ \E m \in Messages : WCall(w, m)
        \/ WRefuse(w) \/ WBegin(w) \/ WCopy(w) \/ WPublish(w)
        \/ WReturn(w)
    \/ \E r \in Readers :
        \/ \E n \in 1..MaxLen : RCall(r, n)
        \/ RBegin(r) \/ RCopy(r) \/ RPublish(r) \/ RReturn(r)

Spec == Init /\ [][Next]_vars

-----------------------------------------------------------------------------
(* The cells that hold bytes stored and not yet delivered.                 *)
StoredCells == {i \in Index : Stored(rp, i) < Stored(rp, wp)}

(* The writer never writes into a cell that a reader may still read.       *)
WriterInFreeCell ==
    \A w \in Writers :
        wpc[w] = "copy" /\ wdata[w] /= <<>> => wcur[w] \notin StoredCells

(* A reader never reads a cell that no completed write has filled.         *)
ReaderInStoredCell ==
    \A r \in Readers :
        rpc[r] = "copy" /\ rleft[r] > 0 => rcur[r] \in StoredCells

(* No step changes a byte that is stored, whoever takes it.                *)
StoredBytesStable == [][\A i \in StoredCells : buffer'[i] = buffer[i]]_vars

(***************************************************************************)
(* The inductive invariant behind the last three properties.               *)
(***************************************************************************)
LocksOwned ==
    /\ \A w \in Writers : wlock = w <=> wpc[w] /= "idle"
    /\ \A r \in Readers : rlock = r <=> rpc[r] /= "idle"

(* What is stored, what the writer has copied and what it has still to     *)
(* copy fit; rp may have moved since the room was computed, which only     *)
(* leaves more of it.                                                      *)
WriterFits ==
    \A w \in Writers : wpc[w] = "copy" =>
        Stored(rp, wp) + Stored(wp, wcur[w]) + Len(wdata[w]) <= Length - 1

ReaderFits ==
    \A r \in Readers : rpc[r] = "copy" =>
        Stored(rp, rcur[r]) + rleft[r] <= Stored(rp, wp)

IInv == TypeOK /\ LocksOwned /\ WriterFits /\ ReaderFits

(* The cell k places after cell a, round the end of the ring.              *)
Cell(a, k) == IF a + k < Length THEN a + k ELSE a + k - Length

(* The n bytes of the ring b from cell a on.                               *)
Slice(b, a, n) == [i \in 1..n |-> b[Cell(a, i - 1)]]

(* What is stored, from rp up to wp.                                       *)
Contents == Slice(buffer, rp, Stored(rp, wp))

Abstract == INSTANCE BoundedFifo WITH Capacity <- Length - 1,
                q <- Contents, lost <- write_overflow

(* The ring implements a bounded queue of bytes: complete messages appear  *)
(* in it at the move of wp and bytes leave it at the move of rp, so that   *)
(* the messages of two writers never mix and nothing is delivered twice,   *)
(* out of order or unwritten; write_overflow is set if and only if a       *)
(* message has been dropped.                                               *)
ImplementsFifo == Abstract!Spec
=============================================================================

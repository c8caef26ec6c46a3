------------------------ MODULE CircularBuffer_proof ------------------------
(***************************************************************************)
(* A concurrent reader and writer of the ring never meet in a cell, and    *)
(* together they implement a bounded queue, for every length of the ring   *)
(* and any number of readers and writers.                                  *)
(***************************************************************************)
EXTENDS CircularBuffer, SequenceTheorems, TLAPS

-----------------------------------------------------------------------------
(* Lemmas about distances on the ring.                                     *)

(* The number of bytes from one index up to another is below Length.       *)
LEMMA StoredType ==
    ASSUME NEW a \in Index, NEW b \in Index
    PROVE  Stored(a, b) \in Nat /\ Stored(a, b) < Length
BY LengthAssumption DEF Index, Stored

(* There is nothing from an index up to itself.                            *)
LEMMA StoredSelf ==
    ASSUME NEW a \in Index
    PROVE  Stored(a, a) = 0
BY LengthAssumption DEF Index, Stored

(* Advancing a pointer that stays short of a full turn.                    *)
LEMMA StoredInc ==
    ASSUME NEW a \in Index, NEW b \in Index, Stored(a, b) < Length - 1
    PROVE  Inc(b) \in Index /\ Stored(a, Inc(b)) = Stored(a, b) + 1
BY LengthAssumption DEF Index, Stored, Inc

(* A pointer that is advanced stays an index.                              *)
LEMMA IncType ==
    ASSUME NEW b \in Index
    PROVE  Inc(b) \in Index
BY LengthAssumption DEF Index, Inc

(* Distances that do not add up to a full turn add up.                     *)
LEMMA StoredAdd ==
    ASSUME NEW a \in Index, NEW b \in Index, NEW c \in Index,
           Stored(a, b) + Stored(b, c) <= Length - 1
    PROVE  Stored(a, c) = Stored(a, b) + Stored(b, c)
BY LengthAssumption DEF Index, Stored

(* Moving the first pointer towards the second.                            *)
LEMMA StoredSub ==
    ASSUME NEW a \in Index, NEW b \in Index, NEW c \in Index,
           Stored(a, b) <= Stored(a, c)
    PROVE  Stored(b, c) = Stored(a, c) - Stored(a, b)
BY LengthAssumption DEF Index, Stored

(* The room computed by the code is what is left of a ring that keeps one  *)
(* cell free.                                                              *)
LEMMA RoomIs ==
    ASSUME rp \in Index, wp \in Index
    PROVE  Room = Length - 1 - Stored(rp, wp)
BY LengthAssumption DEF Index, Stored, Room

(* A message is a sequence of bytes.                                       *)
LEMMA MessageType == ASSUME NEW m \in Messages PROVE m \in Seq(Bytes)
BY MaxLenAssumption DEF Messages

-----------------------------------------------------------------------------
(* init_concurrent_cbuf establishes the invariant.                         *)
LEMMA InitInv == Init => IInv
<1> SUFFICES ASSUME Init PROVE IInv
    OBVIOUS
<1>1. TypeOK
  <2>1. 0 \in Index
    BY LengthAssumption DEF Index
  <2>2. buffer \in [Index -> Bytes]
    BY DEF Init
  <2>3. <<>> \in Seq(Bytes)
    OBVIOUS
  <2> QED BY <2>1, <2>2, <2>3 DEF Init, TypeOK
<1>2. LocksOwned /\ WriterFits /\ ReaderFits
  BY NoOneAssumption DEF Init, LocksOwned, WriterFits, ReaderFits
<1> QED BY <1>1, <1>2 DEF IInv

(* Every step of a writer or a reader preserves it.                        *)
LEMMA NextInv == IInv /\ [Next]_vars => IInv'
<1> SUFFICES ASSUME IInv, [Next]_vars PROVE IInv'
    OBVIOUS
<1> USE DEF IInv, WGoto, RGoto, wvars, rvars
<1>1. ASSUME NEW w \in Writers, NEW m \in Messages, WCall(w, m) PROVE IInv'
  <2>1. TypeOK'
    BY <1>1, MessageType DEF WCall, TypeOK, Index
  <2>2. LocksOwned'
    BY <1>1, NoOneAssumption DEF WCall, LocksOwned, TypeOK
  <2>3. WriterFits'
    BY <1>1 DEF WCall, WriterFits, ReaderFits, LocksOwned, TypeOK
  <2>4. ReaderFits'
    BY <1>1 DEF WCall, ReaderFits, WriterFits, LocksOwned, TypeOK
  <2> QED BY <2>1, <2>2, <2>3, <2>4
<1>2. ASSUME NEW w \in Writers, WRefuse(w) PROVE IInv'
  <2>1. TypeOK'
    BY <1>2 DEF WRefuse, TypeOK, Index
  <2>2. LocksOwned'
    BY <1>2, NoOneAssumption DEF WRefuse, LocksOwned, TypeOK
  <2>3. WriterFits'
    BY <1>2 DEF WRefuse, WriterFits, ReaderFits, LocksOwned, TypeOK
  <2>4. ReaderFits'
    BY <1>2 DEF WRefuse, ReaderFits, WriterFits, LocksOwned, TypeOK
  <2> QED BY <2>1, <2>2, <2>3, <2>4
<1>3. ASSUME NEW w \in Writers, WBegin(w) PROVE IInv'
  <2>1. TypeOK'
    BY <1>3 DEF WBegin, TypeOK, Index
  <2>2. LocksOwned'
    BY <1>3, NoOneAssumption DEF WBegin, LocksOwned, TypeOK
  <2>3. WriterFits'
    <3>1. \A v \in Writers : wpc'[v] = "copy" => v = w
      BY <1>3 DEF WBegin, LocksOwned, TypeOK
    <3>2. wcur'[w] = wp /\ Stored(wp, wp) = 0
      BY <1>3, StoredSelf DEF WBegin, TypeOK
    <3>3. Stored(rp, wp) + 0 + Len(wdata[w]) <= Length - 1
      BY <1>3, RoomIs, StoredType, LengthAssumption DEF WBegin, TypeOK
    <3>4. wp' = wp /\ rp' = rp /\ wdata' = wdata
      BY <1>3 DEF WBegin
    <3> QED BY <3>1, <3>2, <3>3, <3>4 DEF WriterFits, Stored
  <2>4. ReaderFits'
    BY <1>3 DEF WBegin, ReaderFits, WriterFits, LocksOwned, TypeOK
  <2> QED BY <2>1, <2>2, <2>3, <2>4
<1>4. ASSUME NEW w \in Writers, WCopy(w) PROVE IInv'
  <2>1. TypeOK'
    <3>1. Head(wdata[w]) \in Bytes /\ Tail(wdata[w]) \in Seq(Bytes)
      BY <1>4 DEF WCopy, TypeOK
    <3>2. Inc(wcur[w]) \in Index
      BY <1>4, IncType DEF TypeOK
    <3> QED BY <1>4, <3>1, <3>2 DEF WCopy, TypeOK
  <2>2. LocksOwned'
    BY <1>4, NoOneAssumption DEF WCopy, LocksOwned, TypeOK
  <2>3. WriterFits'
    <3>1. \A v \in Writers : wpc'[v] = "copy" => v = w
      BY <1>4 DEF WCopy, LocksOwned, TypeOK
    <3>2. Len(wdata'[w]) = Len(wdata[w]) - 1 /\ Len(wdata[w]) \in Nat
      BY <1>4 DEF WCopy, TypeOK
    <3>3. /\ Stored(rp, wp) + Stored(wp, wcur[w]) + Len(wdata[w]) <= Length - 1
          /\ Len(wdata[w]) > 0
      BY <1>4 DEF WCopy, WriterFits, TypeOK
    <3>4. Stored(rp, wp) \in Nat /\ Stored(wp, wcur[w]) \in Nat
      BY <1>4, StoredType DEF TypeOK
    <3>5. Stored(wp, Inc(wcur[w])) = Stored(wp, wcur[w]) + 1
      BY <1>4, <3>2, <3>3, <3>4, StoredInc, LengthAssumption DEF TypeOK
    <3>6. wcur'[w] = Inc(wcur[w]) /\ rp' = rp /\ wp' = wp
      BY <1>4 DEF WCopy, TypeOK
    <3>7. Stored(rp, wp) + Stored(wp, wcur'[w]) + Len(wdata'[w]) <= Length - 1
      BY <3>2, <3>3, <3>4, <3>5, <3>6, LengthAssumption
    <3> QED BY <3>1, <3>6, <3>7 DEF WriterFits, Stored
  <2>4. ReaderFits'
    BY <1>4 DEF WCopy, ReaderFits, WriterFits, LocksOwned, TypeOK
  <2> QED BY <2>1, <2>2, <2>3, <2>4
<1>5. ASSUME NEW w \in Writers, WPublish(w) PROVE IInv'
  <2>1. TypeOK'
    BY <1>5 DEF WPublish, TypeOK, Index
  <2>2. LocksOwned'
    BY <1>5, NoOneAssumption DEF WPublish, LocksOwned, TypeOK
  <2>3. WriterFits'
    BY <1>5, StoredAdd, StoredSelf, StoredType DEF WPublish, WriterFits,
        ReaderFits, LocksOwned, TypeOK
  <2>4. ReaderFits'
    <3>1. SUFFICES ASSUME NEW r \in Readers, rpc[r] = "copy"
                   PROVE  Stored(rp, rcur[r]) + rleft[r] <= Stored(rp, wcur[w])
      BY <1>5 DEF WPublish, ReaderFits, Stored
    <3>2. Stored(rp, wcur[w]) = Stored(rp, wp) + Stored(wp, wcur[w])
      <4>1. Stored(rp, wp) + Stored(wp, wcur[w]) + Len(wdata[w]) <= Length - 1
        BY <1>5 DEF WPublish, WriterFits
      <4>2. Len(wdata[w]) = 0
        BY <1>5 DEF WPublish
      <4>3. rp \in Index /\ wp \in Index /\ wcur[w] \in Index
        BY <1>5 DEF TypeOK
      <4>4. Stored(rp, wp) \in Nat /\ Stored(wp, wcur[w]) \in Nat
        BY <4>3, StoredType
      <4> QED BY <4>1, <4>2, <4>3, <4>4, StoredAdd, LengthAssumption
    <3>3. Stored(rp, rcur[r]) + rleft[r] <= Stored(rp, wp)
      BY <3>1 DEF ReaderFits
    <3>4. /\ Stored(rp, rcur[r]) \in Nat /\ Stored(rp, wp) \in Nat
          /\ Stored(wp, wcur[w]) \in Nat /\ rleft[r] \in Nat
      BY <1>5, StoredType DEF TypeOK
    <3> QED BY <3>2, <3>3, <3>4
  <2> QED BY <2>1, <2>2, <2>3, <2>4
<1>6. ASSUME NEW w \in Writers, WReturn(w) PROVE IInv'
  <2>1. TypeOK'
    BY <1>6, LengthAssumption DEF WReturn, TypeOK, Index
  <2>2. LocksOwned'
    BY <1>6, NoOneAssumption DEF WReturn, LocksOwned, TypeOK
  <2>3. WriterFits'
    BY <1>6 DEF WReturn, WriterFits, ReaderFits, LocksOwned, TypeOK
  <2>4. ReaderFits'
    BY <1>6 DEF WReturn, ReaderFits, WriterFits, LocksOwned, TypeOK
  <2> QED BY <2>1, <2>2, <2>3, <2>4
<1>7. ASSUME NEW r \in Readers, NEW n \in 1..MaxLen, RCall(r, n) PROVE IInv'
  <2>1. TypeOK'
    BY <1>7, MaxLenAssumption DEF RCall, TypeOK, Index
  <2>2. LocksOwned'
    BY <1>7, NoOneAssumption DEF RCall, LocksOwned, TypeOK
  <2>3. WriterFits'
    BY <1>7 DEF RCall, WriterFits, ReaderFits, LocksOwned, TypeOK
  <2>4. ReaderFits'
    BY <1>7 DEF RCall, ReaderFits, WriterFits, LocksOwned, TypeOK
  <2> QED BY <2>1, <2>2, <2>3, <2>4
<1>8. ASSUME NEW r \in Readers, RBegin(r) PROVE IInv'
  <2>1. TypeOK'
    <3>1. rleft'[r] \in Nat /\ rleft' = [rleft EXCEPT ![r] = rleft'[r]]
      BY <1>8, StoredType DEF RBegin, TypeOK
    <3> QED BY <1>8, <3>1 DEF RBegin, TypeOK
  <2>2. LocksOwned'
    BY <1>8, NoOneAssumption DEF RBegin, LocksOwned, TypeOK
  <2>3. WriterFits'
    BY <1>8 DEF RBegin, WriterFits, ReaderFits, LocksOwned, TypeOK
  <2>4. ReaderFits'
    <3>1. \A v \in Readers : rpc'[v] = "copy" => v = r
      BY <1>8 DEF RBegin, LocksOwned, TypeOK
    <3>2. rcur'[r] = rp /\ Stored(rp, rp) = 0
      BY <1>8, StoredSelf DEF RBegin, TypeOK
    <3>3. rleft'[r] <= Stored(rp, wp) /\ rleft'[r] \in Nat
      BY <1>8, StoredType DEF RBegin, TypeOK
    <3>4. wp' = wp /\ rp' = rp
      BY <1>8 DEF RBegin
    <3> QED BY <3>1, <3>2, <3>3, <3>4 DEF ReaderFits, Stored
  <2> QED BY <2>1, <2>2, <2>3, <2>4
<1>9. ASSUME NEW r \in Readers, RCopy(r) PROVE IInv'
  <2>1. TypeOK'
    <3>1. Inc(rcur[r]) \in Index /\ buffer[rcur[r]] \in Bytes
      BY <1>9, IncType DEF TypeOK
    <3>2. Append(rdata[r], buffer[rcur[r]]) \in Seq(Bytes)
      BY <1>9, <3>1 DEF TypeOK
    <3>3. rleft[r] - 1 \in Nat
      BY <1>9 DEF RCopy, TypeOK
    <3> QED BY <1>9, <3>1, <3>2, <3>3 DEF RCopy, TypeOK
  <2>2. LocksOwned'
    BY <1>9, NoOneAssumption DEF RCopy, LocksOwned, TypeOK
  <2>3. WriterFits'
    BY <1>9 DEF RCopy, WriterFits, ReaderFits, LocksOwned, TypeOK
  <2>4. ReaderFits'
    <3>1. \A v \in Readers : rpc'[v] = "copy" => v = r
      BY <1>9 DEF RCopy, LocksOwned, TypeOK
    <3>2. /\ Stored(rp, rcur[r]) + rleft[r] <= Stored(rp, wp)
          /\ rleft[r] > 0 /\ rleft[r] \in Nat
      BY <1>9 DEF RCopy, ReaderFits, TypeOK
    <3>3. /\ Stored(rp, rcur[r]) \in Nat
          /\ Stored(rp, wp) \in Nat /\ Stored(rp, wp) < Length
      BY <1>9, StoredType DEF TypeOK
    <3>4. Stored(rp, Inc(rcur[r])) = Stored(rp, rcur[r]) + 1
      BY <1>9, <3>2, <3>3, StoredInc, LengthAssumption DEF TypeOK
    <3>5. /\ rcur'[r] = Inc(rcur[r]) /\ rleft'[r] = rleft[r] - 1
          /\ rp' = rp /\ wp' = wp
      BY <1>9 DEF RCopy, TypeOK
    <3>6. Stored(rp, rcur'[r]) + rleft'[r] <= Stored(rp, wp)
      BY <3>2, <3>3, <3>4, <3>5
    <3> QED BY <3>1, <3>5, <3>6 DEF ReaderFits, Stored
  <2> QED BY <2>1, <2>2, <2>3, <2>4
<1>10. ASSUME NEW r \in Readers, RPublish(r) PROVE IInv'
  <2>1. TypeOK'
    BY <1>10 DEF RPublish, TypeOK, Index
  <2>2. LocksOwned'
    BY <1>10, NoOneAssumption DEF RPublish, LocksOwned, TypeOK
  <2>3. WriterFits'
    <3>1. SUFFICES ASSUME NEW w \in Writers, wpc[w] = "copy"
                   PROVE  Stored(rcur[r], wp) + Stored(wp, wcur[w]) + Len(wdata[w])
                            <= Length - 1
      BY <1>10 DEF RPublish, WriterFits, Stored
    <3>2. Stored(rp, rcur[r]) <= Stored(rp, wp) /\ Stored(rp, rcur[r]) \in Nat
      BY <1>10, StoredType DEF RPublish, ReaderFits, TypeOK
    <3>3. Stored(rcur[r], wp) = Stored(rp, wp) - Stored(rp, rcur[r])
      BY <1>10, <3>2, StoredSub DEF TypeOK
    <3>4. Stored(rp, wp) + Stored(wp, wcur[w]) + Len(wdata[w]) <= Length - 1
      BY <3>1 DEF WriterFits
    <3>5. /\ Stored(rp, wp) \in Nat /\ Stored(wp, wcur[w]) \in Nat
          /\ Len(wdata[w]) \in Nat
      BY <3>1, StoredType DEF TypeOK
    <3> QED BY <3>2, <3>3, <3>4, <3>5, LengthAssumption
  <2>4. ReaderFits'
    BY <1>10, StoredSub, StoredSelf, StoredType DEF RPublish, ReaderFits,
        WriterFits, LocksOwned, TypeOK
  <2> QED BY <2>1, <2>2, <2>3, <2>4
<1>11. ASSUME NEW r \in Readers, RReturn(r) PROVE IInv'
  <2>1. TypeOK'
    BY <1>11, LengthAssumption DEF RReturn, TypeOK, Index
  <2>2. LocksOwned'
    BY <1>11, NoOneAssumption DEF RReturn, LocksOwned, TypeOK
  <2>3. WriterFits'
    BY <1>11 DEF RReturn, WriterFits, ReaderFits, LocksOwned, TypeOK
  <2>4. ReaderFits'
    BY <1>11 DEF RReturn, ReaderFits, WriterFits, LocksOwned, TypeOK
  <2> QED BY <2>1, <2>2, <2>3, <2>4
<1>12. CASE UNCHANGED vars
  BY <1>12 DEF vars, TypeOK, LocksOwned, WriterFits, ReaderFits, Stored
<1> QED
  BY <1>1, <1>2, <1>3, <1>4, <1>5, <1>6, <1>7, <1>8, <1>9, <1>10, <1>11, <1>12 DEF Next
(* IInv holds in every state of every execution.                           *)
THEOREM CircularBufferInv == Spec => []IInv
BY InitInv, NextInv, PTL DEF Spec

(* The cell that a writer is about to fill is not stored.                  *)
LEMMA InvWriter == IInv => WriterInFreeCell
<1> SUFFICES ASSUME IInv, NEW w \in Writers, wpc[w] = "copy", wdata[w] /= <<>>
             PROVE  wcur[w] \notin StoredCells
    BY DEF WriterInFreeCell
<1>1. /\ rp \in Index /\ wp \in Index /\ wcur[w] \in Index
      /\ Len(wdata[w]) \in Nat
  BY DEF IInv, TypeOK
<1>2. Stored(rp, wp) + Stored(wp, wcur[w]) + Len(wdata[w]) <= Length - 1
  BY DEF IInv, WriterFits
<1>3. Stored(rp, wp) \in Nat /\ Stored(wp, wcur[w]) \in Nat
  BY <1>1, StoredType
<1>4. Stored(rp, wcur[w]) = Stored(rp, wp) + Stored(wp, wcur[w])
  BY <1>1, <1>2, <1>3, StoredAdd, LengthAssumption
<1> QED BY <1>3, <1>4 DEF StoredCells

(* No writer overwrites a byte that is stored.                             *)
THEOREM WriterNeverOverwrites == Spec => []WriterInFreeCell
BY CircularBufferInv, InvWriter, PTL

(* No reader takes a byte that is not stored.                              *)
THEOREM ReaderNeverRunsAhead == Spec => []ReaderInStoredCell
<1>1. IInv => ReaderInStoredCell
  <2> SUFFICES ASSUME IInv, NEW r \in Readers, rpc[r] = "copy", rleft[r] > 0
               PROVE  rcur[r] \in StoredCells
      BY DEF ReaderInStoredCell
  <2>1. /\ rcur[r] \in Index /\ rp \in Index /\ wp \in Index
        /\ rleft[r] \in Nat
    BY DEF IInv, TypeOK
  <2>2. Stored(rp, rcur[r]) + rleft[r] <= Stored(rp, wp)
    BY DEF IInv, ReaderFits
  <2> QED BY <2>1, <2>2, StoredType DEF StoredCells
<1> QED BY <1>1, CircularBufferInv, PTL

(* Whatever step is taken, the stored bytes stay as they are.              *)
THEOREM StoredBytesNeverChange == Spec => StoredBytesStable
<1>1. ASSUME IInv, [Next]_vars
      PROVE  [\A i \in StoredCells : buffer'[i] = buffer[i]]_vars
  <2>1. ASSUME NEW w \in Writers, WCopy(w)
        PROVE  \A i \in StoredCells : buffer'[i] = buffer[i]
    <3>1. wcur[w] \notin StoredCells
      BY <1>1, <2>1, InvWriter DEF WCopy, WriterInFreeCell
    <3> QED BY <1>1, <2>1, <3>1 DEF WCopy, IInv, TypeOK, StoredCells
  <2>2. CASE buffer' = buffer
    BY <2>2
  <2>3. CASE vars' = vars
    BY <2>3
  <2> QED
    BY <1>1, <2>1, <2>2, <2>3
       DEF Next, WCall, WRefuse, WBegin, WPublish, WReturn,
           RCall, RBegin, RCopy, RPublish, RReturn
<1> QED
  BY <1>1, CircularBufferInv, PTL DEF Spec, StoredBytesStable
-----------------------------------------------------------------------------
(* Lemmas about slices of the ring.                                        *)

(* A cell less than a turn away is a cell, at that distance.               *)
LEMMA CellType ==
    ASSUME NEW a \in Index, NEW k \in 0..(Length - 1)
    PROVE  Cell(a, k) \in Index /\ Stored(a, Cell(a, k)) = k
BY LengthAssumption DEF Index, Stored, Cell

(* The distance from one cell to another leads to the other.               *)
LEMMA CellStored ==
    ASSUME NEW a \in Index, NEW b \in Index
    PROVE  Cell(a, Stored(a, b)) = b
BY LengthAssumption DEF Index, Stored, Cell

(* Two distances that stay within a turn can be walked one by one.         *)
LEMMA CellAdd ==
    ASSUME NEW a \in Index, NEW n \in Nat, NEW k \in Nat, n + k <= Length - 1
    PROVE  Cell(Cell(a, n), k) = Cell(a, n + k)
BY LengthAssumption DEF Index, Cell

(* A slice of a ring of bytes is a sequence of bytes of its length.        *)
LEMMA SliceType ==
    ASSUME NEW b \in [Index -> Bytes], NEW a \in Index, NEW n \in 0..(Length - 1)
    PROVE  /\ Slice(b, a, n) \in [1..n -> Bytes]
           /\ Slice(b, a, n) \in Seq(Bytes)
           /\ Len(Slice(b, a, n)) = n
           /\ \A i \in 1..n : Slice(b, a, n)[i] = b[Cell(a, i - 1)]
<1>1. \A i \in 1..n : b[Cell(a, i - 1)] \in Bytes
  <2> TAKE i \in 1..n
  <2>1. i - 1 \in 0..(Length - 1)
    BY LengthAssumption
  <2> QED BY <2>1, CellType
<1>2. Slice(b, a, n) \in [1..n -> Bytes]
  BY <1>1 DEF Slice
<1>3. Slice(b, a, n) \in Seq(Bytes) /\ Len(Slice(b, a, n)) = n
  BY <1>2, LengthAssumption
<1> QED BY <1>2, <1>3 DEF Slice

(* A slice depends on its own cells only.                                  *)
LEMMA SliceSame ==
    ASSUME NEW b, NEW c, NEW a \in Index, NEW n \in 0..(Length - 1),
           \A i \in Index : Stored(a, i) < n => b[i] = c[i]
    PROVE  Slice(b, a, n) = Slice(c, a, n)
<1>1. \A i \in 1..n : b[Cell(a, i - 1)] = c[Cell(a, i - 1)]
  <2> TAKE i \in 1..n
  <2>1. i - 1 \in 0..(Length - 1) /\ i - 1 < n
    BY LengthAssumption
  <2> QED BY <2>1, CellType
<1> QED BY <1>1 DEF Slice

(* Two slices that follow each other make one.                             *)
LEMMA SliceConcat ==
    ASSUME NEW b \in [Index -> Bytes], NEW a \in Index,
           NEW n \in Nat, NEW k \in Nat, n + k <= Length - 1
    PROVE  Slice(b, a, n) \o Slice(b, Cell(a, n), k) = Slice(b, a, n + k)
<1>1. /\ n \in 0..(Length - 1) /\ k \in 0..(Length - 1)
      /\ n + k \in 0..(Length - 1)
  BY LengthAssumption
<1>2. Cell(a, n) \in Index
  BY <1>1, CellType
<1> DEFINE s == Slice(b, a, n)
           t == Slice(b, Cell(a, n), k)
           u == Slice(b, a, n + k)
<1>3. /\ s \in Seq(Bytes) /\ Len(s) = n
      /\ \A i \in 1..n : s[i] = b[Cell(a, i - 1)]
  BY <1>1, SliceType
<1>4. /\ t \in Seq(Bytes) /\ Len(t) = k
      /\ \A i \in 1..k : t[i] = b[Cell(Cell(a, n), i - 1)]
  BY <1>1, <1>2, SliceType
<1>5. /\ u \in Seq(Bytes) /\ Len(u) = n + k
      /\ \A i \in 1..(n + k) : u[i] = b[Cell(a, i - 1)]
  BY <1>1, SliceType
<1>6. \A i \in 1..k : t[i] = u[n + i]
  <2> TAKE i \in 1..k
  <2>1. i - 1 \in Nat /\ n + (i - 1) <= Length - 1
    BY LengthAssumption
  <2>2. Cell(Cell(a, n), i - 1) = Cell(a, n + (i - 1))
    BY <2>1, CellAdd
  <2>3. n + (i - 1) = (n + i) - 1 /\ n + i \in 1..(n + k)
    OBVIOUS
  <2> HIDE DEF s, t, u
  <2> QED BY <1>4, <1>5, <2>2, <2>3
<1> HIDE DEF s, t, u
<1>7. \A i \in 1..n : s[i] = u[i]
  <2>1. \A i \in 1..n : i \in 1..(n + k)
    OBVIOUS
  <2> QED BY <1>3, <1>5, <2>1, Zenon
<1>8. /\ s \o t \in Seq(Bytes) /\ Len(s \o t) = n + k
      /\ \A i \in 1..(n + k) : (s \o t)[i] = IF i <= n THEN s[i] ELSE t[i - n]
  <2>1. s \in Seq(Bytes) /\ t \in Seq(Bytes)
    BY <1>3, <1>4
  <2>2. /\ s \o t \in Seq(Bytes)
        /\ Len(s \o t) = Len(s) + Len(t)
        /\ \A i \in 1..(Len(s) + Len(t)) :
             (s \o t)[i] = IF i <= Len(s) THEN s[i] ELSE t[i - Len(s)]
    BY <2>1, ConcatProperties, Zenon
  <2>3. Len(s) = n /\ Len(t) = k
    BY <1>3, <1>4
  <2> QED BY <2>2, <2>3, Zenon
<1>9. \A i \in 1..(n + k) : (s \o t)[i] = u[i]
  BY <1>6, <1>7, <1>8
<1>10. s \o t = u
  BY <1>5, <1>8, <1>9, SeqEqual
<1> QED BY <1>10 DEF s, t, u

(* One more byte.                                                          *)
LEMMA SliceAppend ==
    ASSUME NEW b \in [Index -> Bytes], NEW a \in Index,
           NEW n \in Nat, n + 1 <= Length - 1
    PROVE  Append(Slice(b, a, n), b[Cell(a, n)]) = Slice(b, a, n + 1)
<1>1. n \in 0..(Length - 1) /\ n + 1 \in 0..(Length - 1)
  BY LengthAssumption
<1> DEFINE s == Slice(b, a, n)
           u == Slice(b, a, n + 1)
<1>2. /\ s \in Seq(Bytes) /\ Len(s) = n
      /\ \A i \in 1..n : s[i] = b[Cell(a, i - 1)]
  BY <1>1, SliceType
<1>3. /\ u \in Seq(Bytes) /\ Len(u) = n + 1
      /\ \A i \in 1..(n + 1) : u[i] = b[Cell(a, i - 1)]
  BY <1>1, SliceType
<1>4. b[Cell(a, n)] \in Bytes
  BY <1>1, CellType
<1>5. u[n + 1] = b[Cell(a, n)]
  <2>1. (n + 1) - 1 = n /\ n + 1 \in 1..(n + 1)
    OBVIOUS
  <2> HIDE DEF u
  <2> QED BY <1>3, <2>1
<1> HIDE DEF s, u
<1>6. \A x \in Bytes : /\ Append(s, x) \in Seq(Bytes)
                       /\ Len(Append(s, x)) = n + 1
                       /\ \A i \in 1..n : Append(s, x)[i] = s[i]
                       /\ Append(s, x)[n + 1] = x
  BY <1>2
<1>7. \A i \in 1..(n + 1) : Append(s, b[Cell(a, n)])[i] = u[i]
  BY <1>2, <1>3, <1>4, <1>5, <1>6
<1>8. Append(s, b[Cell(a, n)]) = u
  BY <1>3, <1>4, <1>6, <1>7, SeqEqual
<1> QED BY <1>8 DEF s, u

(* The front of a slice, and what remains behind it.                       *)
LEMMA SliceSplit ==
    ASSUME NEW b \in [Index -> Bytes], NEW a \in Index,
           NEW n \in 0..(Length - 1), NEW k \in 0..n
    PROVE  /\ SubSeq(Slice(b, a, n), 1, k) = Slice(b, a, k)
           /\ SubSeq(Slice(b, a, n), k + 1, n) = Slice(b, Cell(a, k), n - k)
<1>1. k \in 0..(Length - 1) /\ n - k \in 0..(Length - 1)
  BY LengthAssumption
<1>2. Cell(a, k) \in Index
  BY <1>1, CellType
<1> DEFINE s == Slice(b, a, n)
           t == Slice(b, a, k)
           u == Slice(b, Cell(a, k), n - k)
<1>3. /\ s \in Seq(Bytes) /\ Len(s) = n
      /\ \A i \in 1..n : s[i] = b[Cell(a, i - 1)]
  BY SliceType
<1>4. /\ t \in Seq(Bytes) /\ Len(t) = k
      /\ \A i \in 1..k : t[i] = b[Cell(a, i - 1)]
  BY <1>1, SliceType
<1>5. /\ u \in Seq(Bytes) /\ Len(u) = n - k
      /\ \A i \in 1..(n - k) : u[i] = b[Cell(Cell(a, k), i - 1)]
  BY <1>1, <1>2, SliceType
<1>6. \A i \in 1..(n - k) : u[i] = s[k + i]
  <2> TAKE i \in 1..(n - k)
  <2>1. i - 1 \in Nat /\ k + (i - 1) <= Length - 1 /\ k \in Nat
    BY LengthAssumption
  <2>2. Cell(Cell(a, k), i - 1) = Cell(a, k + (i - 1))
    BY <2>1, CellAdd
  <2>3. k + (i - 1) = (k + i) - 1 /\ k + i \in 1..n
    OBVIOUS
  <2> HIDE DEF s, t, u
  <2> QED BY <1>3, <1>5, <2>2, <2>3
<1> HIDE DEF s, t, u
<1>7. SubSeq(s, 1, k) = t
  <2>1. \A i \in 1..k : s[i] \in Bytes
    BY <1>3
  <2>2. /\ SubSeq(s, 1, k) \in Seq(Bytes)
        /\ Len(SubSeq(s, 1, k)) = k
        /\ \A i \in 1..k : SubSeq(s, 1, k)[i] = s[i]
    BY <1>3, <2>1
  <2>3. \A i \in 1..k : SubSeq(s, 1, k)[i] = t[i]
    BY <1>3, <1>4, <2>2
  <2> QED BY <1>4, <2>2, <2>3, SeqEqual
<1>8. SubSeq(s, k + 1, n) = u
  <2>1. \A i \in (k + 1)..n : s[i] \in Bytes
    BY <1>3
  <2>2. /\ SubSeq(s, k + 1, n) \in Seq(Bytes)
        /\ Len(SubSeq(s, k + 1, n)) = n - k
        /\ \A i \in 1..(n - k) : SubSeq(s, k + 1, n)[i] = s[k + i]
    BY <1>3, <2>1
  <2>3. \A i \in 1..(n - k) : SubSeq(s, k + 1, n)[i] = u[i]
    BY <1>6, <2>2
  <2> QED BY <1>5, <2>2, <2>3, SeqEqual
<1> QED BY <1>7, <1>8 DEF s, t, u

-----------------------------------------------------------------------------
(* The ring implements the bounded queue.                                  *)

(* What a writer was given is a message: of at least a byte and no longer  *)
(* than MaxLen, whatever part of it has been copied.                       *)
MessageLengths ==
    \A w \in Writers :
        /\ wpc[w] = "check" => Len(wdata[w]) \in 1..MaxLen
        /\ wpc[w] = "copy" => Stored(wp, wcur[w]) + Len(wdata[w]) \in 1..MaxLen

(* A reader has taken the first bytes of what is stored, in their order.   *)
ReaderHasFront ==
    \A r \in Readers :
        rpc[r] = "copy" => rdata[r] = Slice(buffer, rp, Stored(rp, rcur[r]))

(* What the refinement needs of the state.                                 *)
FifoInv == IInv /\ MessageLengths /\ ReaderHasFront

(* A message has a length between one and MaxLen.                          *)
LEMMA MessageLength == ASSUME NEW m \in Messages PROVE Len(m) \in 1..MaxLen
BY MaxLenAssumption DEF Messages

(* A copy into the ring leaves the slices that are stored as they are.     *)
LEMMA WCopyKeepsSlices ==
    ASSUME IInv, NEW w \in Writers, WCopy(w), NEW n \in 0..Stored(rp, wp)
    PROVE  Slice(buffer', rp, n) = Slice(buffer, rp, n)
<1>1. rp \in Index /\ wp \in Index /\ wcur[w] \in Index
  BY DEF IInv, TypeOK
<1>2. Stored(rp, wp) \in Nat /\ Stored(rp, wp) < Length
  BY <1>1, StoredType
<1>3. n \in 0..(Length - 1)
  BY <1>2, LengthAssumption
<1>4. wcur[w] \notin StoredCells
  BY InvWriter DEF WCopy, WriterInFreeCell
<1>5. \A i \in Index : Stored(rp, i) < n => buffer'[i] = buffer[i]
  <2> SUFFICES ASSUME NEW i \in Index, Stored(rp, i) < n
               PROVE  buffer'[i] = buffer[i]
      OBVIOUS
  <2>1. Stored(rp, i) \in Nat
    BY <1>1, StoredType
  <2>2. i \in StoredCells
    BY <1>2, <2>1 DEF StoredCells
  <2>3. i /= wcur[w]
    BY <1>4, <2>2
  <2> QED BY <2>3 DEF WCopy, IInv, TypeOK
<1> QED BY <1>1, <1>3, <1>5, SliceSame

(* The initial state satisfies FifoInv.                                    *)
LEMMA InitFifo == Init => FifoInv
BY InitInv DEF Init, FifoInv, MessageLengths, ReaderHasFront

(* No step ends FifoInv.                                                   *)
LEMMA NextFifo == FifoInv /\ [Next]_vars => FifoInv'
<1> SUFFICES ASSUME FifoInv, [Next]_vars PROVE MessageLengths' /\ ReaderHasFront'
    BY NextInv DEF FifoInv
<1>0. IInv /\ IInv' /\ MessageLengths /\ ReaderHasFront
  BY NextInv DEF FifoInv
<1>a. TypeOK /\ TypeOK' /\ LocksOwned /\ LocksOwned'
  BY <1>0 DEF IInv
<1> USE DEF WGoto, RGoto, wvars, rvars
<1>1. ASSUME NEW w \in Writers, NEW m \in Messages, WCall(w, m)
      PROVE  MessageLengths' /\ ReaderHasFront'
  <2>1. Len(m) \in 1..MaxLen
    BY MessageLength
  <2>2. MessageLengths'
    BY <1>0, <1>1, <1>a, <2>1 DEF WCall, MessageLengths, TypeOK
  <2>3. ReaderHasFront'
    BY <1>0, <1>1 DEF WCall, ReaderHasFront
  <2> QED BY <2>2, <2>3
<1>2. ASSUME NEW w \in Writers, WRefuse(w)
      PROVE  MessageLengths' /\ ReaderHasFront'
  <2>1. MessageLengths'
    BY <1>0, <1>2, <1>a DEF WRefuse, MessageLengths, TypeOK
  <2>2. ReaderHasFront'
    BY <1>0, <1>2 DEF WRefuse, ReaderHasFront
  <2> QED BY <2>1, <2>2
<1>3. ASSUME NEW w \in Writers, WBegin(w)
      PROVE  MessageLengths' /\ ReaderHasFront'
  <2>1. Stored(wp, wp) = 0 /\ Len(wdata[w]) \in 1..MaxLen
    BY <1>0, <1>3, <1>a, StoredSelf DEF WBegin, MessageLengths, TypeOK
  <2>2. Stored(wp', wcur'[w]) = 0
    BY <1>3, <1>a, <2>1 DEF WBegin, TypeOK
  <2>3. MessageLengths'
    <3> SUFFICES ASSUME NEW v \in Writers
                 PROVE  /\ wpc'[v] = "check" => Len(wdata'[v]) \in 1..MaxLen
                        /\ wpc'[v] = "copy" =>
                             Stored(wp', wcur'[v]) + Len(wdata'[v]) \in 1..MaxLen
        BY DEF MessageLengths
    <3>1. CASE v = w
      BY <1>3, <1>a, <2>1, <2>2, <3>1 DEF WBegin, TypeOK
    <3>2. CASE v /= w
      BY <1>0, <1>3, <1>a, <3>2 DEF WBegin, MessageLengths, TypeOK
    <3> QED BY <3>1, <3>2
  <2>4. ReaderHasFront'
    BY <1>0, <1>3 DEF WBegin, ReaderHasFront
  <2> QED BY <2>3, <2>4
<1>4. ASSUME NEW w \in Writers, WCopy(w)
      PROVE  MessageLengths' /\ ReaderHasFront'
  <2>1. /\ wdata[w] \in Seq(Bytes) /\ wdata[w] /= <<>>
        /\ wcur[w] \in Index /\ wp \in Index /\ rp \in Index
        /\ Stored(wp, wcur[w]) + Len(wdata[w]) \in 1..MaxLen
    BY <1>0, <1>4, <1>a DEF WCopy, TypeOK, MessageLengths
  <2>2. Len(Tail(wdata[w])) = Len(wdata[w]) - 1 /\ Len(wdata[w]) \in Nat \ {0}
    BY <2>1
  <2>3. Stored(wp, wcur[w]) + Len(wdata[w]) <= Length - 1
    <3>1. Stored(rp, wp) + Stored(wp, wcur[w]) + Len(wdata[w]) <= Length - 1
      BY <1>0, <1>4 DEF IInv, WriterFits, WCopy
    <3>2. Stored(rp, wp) \in Nat /\ Stored(wp, wcur[w]) \in Nat
      BY <2>1, StoredType
    <3> QED BY <2>2, <3>1, <3>2, LengthAssumption
  <2>4. Stored(wp, wcur[w]) \in Nat
    BY <2>1, StoredType
  <2>5. Stored(wp, Inc(wcur[w])) = Stored(wp, wcur[w]) + 1
    <3>1. Stored(wp, wcur[w]) < Length - 1
      BY <2>2, <2>3, <2>4, LengthAssumption
    <3> QED BY <2>1, <3>1, StoredInc
  <2>6. Stored(wp, Inc(wcur[w])) + Len(Tail(wdata[w])) \in 1..MaxLen
    BY <2>1, <2>2, <2>4, <2>5
  <2>7. /\ wp' = wp /\ wpc' = wpc
        /\ wcur'[w] = Inc(wcur[w]) /\ wdata'[w] = Tail(wdata[w])
        /\ wpc[w] = "copy"
        /\ \A v \in Writers : v /= w => wcur'[v] = wcur[v] /\ wdata'[v] = wdata[v]
    BY <1>4, <1>a DEF WCopy, TypeOK
  <2>8. MessageLengths'
    <3> SUFFICES ASSUME NEW v \in Writers
                 PROVE  /\ wpc'[v] = "check" => Len(wdata'[v]) \in 1..MaxLen
                        /\ wpc'[v] = "copy" =>
                             Stored(wp', wcur'[v]) + Len(wdata'[v]) \in 1..MaxLen
        BY DEF MessageLengths
    <3>1. CASE v = w
      BY <2>6, <2>7, <3>1
    <3>2. CASE v /= w
      BY <1>0, <2>7, <3>2 DEF MessageLengths
    <3> QED BY <3>1, <3>2
  <2>9. ReaderHasFront'
    <3> SUFFICES ASSUME NEW r \in Readers, rpc'[r] = "copy"
                 PROVE  rdata'[r] = Slice(buffer', rp', Stored(rp', rcur'[r]))
        BY DEF ReaderHasFront
    <3>1. /\ rpc[r] = "copy" /\ rp' = rp /\ rcur' = rcur /\ rdata' = rdata
          /\ rcur[r] \in Index /\ rleft[r] \in Nat
      BY <1>4, <1>a DEF WCopy, TypeOK
    <3>2. Stored(rp, rcur[r]) + rleft[r] <= Stored(rp, wp)
      BY <1>0, <3>1 DEF IInv, ReaderFits
    <3>3. Stored(rp, rcur[r]) \in 0..Stored(rp, wp)
      BY <2>1, <3>1, <3>2, StoredType
    <3>4. Slice(buffer', rp, Stored(rp, rcur[r])) = Slice(buffer, rp, Stored(rp, rcur[r]))
      BY <1>0, <1>4, <3>3, WCopyKeepsSlices
    <3> QED BY <1>0, <3>1, <3>4 DEF ReaderHasFront
  <2> QED BY <2>8, <2>9
<1>5. ASSUME NEW w \in Writers, WPublish(w)
      PROVE  MessageLengths' /\ ReaderHasFront'
  <2>1. \A v \in Writers : wpc'[v] = "idle" \/ v = w
    BY <1>5, <1>a DEF WPublish, LocksOwned
  <2>2. wpc'[w] = "unlock"
    BY <1>5, <1>a DEF WPublish, TypeOK
  <2>3. MessageLengths'
    BY <2>1, <2>2 DEF MessageLengths
  <2>4. ReaderHasFront'
    BY <1>0, <1>5 DEF WPublish, ReaderHasFront
  <2> QED BY <2>3, <2>4
<1>6. ASSUME NEW w \in Writers, WReturn(w)
      PROVE  MessageLengths' /\ ReaderHasFront'
  <2>1. MessageLengths'
    BY <1>0, <1>6, <1>a DEF WReturn, MessageLengths, TypeOK
  <2>2. ReaderHasFront'
    BY <1>0, <1>6 DEF WReturn, ReaderHasFront
  <2> QED BY <2>1, <2>2
<1>7. ASSUME NEW r \in Readers, NEW n \in 1..MaxLen, RCall(r, n)
      PROVE  MessageLengths' /\ ReaderHasFront'
  BY <1>0, <1>7, <1>a DEF RCall, MessageLengths, ReaderHasFront, TypeOK
<1>8. ASSUME NEW r \in Readers, RBegin(r)
      PROVE  MessageLengths' /\ ReaderHasFront'
  <2>1. MessageLengths'
    BY <1>0, <1>8 DEF RBegin, MessageLengths
  <2>2. /\ rp \in Index /\ rp' = rp /\ buffer' = buffer
        /\ rcur'[r] = rp /\ rdata'[r] = <<>>
    BY <1>8, <1>a DEF RBegin, TypeOK
  <2>3. Slice(buffer, rp, Stored(rp, rp)) = <<>>
    <3>1. Stored(rp, rp) = 0
      BY <2>2, StoredSelf
    <3>2. Slice(buffer, rp, 0) = <<>>
      BY DEF Slice
    <3> QED BY <3>1, <3>2
  <2>4. ReaderHasFront'
    <3> SUFFICES ASSUME NEW v \in Readers, rpc'[v] = "copy"
                 PROVE  rdata'[v] = Slice(buffer', rp', Stored(rp', rcur'[v]))
        BY DEF ReaderHasFront
    <3>1. v = r
      BY <1>8, <1>a DEF RBegin, LocksOwned
    <3> QED BY <2>2, <2>3, <3>1
  <2> QED BY <2>1, <2>4
<1>9. ASSUME NEW r \in Readers, RCopy(r)
      PROVE  MessageLengths' /\ ReaderHasFront'
  <2>1. MessageLengths'
    BY <1>0, <1>9 DEF RCopy, MessageLengths
  <2> DEFINE k == Stored(rp, rcur[r])
  <2>2. /\ rp \in Index /\ wp \in Index /\ rcur[r] \in Index
        /\ buffer \in [Index -> Bytes] /\ rleft[r] \in Nat
    BY <1>a DEF TypeOK
  <2>3. /\ rp' = rp /\ buffer' = buffer
        /\ rcur'[r] = Inc(rcur[r])
        /\ rdata'[r] = Append(rdata[r], buffer[rcur[r]])
        /\ rpc[r] = "copy" /\ rleft[r] > 0
    BY <1>9, <1>a DEF RCopy, TypeOK
  <2>4. k + rleft[r] <= Stored(rp, wp)
    BY <1>0, <2>3 DEF IInv, ReaderFits
  <2>5. k \in Nat /\ k + 1 <= Length - 1
    BY <2>2, <2>3, <2>4, StoredType, LengthAssumption
  <2>6. Stored(rp, Inc(rcur[r])) = k + 1
    BY <2>2, <2>5, StoredInc, LengthAssumption
  <2>7. Cell(rp, k) = rcur[r]
    BY <2>2, CellStored
  <2>8. Append(Slice(buffer, rp, k), buffer[Cell(rp, k)]) = Slice(buffer, rp, k + 1)
    BY <2>2, <2>5, SliceAppend
  <2>9. rdata[r] = Slice(buffer, rp, k)
    BY <1>0, <2>3 DEF ReaderHasFront
  <2>10. ReaderHasFront'
    <3> SUFFICES ASSUME NEW v \in Readers, rpc'[v] = "copy"
                 PROVE  rdata'[v] = Slice(buffer', rp', Stored(rp', rcur'[v]))
        BY DEF ReaderHasFront
    <3>1. v = r
      BY <1>9, <1>a DEF RCopy, LocksOwned
    <3> QED BY <2>3, <2>6, <2>7, <2>8, <2>9, <3>1
  <2> QED BY <2>1, <2>10
<1>10. ASSUME NEW r \in Readers, RPublish(r)
      PROVE  MessageLengths' /\ ReaderHasFront'
  <2>1. MessageLengths'
    BY <1>0, <1>10 DEF RPublish, MessageLengths
  <2>2. \A v \in Readers : rpc'[v] = "idle" \/ v = r
    BY <1>10, <1>a DEF RPublish, LocksOwned
  <2>3. rpc'[r] = "unlock"
    BY <1>10, <1>a DEF RPublish, TypeOK
  <2> QED BY <2>1, <2>2, <2>3 DEF ReaderHasFront
<1>11. ASSUME NEW r \in Readers, RReturn(r)
      PROVE  MessageLengths' /\ ReaderHasFront'
  BY <1>0, <1>11, <1>a DEF RReturn, MessageLengths, ReaderHasFront, TypeOK
<1>12. CASE UNCHANGED vars
  BY <1>0, <1>12 DEF vars, MessageLengths, ReaderHasFront
<1> QED
  BY <1>1, <1>2, <1>3, <1>4, <1>5, <1>6, <1>7, <1>8, <1>9, <1>10, <1>11, <1>12
     DEF Next

(* FifoInv holds in every state of every execution.                        *)
LEMMA CircularBufferFifoInv == Spec => []FifoInv
BY InitFifo, NextFifo, PTL DEF Spec

(* Each step is a step of the queue or leaves it alone: the move of wp     *)
(* puts a whole message, the move of rp takes the bytes that the reader    *)
(* returns, and a refusal happens only to a message that does not fit.     *)
LEMMA NextRefinesFifo ==
    FifoInv /\ [Next]_vars => [Abstract!Next]_<<Contents, write_overflow, out>>
<1> SUFFICES ASSUME FifoInv, [Next]_vars
             PROVE  [Abstract!Next]_<<Contents, write_overflow, out>>
    OBVIOUS
<1> DEFINE Stutter == UNCHANGED <<Contents, write_overflow, out>>
<1> USE DEF WGoto, RGoto, wvars, rvars
<1>0. IInv /\ MessageLengths /\ ReaderHasFront
  BY DEF FifoInv
<1>a. TypeOK
  BY <1>0 DEF IInv
<1>b. rp \in Index /\ wp \in Index /\ buffer \in [Index -> Bytes]
  BY <1>a DEF TypeOK
<1>c. Stored(rp, wp) \in 0..(Length - 1)
  BY <1>b, StoredType, LengthAssumption
<1>d. Len(Contents) = Stored(rp, wp)
  BY <1>b, <1>c, SliceType DEF Contents
<1>1. ASSUME NEW w \in Writers, WCopy(w) PROVE Stutter
  <2>1. rp' = rp /\ wp' = wp /\ write_overflow' = write_overflow /\ out' = out
    BY <1>1 DEF WCopy
  <2>2. Slice(buffer', rp, Stored(rp, wp)) = Slice(buffer, rp, Stored(rp, wp))
    BY <1>0, <1>1, <1>c, WCopyKeepsSlices
  <2>3. Contents' = Contents
    BY <2>1, <2>2 DEF Contents, Stored
  <2> QED BY <2>1, <2>3
<1>2. ASSUME NEW w \in Writers, WRefuse(w) PROVE Abstract!Next
  <2> DEFINE n == Len(wdata[w])
  <2>1. n \in 1..MaxLen
    BY <1>0, <1>2 DEF WRefuse, MessageLengths
  <2>2. Room = Length - 1 - Stored(rp, wp)
    BY <1>b, RoomIs
  <2>3. Len(Contents) + n > Length - 1
    BY <1>2, <1>c, <1>d, <2>1, <2>2, MaxLenAssumption, LengthAssumption DEF WRefuse
  <2>4. Contents' = Contents
    BY <1>2 DEF WRefuse, Contents
  <2>5. Abstract!Refuse(n)
    BY <1>2, <2>3, <2>4 DEF WRefuse, Abstract!Refuse
  <2> QED BY <2>1, <2>5 DEF Abstract!Next
<1>3. ASSUME NEW w \in Writers, WPublish(w) PROVE Abstract!Next
  <2> DEFINE k == Stored(wp, wcur[w])
             m == Slice(buffer, wp, k)
  <2>1. /\ wcur[w] \in Index /\ wpc[w] = "copy" /\ wdata[w] = <<>>
        /\ wp' = wcur[w] /\ rp' = rp /\ buffer' = buffer
    BY <1>3, <1>a DEF WPublish, TypeOK
  <2>2. k \in 1..MaxLen /\ k \in 0..(Length - 1)
    <3>1. k + Len(wdata[w]) \in 1..MaxLen
      BY <1>0, <2>1 DEF MessageLengths
    <3>2. k \in Nat /\ k < Length
      BY <1>b, <2>1, StoredType
    <3> QED BY <2>1, <3>1, <3>2, MaxLenAssumption, LengthAssumption
  <2>3. Stored(rp, wp) + k <= Length - 1
    <3>1. Stored(rp, wp) + k + Len(wdata[w]) <= Length - 1
      BY <1>0, <2>1 DEF IInv, WriterFits
    <3> QED BY <1>c, <2>1, <2>2, <3>1, LengthAssumption
  <2>4. m \in [1..k -> Bytes] /\ Len(m) = k
    BY <1>b, <2>2, SliceType
  <2>5. m \in Abstract!Messages
    BY <2>2, <2>4 DEF Abstract!Messages
  <2>6. Contents' = Contents \o m
    <3>1. Stored(rp, wcur[w]) = Stored(rp, wp) + k
      BY <1>b, <2>1, <2>3, StoredAdd
    <3>2. Cell(rp, Stored(rp, wp)) = wp
      BY <1>b, CellStored
    <3>3. Slice(buffer, rp, Stored(rp, wp)) \o Slice(buffer, Cell(rp, Stored(rp, wp)), k)
             = Slice(buffer, rp, Stored(rp, wp) + k)
      <4>1. Stored(rp, wp) \in Nat /\ k \in Nat
        BY <1>c, <2>2
      <4> HIDE DEF k
      <4> QED BY <1>b, <2>3, <4>1, SliceConcat, Zenon
    <3>4. Contents' = Slice(buffer, rp, Stored(rp, wcur[w]))
      BY <2>1 DEF Contents, Stored
    <3> QED BY <3>1, <3>2, <3>3, <3>4 DEF Contents
  <2>7. Abstract!Put(m)
    BY <1>3, <1>d, <2>3, <2>4, <2>6 DEF WPublish, Abstract!Put
  <2> QED BY <2>5, <2>7 DEF Abstract!Next
<1>4. ASSUME NEW r \in Readers, RPublish(r) PROVE Abstract!Next
  <2> DEFINE n == Stored(rp, wp)
             k == Stored(rp, rcur[r])
  <2>1. /\ rcur[r] \in Index /\ rpc[r] = "copy" /\ rleft[r] = 0
        /\ rp' = rcur[r] /\ wp' = wp /\ buffer' = buffer /\ out' = rdata[r]
        /\ write_overflow' = write_overflow
    BY <1>4, <1>a DEF RPublish, TypeOK
  <2>2. k \in 0..n
    <3>1. k + rleft[r] <= n
      BY <1>0, <2>1 DEF IInv, ReaderFits
    <3>2. k \in Nat
      BY <1>b, <2>1, StoredType
    <3> QED BY <1>c, <2>1, <3>1, <3>2
  <2>3. /\ SubSeq(Slice(buffer, rp, n), 1, k) = Slice(buffer, rp, k)
        /\ SubSeq(Slice(buffer, rp, n), k + 1, n) = Slice(buffer, Cell(rp, k), n - k)
    BY <1>b, <1>c, <2>2, SliceSplit
  <2>4. Cell(rp, k) = rcur[r] /\ Stored(rcur[r], wp) = n - k
    BY <1>b, <1>c, <2>1, <2>2, CellStored, StoredSub
  <2>5. out' = SubSeq(Contents, 1, k)
    BY <1>0, <2>1, <2>3 DEF Contents, ReaderHasFront
  <2>6. Contents' = SubSeq(Contents, k + 1, Len(Contents))
    <3>1. Contents' = Slice(buffer, rcur[r], Stored(rcur[r], wp))
      BY <2>1 DEF Contents, Stored
    <3> QED BY <1>d, <2>3, <2>4, <3>1 DEF Contents
  <2>7. Abstract!Get(k)
    BY <2>1, <2>5, <2>6 DEF Abstract!Get
  <2> QED BY <1>d, <2>2, <2>7 DEF Abstract!Next
<1>5. ASSUME NEW w \in Writers, NEW m \in Messages, WCall(w, m) PROVE Stutter
  BY <1>5 DEF WCall, Contents
<1>6. ASSUME NEW w \in Writers, WBegin(w) \/ WReturn(w) PROVE Stutter
  BY <1>6 DEF WBegin, WReturn, Contents
<1>7. ASSUME NEW r \in Readers, NEW n \in 1..MaxLen, RCall(r, n) PROVE Stutter
  BY <1>7 DEF RCall, Contents
<1>8. ASSUME NEW r \in Readers, RBegin(r) \/ RCopy(r) \/ RReturn(r) PROVE Stutter
  BY <1>8 DEF RBegin, RCopy, RReturn, Contents
<1>9. CASE UNCHANGED vars
  <2>1. Stutter
    BY <1>9 DEF vars, Contents
  <2> QED BY <2>1
<1> QED
  BY <1>1, <1>2, <1>3, <1>4, <1>5, <1>6, <1>7, <1>8, <1>9 DEF Next

(* The kernel log is a bounded queue of bytes that takes messages whole or *)
(* not at all and delivers their bytes once and in order: the ring, its    *)
(* two locks and the order of copy and pointer implement BoundedFifo, for  *)
(* any length and any number of writers and readers.                       *)
THEOREM CircularBufferRefinesFifo == Spec => ImplementsFifo
<1>1. Init => Abstract!Init
  <2> SUFFICES ASSUME Init PROVE Abstract!Init
      OBVIOUS
  <2>1. Contents = <<>>
    BY LengthAssumption DEF Init, Contents, Slice, Stored
  <2> QED BY <2>1 DEF Init, Abstract!Init
<1> QED
  BY <1>1, NextRefinesFifo, CircularBufferFifoInv, PTL
     DEF Spec, ImplementsFifo, Abstract!Spec
=============================================================================

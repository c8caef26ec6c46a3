---------------------------- MODULE Mutex_proof -----------------------------
(***************************************************************************)
(* The safety properties of Mutex, for any number of threads.              *)
(***************************************************************************)
EXTENDS Mutex, TLAPS

(* init_mutex establishes the invariant.                                   *)
LEMMA InitInv == Init => IInv
BY PidsAssumption
   DEF Init, IInv, TypeOK, SpinOwned, MutualExclusion, TestStillTrue, TaskStates,
       Bitmap, SomebodyWorks, Owns, Asleep, Labels

(* Every step preserves it.                                                *)
LEMMA NextInv == IInv /\ [Next]_vars => IInv'
<1> SUFFICES ASSUME IInv, [Next]_vars PROVE IInv'
    OBVIOUS
<1> USE PidsAssumption, WidthAssumption
    DEF IInv, TypeOK, Goto, TakeSpin, GiveSpin
<1>1. ASSUME NEW p \in Pids, Call(p) PROVE IInv'
  <2>1. TypeOK'
    BY <1>1 DEF Call, Labels
  <2>2. SpinOwned'
    BY <1>1 DEF Call, SpinOwned
  <2>3. MutualExclusion'
    BY <1>1 DEF Call, MutualExclusion, SpinOwned, TestStillTrue, Owns
  <2>4. TestStillTrue'
    BY <1>1 DEF Call, TestStillTrue, SpinOwned
  <2>5. TaskStates'
    BY <1>1 DEF Call, TaskStates, Bitmap, Asleep
  <2>6. Bitmap'
    BY <1>1 DEF Call, Bitmap, TaskStates, SpinOwned, Asleep
  <2>7. PidsFit => SomebodyWorks'
    BY <1>1 DEF Call, PidsFit, SomebodyWorks, SpinOwned, TestStillTrue, Bitmap,
        Asleep, Contends
  <2> QED BY <2>1, <2>2, <2>3, <2>4, <2>5, <2>6, <2>7 DEF PidsFit, Bits
<1>2. ASSUME NEW p \in Pids, LockSpin(p) PROVE IInv'
  <2>1. TypeOK'
    BY <1>2 DEF LockSpin, Labels
  <2>2. SpinOwned'
    BY <1>2 DEF LockSpin, SpinOwned
  <2>3. MutualExclusion'
    BY <1>2 DEF LockSpin, MutualExclusion, SpinOwned, TestStillTrue, Owns
  <2>4. TestStillTrue'
    BY <1>2 DEF LockSpin, TestStillTrue, SpinOwned
  <2>5. TaskStates'
    BY <1>2 DEF LockSpin, TaskStates, Bitmap, Asleep
  <2>6. Bitmap'
    BY <1>2 DEF LockSpin, Bitmap, TaskStates, SpinOwned, Asleep
  <2>7. PidsFit => SomebodyWorks'
    BY <1>2 DEF LockSpin, PidsFit, SomebodyWorks, SpinOwned, TestStillTrue,
        Bitmap, Asleep, Contends
  <2> QED BY <2>1, <2>2, <2>3, <2>4, <2>5, <2>6, <2>7 DEF PidsFit, Bits
<1>3. ASSUME NEW p \in Pids, LockTest(p) PROVE IInv'
  <2>1. TypeOK'
    BY <1>3 DEF LockTest, Labels
  <2>2. SpinOwned'
    BY <1>3 DEF LockTest, SpinOwned
  <2>3. MutualExclusion'
    BY <1>3 DEF LockTest, MutualExclusion, SpinOwned, TestStillTrue, Owns
  <2>4. TestStillTrue'
    BY <1>3 DEF LockTest, TestStillTrue, SpinOwned
  <2>5. TaskStates'
    BY <1>3 DEF LockTest, TaskStates, Bitmap, Asleep
  <2>6. Bitmap'
    BY <1>3 DEF LockTest, Bitmap, TaskStates, SpinOwned, Asleep
  <2>7. PidsFit => SomebodyWorks'
    BY <1>3 DEF LockTest, PidsFit, SomebodyWorks, SpinOwned, TestStillTrue,
        Bitmap, Asleep, Contends
  <2> QED BY <2>1, <2>2, <2>3, <2>4, <2>5, <2>6, <2>7 DEF PidsFit, Bits
<1>4. ASSUME NEW p \in Pids, LockSet(p) PROVE IInv'
  <2>1. TypeOK'
    BY <1>4 DEF LockSet, Labels
  <2>2. SpinOwned'
    BY <1>4 DEF LockSet, SpinOwned
  <2>3. MutualExclusion'
    BY <1>4 DEF LockSet, MutualExclusion, SpinOwned, TestStillTrue, Owns
  <2>4. TestStillTrue'
    BY <1>4 DEF LockSet, TestStillTrue, SpinOwned
  <2>5. TaskStates'
    BY <1>4 DEF LockSet, TaskStates, Bitmap, Asleep
  <2>6. Bitmap'
    BY <1>4 DEF LockSet, Bitmap, TaskStates, SpinOwned, Asleep
  <2>7. PidsFit => SomebodyWorks'
    BY <1>4 DEF LockSet, PidsFit, SomebodyWorks, SpinOwned, TestStillTrue,
        Bitmap, Asleep, Contends
  <2> QED BY <2>1, <2>2, <2>3, <2>4, <2>5, <2>6, <2>7 DEF PidsFit, Bits
<1>5. ASSUME NEW p \in Pids, LockWait(p) PROVE IInv'
  <2>1. TypeOK'
    BY <1>5 DEF LockWait, Bit, Bits, Labels
  <2>2. SpinOwned'
    BY <1>5 DEF LockWait, Bit, Bits, SpinOwned
  <2>3. MutualExclusion'
    BY <1>5 DEF LockWait, Bit, Bits, MutualExclusion, SpinOwned, TestStillTrue, Owns
  <2>4. TestStillTrue'
    BY <1>5 DEF LockWait, Bit, Bits, TestStillTrue, SpinOwned
  <2>5. TaskStates'
    BY <1>5 DEF LockWait, Bit, Bits, TaskStates, Bitmap, Asleep
  <2>6. Bitmap'
    BY <1>5 DEF LockWait, Bit, Bits, Bitmap, TaskStates, SpinOwned, Asleep
  <2>7. PidsFit => SomebodyWorks'
    BY <1>5 DEF LockWait, Bit, Bits, PidsFit, SomebodyWorks, SpinOwned,
        TestStillTrue, Bitmap, Asleep, Contends
  <2> QED BY <2>1, <2>2, <2>3, <2>4, <2>5, <2>6, <2>7 DEF PidsFit, Bits
<1>6. ASSUME NEW p \in Pids, LockSleep(p) PROVE IInv'
  <2>1. TypeOK'
    BY <1>6 DEF LockSleep, Labels
  <2>2. SpinOwned'
    BY <1>6 DEF LockSleep, SpinOwned
  <2>3. MutualExclusion'
    BY <1>6 DEF LockSleep, MutualExclusion, SpinOwned, TestStillTrue, Owns
  <2>4. TestStillTrue'
    BY <1>6 DEF LockSleep, TestStillTrue, SpinOwned
  <2>5. TaskStates'
    BY <1>6 DEF LockSleep, TaskStates, Bitmap, Asleep
  <2>6. Bitmap'
    BY <1>6 DEF LockSleep, Bitmap, TaskStates, SpinOwned, Asleep
  <2>7. PidsFit => SomebodyWorks'
    BY <1>6 DEF LockSleep, PidsFit, SomebodyWorks, SpinOwned, TestStillTrue,
        Bitmap, Asleep, Contends
  <2> QED BY <2>1, <2>2, <2>3, <2>4, <2>5, <2>6, <2>7 DEF PidsFit, Bits
<1>7. ASSUME NEW p \in Pids, LockRelease(p) PROVE IInv'
  <2>1. TypeOK'
    BY <1>7 DEF LockRelease, Labels
  <2>2. SpinOwned'
    BY <1>7 DEF LockRelease, SpinOwned
  <2>3. MutualExclusion'
    BY <1>7 DEF LockRelease, MutualExclusion, SpinOwned, TestStillTrue, Owns
  <2>4. TestStillTrue'
    BY <1>7 DEF LockRelease, TestStillTrue, SpinOwned
  <2>5. TaskStates'
    BY <1>7 DEF LockRelease, TaskStates, Bitmap, Asleep
  <2>6. Bitmap'
    BY <1>7 DEF LockRelease, Bitmap, TaskStates, SpinOwned, Asleep
  <2>7. PidsFit => SomebodyWorks'
    BY <1>7 DEF LockRelease, PidsFit, SomebodyWorks, SpinOwned, TestStillTrue,
        Bitmap, Asleep, Contends
  <2> QED BY <2>1, <2>2, <2>3, <2>4, <2>5, <2>6, <2>7 DEF PidsFit, Bits
<1>8. ASSUME NEW p \in Pids, LockAgain(p) PROVE IInv'
  <2>1. TypeOK'
    BY <1>8 DEF LockAgain, Labels
  <2>2. SpinOwned'
    BY <1>8 DEF LockAgain, SpinOwned
  <2>3. MutualExclusion'
    BY <1>8 DEF LockAgain, MutualExclusion, SpinOwned, TestStillTrue, Owns
  <2>4. TestStillTrue'
    BY <1>8 DEF LockAgain, TestStillTrue, SpinOwned
  <2>5. TaskStates'
    BY <1>8 DEF LockAgain, TaskStates, Bitmap, Asleep
  <2>6. Bitmap'
    BY <1>8 DEF LockAgain, Bitmap, TaskStates, SpinOwned, Asleep
  <2>7. PidsFit => SomebodyWorks'
    BY <1>8 DEF LockAgain, PidsFit, SomebodyWorks, SpinOwned, TestStillTrue,
        Bitmap, Asleep, Contends
  <2> QED BY <2>1, <2>2, <2>3, <2>4, <2>5, <2>6, <2>7 DEF PidsFit, Bits
<1>9. ASSUME NEW p \in Pids, LockReturn(p) PROVE IInv'
  <2>1. TypeOK'
    BY <1>9 DEF LockReturn, Labels
  <2>2. SpinOwned'
    BY <1>9 DEF LockReturn, SpinOwned
  <2>3. MutualExclusion'
    BY <1>9 DEF LockReturn, MutualExclusion, SpinOwned, TestStillTrue, Owns
  <2>4. TestStillTrue'
    BY <1>9 DEF LockReturn, TestStillTrue, SpinOwned
  <2>5. TaskStates'
    BY <1>9 DEF LockReturn, TaskStates, Bitmap, Asleep
  <2>6. Bitmap'
    BY <1>9 DEF LockReturn, Bitmap, TaskStates, SpinOwned, Asleep
  <2>7. PidsFit => SomebodyWorks'
    BY <1>9 DEF LockReturn, PidsFit, SomebodyWorks, SpinOwned, TestStillTrue,
        Bitmap, Asleep, Contends
  <2> QED BY <2>1, <2>2, <2>3, <2>4, <2>5, <2>6, <2>7 DEF PidsFit, Bits
<1>10. ASSUME NEW p \in Pids, Nap(p) PROVE IInv'
  <2>1. TypeOK'
    BY <1>10 DEF Nap, Labels
  <2>2. SpinOwned'
    BY <1>10 DEF Nap, SpinOwned
  <2>3. MutualExclusion'
    BY <1>10 DEF Nap, MutualExclusion, SpinOwned, TestStillTrue, Owns
  <2>4. TestStillTrue'
    BY <1>10 DEF Nap, TestStillTrue, SpinOwned
  <2>5. TaskStates'
    BY <1>10 DEF Nap, TaskStates, Bitmap, Asleep
  <2>6. Bitmap'
    BY <1>10 DEF Nap, Bitmap, TaskStates, SpinOwned, Asleep
  <2>7. PidsFit => SomebodyWorks'
    BY <1>10 DEF Nap, PidsFit, SomebodyWorks, SpinOwned, TestStillTrue, Bitmap,
        Asleep, Contends
  <2> QED BY <2>1, <2>2, <2>3, <2>4, <2>5, <2>6, <2>7 DEF PidsFit, Bits
<1>11. ASSUME NEW p \in Pids, NapEnds(p) PROVE IInv'
  <2>1. TypeOK'
    BY <1>11 DEF NapEnds, Labels
  <2>2. SpinOwned'
    BY <1>11 DEF NapEnds, SpinOwned
  <2>3. MutualExclusion'
    BY <1>11 DEF NapEnds, MutualExclusion, SpinOwned, TestStillTrue, Owns
  <2>4. TestStillTrue'
    BY <1>11 DEF NapEnds, TestStillTrue, SpinOwned
  <2>5. TaskStates'
    BY <1>11 DEF NapEnds, TaskStates, Bitmap, Asleep
  <2>6. Bitmap'
    BY <1>11 DEF NapEnds, Bitmap, TaskStates, SpinOwned, Asleep
  <2>7. PidsFit => SomebodyWorks'
    BY <1>11 DEF NapEnds, PidsFit, SomebodyWorks, SpinOwned, TestStillTrue,
        Bitmap, Asleep, Contends
  <2> QED BY <2>1, <2>2, <2>3, <2>4, <2>5, <2>6, <2>7 DEF PidsFit, Bits
<1>12. ASSUME NEW p \in Pids, Unlock(p) PROVE IInv'
  <2>1. TypeOK'
    BY <1>12 DEF Unlock, Labels
  <2>2. SpinOwned'
    BY <1>12 DEF Unlock, SpinOwned
  <2>3. MutualExclusion'
    BY <1>12 DEF Unlock, MutualExclusion, SpinOwned, TestStillTrue, Owns
  <2>4. TestStillTrue'
    BY <1>12 DEF Unlock, TestStillTrue, SpinOwned
  <2>5. TaskStates'
    BY <1>12 DEF Unlock, TaskStates, Bitmap, Asleep
  <2>6. Bitmap'
    BY <1>12 DEF Unlock, Bitmap, TaskStates, SpinOwned, Asleep
  <2>7. PidsFit => SomebodyWorks'
    BY <1>12 DEF Unlock, PidsFit, SomebodyWorks, SpinOwned, TestStillTrue,
        Bitmap, Asleep, Contends
  <2> QED BY <2>1, <2>2, <2>3, <2>4, <2>5, <2>6, <2>7 DEF PidsFit, Bits
<1>13. ASSUME NEW p \in Pids, UnlockSpin(p) PROVE IInv'
  <2>1. TypeOK'
    BY <1>13 DEF UnlockSpin, Labels
  <2>2. SpinOwned'
    BY <1>13 DEF UnlockSpin, SpinOwned
  <2>3. MutualExclusion'
    BY <1>13 DEF UnlockSpin, MutualExclusion, SpinOwned, TestStillTrue, Owns
  <2>4. TestStillTrue'
    BY <1>13 DEF UnlockSpin, TestStillTrue, SpinOwned
  <2>5. TaskStates'
    BY <1>13 DEF UnlockSpin, TaskStates, Bitmap, Asleep
  <2>6. Bitmap'
    BY <1>13 DEF UnlockSpin, Bitmap, TaskStates, SpinOwned, Asleep
  <2>7. PidsFit => SomebodyWorks'
    BY <1>13 DEF UnlockSpin, PidsFit, SomebodyWorks, SpinOwned, TestStillTrue,
        Bitmap, Asleep, Contends
  <2> QED BY <2>1, <2>2, <2>3, <2>4, <2>5, <2>6, <2>7 DEF PidsFit, Bits
<1>14. ASSUME NEW p \in Pids, UnlockSet(p) PROVE IInv'
  <2>1. TypeOK'
    BY <1>14 DEF UnlockSet, Labels
  <2>2. SpinOwned'
    BY <1>14 DEF UnlockSet, SpinOwned
  <2>3. MutualExclusion'
    BY <1>14 DEF UnlockSet, MutualExclusion, SpinOwned, TestStillTrue, Owns
  <2>4. TestStillTrue'
    BY <1>14 DEF UnlockSet, TestStillTrue, SpinOwned
  <2>5. TaskStates'
    BY <1>14 DEF UnlockSet, TaskStates, Bitmap, Asleep
  <2>6. Bitmap'
    BY <1>14 DEF UnlockSet, Bitmap, TaskStates, SpinOwned, Asleep
  <2>7. PidsFit => SomebodyWorks'
    BY <1>14 DEF UnlockSet, PidsFit, SomebodyWorks, SpinOwned, TestStillTrue,
        Bitmap, Asleep, Contends
  <2> QED BY <2>1, <2>2, <2>3, <2>4, <2>5, <2>6, <2>7 DEF PidsFit, Bits
<1>15. ASSUME NEW p \in Pids, UnlockPick(p) PROVE IInv'
  <2>1. TypeOK'
    BY <1>15 DEF UnlockPick, NextWaiting, Labels
  <2>2. SpinOwned'
    BY <1>15 DEF UnlockPick, NextWaiting, SpinOwned
  <2>3. MutualExclusion'
    BY <1>15 DEF UnlockPick, NextWaiting, MutualExclusion, SpinOwned,
        TestStillTrue, Owns
  <2>4. TestStillTrue'
    BY <1>15 DEF UnlockPick, NextWaiting, TestStillTrue, SpinOwned
  <2>5. TaskStates'
    BY <1>15 DEF UnlockPick, NextWaiting, TaskStates, Bitmap, Asleep
  <2>6. Bitmap'
    BY <1>15 DEF UnlockPick, NextWaiting, Bitmap, TaskStates, SpinOwned, Asleep
  <2>7. PidsFit => SomebodyWorks'
    BY <1>15 DEF UnlockPick, NextWaiting, PidsFit, SomebodyWorks, SpinOwned,
        TestStillTrue, Bitmap, Asleep, Contends
  <2> QED BY <2>1, <2>2, <2>3, <2>4, <2>5, <2>6, <2>7 DEF PidsFit, Bits
<1>16. ASSUME NEW p \in Pids, UnlockNobody(p) PROVE IInv'
  <2>1. TypeOK'
    BY <1>16 DEF UnlockNobody, Labels
  <2>2. SpinOwned'
    BY <1>16 DEF UnlockNobody, SpinOwned
  <2>3. MutualExclusion'
    BY <1>16 DEF UnlockNobody, MutualExclusion, SpinOwned, TestStillTrue, Owns
  <2>4. TestStillTrue'
    BY <1>16 DEF UnlockNobody, TestStillTrue, SpinOwned
  <2>5. TaskStates'
    BY <1>16 DEF UnlockNobody, TaskStates, Bitmap, Asleep
  <2>6. Bitmap'
    BY <1>16 DEF UnlockNobody, Bitmap, TaskStates, SpinOwned, Asleep
  <2>7. PidsFit => SomebodyWorks'
    BY <1>16 DEF UnlockNobody, PidsFit, SomebodyWorks, SpinOwned, TestStillTrue,
        Bitmap, Asleep, Contends
  <2> QED BY <2>1, <2>2, <2>3, <2>4, <2>5, <2>6, <2>7 DEF PidsFit, Bits
<1>17. ASSUME NEW p \in Pids, UnlockWake(p) PROVE IInv'
  <2>1. TypeOK'
    BY <1>17 DEF UnlockWake, Labels
  <2>2. SpinOwned'
    BY <1>17 DEF UnlockWake, SpinOwned
  <2>3. MutualExclusion'
    BY <1>17 DEF UnlockWake, MutualExclusion, SpinOwned, TestStillTrue, Owns
  <2>4. TestStillTrue'
    BY <1>17 DEF UnlockWake, TestStillTrue, SpinOwned
  <2>5. TaskStates'
    BY <1>17 DEF UnlockWake, TaskStates, Bitmap, Asleep
  <2>6. Bitmap'
    BY <1>17 DEF UnlockWake, Bitmap, TaskStates, SpinOwned, Asleep
  <2>7. PidsFit => SomebodyWorks'
    BY <1>17 DEF UnlockWake, PidsFit, SomebodyWorks, SpinOwned, TestStillTrue,
        Bitmap, Asleep, Contends
  <2> QED BY <2>1, <2>2, <2>3, <2>4, <2>5, <2>6, <2>7 DEF PidsFit, Bits
<1>18. ASSUME NEW p \in Pids, UnlockReturn(p) PROVE IInv'
  <2>1. TypeOK'
    BY <1>18 DEF UnlockReturn, Labels
  <2>2. SpinOwned'
    BY <1>18 DEF UnlockReturn, SpinOwned
  <2>3. MutualExclusion'
    BY <1>18 DEF UnlockReturn, MutualExclusion, SpinOwned, TestStillTrue, Owns
  <2>4. TestStillTrue'
    BY <1>18 DEF UnlockReturn, TestStillTrue, SpinOwned
  <2>5. TaskStates'
    BY <1>18 DEF UnlockReturn, TaskStates, Bitmap, Asleep
  <2>6. Bitmap'
    BY <1>18 DEF UnlockReturn, Bitmap, TaskStates, SpinOwned, Asleep
  <2>7. PidsFit => SomebodyWorks'
    BY <1>18 DEF UnlockReturn, PidsFit, SomebodyWorks, SpinOwned, TestStillTrue,
        Bitmap, Asleep, Contends
  <2> QED BY <2>1, <2>2, <2>3, <2>4, <2>5, <2>6, <2>7 DEF PidsFit, Bits
<1>19. CASE UNCHANGED vars
  BY <1>19 DEF vars, SpinOwned, MutualExclusion, TestStillTrue, TaskStates, Bitmap,
             PidsFit, SomebodyWorks, Owns, Asleep, Contends, Bits
<1> QED
  BY <1>1, <1>2, <1>3, <1>4, <1>5, <1>6, <1>7, <1>8, <1>9, <1>10, <1>11, <1>12,
      <1>13, <1>14, <1>15, <1>16, <1>17, <1>18, <1>19 DEF Next, Step

(* IInv holds in every state of every execution.                           *)
THEOREM MutexInv == Spec => []IInv
BY InitInv, NextInv, PTL DEF Spec

(* At most one thread owns the mutex, and state tells whether one does.    *)
THEOREM MutexMutualExclusion == Spec => []MutualExclusion
BY MutexInv, PTL DEF IInv

(* A bit never outlives the wait that it was set for.                      *)
THEOREM MutexWakesOnlyWaiters == Spec => []WakesOnlyWaiters
<1>1. IInv => WakesOnlyWaiters
  BY DEF IInv, WakesOnlyWaiters, Bitmap, Asleep
<1> QED BY <1>1, MutexInv, PTL

(* If every pid has a bit in waiting, then no sleeper is forgotten.        *)
THEOREM MutexNoLostWakeup ==
    ASSUME PidsFit
    PROVE  Spec => []NoLostWakeup
<1>1. IInv => NoLostWakeup
  BY PidsFit DEF IInv, TypeOK, NoLostWakeup, SomebodyWorks, Bitmap, Asleep, PidsFit
<1> QED BY <1>1, MutexInv, PTL
-----------------------------------------------------------------------------
(* The refinement of Exclusion: a step that moves no thread into or out of *)
(* ownership changes nobody inside.                                        *)
LEMMA InsideSame ==
    ASSUME \A p \in Pids : Owns(p)' <=> Owns(p)
    PROVE  Inside' = Inside
BY DEF Inside

(* Moving one thread between labels on the same side of ownership.         *)
LEMMA GotoSame ==
    ASSUME TypeOK, NEW p \in Pids, NEW from, NEW to, Goto(p, from, to),
           from \in {"lreturn", "cs", "nap", "uspin", "uset"}
             <=> to \in {"lreturn", "cs", "nap", "uspin", "uset"}
    PROVE  \A q \in Pids : Owns(q)' <=> Owns(q)
BY DEF TypeOK, Goto, Owns

(* Every step is a step of Exclusion, or nobody enters or leaves.          *)
LEMMA NextRefines == IInv /\ IInv' /\ [Next]_vars => [Abstract!Passage]_Inside
<1> SUFFICES ASSUME IInv, IInv', [Next]_vars PROVE [Abstract!Passage]_Inside
    OBVIOUS
<1> USE DEF IInv
<1>1. ASSUME NEW p \in Pids, LockSet(p) PROVE [Abstract!Passage]_Inside
  <2>1. \A q \in Pids : ~Owns(q)
    BY <1>1 DEF LockSet, Goto, TestStillTrue, MutualExclusion
  <2>2. \A q \in Pids : Owns(q)' <=> q = p
    BY <1>1, <2>1 DEF LockSet, Goto, TypeOK, Owns
  <2>3. Inside = {} /\ Inside' = {p}
    BY <2>1, <2>2 DEF Inside
  <2> QED BY <2>3 DEF Abstract!Passage, Abstract!Enter, Abstract!Empty
<1>2. ASSUME NEW p \in Pids, UnlockSet(p) PROVE [Abstract!Passage]_Inside
  <2>1. Owns(p)
    BY <1>2 DEF UnlockSet, Goto, Owns
  <2>2. \A q \in Pids : Owns(q) => q = p
    BY <2>1 DEF MutualExclusion
  <2>3. \A q \in Pids : ~Owns(q)'
    BY <1>2 DEF UnlockSet, MutualExclusion
  <2>4. p \in Inside /\ Inside' = Inside \ {p}
    BY <2>1, <2>2, <2>3 DEF Inside
  <2> QED BY <2>4 DEF Abstract!Passage, Abstract!Leave
<1>3. ASSUME NEW p \in Pids,
             Call(p) \/ LockSpin(p) \/ LockTest(p) \/ LockWait(p)
             \/ LockSleep(p) \/ LockRelease(p) \/ LockAgain(p)
      PROVE  Inside' = Inside
  <2>1. PICK from \in Labels, to \in Labels :
          /\ Goto(p, from, to)
          /\ from \notin {"lreturn", "cs", "nap", "uspin", "uset"}
          /\ to \notin {"lreturn", "cs", "nap", "uspin", "uset"}
    BY <1>3 DEF Call, LockSpin, LockTest, LockWait, LockSleep, LockRelease,
                LockAgain, Labels
  <2> QED BY <2>1, GotoSame, InsideSame
<1>4. ASSUME NEW p \in Pids,
             LockReturn(p) \/ Nap(p) \/ NapEnds(p) \/ Unlock(p) \/ UnlockSpin(p)
      PROVE  Inside' = Inside
  <2>1. PICK from \in Labels, to \in Labels :
          /\ Goto(p, from, to)
          /\ from \in {"lreturn", "cs", "nap", "uspin", "uset"}
          /\ to \in {"lreturn", "cs", "nap", "uspin", "uset"}
    BY <1>4 DEF LockReturn, Nap, NapEnds, Unlock, UnlockSpin, Labels
  <2> QED BY <2>1, GotoSame, InsideSame
<1>5. ASSUME NEW p \in Pids,
             UnlockPick(p) \/ UnlockNobody(p) \/ UnlockWake(p) \/ UnlockReturn(p)
      PROVE  Inside' = Inside
  <2>1. PICK from \in Labels, to \in Labels :
          /\ Goto(p, from, to)
          /\ from \notin {"lreturn", "cs", "nap", "uspin", "uset"}
          /\ to \notin {"lreturn", "cs", "nap", "uspin", "uset"}
    BY <1>5 DEF UnlockPick, UnlockNobody, UnlockWake, UnlockReturn, Labels
  <2> QED BY <2>1, GotoSame, InsideSame
<1>6. CASE UNCHANGED vars
  BY <1>6, InsideSame DEF vars, Owns
<1> QED
  BY <1>1, <1>2, <1>3, <1>4, <1>5, <1>6 DEF Next, Step

(* mutex_lock and mutex_unlock implement the abstract lock.                *)
THEOREM MutexRefinesLock == Spec => ImplementsLock
<1>1. Init => Abstract!Empty
  BY DEF Init, Abstract!Empty, Inside, Owns
<1> QED
  BY <1>1, NextRefines, MutexInv, PTL DEF Spec, ImplementsLock, Abstract!Promise
=============================================================================

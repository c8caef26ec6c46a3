--------------------------- MODULE SpinLock_proof ---------------------------
(***************************************************************************)
(* The safety properties of SpinLock, for any set of CPUs and for both     *)
(* kinds of lock the kernel has.                                           *)
(***************************************************************************)
EXTENDS SpinLock, TLAPS

(* No context holds the lock initially, and no interrupt is masked.        *)
LEMMA InitInv == Init => IInv
BY DEF Init, IInv, TypeOK, Kinds, Plain, IrqTakes, LockWord, MutualExclusion, UnlockCannotFail,
       TaskMask, IrqMask, Holding, Levels, Labels, Exclusive

(* Every instruction preserves the invariant.                              *)
LEMMA NextInv == IInv /\ [Next]_vars => IInv'
<1> SUFFICES ASSUME IInv, [Next]_vars PROVE IInv'
    OBVIOUS
<1> USE DEF IInv, Levels, At, Runs, Goto, SetMask, Kinds, Plain, IrqTakes
<1>1. ASSUME NEW c \in CPUs, NEW l \in Levels, CallSpinLock(c, l) PROVE IInv'
  <2>1. TypeOK'
    BY <1>1 DEF CallSpinLock, TypeOK, Labels
  <2>2. LockWord'
    BY <1>1, <2>1 DEF CallSpinLock, TypeOK, LockWord, MutualExclusion,
        UnlockCannotFail, Holding
  <2>3. MutualExclusion'
    BY <1>1, <2>1 DEF CallSpinLock, TypeOK, LockWord, MutualExclusion, Holding
  <2>4. UnlockCannotFail'
    BY <1>1, <2>1 DEF CallSpinLock, TypeOK, LockWord, MutualExclusion,
        UnlockCannotFail, Holding, TaskMask, IrqMask, Exclusive
  <2>5. \A d \in CPUs : TaskMask(d)'
    BY <1>1, <2>1 DEF CallSpinLock, TypeOK, TaskMask, IrqMask, Exclusive
  <2>6. \A d \in CPUs : IrqMask(d)'
    BY <1>1, <2>1 DEF CallSpinLock, TypeOK, TaskMask, IrqMask, Exclusive
  <2> QED BY <2>1, <2>2, <2>3, <2>4, <2>5, <2>6
<1>2. ASSUME NEW c \in CPUs, NEW l \in Levels, CallIrqSave(c, l) PROVE IInv'
  <2>1. TypeOK'
    BY <1>2 DEF CallIrqSave, TypeOK, Labels
  <2>2. LockWord'
    BY <1>2, <2>1 DEF CallIrqSave, TypeOK, LockWord, MutualExclusion,
        UnlockCannotFail, Holding
  <2>3. MutualExclusion'
    BY <1>2, <2>1 DEF CallIrqSave, TypeOK, LockWord, MutualExclusion, Holding
  <2>4. UnlockCannotFail'
    BY <1>2, <2>1 DEF CallIrqSave, TypeOK, LockWord, MutualExclusion,
        UnlockCannotFail, Holding, TaskMask, IrqMask, Exclusive
  <2>5. \A d \in CPUs : TaskMask(d)'
    BY <1>2, <2>1 DEF CallIrqSave, TypeOK, TaskMask, IrqMask, Exclusive
  <2>6. \A d \in CPUs : IrqMask(d)'
    BY <1>2, <2>1 DEF CallIrqSave, TypeOK, TaskMask, IrqMask, Exclusive
  <2> QED BY <2>1, <2>2, <2>3, <2>4, <2>5, <2>6
<1>3. ASSUME NEW c \in CPUs, NEW l \in Levels, Mask(c, l) PROVE IInv'
  <2>1. TypeOK'
    BY <1>3 DEF Mask, TypeOK, Labels
  <2>2. LockWord'
    BY <1>3, <2>1 DEF Mask, TypeOK, LockWord, MutualExclusion, UnlockCannotFail, Holding
  <2>3. MutualExclusion'
    BY <1>3, <2>1 DEF Mask, TypeOK, LockWord, MutualExclusion, Holding
  <2>4. UnlockCannotFail'
    BY <1>3, <2>1 DEF Mask, TypeOK, LockWord, MutualExclusion, UnlockCannotFail,
        Holding, TaskMask, IrqMask, Exclusive
  <2>5. \A d \in CPUs : TaskMask(d)'
    BY <1>3, <2>1 DEF Mask, TypeOK, TaskMask, IrqMask, Exclusive
  <2>6. \A d \in CPUs : IrqMask(d)'
    BY <1>3, <2>1 DEF Mask, TypeOK, TaskMask, IrqMask, Exclusive
  <2> QED BY <2>1, <2>2, <2>3, <2>4, <2>5, <2>6
<1>4. ASSUME NEW c \in CPUs, NEW l \in Levels, Ldxr(c, l) PROVE IInv'
  <2>1. TypeOK'
    BY <1>4 DEF Ldxr, TypeOK, Labels
  <2>2. LockWord'
    BY <1>4, <2>1 DEF Ldxr, TypeOK, LockWord, MutualExclusion, UnlockCannotFail, Holding
  <2>3. MutualExclusion'
    BY <1>4, <2>1 DEF Ldxr, TypeOK, LockWord, MutualExclusion, Holding
  <2>4. UnlockCannotFail'
    BY <1>4, <2>1 DEF Ldxr, TypeOK, LockWord, MutualExclusion, UnlockCannotFail,
        Holding, TaskMask, IrqMask, Exclusive
  <2>5. \A d \in CPUs : TaskMask(d)'
    BY <1>4, <2>1 DEF Ldxr, TypeOK, TaskMask, IrqMask, Exclusive
  <2>6. \A d \in CPUs : IrqMask(d)'
    BY <1>4, <2>1 DEF Ldxr, TypeOK, TaskMask, IrqMask, Exclusive
  <2> QED BY <2>1, <2>2, <2>3, <2>4, <2>5, <2>6
<1>5. ASSUME NEW c \in CPUs, NEW l \in Levels, Stxr(c, l) PROVE IInv'
  <2>1. TypeOK'
    <3>1. CASE StoreExclusive(c, 0, 1) /\ Goto(c, l, "got")
      BY <1>5, <3>1 DEF Stxr, StoreExclusive, TypeOK, Labels
    <3>2. CASE StoreFails(c) /\ Goto(c, l, "back")
      BY <1>5, <3>2 DEF Stxr, StoreFails, TypeOK, Labels
    <3> QED BY <1>5, <3>1, <3>2 DEF Stxr
  <2>2. LockWord'
    BY <1>5, <2>1 DEF Stxr, StoreExclusive, StoreFails, TypeOK, LockWord,
        MutualExclusion, UnlockCannotFail, Holding
  <2>3. MutualExclusion'
    BY <1>5, <2>1 DEF Stxr, StoreExclusive, StoreFails, TypeOK, LockWord,
        MutualExclusion, Holding
  <2>4. UnlockCannotFail'
    BY <1>5, <2>1 DEF Stxr, StoreExclusive, StoreFails, TypeOK, LockWord,
        MutualExclusion, UnlockCannotFail, Holding, TaskMask, IrqMask, Exclusive
  <2>5. \A d \in CPUs : TaskMask(d)'
    BY <1>5, <2>1 DEF Stxr, StoreExclusive, StoreFails, TypeOK, TaskMask,
        IrqMask, Exclusive
  <2>6. \A d \in CPUs : IrqMask(d)'
    BY <1>5, <2>1 DEF Stxr, StoreExclusive, StoreFails, TypeOK, TaskMask,
        IrqMask, Exclusive
  <2> QED BY <2>1, <2>2, <2>3, <2>4, <2>5, <2>6
<1>6. ASSUME NEW c \in CPUs, NEW l \in Levels, Retry(c, l) PROVE IInv'
  <2>1. TypeOK'
    BY <1>6 DEF Retry, TypeOK, Labels
  <2>2. LockWord'
    BY <1>6, <2>1 DEF Retry, TypeOK, LockWord, MutualExclusion,
        UnlockCannotFail, Holding
  <2>3. MutualExclusion'
    BY <1>6, <2>1 DEF Retry, TypeOK, LockWord, MutualExclusion, Holding
  <2>4. UnlockCannotFail'
    BY <1>6, <2>1 DEF Retry, TypeOK, LockWord, MutualExclusion,
        UnlockCannotFail, Holding, TaskMask, IrqMask, Exclusive
  <2>5. \A d \in CPUs : TaskMask(d)'
    BY <1>6, <2>1 DEF Retry, TypeOK, TaskMask, IrqMask, Exclusive
  <2>6. \A d \in CPUs : IrqMask(d)'
    BY <1>6, <2>1 DEF Retry, TypeOK, TaskMask, IrqMask, Exclusive
  <2> QED BY <2>1, <2>2, <2>3, <2>4, <2>5, <2>6
<1>7. ASSUME NEW c \in CPUs, NEW l \in Levels, Locked(c, l) PROVE IInv'
  <2>1. TypeOK'
    BY <1>7 DEF Locked, TypeOK, Labels
  <2>2. LockWord'
    BY <1>7, <2>1 DEF Locked, TypeOK, LockWord, MutualExclusion,
        UnlockCannotFail, Holding
  <2>3. MutualExclusion'
    BY <1>7, <2>1 DEF Locked, TypeOK, LockWord, MutualExclusion, Holding
  <2>4. UnlockCannotFail'
    BY <1>7, <2>1 DEF Locked, TypeOK, LockWord, MutualExclusion,
        UnlockCannotFail, Holding, TaskMask, IrqMask, Exclusive
  <2>5. \A d \in CPUs : TaskMask(d)'
    BY <1>7, <2>1 DEF Locked, TypeOK, TaskMask, IrqMask, Exclusive
  <2>6. \A d \in CPUs : IrqMask(d)'
    BY <1>7, <2>1 DEF Locked, TypeOK, TaskMask, IrqMask, Exclusive
  <2> QED BY <2>1, <2>2, <2>3, <2>4, <2>5, <2>6
<1>8. ASSUME NEW c \in CPUs, NEW l \in Levels, CallSpinUnlock(c, l) PROVE IInv'
  <2>1. TypeOK'
    BY <1>8 DEF CallSpinUnlock, TypeOK, Labels
  <2>2. LockWord'
    BY <1>8, <2>1 DEF CallSpinUnlock, TypeOK, LockWord, MutualExclusion,
        UnlockCannotFail, Holding
  <2>3. MutualExclusion'
    BY <1>8, <2>1 DEF CallSpinUnlock, TypeOK, LockWord, MutualExclusion, Holding
  <2>4. UnlockCannotFail'
    BY <1>8, <2>1 DEF CallSpinUnlock, TypeOK, LockWord, MutualExclusion,
        UnlockCannotFail, Holding, TaskMask, IrqMask, Exclusive
  <2>5. \A d \in CPUs : TaskMask(d)'
    BY <1>8, <2>1 DEF CallSpinUnlock, TypeOK, TaskMask, IrqMask, Exclusive
  <2>6. \A d \in CPUs : IrqMask(d)'
    BY <1>8, <2>1 DEF CallSpinUnlock, TypeOK, TaskMask, IrqMask, Exclusive
  <2> QED BY <2>1, <2>2, <2>3, <2>4, <2>5, <2>6
<1>9. ASSUME NEW c \in CPUs, NEW l \in Levels, UnlockLdxr(c, l) PROVE IInv'
  <2>1. TypeOK'
    BY <1>9 DEF UnlockLdxr, TypeOK, Labels
  <2>2. LockWord'
    BY <1>9, <2>1 DEF UnlockLdxr, TypeOK, LockWord, MutualExclusion,
        UnlockCannotFail, Holding
  <2>3. MutualExclusion'
    BY <1>9, <2>1 DEF UnlockLdxr, TypeOK, LockWord, MutualExclusion, Holding
  <2>4. UnlockCannotFail'
    BY <1>9, <2>1 DEF UnlockLdxr, TypeOK, LockWord, MutualExclusion,
        UnlockCannotFail, Holding, TaskMask, IrqMask, Exclusive
  <2>5. \A d \in CPUs : TaskMask(d)'
    BY <1>9, <2>1 DEF UnlockLdxr, TypeOK, TaskMask, IrqMask, Exclusive
  <2>6. \A d \in CPUs : IrqMask(d)'
    BY <1>9, <2>1 DEF UnlockLdxr, TypeOK, TaskMask, IrqMask, Exclusive
  <2> QED BY <2>1, <2>2, <2>3, <2>4, <2>5, <2>6
<1>10. ASSUME NEW c \in CPUs, NEW l \in Levels, UnlockStxr(c, l) PROVE IInv'
  <2>1. TypeOK'
    BY <1>10 DEF UnlockStxr, StoreExclusive, StoreFails, TypeOK, Labels
  <2>2. LockWord'
    BY <1>10, <2>1 DEF UnlockStxr, StoreExclusive, StoreFails, TypeOK, LockWord,
        MutualExclusion, UnlockCannotFail, Holding
  <2>3. MutualExclusion'
    BY <1>10, <2>1 DEF UnlockStxr, StoreExclusive, StoreFails, TypeOK, LockWord,
        MutualExclusion, Holding
  <2>4. UnlockCannotFail'
    BY <1>10, <2>1 DEF UnlockStxr, StoreExclusive, StoreFails, TypeOK, LockWord,
        MutualExclusion, UnlockCannotFail, Holding, TaskMask, IrqMask, Exclusive
  <2>5. \A d \in CPUs : TaskMask(d)'
    BY <1>10, <2>1 DEF UnlockStxr, StoreExclusive, StoreFails, TypeOK, TaskMask,
        IrqMask, Exclusive
  <2>6. \A d \in CPUs : IrqMask(d)'
    BY <1>10, <2>1 DEF UnlockStxr, StoreExclusive, StoreFails, TypeOK, TaskMask,
        IrqMask, Exclusive
  <2> QED BY <2>1, <2>2, <2>3, <2>4, <2>5, <2>6
<1>11. ASSUME NEW c \in CPUs, NEW l \in Levels, Unlocked(c, l) PROVE IInv'
  <2>1. TypeOK'
    BY <1>11 DEF Unlocked, TypeOK, Labels
  <2>2. LockWord'
    BY <1>11, <2>1 DEF Unlocked, TypeOK, LockWord, MutualExclusion,
        UnlockCannotFail, Holding
  <2>3. MutualExclusion'
    BY <1>11, <2>1 DEF Unlocked, TypeOK, LockWord, MutualExclusion, Holding
  <2>4. UnlockCannotFail'
    BY <1>11, <2>1 DEF Unlocked, TypeOK, LockWord, MutualExclusion,
        UnlockCannotFail, Holding, TaskMask, IrqMask, Exclusive
  <2>5. \A d \in CPUs : TaskMask(d)'
    BY <1>11, <2>1 DEF Unlocked, TypeOK, TaskMask, IrqMask, Exclusive
  <2>6. \A d \in CPUs : IrqMask(d)'
    BY <1>11, <2>1 DEF Unlocked, TypeOK, TaskMask, IrqMask, Exclusive
  <2> QED BY <2>1, <2>2, <2>3, <2>4, <2>5, <2>6
<1>12. ASSUME NEW c \in CPUs, NEW l \in Levels, IrqRestore(c, l) PROVE IInv'
  <2>1. TypeOK'
    BY <1>12 DEF IrqRestore, AfterUnlock, TypeOK, Labels
  <2>2. LockWord'
    BY <1>12, <2>1 DEF IrqRestore, AfterUnlock, TypeOK, LockWord,
        MutualExclusion, UnlockCannotFail, Holding
  <2>3. MutualExclusion'
    BY <1>12, <2>1 DEF IrqRestore, AfterUnlock, TypeOK, LockWord,
        MutualExclusion, Holding
  <2>4. UnlockCannotFail'
    BY <1>12, <2>1 DEF IrqRestore, AfterUnlock, TypeOK, LockWord,
        MutualExclusion, UnlockCannotFail, Holding, TaskMask, IrqMask, Exclusive
  <2>5. \A d \in CPUs : TaskMask(d)'
    BY <1>12, <2>1 DEF IrqRestore, AfterUnlock, TypeOK, TaskMask, IrqMask, Exclusive
  <2>6. \A d \in CPUs : IrqMask(d)'
    BY <1>12, <2>1 DEF IrqRestore, AfterUnlock, TypeOK, TaskMask, IrqMask, Exclusive
  <2> QED BY <2>1, <2>2, <2>3, <2>4, <2>5, <2>6
<1>13. ASSUME NEW c \in CPUs, TakeIrq(c) PROVE IInv'
  <2>1. TypeOK'
    BY <1>13 DEF TakeIrq, TypeOK, Labels
  <2>2. LockWord'
    BY <1>13, <2>1 DEF TakeIrq, TypeOK, LockWord, MutualExclusion,
        UnlockCannotFail, Holding
  <2>3. MutualExclusion'
    BY <1>13, <2>1 DEF TakeIrq, TypeOK, LockWord, MutualExclusion, Holding
  <2>4. UnlockCannotFail'
    BY <1>13, <2>1 DEF TakeIrq, TypeOK, LockWord, MutualExclusion,
        UnlockCannotFail, Holding, TaskMask, IrqMask, Exclusive
  <2>5. \A d \in CPUs : TaskMask(d)'
    BY <1>13, <2>1 DEF TakeIrq, TypeOK, TaskMask, IrqMask, Exclusive
  <2>6. \A d \in CPUs : IrqMask(d)'
    BY <1>13, <2>1 DEF TakeIrq, TypeOK, TaskMask, IrqMask, Exclusive
  <2> QED BY <2>1, <2>2, <2>3, <2>4, <2>5, <2>6
<1>14. ASSUME NEW c \in CPUs, Eret(c) PROVE IInv'
  <2>1. TypeOK'
    BY <1>14 DEF Eret, TypeOK, Labels
  <2>2. LockWord'
    BY <1>14, <2>1 DEF Eret, TypeOK, LockWord, MutualExclusion,
        UnlockCannotFail, Holding
  <2>3. MutualExclusion'
    BY <1>14, <2>1 DEF Eret, TypeOK, LockWord, MutualExclusion, Holding
  <2>4. UnlockCannotFail'
    BY <1>14, <2>1 DEF Eret, TypeOK, LockWord, MutualExclusion,
        UnlockCannotFail, Holding, TaskMask, IrqMask, Exclusive
  <2>5. \A d \in CPUs : TaskMask(d)'
    BY <1>14, <2>1 DEF Eret, TypeOK, TaskMask, IrqMask, Exclusive
  <2>6. \A d \in CPUs : IrqMask(d)'
    BY <1>14, <2>1 DEF Eret, TypeOK, TaskMask, IrqMask, Exclusive
  <2> QED BY <2>1, <2>2, <2>3, <2>4, <2>5, <2>6
<1>15. CASE UNCHANGED vars
  BY <1>15 DEF vars, TypeOK, LockWord, MutualExclusion, UnlockCannotFail,
             TaskMask, IrqMask, Holding
<1> QED
  BY <1>1, <1>2, <1>3, <1>4, <1>5, <1>6, <1>7, <1>8, <1>9, <1>10, <1>11, <1>12,
      <1>13, <1>14, <1>15 DEF Next, Call, Step

(* IInv holds in every state of every execution.                           *)
THEOREM SpinLockInv == Spec => []IInv
BY InitInv, NextInv, PTL DEF Spec

(* No two contexts are ever inside the region that the lock protects.      *)
THEOREM SpinLockMutualExclusion == Spec => []MutualExclusion
BY SpinLockInv, PTL DEF IInv

(* The unretried STXR of spin_unlock always stores.                        *)
THEOREM SpinLockUnlocks == Spec => []UnlockCannotFail
BY SpinLockInv, PTL DEF IInv

(* A handler never waits for the task that it interrupted.                 *)
THEOREM SpinLockNoSelfDeadlock == Spec => []NoSelfDeadlock
<1>1. IInv => NoSelfDeadlock
  BY DEF Kinds, Plain, IrqTakes, IInv, TypeOK, NoSelfDeadlock, TaskMask, IrqMask, Trying, Holding,
         Exclusive, Levels, Labels
<1> QED BY <1>1, SpinLockInv, PTL

(* Interrupts are on again in a task that has left spin_unlock, whichever  *)
(* variant it called, and off in a handler from beginning to end.          *)
THEOREM SpinLockMaskBalanced == Spec => []MaskBalanced
<1>1. IInv => MaskBalanced
  BY DEF IInv, MaskBalanced, TaskMask, IrqMask
<1> QED BY <1>1, SpinLockInv, PTL

-----------------------------------------------------------------------------
(* A step that changes no context's hold on the lock changes nobody inside. *)
LEMMA InsideSame ==
    ASSUME \A c \in CPUs, l \in Levels : Holding(c, l)' <=> Holding(c, l)
    PROVE  Inside' = Inside
<1>1. \A x \in Contexts : Holding(x[1], x[2])' <=> Holding(x[1], x[2])
  BY DEF Contexts
<1> QED BY <1>1 DEF Inside

(* Moving one context between labels on the same side of the region.       *)
LEMMA GotoSame ==
    ASSUME TypeOK, NEW c \in CPUs, NEW l \in Levels, NEW to, Goto(c, l, to),
           Holding(c, l) <=> to \in {"got", "cs", "uldxr", "ustxr"}
    PROVE  \A d \in CPUs, m \in Levels : Holding(d, m)' <=> Holding(d, m)
BY DEF TypeOK, Goto, Holding, Levels

(* Every instruction is a step of Exclusion, or nobody enters or leaves.   *)
LEMMA NextRefines == IInv /\ IInv' /\ [Next]_vars => [Abstract!Passage]_Inside
<1> SUFFICES ASSUME IInv, IInv', [Next]_vars PROVE [Abstract!Passage]_Inside
    OBVIOUS
<1> USE DEF IInv, Levels, At
<1>1. ASSUME NEW c \in CPUs, NEW l \in Levels, Stxr(c, l)
      PROVE  [Abstract!Passage]_Inside
  <2>1. CASE StoreExclusive(c, 0, 1) /\ Goto(c, l, "got")
    <3>1. \A d \in CPUs, m \in Levels : ~Holding(d, m)
      BY <2>1 DEF StoreExclusive, LockWord
    <3>2. \A d \in CPUs, m \in Levels :
            Holding(d, m)' <=> (d = c /\ m = l)
      BY <2>1, <3>1 DEF Goto, Holding, TypeOK
    <3>3. Inside = {} /\ <<c, l>> \in Contexts
      BY <3>1 DEF Inside, Contexts
    <3>4. \A x \in Contexts : Holding(x[1], x[2])' <=> x = <<c, l>>
      BY <3>2 DEF Contexts
    <3>5. Inside' = {<<c, l>>}
      BY <3>3, <3>4 DEF Inside
    <3> QED BY <3>3, <3>5 DEF Abstract!Passage, Abstract!Enter, Abstract!Empty
  <2>2. CASE StoreFails(c) /\ Goto(c, l, "back")
    BY <1>1, <2>2, GotoSame, InsideSame DEF Stxr, Holding
  <2> QED BY <1>1, <2>1, <2>2 DEF Stxr
<1>2. ASSUME NEW c \in CPUs, NEW l \in Levels, UnlockStxr(c, l)
      PROVE  [Abstract!Passage]_Inside
  <2>1. Holding(c, l)
    BY <1>2 DEF UnlockStxr, Holding
  <2>2. <<c, l>> \in Contexts
    BY DEF Contexts
  <2>3. <<c, l>> \in Inside
    BY <2>1, <2>2 DEF Inside
  <2>4. \A d \in CPUs, m \in Levels : Holding(d, m) => d = c /\ m = l
    BY <2>1 DEF MutualExclusion
  <2>5. \A x \in Contexts : Holding(x[1], x[2]) => x = <<c, l>>
    BY <2>4 DEF Contexts
  <2>6. \A d \in CPUs, m \in Levels : ~Holding(d, m)'
    BY <1>2, <2>1 DEF UnlockStxr, Goto, Holding, MutualExclusion, TypeOK
  <2>7. \A x \in Contexts : ~Holding(x[1], x[2])'
    BY <2>6 DEF Contexts
  <2>8. Inside' = Inside \ {<<c, l>>}
    BY <2>5, <2>7 DEF Inside
  <2> QED BY <2>2, <2>3, <2>8 DEF Abstract!Passage, Abstract!Leave
<1>3. ASSUME NEW c \in CPUs, NEW l \in Levels,
             Call(c, l) \/ Mask(c, l) \/ Ldxr(c, l) \/ Retry(c, l)
      PROVE  Inside' = Inside
  <2>1. PICK to \in {"mask", "ldxr", "stxr", "back"} : Goto(c, l, to)
    BY <1>3 DEF Call, CallSpinLock, CallIrqSave, Mask, Ldxr, Retry
  <2>2. ~Holding(c, l)
    BY <1>3 DEF Call, CallSpinLock, CallIrqSave, Mask, Ldxr, Retry, Holding
  <2> QED BY <2>1, <2>2, GotoSame, InsideSame
<1>4. ASSUME NEW c \in CPUs, NEW l \in Levels,
             Locked(c, l) \/ CallSpinUnlock(c, l)
      PROVE  Inside' = Inside
  <2>1. PICK to \in {"cs", "uldxr"} : Goto(c, l, to)
    BY <1>4 DEF Locked, CallSpinUnlock
  <2>2. Holding(c, l)
    BY <1>4 DEF Locked, CallSpinUnlock, Holding
  <2> QED BY <2>1, <2>2, GotoSame, InsideSame
<1>5. ASSUME NEW c \in CPUs, NEW l \in Levels, UnlockLdxr(c, l)
      PROVE  Inside' = Inside
  <2>1. Holding(c, l)
    BY <1>5 DEF UnlockLdxr, Holding
  <2>2. Goto(c, l, "ustxr")
    BY <1>5, <2>1 DEF UnlockLdxr, LockWord
  <2> QED BY <2>1, <2>2, GotoSame, InsideSame
<1>6. ASSUME NEW c \in CPUs, NEW l \in Levels,
             Unlocked(c, l) \/ IrqRestore(c, l)
      PROVE  Inside' = Inside
  <2>1. PICK to \in {"out", "restore", "done"} : Goto(c, l, to)
    BY <1>6 DEF Unlocked, IrqRestore, AfterUnlock
  <2>2. ~Holding(c, l)
    BY <1>6 DEF Unlocked, IrqRestore, Holding
  <2> QED BY <2>1, <2>2, GotoSame, InsideSame
<1>7. ASSUME NEW c \in CPUs, TakeIrq(c) \/ Eret(c)
      PROVE  Inside' = Inside
  <2>1. CASE TakeIrq(c)
    BY <2>1, InsideSame DEF TakeIrq, Holding
  <2>2. CASE Eret(c)
    BY <2>2, GotoSame, InsideSame DEF Eret, Holding
  <2> QED BY <1>7, <2>1, <2>2
<1>8. CASE UNCHANGED vars
  BY <1>8, InsideSame DEF vars, Holding
<1> QED
  BY <1>1, <1>2, <1>3, <1>4, <1>5, <1>6, <1>7, <1>8 DEF Next, Step

(* The instruction sequences of irq.S implement the abstract lock.         *)
THEOREM SpinLockRefinesLock == Spec => ImplementsLock
<1>1. Init => Abstract!Empty
  BY DEF Init, Abstract!Empty, Inside, Holding, Contexts, Levels
<1> QED
  BY <1>1, NextRefines, SpinLockInv, PTL DEF Spec, ImplementsLock, Abstract!Promise
=============================================================================

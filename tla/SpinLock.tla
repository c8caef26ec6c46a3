------------------------------ MODULE SpinLock ------------------------------
(***************************************************************************)
(* One spinlock of the kernel: the exclusive load/store loops of           *)
(* kernel/irq.S, and the interrupt masking of kernel/spinlock.c around     *)
(* them.  Every CPU runs one task-level context; an interrupt suspends it  *)
(* and runs a handler-level context on the same CPU until the handler      *)
(* returns.  Each action is one instruction that touches the lock word,    *)
(* the exclusive monitor or the interrupt mask.                            *)
(***************************************************************************)
EXTENDS Naturals

CONSTANT CPUs

VARIABLES
    kind,       \* which lock of the kernel this is; never changes
    lock,       \* spinlock.data[0]
    resv,       \* CPUs whose exclusive monitor is set for the lock word
    masked,     \* DAIF.I of each CPU
    inIrq,      \* CPUs running an interrupt handler
    pc,         \* next instruction of each context
    x7,         \* DAIF as saved in register X7 by spin_lock and spin_unlock
    flags       \* DAIF as saved by local_irq_save

vars == <<kind, lock, resv, masked, inIrq, pc, x7, flags>>

Levels == {"task", "irq"}

(***************************************************************************)
(* The kernel's locking discipline: tasks_lock, timerlist_lock, uib_lock,  *)
(* the lock of a wait queue and those of a circular buffer are shared with *)
(* handlers and taken with irqsave; kmalloc_lock and the lock inside a     *)
(* mutex are not shared and taken with plain spin_lock.                    *)
(***************************************************************************)
Kinds == {"shared", "private"}

Plain == kind = "private"

IrqTakes == kind = "shared"

Labels == {"out", "mask", "ldxr", "stxr", "back", "got", "cs",
           "uldxr", "ustxr", "uback", "restore", "done"}

TypeOK ==
    /\ kind \in Kinds
    /\ lock \in {0, 1}
    /\ resv \in [CPUs -> BOOLEAN]
    /\ masked \in [CPUs -> BOOLEAN]
    /\ inIrq \in [CPUs -> BOOLEAN]
    /\ pc \in [Levels -> [CPUs -> Labels]]
    /\ x7 \in [Levels -> [CPUs -> BOOLEAN]]
    /\ flags \in [Levels -> [CPUs -> BOOLEAN]]

(* spin_lock_init clears the lock; interrupts are on, nobody uses it yet.  *)
Init ==
    /\ kind \in Kinds
    /\ lock = 0
    /\ resv = [c \in CPUs |-> FALSE]
    /\ masked = [c \in CPUs |-> FALSE]
    /\ inIrq = [c \in CPUs |-> FALSE]
    /\ pc = [l \in Levels |-> [c \in CPUs |-> "out"]]
    /\ x7 = [l \in Levels |-> [c \in CPUs |-> FALSE]]
    /\ flags = [l \in Levels |-> [c \in CPUs |-> FALSE]]

(* The context that executes on a CPU: the handler, while there is one.    *)
Runs(c, l) == inIrq[c] = (l = "irq")

At(c, l, from) == Runs(c, l) /\ pc[l][c] = from

Goto(c, l, to) ==
    /\ pc' = [pc EXCEPT ![l][c] = to]
    /\ UNCHANGED kind

SetMask(c, b) == masked' = [masked EXCEPT ![c] = b]

-----------------------------------------------------------------------------
(* Acquiring.                                                              *)

(* spin_lock called directly, by a task.                                   *)
CallSpinLock(c, l) ==
    /\ At(c, l, "out") /\ l = "task" /\ Plain
    /\ Goto(c, l, "mask")
    /\ UNCHANGED <<lock, resv, masked, inIrq, x7, flags>>

(* Mutant: spin_lock_irqsave that forgets to mask.                         *)
MutantCallIrqSave(c, l) ==
    /\ At(c, l, "out")
    /\ IF l = "task" THEN ~Plain ELSE IrqTakes
    /\ flags' = [flags EXCEPT ![l][c] = masked[c]]
    /\ Goto(c, l, "mask")
    /\ UNCHANGED <<lock, resv, masked, inIrq, x7>>

(* spin_lock_irqsave: local_irq_save, then spin_lock.                      *)
CallIrqSave(c, l) ==
    /\ At(c, l, "out")
    /\ IF l = "task" THEN ~Plain ELSE IrqTakes
    /\ flags' = [flags EXCEPT ![l][c] = masked[c]]
    /\ SetMask(c, TRUE)
    /\ Goto(c, l, "mask")
    /\ UNCHANGED <<lock, resv, inIrq, x7>>

(* MRS X7, DAIF; MSR DAIFSet.                                              *)
Mask(c, l) ==
    /\ At(c, l, "mask")
    /\ x7' = [x7 EXCEPT ![l][c] = masked[c]]
    /\ SetMask(c, TRUE)
    /\ Goto(c, l, "ldxr")
    /\ UNCHANGED <<lock, resv, inIrq, flags>>

(* Mutant: CBNZ for CBZ.                                                   *)
MutantLdxr(c, l) ==
    /\ At(c, l, "ldxr")
    /\ resv' = [resv EXCEPT ![c] = TRUE]
    /\ Goto(c, l, IF lock = 0 THEN "back" ELSE "stxr")
    /\ UNCHANGED <<lock, masked, inIrq, x7, flags>>

(* LDXR X1, [X0]; CBZ X1, _try_lock.                                       *)
Ldxr(c, l) ==
    /\ At(c, l, "ldxr")
    /\ resv' = [resv EXCEPT ![c] = TRUE]
    /\ Goto(c, l, IF lock = 0 THEN "stxr" ELSE "back")
    /\ UNCHANGED <<lock, masked, inIrq, x7, flags>>

(***************************************************************************)
(* STXR may store while the word still has the loaded value: a             *)
(* compare-and-swap, as QEMU executes it, or a store under an untouched    *)
(* reservation, as hardware does.  It may fail only when the reservation   *)
(* is gone.  A store takes away the reservations of every other CPU.       *)
(***************************************************************************)
StoreExclusive(c, loaded, new) ==
    /\ lock = loaded
    /\ lock' = new
    /\ resv' = [d \in CPUs |-> FALSE]

StoreFails(c) ==
    /\ ~resv[c]
    /\ UNCHANGED <<lock, resv>>

(* Mutant: the status of STXR is not tested by spin_lock.                  *)
MutantStxr(c, l) ==
    /\ At(c, l, "stxr")
    /\ StoreExclusive(c, 0, 1) \/ StoreFails(c)
    /\ Goto(c, l, "got")
    /\ UNCHANGED <<masked, inIrq, x7, flags>>

(* STXR W2, X1, [X0] with X1 = 1.                                          *)
Stxr(c, l) ==
    /\ At(c, l, "stxr")
    /\ \/ StoreExclusive(c, 0, 1) /\ Goto(c, l, "got")
       \/ StoreFails(c) /\ Goto(c, l, "back")
    /\ UNCHANGED <<masked, inIrq, x7, flags>>

(* MSR DAIF, X7 and branch back to spin_lock.                              *)
Retry(c, l) ==
    /\ At(c, l, "back")
    /\ SetMask(c, x7[l][c])
    /\ Goto(c, l, "mask")
    /\ UNCHANGED <<lock, resv, inIrq, x7, flags>>

(* MSR DAIF, X7 and return to the caller's critical section.               *)
Locked(c, l) ==
    /\ At(c, l, "got")
    /\ SetMask(c, x7[l][c])
    /\ Goto(c, l, "cs")
    /\ UNCHANGED <<lock, resv, inIrq, x7, flags>>

-----------------------------------------------------------------------------
(* Releasing.                                                              *)

(* Mutant: spin_unlock leaves interrupts on around its LDXR and STXR.      *)
MutantCallSpinUnlock(c, l) ==
    /\ At(c, l, "cs")
    /\ x7' = [x7 EXCEPT ![l][c] = masked[c]]
    /\ Goto(c, l, "uldxr")
    /\ UNCHANGED <<lock, resv, masked, inIrq, flags>>

(* spin_unlock: MRS X7, DAIF; MSR DAIFSet.                                 *)
CallSpinUnlock(c, l) ==
    /\ At(c, l, "cs")
    /\ x7' = [x7 EXCEPT ![l][c] = masked[c]]
    /\ SetMask(c, TRUE)
    /\ Goto(c, l, "uldxr")
    /\ UNCHANGED <<lock, resv, inIrq, flags>>

(* LDXR X1, [X0]; CBZ X1, _un_locked.                                      *)
UnlockLdxr(c, l) ==
    /\ At(c, l, "uldxr")
    /\ resv' = [resv EXCEPT ![c] = TRUE]
    /\ Goto(c, l, IF lock = 0 THEN "uback" ELSE "ustxr")
    /\ UNCHANGED <<lock, masked, inIrq, x7, flags>>

(* STXR W2, X1, [X0] with X1 = 0: the status in W2 is never looked at.     *)
UnlockStxr(c, l) ==
    /\ At(c, l, "ustxr")
    /\ \/ StoreExclusive(c, 1, 0)
       \/ StoreFails(c)
    /\ Goto(c, l, "uback")
    /\ UNCHANGED <<masked, inIrq, x7, flags>>

(* Where a context goes once its last call has returned.                   *)
AfterUnlock(l) == IF l = "task" THEN "out" ELSE "done"

(* MSR DAIF, X7; return to the caller or to spin_unlock_irqrestore.        *)
Unlocked(c, l) ==
    /\ At(c, l, "uback")
    /\ SetMask(c, x7[l][c])
    /\ Goto(c, l, IF l = "task" /\ Plain THEN "out" ELSE "restore")
    /\ UNCHANGED <<lock, resv, inIrq, x7, flags>>

(* Mutant: spin_unlock_irqrestore does not restore the mask.               *)
MutantIrqRestore(c, l) ==
    /\ At(c, l, "restore")
    /\ Goto(c, l, AfterUnlock(l))
    /\ UNCHANGED <<lock, resv, masked, inIrq, x7, flags>>

(* local_irq_restore(flags).                                               *)
IrqRestore(c, l) ==
    /\ At(c, l, "restore")
    /\ SetMask(c, flags[l][c])
    /\ Goto(c, l, AfterUnlock(l))
    /\ UNCHANGED <<lock, resv, inIrq, x7, flags>>

-----------------------------------------------------------------------------
(* An interrupt is taken: the exception entry masks interrupts.            *)
TakeIrq(c) ==
    /\ ~masked[c] /\ ~inIrq[c]
    /\ inIrq' = [inIrq EXCEPT ![c] = TRUE]
    /\ SetMask(c, TRUE)
    /\ UNCHANGED <<kind, lock, resv, pc, x7, flags>>

(* kernel_exit: ERET restores the mask and clears the exclusive monitor.   *)
Eret(c) ==
    /\ inIrq[c] /\ pc["irq"][c] \in {"out", "done"}
    /\ inIrq' = [inIrq EXCEPT ![c] = FALSE]
    /\ SetMask(c, FALSE)
    /\ resv' = [resv EXCEPT ![c] = FALSE]
    /\ Goto(c, "irq", "out")
    /\ UNCHANGED <<lock, x7, flags>>

(* The instructions of a context that has called spin_lock.                *)
Step(c, l) ==
    \/ Mask(c, l) \/ Ldxr(c, l) \/ Stxr(c, l) \/ Retry(c, l) \/ Locked(c, l)
    \/ CallSpinUnlock(c, l) \/ UnlockLdxr(c, l) \/ UnlockStxr(c, l)
    \/ Unlocked(c, l) \/ IrqRestore(c, l)

Call(c, l) == CallSpinLock(c, l) \/ CallIrqSave(c, l)

Next ==
    \E c \in CPUs :
        \/ \E l \in Levels : Call(c, l) \/ Step(c, l)
        \/ TakeIrq(c)
        \/ Eret(c)

Spec == Init /\ [][Next]_vars

(***************************************************************************)
(* A CPU executes instructions for ever.  A handler runs to its end; a     *)
(* task is interrupted again and again, but the timer and the UART leave   *)
(* room for at least one instruction between two interrupts.               *)
(***************************************************************************)
Fairness ==
    \A c \in CPUs :
        /\ WF_vars(Step(c, "irq"))
        /\ WF_vars(Eret(c))
        /\ SF_vars(Step(c, "task"))

FairSpec == Spec /\ Fairness

-----------------------------------------------------------------------------
Holding(c, l) == pc[l][c] \in {"got", "cs", "uldxr", "ustxr"}

Trying(c, l) == pc[l][c] \in {"mask", "ldxr", "stxr", "back"}

(* Between a successful STXR of spin_lock and the STXR of spin_unlock no   *)
(* other context of any CPU, task or handler, is in that region.           *)
MutualExclusion ==
    \A c, d \in CPUs, l, m \in Levels :
        Holding(c, l) /\ Holding(d, m) => c = d /\ l = m

(* A handler never spins on a lock that the task it interrupted holds: it  *)
(* would spin with interrupts masked and that task could never release it. *)
NoSelfDeadlock ==
    \A c \in CPUs :
        inIrq[c] /\ Trying(c, "irq") => ~Holding(c, "task")

(* The one STXR of spin_unlock, whose status is ignored, cannot fail: the  *)
(* lock word is still 1 and the reservation is still there.                *)
UnlockCannotFail ==
    \A c \in CPUs, l \in Levels :
        pc[l][c] = "ustxr" => lock = 1 /\ resv[c]

(* A context that is outside spin_lock and spin_unlock has interrupts as   *)
(* it had them before: on in a task, off in a handler.                     *)
MaskBalanced ==
    \A c \in CPUs :
        /\ ~inIrq[c] /\ pc["task"][c] = "out" => ~masked[c]
        /\ inIrq[c] => masked[c]

(***************************************************************************)
(* The inductive invariant behind the safety properties.                   *)
(***************************************************************************)

(* The lock word says whether a context holds the lock.                    *)
LockWord == lock = 1 <=> \E c \in CPUs, l \in Levels : Holding(c, l)

(* Exclusive accesses happen with interrupts off.                          *)
Exclusive == {"ldxr", "stxr", "back", "got", "uldxr", "ustxr", "uback"}

(* What a context's saved masks and the mask are, by its instruction.      *)
TaskMask(c) ==
    /\ pc["task"][c] /= "done"
    /\ pc["task"][c] \in Exclusive => masked[c] /\ ~inIrq[c]
    /\ Plain => /\ pc["task"][c] /= "restore"
                /\ pc["task"][c] \in Exclusive => ~x7["task"][c]
                /\ pc["task"][c] \in {"out", "mask", "cs"} /\ ~inIrq[c]
                     => ~masked[c]
    /\ ~Plain => /\ pc["task"][c] \in Exclusive => x7["task"][c]
                 /\ pc["task"][c] /= "out"
                      => masked[c] /\ ~inIrq[c] /\ ~flags["task"][c]
                 /\ pc["task"][c] = "out" /\ ~inIrq[c] => ~masked[c]

IrqMask(c) ==
    /\ inIrq[c] => masked[c]
    /\ pc["irq"][c] /= "out" => inIrq[c] /\ IrqTakes
    /\ pc["irq"][c] \notin {"out", "done"} => flags["irq"][c]
    /\ pc["irq"][c] \in Exclusive => x7["irq"][c]

IInv ==
    /\ TypeOK
    /\ LockWord
    /\ MutualExclusion
    /\ UnlockCannotFail
    /\ \A c \in CPUs : TaskMask(c) /\ IrqMask(c)

(* A free lock that a context spins for is taken by some context.          *)
FreeLockIsTaken ==
    (lock = 0 /\ \E c \in CPUs, l \in Levels : Trying(c, l)) ~> lock = 1

(* SpinLock implements Exclusion: inside are the contexts in the region.   *)
Contexts == CPUs \X Levels

Inside == {x \in Contexts : Holding(x[1], x[2])}

Abstract == INSTANCE Exclusion WITH Users <- Contexts, inside <- Inside

(* Every instruction is a step of Exclusion, or nobody enters or leaves.   *)
ImplementsLock == Abstract!Promise
=============================================================================

----------------------------- MODULE MCSpinLock -----------------------------
(* SpinLock for TLC: two CPUs, as NUM_CPUS in include/hardware.h.          *)
EXTENDS SpinLock
=============================================================================

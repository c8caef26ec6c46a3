------------------------------ MODULE MCMutex -------------------------------
(* Mutex for TLC.                                                          *)
EXTENDS Mutex
=============================================================================

---------------------------- MODULE MCPageAlloc -----------------------------
(* PageAlloc for TLC.                                                      *)
EXTENDS PageAlloc
=============================================================================

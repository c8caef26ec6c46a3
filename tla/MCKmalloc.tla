----------------------------- MODULE MCKmalloc ------------------------------
(* Kmalloc for TLC.                                                        *)
EXTENDS Kmalloc
=============================================================================

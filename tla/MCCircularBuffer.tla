-------------------------- MODULE MCCircularBuffer --------------------------
(* CircularBuffer for TLC.                                                 *)
EXTENDS CircularBuffer
=============================================================================

--------------------------- MODULE MCAddressSpace ---------------------------
(* AddressSpace for TLC.                                                   *)
EXTENDS AddressSpace

FirstOfHeap == {<<"heap", 0>>}
=============================================================================

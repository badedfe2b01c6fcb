----------------------------- MODULE MCUnicast -----------------------------
(* Model-checking instance of Unicast: the f32 kernels (nr = 4, four-     *)
(* element alignment) and slices up to two tiles plus a full unaligned    *)
(* head, so that every combination of head, bulk and tail occurs.         *)
EXTENDS Unicast

MCNR == 4
MCAlignItems == 4
MCMaxLen == 11
=============================================================================

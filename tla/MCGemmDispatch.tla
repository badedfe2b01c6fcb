--------------------------- MODULE MCGemmDispatch ---------------------------
(* Model-checking instance of GemmDispatch: rank 2 to 4 operands whose    *)
(* batch axes are 0, 1 or 2 (0 gives an empty output, 1 broadcasts), m,  *)
(* k and n up to 2 (k = 0 gives a non-empty output with no products) and *)
(* two base offsets, f32 elements.                                        *)
EXTENDS GemmDispatch

MCBatchRanks == 0 .. 2
MCBatchDims == 0 .. 2
MCMatDims == 0 .. 2
MCElemOffsets == {0, 5}
MCES == 4
=============================================================================

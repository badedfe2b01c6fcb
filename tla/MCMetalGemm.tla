---------------------------- MODULE MCMetalGemm ----------------------------
(* Model-checking instance of MetalGemm: rank 2 to 4 operands whose batch *)
(* axes are 0, 1 or 2 (0 gives an empty output, 1 broadcasts), m, k, kb  *)
(* and n up to 2 (contraction mismatches of either sign, and k = 0), two *)
(* base offsets, f32 elements, and the pairs of operand types the        *)
(* operator tells apart.                                                   *)
EXTENDS MetalGemm

MCBatchRanks == 0 .. 2
MCBatchDims == 0 .. 2
MCMatDims == 0 .. 2
MCElemOffsets == {0, 5}
MCES == 4
(* One pair for each way resolve_output_facts and output_dt go: both      *)
(* floats alike (F32, F16), mixed floats either way, an integer, a block- *)
(* quantised A or B, and an opaque B that is not block-quantised.         *)
MCOpDtPairs ==
  { <<"F32", "F32">>, <<"F16", "F16">>, <<"F16", "F32">>, <<"F32", "F16">>,
    <<"I64", "I64">>, <<"BQ", "F32">>, <<"F32", "BQ">>, <<"F32", "Opq">> }
=============================================================================

-------------------------- MODULE MCOffloadPlanner --------------------------
(* Model-checking instance of OffloadPlanner: every three-node graph over *)
(* four datum types standing for the classes the planner tells apart:    *)
(* F32 (supported everywhere), I64 (supported by Metal tensors, not by   *)
(* the float kernels), Opq (opaque: supported, not Copy) and TDim        *)
(* (neither supported nor convertible to a Metal tensor), with every      *)
(* subset of nodes as model outputs.                                      *)
EXTENDS OffloadPlanner

MCN == 3
MCDts == {"F32", "I64", "Opq", "TDim"}
MCMetalSupported == {"F32", "I64", "Opq"}
MCCopyDts == {"F32", "I64", "TDim"}
MCKernelDts == {"F32"}
MCGemmDts == {"F32"}
MCCastDts == {"F32", "I64"}
MCOpaque == "Opq"
=============================================================================

--------------------------- MODULE MCOffloadTwice ---------------------------
EXTENDS OffloadTwice

MCN == 2
MCDts == {"F32", "I64", "Opq", "TDim"}
MCMetalSupported == {"F32", "I64", "Opq"}
MCCopyDts == {"F32", "I64", "TDim"}
MCKernelDts == {"F32"}
MCGemmDts == {"F32"}
MCCastDts == {"F32", "I64"}
MCOpaque == "Opq"
=============================================================================

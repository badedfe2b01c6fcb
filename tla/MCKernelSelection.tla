-------------------------- MODULE MCKernelSelection --------------------------
(***************************************************************************)
(* A small registry with the shapes of tract's: an f32, an f16 and an     *)
(* i8 kernel for the simple path (the f32 one listing a block-quantized   *)
(* packing first), vector and matrix kernels reading a Q4_0 weight, and   *)
(* kits over them, specialised and generic, one of them pairing a packing *)
(* whose B side is not a PackedFormat.  Every operating type but I8 has a *)
(* kernel.                                                                 *)
(***************************************************************************)
EXTENDS KernelSelection

MCDts == {"F32", "F16", "I32", "I8", "QI8", "Opaque"}
MCFormats == {"Q40", "Q80"}
MCKernels == {"kf32", "kf16", "ki8", "kvec", "kmat", "kvec16", "kmat16"}
MCNoKernel == "none"
MCFormatDt == [f \in {"F32x8", "F32x1", "F16x8", "F16x1", "I8x8"} |->
                 CASE f \in {"F32x8", "F32x1"} -> "F32" [] f \in {"F16x8", "F16x1"} -> "F16"
                   [] f = "I8x8" -> "I8"]
MCHasFp16 == TRUE

P(a, b) == [a |-> a, b |-> b]
MCPackings ==
  [k \in MCKernels |->
     CASE k = "kf32"   -> << P("Q40", "F32x8"), P("F32x8", "F32x8") >>
       [] k = "kf16"   -> << P("F16x8", "F16x8") >>
       [] k = "ki8"    -> << P("I8x8", "I8x8") >>
       [] k = "kvec"   -> << P("Q40", "F32x1") >>
       [] k = "kmat"   -> << P("Q40", "F32x8"), P("Q80", "Q80") >>
       [] k = "kvec16" -> << P("Q40", "F16x1") >>
       [] k = "kmat16" -> << P("Q40", "F16x8") >>]

MCMmm == [d \in {"F32", "F16", "I32", "I8"} |->
            CASE d = "F32" -> "kf32" [] d = "F16" -> "kf16" [] d = "I32" -> "ki8"
              [] d = "I8" -> MCNoKernel]

C(k, ix) == [mmm |-> k, packing |-> ix]
Kit(packer, acc, act, fb, mv, sq) ==
  [packer |-> packer, acc |-> acc, act |-> act, fallback |-> fb, mv |-> mv, sq |-> sq]
MCKits ==
  << Kit("Q40", "F32", "F32", TRUE,  C("kmat", 1), C("kmat", 1)),
     Kit("Q40", "F32", "F32", FALSE, C("kvec", 1), C("kmat", 1)),
     Kit("Q40", "F16", "F16", FALSE, C("kvec16", 1), C("kmat16", 1)),
     Kit("Q80", "F32", "F32", FALSE, C("kvec", 1), C("kmat", 2)) >>

(* The matmuls the optimizer hands over: float matmuls on one type, with  *)
(* A plain, constant, an opaque constant or a pre-packed weight (opaque,  *)
(* typed Opaque); integer matmuls on (possibly quantized) i8 operands.    *)
Q(op, a, b, k, n) == [opDt |-> op, aDt |-> a, bDt |-> b, aKonst |-> k, nKnown |-> n]
MCQueries ==
  { Q(d, d, d, k, n) : d \in {"F32", "F16"}, k \in {"none", "plain"}, n \in BOOLEAN }
  \cup { Q(d, "Opaque", b, k, n) :
           d \in {"F32", "F16"}, b \in {"F32", "F16"}, k \in {"opaque"} \cup MCFormats, n \in BOOLEAN }
  \cup { Q(d, a, b, k, n) :
           d \in {"I32", "I8"}, a \in {"I8", "QI8"}, b \in {"I8", "QI8"}, k \in {"none", "plain"},
           n \in BOOLEAN }
  \cup { Q("I32", "Opaque", "I8", k, FALSE) : k \in MCFormats }
=============================================================================

CONSTANTS
  N <- MCN
  Dts <- MCDts
  MetalSupported <- MCMetalSupported
  CopyDts <- MCCopyDts
  KernelDts <- MCKernelDts
  GemmDts <- MCGemmDts
  CastDts <- MCCastDts
  Opaque <- MCOpaque
SPECIFICATION Spec
INVARIANTS
  TypeOK
  ResidencyConsistent
  OutputsOnHost
PROPERTY
  ImplementsPlannerSpec
\* The transform returns, with a graph or an error: those states are final.
CHECK_DEADLOCK FALSE

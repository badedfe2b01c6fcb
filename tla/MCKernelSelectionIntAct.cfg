CONSTANTS
  Dts <- MCDts
  Kernels <- MCKernels
  Packings <- MCPackings
  FormatDt <- MCFormatDt
  Mmm <- MCMmm
  NoKernel <- MCNoKernel
  Formats <- MCFormats
  Kits <- MCKits
  HasFp16 <- MCHasFp16
  Queries <- MCQueries
SPECIFICATION Spec
INVARIANTS
  IntegerActivationHandled
\* One selection per lowering: its final states end the call.
CHECK_DEADLOCK FALSE

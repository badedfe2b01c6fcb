CONSTANTS
  NR <- MCNR
  AlignItems <- MCAlignItems
  MaxLen <- MCMaxLen
SPECIFICATION Spec
INVARIANTS
  TypeOK
  ScratchBounded
  BulkAlignedWhenCoaligned
PROPERTY
  ImplementsSpec
\* A call returns: the final states are the end of one call.
CHECK_DEADLOCK FALSE

CONSTANTS
  NR <- MCNR
  AlignItems <- MCAlignItems
  MaxLen <- MCMaxLen
SPECIFICATION Spec
INVARIANT BulkAlwaysAligned
\* A call returns: the final states are the end of one call.
CHECK_DEADLOCK FALSE

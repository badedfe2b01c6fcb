CONSTANTS
  BatchRanks <- MCBatchRanks
  BatchDims <- MCBatchDims
  MatDims <- MCMatDims
  ElemOffsets <- MCElemOffsets
  ES <- MCES
SPECIFICATION Spec
INVARIANTS
  AcceptsBroadcastable
\* dispatch_eval returns: the final states are the end of one call.
CHECK_DEADLOCK FALSE

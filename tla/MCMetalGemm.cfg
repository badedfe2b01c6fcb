CONSTANTS
  BatchRanks <- MCBatchRanks
  BatchDims <- MCBatchDims
  MatDims <- MCMatDims
  ElemOffsets <- MCElemOffsets
  ES <- MCES
  OpDtPairs <- MCOpDtPairs
SPECIFICATION OpSpec
INVARIANTS
  OpTypeOK
  OperandsInBounds
  DispatchesPartitionC
  DispatchesMatchReference
\* The operator's evaluation returns: the final states end one call.
CHECK_DEADLOCK FALSE

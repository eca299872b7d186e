SPECIFICATION Spec
CONSTANTS
  Files <- MCSparseFiles
  Known <- MCKnown
  NodesPerBlock = 2
  IdLimit = 4
INVARIANT SparseMappingIsDecoded
CHECK_DEADLOCK FALSE

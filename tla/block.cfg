SPECIFICATION Spec
CONSTANTS
  Files <- MCFiles
  Known <- MCKnown
  NodesPerBlock = 2
  IdLimit = 4
INVARIANTS
  TypeOK
  FieldsAreReadAsWritten
  WellFormedIsDecoded
  DefectiveIsRejected
CHECK_DEADLOCK FALSE

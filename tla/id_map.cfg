SPECIFICATION Spec
CONSTANTS
  Names <- MCNames
  Threads = {t1, t2}
  Preregistered <- MCPreregistered
  Reserved = 4
  Lines <- MCLines
  Null = Null
SYMMETRY MCSymmetry
INVARIANTS
  TypeOK
  IdsAndNamesMatch
  CachesAgree
  ReservedItemsCanBeRead
  NodeTableIsComplete
PROPERTY InternerSpec
CHECK_DEADLOCK FALSE

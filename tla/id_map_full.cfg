SPECIFICATION Spec
CONSTANTS
  Names <- MCNames
  Threads = {t1, t2}
  Preregistered <- MCPreregistered
  Reserved = 4
  Lines <- MCLines
  Null = Null
INVARIANT AddedItemsCanBeRead
CHECK_DEADLOCK FALSE

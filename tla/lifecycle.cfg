SPECIFICATION FairSpec
CONSTANTS
  Setters = {s1}
  Refs = {r1, r2}
  NULL = NULL
  MaxOpen = 2
INVARIANTS TypeOK HandleOutlivesThread CallbackWindow CalledRefLives NothingLeft FirstHandleServed PointerValid
PROPERTY CloseReturns
CHECK_DEADLOCK FALSE

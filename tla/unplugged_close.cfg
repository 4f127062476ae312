SPECIFICATION Spec
CONSTANTS
  Transfers = {t1, t2}
  MaxPic = 2
  Parts = 2
  Losses = {}
  Faulty = FALSE
  Unplug = TRUE
INVARIANT EndsThreads
CHECK_DEADLOCK FALSE

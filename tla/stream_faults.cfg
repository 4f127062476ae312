SPECIFICATION Spec
CONSTANTS
  Transfers = {t1, t2}
  MaxPic = 3
  Parts = 2
  Losses = {"flagged", "silent"}
  Faulty = TRUE
  Unplug = TRUE
INVARIANTS OneFrameID NoOversleep
CHECK_DEADLOCK FALSE

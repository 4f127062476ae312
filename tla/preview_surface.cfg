SPECIFICATION Spec
CONSTANTS
  Frames = {f1, f2}
  CapThreads = {"cap1"}
  Callers = {"ui"}
  Callbacks = {}
  Windows = {w1}
  NULL = NULL
  MaxFrame = 1
  MaxStamp = 0
  Modes = {FALSE, TRUE}
  Formats = {FALSE}
  Displays = {TRUE}
  EagerStop = FALSE
  Spurious = FALSE
SYMMETRY FrameSymmetry
INVARIANTS TypeOK FramesInPlace NothingInFlight WindowHandover
PROPERTIES NoLossWhileRunning ModeChangesAtRest
CHECK_DEADLOCK FALSE

SPECIFICATION Spec
CONSTANTS
  Frames = {f1}
  CapThreads = {"cap1"}
  Callers = {"ui", "app"}
  Callbacks = {cb1}
  Windows = {}
  NULL = NULL
  MaxFrame = 1
  MaxStamp = 0
  Modes = {FALSE}
  Formats = {FALSE}
  Displays = {TRUE, FALSE}
  EagerStop = TRUE
  Spurious = TRUE
SYMMETRY FrameSymmetry
INVARIANTS CallbackNotDangling HolderMoves NoSleepOnWork
PROPERTY OneStream
CHECK_DEADLOCK FALSE

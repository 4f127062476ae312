SPECIFICATION Spec
CONSTANTS
  Frames = {f1}
  CapThreads = {"cap1"}
  Callers = {"ui"}
  Callbacks = {cb1}
  Windows = {}
  NULL = NULL
  MaxFrame = 1
  MaxStamp = 0
  Modes = {FALSE}
  Formats = {FALSE}
  Displays = {TRUE, FALSE}
  EagerStop = FALSE
  Spurious = FALSE
SYMMETRY FrameSymmetry
INVARIANT CallbackAlive
CHECK_DEADLOCK FALSE

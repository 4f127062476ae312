SPECIFICATION Spec
CONSTANTS
  Frames = {f1, f2, f3}
  CapThreads = {"cap1"}
  Callers = {"ui"}
  Callbacks = {cb1}
  Windows = {}
  NULL = NULL
  MaxFrame = 2
  MaxStamp = 2
  Modes = {FALSE}
  Formats = {TRUE}
  Displays = {TRUE}
  EagerStop = FALSE
  Spurious = FALSE
SYMMETRY FrameSymmetry
PROPERTY ImplementsPipe
CHECK_DEADLOCK FALSE

SPECIFICATION FairSpec
CONSTANTS
  Frames = {f1, f2}
  CapThreads = {"cap1"}
  Callers = {"ui"}
  Callbacks = {}
  Windows = {}
  NULL = NULL
  MaxFrame = 1
  MaxStamp = 0
  Modes = {FALSE}
  Formats = {FALSE}
  Displays = {TRUE, FALSE}
  EagerStop = FALSE
  Spurious = FALSE
PROPERTIES QueueDrains StopWakesWaiters
CHECK_DEADLOCK FALSE

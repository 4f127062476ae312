SPECIFICATION FairSpec
CONSTANTS
  Transfers = {t1, t2}
  MaxPic = 4
  Parts = 2
  Losses = {"flagged"}
  Faulty = FALSE
  Unplug = FALSE
INVARIANTS
  TypeOK
  OnePicture
  EndsThreads
PROPERTIES
  ImplementsSource
  FrameTaken
  StopReturns
  NewFrameSeen
CHECK_DEADLOCK FALSE

SPECIFICATION LinkSpec
CONSTANTS
  SbufMax = 2
  RbufMax = 2
  Newlines = {}
  Lens = {1}
  MaxBytes = 9
  MaxSent = 9
  H = 2
  B = 1
  Junk = {0, 1, 2}
  MaxTrig = 4
  MaxPush = 5
INVARIANTS FramesWhole BytesOnce
CHECK_DEADLOCK FALSE

SPECIFICATION Spec
CONSTANTS
  SbufMax = 2
  RbufMax = 2
  Newlines = {2}
  Lens = {2, 3}
  MaxBytes = 5
  MaxSent = 6
INVARIANTS TypeOK SentInOrder ReadInOrder
CHECK_DEADLOCK FALSE

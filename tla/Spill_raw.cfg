SPECIFICATION Spec
CONSTANTS
  Word = 2
  BufSize = 7
  QueLen = 1
  NSpill = 2
  MaxBytes = 9
  MaxErrors = 1
  MaxPipes = 2
INVARIANTS WrittenInOrder FilesEndAtSpills
CHECK_DEADLOCK FALSE

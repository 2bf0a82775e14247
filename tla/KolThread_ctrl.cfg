SPECIFICATION FairSpec
CONSTANTS
  a = a
  b = b
  c = c
  Threads = {a, b, c}
  Main = Main
  None = None
  Poster <- Posters
INVARIANTS TypeOK DestroyedLast JoinedOnce NoUseAfterFree
PROPERTY DestructorEnds
CHECK_DEADLOCK FALSE

SPECIFICATION FairSpec
CONSTANTS
  Workers = {w1, w2}
  Calls <- MCCalls
  Nil = Nil
INVARIANTS TypeOK OneCursor Accounted InStep OvertakenOnce
PROPERTY Ends
CHECK_DEADLOCK FALSE

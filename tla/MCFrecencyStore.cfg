CONSTANTS
  Procs = {p1, p2}
  Names = {a, b}
  p1 = p1  p2 = p2  a = a  b = b
  U32Max = 2
  Missing = Missing
  Malformed = Malformed
  Free = Free
  FlushMayFail = TRUE
  InitialStores <- MCInitialStores
  MaxCalls = 3
  MaxClock = 1
SPECIFICATION FairSpec
INVARIANTS ExactlyOnce NeverTorn SaveIsCurrent ParseErrorIsReal
PROPERTIES MalformedIsKept Implements LockIsReleased

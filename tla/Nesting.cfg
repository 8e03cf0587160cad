CONSTANTS
  Pids <- MCPids
  Unreadable <- MCUnreadable
  MaxWalk = 3
SPECIFICATION FairSpec
INVARIANTS NoneCountedTwice CountIsExact
PROPERTY WalkEnds

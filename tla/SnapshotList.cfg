CONSTANTS
  w1 = w1
  a1 = a1
  s1 = s1
  b1 = b1
  Actors <- MCActors
  Workers <- MCWorkers
  Snapshots <- MCSnapshots
  Bystanders <- MCBystanders
  Undated <- MCUndated
  Absent = Absent
  Foreign = Foreign
  Others = TRUE
  MaxCalls = 2
SPECIFICATION LFairSpec
INVARIANTS RestoreIsAllOrNothing DeleteTakesItsLink TakenOnceAndTrue
PROPERTIES ScanIsFaithful ForeignLastIsKept NoLateStep ResultArrives DestructorReturns
CHECK_DEADLOCK FALSE

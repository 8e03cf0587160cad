CONSTANTS
  w1 = w1
  a1 = a1
  s1 = s1
  Actors <- MCActors
  Workers <- MCWorkers
  Snapshots <- MCSnapshots
  Absent = Absent
  Foreign = Foreign
  Others = TRUE
  MaxCalls = 2
SPECIFICATION WFairSpec
INVARIANTS TakenOnceAndTrue
PROPERTIES NoLateStep ResultArrives DestructorReturns
CHECK_DEADLOCK FALSE

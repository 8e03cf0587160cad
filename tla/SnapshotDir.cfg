CONSTANTS
  a1 = a1
  a2 = a2
  s1 = s1
  s2 = s2
  Actors <- MCActors
  Snapshots <- MCSnapshots
  Absent = Absent
  Foreign = Foreign
  Others = TRUE
  MaxCalls = 2
SPECIFICATION Spec
SYMMETRY Symmetric
INVARIANTS TypeOK RestoreIsAllOrNothing DeleteTakesItsLink
PROPERTY ForeignLastIsKept

CONSTANTS
  a1 = a1
  a2 = a2
  a3 = a3
  Actors <- MCActors
  Wanted <- MCWanted
  Names <- MCNames
  Prefixes <- DevelopToo
  Indexes <- One
  Template <- MCTemplate
  MayKill = TRUE
  MaxCalls = 2
  MaxMade = 1
  MaxPanes = 4
SYMMETRY Alike
SPECIFICATION Spec
INVARIANTS CommandsAtHome LeavesABeginning SuccessIsComplete BuildsOnItsOwn
CHECK_DEADLOCK FALSE

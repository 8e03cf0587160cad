CONSTANTS
  a1 = a1
  a2 = a2
  a3 = a3
  Actors <- MCActors
  Wanted <- MCWanted
  Names <- MCNames
  Prefixes <- DevelopToo
  Indexes <- One
  Template <- MCTemplate
  MayKill = FALSE
  MaxCalls = 2
  MaxMade = 1
  MaxPanes = 4
SYMMETRY Alike
SPECIFICATION Spec
INVARIANT RefusedBecauseItExists
CHECK_DEADLOCK FALSE

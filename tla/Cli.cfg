CONSTANTS
  Words <- MCWords
  Dashed <- MCDashed
  NotSessionNames <- MCNotSessionNames
  Documents <- MCDocuments
  Missing = Missing
  Hidden = Hidden
  Unreadable = Unreadable
  Failing = Failing
  MaxArgs = 5
SPECIFICATION Spec
INVARIANTS ParsesTheUsage TemplatesAreIsolated NothingOnDefaults
CHECK_DEADLOCK FALSE

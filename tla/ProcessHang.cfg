CONSTANTS
  Callers = {ui}
  ui = ui  worker = worker
  Leavers = {ui}
  PipeSize = 1
  MaxOutput = 1
SPECIFICATION FairSpec
PROPERTIES CallReturns

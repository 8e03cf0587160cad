CONSTANTS
  Callers = {ui}
  ui = ui  worker = worker
  Leavers = {ui}
  PipeSize = 2
  MaxOutput = 3
SPECIFICATION FairSpec
INVARIANTS NoChildLeft NoDescriptorLeft ExitMeansCaptured
PROPERTIES CaptureEnds ErrorReturns

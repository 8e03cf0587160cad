CONSTANTS
  Callers = {ui, worker}
  ui = ui  worker = worker
  Leavers = {}
  PipeSize = 1
  MaxOutput = 1
SPECIFICATION Spec
SYMMETRY CallerSymmetry
INVARIANTS NoDescriptorLeft ExitMeansCaptured

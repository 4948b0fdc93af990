SPECIFICATION Spec
CONSTANTS
  chain = chain
  plain = plain
  async = async
  NoWorker = NoWorker
  NoJob = NoJob
  Jobs = {chain}
  Workers = {w1, w2}
  Clients = {c1, c2}
  Tool <- MCTool
  Steps = 2
  MaxAttempts = 3
  MaxStalls = 1
  ClientOps = {"cancel", "delete"}
  CallbackStatuses = {}
  PatchStatuses = {}
  Faults = {"db", "crash", "abort"}
  MaxFaults = 2
SYMMETRY Symmetry
CHECK_DEADLOCK FALSE
INVARIANTS TypeOK  OneRunner PendingMeansUntouched DispatchBound 
PROPERTIES RemovedIsNotDispatched

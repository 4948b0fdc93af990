SPECIFICATION Spec
CONSTANTS
  chain = chain
  plain = plain
  async = async
  NoWorker = NoWorker
  NoJob = NoJob
  Jobs = {async}
  Workers = {w1, w2}
  Clients = {c1, c2}
  Tool <- MCTool
  Steps = 1
  MaxAttempts = 2
  MaxStalls = 1
  ClientOps = {"callback", "patch"}
  CallbackStatuses = {"COMPLETED", "FAILED"}
  PatchStatuses = {"keep"}
  Faults = {"db", "lock"}
  MaxFaults = 1
SYMMETRY Symmetry
CHECK_DEADLOCK FALSE
INVARIANTS DispatchBound AsyncCompletedByRequest

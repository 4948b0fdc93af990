SPECIFICATION Spec
CONSTANTS
  chain = chain
  plain = plain
  async = async
  NoWorker = NoWorker
  NoJob = NoJob
  Jobs = {plain}
  Workers = {w1}
  Clients = {}
  Tool <- MCTool
  Steps = 1
  MaxAttempts = 3
  MaxStalls = 1
  ClientOps = {}
  CallbackStatuses = {}
  PatchStatuses = {}
  Faults = {}
  MaxFaults = 0
CHECK_DEADLOCK FALSE
INVARIANTS BrowserLearnsOutcome

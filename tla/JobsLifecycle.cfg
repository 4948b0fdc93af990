SPECIFICATION FairSpec
CONSTANTS
  chain = chain
  plain = plain
  async = async
  NoWorker = NoWorker
  NoJob = NoJob
  Jobs = {chain}
  Workers = {w1, w2}
  Clients = {c1, c2}
  Tool <- MCTool
  Steps = 2
  MaxAttempts = 2
  MaxStalls = 1
  ClientOps = {"cancel"}
  CallbackStatuses = {}
  PatchStatuses = {}
  Faults = {"crash"}
  MaxFaults = 1
CHECK_DEADLOCK FALSE
PROPERTIES ImplementsLifecycle EveryQueuedJobSettles

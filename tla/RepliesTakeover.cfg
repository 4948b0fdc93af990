SPECIFICATION Spec
CONSTANTS
  Jobs = {m1}
  Workers = {w1}
  NoWorker = NoWorker
  NoItem = NoItem
  Clients = {c1}
  ClientOps = {"takeover", "handback", "touch"}
  MaxAttempts = 3
  MaxStalls = 1
  BufferDelay = 1
  MaxBufferTime = 1
  Faults = {}
  MaxFaults = 1
CHECK_DEADLOCK FALSE
PROPERTIES TakeoverLasts

SPECIFICATION FairSpec
CONSTANTS
  Jobs = {m1, m2}
  Workers = {w1}
  NoWorker = NoWorker
  NoItem = NoItem
  Clients = {c1}
  ClientOps = {"takeover"}
  MaxAttempts = 3
  MaxStalls = 1
  BufferDelay = 1
  MaxBufferTime = 1
  Faults = {"db", "quota", "model", "send", "crash", "lock"}
  MaxFaults = 1
CHECK_DEADLOCK FALSE
PROPERTIES WebhooksSettle

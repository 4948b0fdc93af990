SPECIFICATION Spec
CONSTANTS
  Jobs = {m1, m2}
  Workers = {w1, w2}
  NoWorker = NoWorker
  NoItem = NoItem
  Clients = {c1}
  ClientOps = {"takeover", "handback", "touch"}
  MaxAttempts = 3
  MaxStalls = 1
  BufferDelay = 1
  MaxBufferTime = 1
  Faults = {"send", "crash", "lock"}
  MaxFaults = 1
SYMMETRY Symmetry
CHECK_DEADLOCK FALSE
INVARIANTS TypeOK  OneReply TakenOverIsSilent OnDutyAnswers
PROPERTIES ImplementsService

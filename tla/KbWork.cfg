SPECIFICATION FairSpec
CONSTANTS
  create = create
  edit = edit
  rename = rename
  remove = remove
  cancel = cancel
  kbdoc = kbdoc
  NoWorker = NoWorker
  NoJob = NoJob
  NoText = NoText
  Clients = {create, remove, cancel}
  Op <- MCOp
  Jobs <- MCJobs
  Docs = {kbdoc}
  DocOf <- MCDocOf
  Texts = {t1}
  Parts = 2
  Workers = {w1}
  MaxAttempts = 1
  MaxStalls = 1
  Faults = {"crash", "lock"}
  MaxFaults = 2
CHECK_DEADLOCK FALSE
INVARIANTS TypeOK ProcessingIsAlive TrackedIsAlive
PROPERTIES EntriesSettle CancelIsRemembered

SPECIFICATION Spec
CONSTANTS
  create = create
  edit = edit
  rename = rename
  remove = remove
  cancel = cancel
  kbdoc = kbdoc
  NoWorker = NoWorker
  NoJob = NoJob
  NoText = NoText
  Clients = {create, edit, rename}
  Op <- MCOp
  Jobs <- MCJobs
  Docs = {kbdoc}
  DocOf <- MCDocOf
  Texts = {t1, t2}
  Parts = 2
  Workers = {w1}
  MaxAttempts = 1
  MaxStalls = 1
  Faults = {"db", "crash", "lock"}
  MaxFaults = 1
CHECK_DEADLOCK FALSE
SYMMETRY Symmetry
 
PROPERTIES ImplementsLife

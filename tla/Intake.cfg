SPECIFICATION Spec
CONSTANTS
  batch1 = batch1  hashA = hashA  hashB = hashB  personP = personP  personQ = personQ
  Actor = {x, y}
  Batch = {batch1}
  Item = {1, 2}
  BatchOf <- OneBatch
  Direct = {3}
  Known = {0}
  Inactive = {}
  Hash <- SharedHash
  Ids <- SharedIds
  Fails = {"upload", "accept", "direct", "skip", "discard", "profile", "request", "cancel"}
  HookFailing = {"skip", "discard"}
  MaxMishap = 1
INVARIANTS TypeOK OneCopyPerCv IntakeMakesNoTwins ClosedBatchIsDone RowsHaveFiles NoOrphanFiles PurgedLeavesNothing DeadlockNeedsOutOfOrder
SYMMETRY Actors
CHECK_DEADLOCK FALSE

SPECIFICATION Spec
CONSTANTS
  batch1 = batch1  hashA = hashA  hashB = hashB  personP = personP  personQ = personQ
  Actor = {x, y}
  Batch = {batch1}
  Item = {1, 2}
  BatchOf <- OneBatch
  Direct = {3}
  Known = {0}
  Inactive = {}
  Hash <- SharedHash
  Ids <- SharedIds
  Fails = {}
  HookFailing = {"accept"}
  MaxMishap = 1
INVARIANT AcceptedCvIsStored
CHECK_DEADLOCK FALSE

SPECIFICATION Spec
CONSTANTS
  w1 = w1  j1 = j1  cv = cv  entry = entry
  w2 = w2
  Worker = {w1, w2}
  SkipsLocked = TRUE
  Serves <- AllJobs
  Job = {j1}
  Task = {1, 2}
  JobOf <- OneJobOf
  Target = {cv, entry}
  Entry = {entry}
  TargetOf <- OneTargetOf
  Interactive = {}
  Volatile = {}
  Leaving = {}
  TaskLease = 0
  OverrunsLease = TRUE
  MaxAttempt = 2
  MaxRetry = 0
  MaxCrash = 0
  MaxFault = 0
  MaxSnapshot = 0
  MaxSaved = 2
PROPERTY SuccessIsFinal
CHECK_DEADLOCK FALSE

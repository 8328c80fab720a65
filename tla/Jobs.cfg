SPECIFICATION AnySpec
CONSTANTS
  w1 = w1  w2 = w2  j1 = j1  j2 = j2  cv = cv  entry = entry
  Worker = {w1}
  SkipsLocked = TRUE
  Serves <- ServesAll
  Job = {j1, j2}
  Task = {1, 2, 3}
  JobOf <- SharedJobOf
  Target = {cv, entry}
  Entry = {entry}
  TargetOf <- SharedTargetOf
  Interactive = {}
  Volatile = {entry}
  Leaving = {j2}
  TaskLease = 0
  OverrunsLease = TRUE
  MaxAttempt = 3
  MaxRetry = 1
  MaxCrash = 1
  MaxFault = 0
  MaxSnapshot = 1
  MaxSaved = 2
INVARIANTS SingleSavesOnce SingleAggregate FleetClaims OverrunBacked
PROPERTIES FleetKeepsPromise OverrunSettles
CHECK_DEADLOCK FALSE

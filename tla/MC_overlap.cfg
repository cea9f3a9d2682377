SPECIFICATION Spec
CONSTANTS
  t1 = t1
  w1 = w1
  w2 = w2
  Token = {t1}
  Worker = {w1, w2}
  AutoResync = FALSE
  CountWindow = 2
  SyncWindow = 3
  SerialWindow = 1
  AutoResyncTimeout = 1
  FailcounterClearTimeout = 1
  CountAuthMax = 0
  CountAuthSuccessMax = 0
  MaxFail0 = 2
  MaxCounter = 2
  MaxRequests = 3
  MaxTime = 0
SYMMETRY Symmetric
PROPERTIES GrantedIsInvalidated
CHECK_DEADLOCK FALSE

SPECIFICATION Spec
CONSTANTS
  t1 = t1
  w1 = w1
  w2 = w2
  Token = {t1}
  Worker = {w1, w2}
  AutoResync = TRUE
  CountWindow = 1
  SyncWindow = 3
  SerialWindow = 1
  AutoResyncTimeout = 1
  FailcounterClearTimeout = 1
  CountAuthMax = 0
  CountAuthSuccessMax = 1
  MaxFail0 = 1
  MaxCounter = 2
  MaxRequests = 3
  MaxTime = 2
SYMMETRY Symmetric
INVARIANTS TypeOK AdministratorPrevails LockIsStamped SerialOtpOnce SerialMissesCounted SerialBudget SerialDueDate
CHECK_DEADLOCK FALSE

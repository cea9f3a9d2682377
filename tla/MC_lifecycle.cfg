SPECIFICATION Spec
CONSTANTS
  t1 = t1
  t2 = t2
  pinA = pinA
  pinB = pinB
  Token = {t1}
  PIN = {pinA, pinB}
  PinOf <- SamePin
  CRToken = {}
  Lists <- Serials
  SettingsSpace <- Lifecycle
  CountWindow = 1
  SyncWindow = 2
  SerialWindow = 1
  AutoResyncTimeout = 1
  FailcounterClearTimeout = 1
  CountAuthMax = 0
  CountAuthSuccessMax = 1
  ChallengeValidity = 1
  MaxFail0 = 1
  MaxFails = {}
  Failcounts = {0}
  MaxCounter = 1
  MaxKey = 2
  MaxTxn = 0
  MaxTime = 2
  MaxCountAuth = 2
INVARIANTS TypeOK OtpUsedOnce LockIsStamped SuccessBudget

SPECIFICATION Spec
CONSTANTS
  t1 = t1
  t2 = t2
  pinA = pinA
  pinB = pinB
  Token = {t1, t2}
  PIN = {pinA, pinB}
  PinOf <- SamePin
  CRToken = {}
  Lists <- UserOrSerial
  SettingsSpace <- Switching
  CountWindow = 1
  SyncWindow = 2
  SerialWindow = 1
  AutoResyncTimeout = 1
  FailcounterClearTimeout = 0
  CountAuthMax = 0
  CountAuthSuccessMax = 0
  ChallengeValidity = 1
  MaxFail0 = 2
  MaxFails = {1}
  Failcounts = {0}
  MaxCounter = 0
  MaxKey = 0
  MaxTxn = 0
  MaxTime = 0
  MaxCountAuth = 4
SYMMETRY Symmetric
INVARIANTS OtpUsedOnce

SPECIFICATION Spec
CONSTANTS
  t1 = t1
  t2 = t2
  pinA = pinA
  pinB = pinB
  Token = {t1, t2}
  PIN = {pinA}
  PinOf <- SamePin
  CRToken = {t1, t2}
  Lists <- UserOrSerial
  SettingsSpace <- ResetAll
  CountWindow = 1
  SyncWindow = 1
  SerialWindow = 1
  AutoResyncTimeout = 1
  FailcounterClearTimeout = 1
  CountAuthMax = 0
  CountAuthSuccessMax = 0
  ChallengeValidity = 1
  MaxFail0 = 1
  MaxFails = {}
  Failcounts = {0}
  MaxCounter = 0
  MaxKey = 0
  MaxTxn = 2
  MaxTime = 2
  MaxCountAuth = 4
SYMMETRY Symmetric
INVARIANTS AnsweredIsClosed ChallengesDistinct EveryMissCounted
PROPERTIES OnlyUsableLogsIn

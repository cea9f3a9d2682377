SPECIFICATION Spec
CONSTANTS
  t1 = t1
  t2 = t2
  pinA = pinA
  pinB = pinB
  Token = {t1}
  PIN = {pinA}
  PinOf <- SamePin
  CRToken = {t1}
  Lists <- Serials
  SettingsSpace <- Resyncing
  CountWindow = 1
  SyncWindow = 3
  SerialWindow = 2
  AutoResyncTimeout = 2
  FailcounterClearTimeout = 0
  CountAuthMax = 0
  CountAuthSuccessMax = 0
  ChallengeValidity = 1
  MaxFail0 = 2
  MaxFails = {}
  Failcounts = {0}
  MaxCounter = 3
  MaxKey = 0
  MaxTxn = 2
  MaxTime = 2
  MaxCountAuth = 4
INVARIANTS SpentIsBehind
PROPERTIES ImplementsLedger

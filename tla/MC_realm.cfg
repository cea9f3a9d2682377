\* The user signs in to a realm that is not the default one.
SPECIFICATION Spec
CONSTANTS
  MaxTime = 11
  LogoutTimes = {0, 3}
  MaxRequest = 2
  MaxTransaction = 2
  Triggers <- PushOrCode
  DefaultRealm = "default"
  UserRealm = "sales"
  Lifetimes = {4}
  PollFor = 2
  LastStart = 2
INVARIANTS ConfirmedPushLogsIn

\* A tab in which two requests for a login overlap, or follow each other.
SPECIFICATION FairSpec
CONSTANTS
  MaxTime = 11
  LogoutTimes = {0, 3}
  MaxRequest = 2
  MaxTransaction = 2
  Triggers <- PushOrCode
  DefaultRealm = "default"
  UserRealm = "default"
  Lifetimes = {4}
  PollFor = 2
  LastStart = 3
INVARIANTS TypeOK EndsWithItsToken PromptsHaveChallenge OneLoginPerPush
PROPERTIES ToldWhenDue SessionsEnd PollingEnds

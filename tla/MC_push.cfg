SPECIFICATION FairSpec
CONSTANTS
  p1 = p1
  p2 = p2
  c1 = c1
  c2 = c2
  w1 = w1
  Phone = {p1, p2}
  Client = {c1}
  Waiter = {w1}
  Absent = Absent
  Validity = 2
  Grace = 1
  Waiting = 1
  MaxFail = 1
  MaxChallenge = 2
  MaxTime = 3
INVARIANTS TypeOK GrantedIsAgreed ClosedIsGone
PROPERTIES ExpiryOnlyGrows CodeStays ImplementsOutcome WaitEnds

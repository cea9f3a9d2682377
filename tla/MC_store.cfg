SPECIFICATION Spec
CONSTANTS
  p1 = p1
  p2 = p2
  s1 = s1
  s2 = s2
  Process = {p1, p2}
  Serial = {s1, s2}
  Validity <- Differing
  Buffer = 1
  MaxTxn = 1
  MaxFailures = 1
  MaxTime = 2
SYMMETRY Symmetric
INVARIANTS TypeOK KeysOutliveChallenges IndexCoversHash OwedIsFound ClosedIsGone

SPECIFICATION FairSpec
CONSTANTS
  r1 = r1
  r2 = r2
  c1 = c1
  c2 = c2
  n1 = n1
  Name = {n1}
  NameOf <- OneName
  Nobody = Nobody
  Asking <- CommitOnly
  Run = {r1}
  Call = {c1, c2}
  Direct = {}
  Faulty = {}
  Crashing = {r1, c1}
  Tampered = {}
INVARIANT ContinuationIsDurable
CHECK_DEADLOCK FALSE

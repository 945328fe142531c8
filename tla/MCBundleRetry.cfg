SPECIFICATION FairSpec
CONSTANTS
  r1 = r1
  r2 = r2
  c1 = c1
  c2 = c2
  n1 = n1
  Name = {n1}
  NameOf <- OneName
  Nobody = Nobody
  Asking <- MCAsking
  Run = {r1, r2}
  Call = {c1, c2}
  Direct = {r2}
  Faulty = {}
  Crashing = {r2, c1}
  Tampered = {}
PROPERTIES RecoveryCompletes
CHECK_DEADLOCK FALSE

SPECIFICATION Spec
CONSTANTS
  r1 = r1
  r2 = r2
  c1 = c1
  c2 = c2
  n1 = n1
  Name = {n1}
  NameOf <- OneName
  Nobody = Nobody
  Asking <- MCAsking
  Run = {r1, r2}
  Call = {c1, c2}
  Direct = {r2}
  Faulty = {r1, c2}
  Crashing = {r2, c1}
  Tampered = {r2}
INVARIANTS BundleTypeOK VerifiedIsWhole ProgressIsTrue SuccessIsReleased ContinuationsAgree RejectionIsTrue RecoveryCanBeInspected
PROPERTIES PublishesPrepared
CHECK_DEADLOCK FALSE

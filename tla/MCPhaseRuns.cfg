SPECIFICATION FairSpec
CONSTANTS
  r1 = r1
  r2 = r2
  r3 = r3
  r4 = r4
  a = a
  b = b
  c = c
  k1 = k1
  k2 = k2
  Run = {r1, r2, r3}
  Version = {a, b, c}
  From <- MCFrom
  To <- MCTo
  TempName <- MCRunId
  RunId <- MCRunId
  Key = {k1, k2}
  KeyOf <- MCKeyOf
  Execute = {r1, r2, r3}
  Foreign = {}
  Faulty = {r1}
  Crashing = {r1, r2}
  PowerFails = FALSE
  Edits = {}
  NoRun = NoRun
  NoReceipt = NoReceipt
INVARIANTS TypeOK OneVerifiedExecution DenialIsTrue
PROPERTIES RunsEnd
CHECK_DEADLOCK FALSE

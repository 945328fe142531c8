SPECIFICATION FairSpec
CONSTANTS
  r1 = r1
  r2 = r2
  r3 = r3
  r4 = r4
  a = a
  b = b
  c = c
  k1 = k1
  k2 = k2
  Run = {r1, r2, r3}
  Version = {a, b, c}
  From <- RetryFrom
  To <- RetryTo
  TempName <- MCRunId
  RunId <- MCRunId
  Key = {k1, k2}
  KeyOf <- RetryKeyOf
  Execute = {r1, r2, r3}
  Foreign = {}
  Faulty = {}
  Crashing = {r1, r2}
  PowerFails = FALSE
  Edits = {}
  NoRun = NoRun
  NoReceipt = NoReceipt
PROPERTIES RetrySucceeds
CHECK_DEADLOCK FALSE

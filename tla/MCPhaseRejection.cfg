SPECIFICATION Spec
CONSTANTS
  r1 = r1
  r2 = r2
  r3 = r3
  r4 = r4
  a = a
  b = b
  c = c
  k1 = k1
  k2 = k2
  Run = {r1}
  Version = {a, b, c}
  From <- MCFrom
  To <- MCTo
  TempName <- MCRunId
  RunId <- MCRunId
  Key = {k1, k2}
  KeyOf <- MCKeyOf
  Execute = {r1}
  Foreign = {}
  Faulty = {}
  Crashing = {}
  PowerFails = FALSE
  Edits = {c}
  NoRun = NoRun
  NoReceipt = NoReceipt
INVARIANTS RejectedBeforeMutation
CHECK_DEADLOCK FALSE

SPECIFICATION Spec
CONSTANTS
  r1 = r1
  r2 = r2
  r3 = r3
  r4 = r4
  a = a
  b = b
  c = c
  k1 = k1
  k2 = k2
  Run = {r1, r2, r4}
  Version = {a, b, c}
  From <- MCFrom
  To <- MCTo
  TempName <- SharedRunId
  RunId <- SharedRunId
  Key = {k1, k2}
  KeyOf <- MCKeyOf
  Execute = {r1, r2}
  Foreign = {}
  Faulty = {r1, r2}
  Crashing = {r1, r2}
  PowerFails = TRUE
  Edits = {c}
  NoRun = NoRun
  NoReceipt = NoReceipt
INVARIANTS EffectHasIntent SuccessIsRecorded OneRunPerId ReuseIsFounded
PROPERTIES EvidenceIsWriteOnce AnswersAreKeyed
CHECK_DEADLOCK FALSE

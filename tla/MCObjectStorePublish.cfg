SPECIFICATION MechSpec
CONSTANTS
  r1 = r1
  r2 = r2
  r3 = r3
  a = a
  b = b
  c = c
  Run = {r1, r2, r3}
  Version = {a, b, c}
  From <- MCFrom
  To <- MCTo
  TempName <- MCTempName
  Foreign = {}
  Faulty = {r1, r2, r3}
  Crashing = {r1, r2, r3}
  PowerFails = TRUE
  Edits = {c}
  NoRun = NoRun
INVARIANTS MechTypeOK QuietFailure NoStrayTemporary VerifiedIsDurable
PROPERTIES AtomicPublication
CHECK_DEADLOCK FALSE

SPECIFICATION FairSpec
CONSTANTS
  o1 = o1
  o2 = o2
  c1 = c1
  k1 = k1
  main = main
  NoWriter = NoWriter
  Writer = {o1, o2, c1, k1}
  ActionOf <- MCActionOf
  TargetOf <- MCTargetOf
  Root = {main}
  RootOf <- OneRoot
  Faulty = {o1}
  Crashing = {o2, c1}
INVARIANTS TypeOK ChainReplays VerifiedStays NoEffectNoByte
PROPERTIES TornTailStops AppendEnds RefinesHistory
CHECK_DEADLOCK FALSE

SPECIFICATION Spec
CONSTANTS
  s1 = s1
  s2 = s2
  s3 = s3
  r1 = r1
  r2 = r2
  t1 = t1
  t2 = t2
  Sessions = {s1, s2}
  Refs = {r1, r2}
  Tasks = {t1, t2}
  Limit = 1
  NoSession = NoSession
CONSTRAINT OneChannelShared
SYMMETRY ClumpSymmetry
CHECK_DEADLOCK FALSE
INVARIANTS
  TypeOK
  SavedAtRest
PROPERTIES
  HeldStays
  AssignmentsTruthful

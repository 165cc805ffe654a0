\* Five requests for three accounts on two processes; two Redis commands fail.
CONSTANTS
  f1 = f1
  f2 = f2
  v1 = v1
  r1 = r1
  r2 = r2
  w1 = w1
  w2 = w2
  short = short
  long = long
  wild = wild
  Original = Original
  Nothing = Nothing
  Requests <- MCRequests
  Kind <- MCKind
  Workers = {w1, w2}
  At <- MCAt
  Users = {short, long, wild}
  Extending <- MCExtending
  Matching <- MCMatching
  MaxFaults = 2
CHECK_DEADLOCK FALSE
SPECIFICATION Spec
INVARIANTS
  TypeOK
  ResetByOwnCode
  CodeUsedOnce
  LatestCodeOnly
PROPERTIES
  LostOnlyToMatch

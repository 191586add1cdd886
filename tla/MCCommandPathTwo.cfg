SPECIFICATION FairSpec
CONSTANTS
  q1 = q1
  q2 = q2
  c1 = c1
  c2 = c2
  r1 = r1
  r2 = r2
  ExpiryTimes = {1}
  MaxTime = 2
  Retention = 1
  MaxTargets = 2
  NoTime = NoTime
  Request = {q1, q2}
  CommandId = {c1, c2}
  Robot = {r1}
  IdOf <- DistinctIds
  TargetsOf <- SameTarget
  Refused = {q2}
  Subscriber = {s1}
INVARIANTS
  VerdictMatchesRobot
  SentIffHanded
PROPERTIES
  EverySubmissionSettles

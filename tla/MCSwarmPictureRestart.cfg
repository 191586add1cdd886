\* The telemetry of a robot that is started again.
SPECIFICATION Spec
CONSTANTS
  r1 = r1
  r2 = r2
  Robot = {r1}
  Subscriber = {c1}
  StaleAfter = 1
  LostAfter = 2
  MaxTime = 2
  MaxSeq <- Restart
  NoTime = NoTime
CHECK_DEADLOCK FALSE
INVARIANTS LiveShowsLatestProcess

\* A robot that is started twice and one that appears, one subscriber.
SPECIFICATION Spec
CONSTANTS
  r1 = r1
  r2 = r2
  Robot = {r1, r2}
  Subscriber = {c1}
  StaleAfter = 1
  LostAfter = 2
  MaxTime = 2
  MaxSeq <- RestartAndNewcomer
  NoTime = NoTime
CHECK_DEADLOCK FALSE
INVARIANTS FreshestKept FrameIsCurrent SilentIsNotLive AgeNotOverstated
PROPERTIES ShownNeverRegresses

\* Two robots, one command, a list that is cut.
SPECIFICATION Spec
CONSTANTS
  r1 = r1
  r2 = r2
  c1 = c1
  Robot = {r1, r2}
  Command = {c1}
  Frames <- MCFrames
  MaxAlerts = 3
  MaxSeq = 4
  None = None
INVARIANTS FeedTellsRobots FailureAlertedOnce
PROPERTY AckIsOfShownAndFinal

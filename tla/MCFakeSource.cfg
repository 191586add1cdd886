\* Two robots, two commands, two cycles of link loss.
SPECIFICATION FakeSpec
CONSTANTS
  r1 = r1
  r2 = r2
  u = u
  RobotId = {r1, r2, u}
  Known = {r1, r2}
  Cycling = {r2}
  Speed = {2, 4}
  Radius = {0, 1, 2}
  Omega <- MCOmega
  Start <- MCStart
  TargetLists <- MCTargetLists
  ParamSets <- MCParamSets
  LIVE = 2
  STALE = 2
  LOST = 1
  RETAIN_TICKS = 3
  MaxTicks = 10
  MaxCommands = 2
  None = None
INVARIANT LatestCommandRules
PROPERTIES ImplementsLifecycle PhaseIsSteady
CHECK_DEADLOCK FALSE

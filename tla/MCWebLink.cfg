\* Two commands and room for one in the log, one failure.
SPECIFICATION FairSpec
CONSTANTS
  MaxCommands = 2
  MAX_ENTRIES = 1
  Endings <- AllEndings
  MaxFaults = 1
  MaxPipe = 1
  MaxWire = 2
  None = None
INVARIANTS TypeOK RetryPending StatusTellsHealthOfOneCall BrowserAgreesWithBridge AuditTruthful
PROPERTIES AuditKeepsOutcome ConnectionRecovers

SPECIFICATION FairSpec
CONSTANTS
  RobotId = {r1, empty}
  EmptyId = empty
  Stream = {s1, s2}
  NoStream = NoStream
  MaxAccepted = 3
INVARIANTS
  TypeOK
  NoDanglingReactor
  OneWriteFromTheFront
  HandedOverInOrder
  PumpNeverStalls
PROPERTIES
  QueueDrains
  TeardownCompletes

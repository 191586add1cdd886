SPECIFICATION Spec
CONSTANTS
  RobotId = {r1, empty}
  EmptyId = empty
  Stream = {s1, s2}
  NoStream = NoStream
  MaxAccepted = 1
INVARIANTS
  LinkedRobotIsFound

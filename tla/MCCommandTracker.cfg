SPECIFICATION Spec
SYMMETRY Symmetry
CONSTANTS
  CommandId = {c1, c2}
  Robot = {r1, r2}
  Time <- MCTime
  Retention = 1
  MaxTargets = 2
  NoTime = NoTime
INVARIANTS
  TypeOK
  CompletedIffSettled
PROPERTIES
  TrackedIsStable
  ImplementsLifecycle

\* One robot: it is drawn on its own.
SPECIFICATION Spec
CONSTANTS
  r1 = r1
  Robot = {r1}
  Fix = {0, 1}
  StaleAge = 1
  LostAge = 2
  MaxAge = 3
  Preselected = {r1}
  Layer = {"mission"}
  TRAIL_LEN = 2
INVARIANTS PictureIsCurrent LayersAgree
PROPERTY FrozenForOneOutage

\* Two robots; a command for both is wide.
SPECIFICATION Spec
CONSTANTS
  r1 = r1
  r2 = r2
  Robot = {r1, r2}
  Reported <- MCReported
  Frames <- MCFrames
  Typed <- MCTyped
  CONFIRM_ABOVE = 1
  Preselected <- MCPreselected
  MaxAsks = 2
  None = None
INVARIANTS SentAsAsked ValueOfFirstTarget
PROPERTY WideIsConfirmed

CONSTANTS
  MaxBytes = 2
  Shown = 1
  MaxLine = 5
SPECIFICATION Spec
INVARIANT LineSurvivesFailedRotation
CHECK_DEADLOCK FALSE

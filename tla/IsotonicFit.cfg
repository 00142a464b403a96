SPECIFICATION Spec
CONSTANTS
  Levels = 3
  MaxSamples = 5
CHECK_DEADLOCK FALSE
INVARIANTS BlocksAreRegression CalibrationIsMonotone TiesAreWeighted

CONSTANTS
  User = {u1, u2}
  Task = {t1, t2}
  DEFAULT_START_PORT = 1
  MAX_PORT = 2
  MaxImage = 2
  MaxFaults = 1
  MaxCrashes = 1
SPECIFICATION Spec
SYMMETRY Symmetry
VIEW LiveState
CONSTRAINT StartsApartFromImages
INVARIANTS TypeOK ServiceAnswersAtItsPort PortsAreDistinct NoTaskLeftBehind
PROPERTY StoppedUntilStarted
CHECK_DEADLOCK FALSE

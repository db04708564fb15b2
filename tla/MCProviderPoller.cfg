SPECIFICATION Spec
CONSTANTS
  Signed = TRUE
  MaxAge = 3
  MaxDrift = 0
  UnitsPerSecond = 2
  PollInterval = 1
  ReadDelay = 1
  SendDelay = 1
  MaxRows = 2
  MaxRestarts = 1
  MaxTime = 7
  NewRow <- MCNewRow
INVARIANTS
  TypeOK
  NoneMissed
PROPERTIES
  ForwardedInTime
  NoRepeat
  NeverBackwards

SPECIFICATION Spec
CONSTANTS
  Signed = FALSE
  MaxAge = 3
  MaxDrift = 0
  UnitsPerSecond = 2
  PollInterval = 1
  ReadDelay = 1
  SendDelay = 1
  MaxRows = 1
  MaxRestarts = 1
  MaxTime = 11
  NewRow <- MCSwitchboardRow
PROPERTIES
  ForwardedInTime

SPECIFICATION Spec
CHECK_DEADLOCK FALSE
SYMMETRY Symmetry
CONSTANTS
  ChaosLabs = ChaosLabs
  Autonom = Autonom
  Switchboard = Switchboard
  None = None
  Main = Main
  c1 = c1
  c2 = c2
  Tx = {h1, h2}
  Percentile = 2500
  NumEndpoints = 2
  MaxBatches = 2
  MaxTasks = 2
  FeelessFires = 1
  MaxRestarts = 1
  Pool <- MCPool
  Required <- MCRequired
  Account = {c1, c2}
  Custodies <- MCCustodies
  ConfiguredCu <- MCConfiguredCu
  Sample <- MCSample
INVARIANTS
  TypeOK
  NoUpdateTwice
  NewerStays
  ConfirmedApplied
  TransactionsFaithful
  FeeOfLastSample

SPECIFICATION Spec
CONSTANTS
  ChaosLabs = ChaosLabs
  Autonom = Autonom
  Switchboard = Switchboard
  Mixed = Mixed
  OldestRead = 3
  None = None
  Provider <- MCProvider
  Pool <- MCPool
  Required <- MCRequired
  Capacity = 64
  Window = 10
  PollTick = 1
  ReadAge <- MCReadAge
  MaxReadAge <- MCMaxReadAge
  OnChainStaleness = 14
  MaxUpdates = 1
PROPERTIES
  FreshWhenFired

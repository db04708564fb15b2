SPECIFICATION Spec
CONSTANTS
  ChaosLabs = ChaosLabs
  Autonom = Autonom
  Main = Main
  Mixed = Mixed
  None = None
  Provider <- MCProvider
  Pool <- MCPool
  Required <- MCRequired
  Capacity = 2
  Window = 3
  PollTick = 2
  ReadAge <- MCReadAge
  MaxReadAge <- MCMaxReadAge
  OnChainStaleness = 7
  MaxUpdates = 3
INVARIANTS
  TypeOK
  WindowBound
  WindowOpenIffPending
  AgeBound
  StreamsInOrder
  NewestKept
  CompleteFiresAtOnce
  IInv
PROPERTIES
  PartialFiresSpaced
  FeedSafe

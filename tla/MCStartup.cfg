SPECIFICATION FairSpec
CHECK_DEADLOCK FALSE
CONSTANTS
  ChaosLabs = ChaosLabs
  Autonom = Autonom
  Switchboard = Switchboard
  Unknown = Unknown
  Default = Default
  c1 = c1
  c2 = c2
  s1 = s1
  hashA = hashA
  hashB = hashB
  NoHash = NoHash
  FirstId = 2
  LastId = 3
  Args <- MCArgs
  Provider <- MCProvider
  Configs <- MCConfigs
  Accounts <- MCAccounts
INVARIANTS
  TypeOK
  ServedPoolsMatched
  ServedPoolsFed
  OnlyFailedQuarantined
  FailsOnlyWithCause
  FeedMapSound
PROPERTIES
  Starts

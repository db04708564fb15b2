SPECIFICATION Spec
CHECK_DEADLOCK FALSE
CONSTANTS
  ChaosLabs = ChaosLabs
  Autonom = Autonom
  Switchboard = Switchboard
  Unknown = Unknown
  Default = Default
  c1 = c1
  c2 = c2
  s1 = s1
  hashA = hashA
  hashB = hashB
  NoHash = NoHash
  FirstId = 2
  LastId = 3
  Args <- MCDefaultArgs
  Provider <- MCProvider
  Configs <- MCSameName
  Accounts <- MCAccounts
INVARIANTS
  OnlyFailedQuarantined

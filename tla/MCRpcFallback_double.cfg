SPECIFICATION Spec
CONSTANTS
  NumEndpoints = 3
  RpcTimeout = 10
  ConfirmPolls = 4
  ConfirmInterval = 1
  Latency = {1, 10}
  Blockhash = {h1, h2, h3}
  None = None
INVARIANTS
  OneLands

SPECIFICATION Spec
CONSTANTS
  a = a
  b = b
  NoTx = NoTx
  Senders <- MCSenders
  Txs <- MCTxs
  Policies <- MCPolicies
  Orders <- MCOrders
  Heights = {1, 2}
  PrivateMax = 1
  MaxTicks = 2
  MaxEvents = 5
CHECK_DEADLOCK FALSE
INVARIANTS
  ReadyIsLongestRun
  BlockIsDeterministic
  OwnBlockAccepted
  
  BestAreSelected

SPECIFICATION Spec
CONSTANTS
  x1 = x1
  x2 = x2
  Bodies = {"text"}
  Dues = {"due"}
  Txs = {x1, x2}
  NKeys = 2
  NoCard = NoCard
  Untouched = Untouched
  NoTx = NoTx
  MaxCards = 2
  Pushable <- Copies
  MaxHorizon = 1
INVARIANT NoDeadlock

SPECIFICATION LegacySpec
CONSTANTS
  move = move
  swap = swap
  pub = pub
  Orders <- MoveAndPub
  Type <- TypeOf
  Parent <- Unchained
  InitialQty <- One
  PatchQtys = {2}
  Procs = {p, u}
  Ops = {"approve", "dispatch"}
  Clients = {}
  NamedSides = {}
  Watched = {}
  Batches <- PubThenMove
  Attempts = {"ok"}
  MaxFaults = 1
  NoOrder = NoOrder
  NoProc = NoProc
  Legacy = {u}
  V1Ops = {"approve", "reject", "receive", "refuse", "edit"}
  V1Clients = {"hq"}
  V1Lists <- AllOrders
INVARIANTS NothingMovedBefore
PROPERTIES OnlyForward ApprovedByBoth RejectClosesAll

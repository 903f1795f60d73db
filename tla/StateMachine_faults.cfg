SPECIFICATION Spec
CONSTANTS
  move = move
  swap = swap
  wide = wide
  pub = pub
  c1 = c1
  c2 = c2
  Orders <- PublisherTree
  Type <- TypeOf
  Parent <- ParentOf
  InitialQty <- One
  PatchQtys = {}
  Procs = {p, q}
  Ops = {"approve", "dispatch", "receive", "reject"}
  Clients = {"hq"}
  NamedSides = {}
  Watched = {}
  Batches <- BatchOfPair
  Attempts = {"ok", "redis_down", "lost", "late"}
  MaxFaults = 1
  NoOrder = NoOrder
  NoProc = NoProc
INVARIANTS NoChainUnderRejected
SYMMETRY ProcSymmetry

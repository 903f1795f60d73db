SPECIFICATION FairSpec
CONSTANTS
  move = move
  swap = swap
  wide = wide
  pub = pub
  c1 = c1
  c2 = c2
  Orders <- TwoMoves
  Type <- TypeOf
  Parent <- ParentOf
  InitialQty <- Two
  PatchQtys = {}
  Procs = {p, q}
  Ops = {"approve", "dispatch"}
  Clients = {}
  NamedSides = {}
  Watched = {}
  Batches <- BatchesOfTwo
  Attempts = {"refused", "late"}
  MaxFaults = 1
  NoOrder = NoOrder
  NoProc = NoProc
PROPERTIES RequestsFinish

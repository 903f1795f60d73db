SPECIFICATION Spec
CONSTANTS
  move = move
  swap = swap
  wide = wide
  pub = pub
  c1 = c1
  c2 = c2
  Orders <- TransferTree
  Type <- TypeOf
  Parent <- ParentOf
  InitialQty <- Two
  PatchQtys = {}
  Procs = {p, q}
  Ops = {"approve", "dispatch", "receive", "reject"}
  Clients = {"hq"}
  NamedSides = {"SOURCE"}
  Watched = {}
  Batches = {}
  Attempts = {"ok"}
  MaxFaults = 0
  NoOrder = NoOrder
  NoProc = NoProc
INVARIANTS NoChainUnderRejected
PROPERTIES ImplementsLifecycle
SYMMETRY ProcSymmetry

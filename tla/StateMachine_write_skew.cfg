SPECIFICATION Spec
CONSTANTS
  move = move
  swap = swap
  wide = wide
  pub = pub
  c1 = c1
  c2 = c2
  Orders <- OneMove
  Type <- TypeOf
  Parent <- ParentOf
  InitialQty <- Two
  PatchQtys = {}
  Procs = {p, q}
  Ops = {"approve"}
  Clients = {"hq", "source", "target"}
  NamedSides = {}
  Watched = {}
  Batches = {}
  Attempts = {"ok"}
  MaxFaults = 0
  NoOrder = NoOrder
  NoProc = NoProc
INVARIANTS BothSidesSuffice
SYMMETRY ProcSymmetry

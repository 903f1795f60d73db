SPECIFICATION Spec
CONSTANTS
  move = move
  swap = swap
  wide = wide
  pub = pub
  c1 = c1
  c2 = c2
  Orders <- OneMove
  Type <- TypeOf
  Parent <- ParentOf
  InitialQty <- Two
  PatchQtys = {}
  Procs = {p, q}
  Ops = {"approve", "dispatch"}
  Clients = {"hq"}
  NamedSides = {}
  Watched = {}
  Batches = {}
  Attempts = {"ok", "lost", "late"}
  MaxFaults = 1
  NoOrder = NoOrder
  NoProc = NoProc
INVARIANTS DeductedOnce
SYMMETRY ProcSymmetry

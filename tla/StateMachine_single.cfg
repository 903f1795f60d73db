SPECIFICATION Spec
CONSTANTS
  move = move
  swap = swap
  wide = wide
  pub = pub
  c1 = c1
  c2 = c2
  Orders <- OneMove
  Type <- TypeOf
  Parent <- ParentOf
  InitialQty <- Two
  PatchQtys = {1, 2}
  Procs = {p, q}
  Ops = {"approve", "dispatch", "receive", "reject", "patch"}
  Clients = {"hq", "source", "target"}
  NamedSides = {"SOURCE", "TARGET", "FINAL"}
  Watched <- AllEvents
  Batches = {}
  Attempts = {"ok", "refused"}
  MaxFaults = 0
  NoOrder = NoOrder
  NoProc = NoProc
INVARIANTS TypeOK StampsMatchStatus StockMatchesStatus NoneWithoutConsent EventsOnceAndTrue
PROPERTIES ImplementsLifecycle
SYMMETRY ProcSymmetry

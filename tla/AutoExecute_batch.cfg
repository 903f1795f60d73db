SPECIFICATION AutoSpec
CONSTANTS
  move = move
  swap = swap
  pub = pub
  Orders <- MovesAndPublisher
  Type <- TypeOf
  Parent <- Unchained
  InitialQty <- One
  PatchQtys = {}
  Procs = {p}
  Ops = {"approve", "dispatch", "receive", "reject"}
  Clients = {"target"}
  NamedSides = {}
  Watched = {}
  Batches <- BatchOfTwo
  Attempts = {"ok"}
  MaxFaults = 1
  NoOrder = NoOrder
  NoProc = NoProc
  Eligible <- Urgent
  Cron = Cron
INVARIANTS FinishedBatchClosesAll
PROPERTIES BatchMovesNoStock

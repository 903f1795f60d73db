SPECIFICATION FairSpec
CONSTANTS
  a = a
  b = b
  Cells <- TwoCells
  Rids = {r1, r2, r3}
  OnHand <- SomeStock
  Shown = {b}
  Deltas <- OneOut
  MaxQty = 1
  BatchSize = 2
  Procs = {p, q}
  Job = Job
  MaxOnHand = 2
  MaxFaults = 1
  NoProc = NoProc
  NoCell = NoCell
INVARIANTS TypeOK ReservedMatchesActive NeverNegative ScreensCatchUp
PROPERTIES NoOverbooking LapsedAreReleased

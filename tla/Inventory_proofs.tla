-------------------------- MODULE Inventory_proofs --------------------------
(***************************************************************************)
(* Proofs about Inventory, for any cells, reservations, requests, batch    *)
(* size and faults the constants allow.                                    *)
(***************************************************************************)
EXTENDS Inventory, FiniteSetTheorems, TLAPS

-----------------------------------------------------------------------------
(* The inductive invariant *)

\* A request that runs is about a cell, one that has written has its lock, and
\* the step it stands at is one of its operation.
RequestsInv ==
    \A p \in Procs :
        /\ pc[p] # "idle" => req[p].cell \in Cells
        /\ pc[p] # "idle" /\ req[p].op = "reserve" => req[p].n \in 1 .. MaxQty
        /\ pc[p] \in {"check", "insert"} => lock[req[p].cell] = p
        /\ pc[p] = "check" => req[p].op = "adjust"
        /\ pc[p] = "insert" => req[p].op = "reserve"

\* What a writer has changed in the draft of a cell.
DraftOK(c) ==
    /\ \A p \in Procs : lock[c] = p =>
          /\ pc[p] = "check" => draft[c].reserved = stock[c].reserved
          /\ pc[p] = "insert" =>
                /\ draft[c].on_hand = stock[c].on_hand
                /\ draft[c].reserved = stock[c].reserved + req[p].n
                /\ Available(draft[c]) >= 0
    /\ lock[c] = Job =>
          /\ draft[c].on_hand = stock[c].on_hand
          /\ draft[c].reserved = Held(ActiveOf(c) \ job.rows)

DraftsInv == \A c \in Cells : DraftOK(c)

\* A run releases active reservations, each in a cell it has relieved or will.
JobInv ==
    job.phase = "release" =>
        \A r \in job.rows :
            /\ res[r].status = "ACTIVE"
            /\ res[r].cell \in job.cells \/ lock[res[r].cell] = Job

ActiveInv == \A r \in Rids : res[r].status = "ACTIVE" => res[r].cell \in Cells

StockInv == ReservedMatchesActive /\ NeverNegative

TypeInv == TypeOK /\ RequestsInv /\ ActiveInv

Inv == TypeInv /\ JobInv /\ DraftsInv /\ StockInv

-----------------------------------------------------------------------------
(* What the reservations of a set hold *)

Piece(rs, R) == {x \in Rids \X (1 .. MaxQty) : x[1] \in R /\ x[2] <= rs[x[1]].qty}

Amount(rs, R) == Cardinality(Piece(rs, R))

LEMMA PieceFinite ==
    ASSUME NEW rs, NEW R
    PROVE  IsFiniteSet(Piece(rs, R)) /\ Amount(rs, R) \in Nat
<1>1. IsFiniteSet(1 .. MaxQty)
  BY FS_Interval, InventoryAssumption
<1>2. IsFiniteSet(Rids \X (1 .. MaxQty))
  BY <1>1, FS_Product, InventoryAssumption
<1>3. IsFiniteSet(Piece(rs, R))
  BY <1>2, FS_Subset DEF Piece
<1>4. QED
  BY <1>3, FS_CardinalityType DEF Amount

\* What a set holds, a part of it and the rest hold together.
LEMMA AmountSplit ==
    ASSUME NEW rs, NEW R, NEW S \in SUBSET R
    PROVE  Amount(rs, R) = Amount(rs, S) + Amount(rs, R \ S)
<1>1. /\ Piece(rs, R) = Piece(rs, S) \cup Piece(rs, R \ S)
      /\ Piece(rs, S) \cap Piece(rs, R \ S) = {}
  BY DEF Piece
<1>2. Cardinality(Piece(rs, R)) = Cardinality(Piece(rs, S))
         + Cardinality(Piece(rs, R \ S)) - Cardinality({})
  BY <1>1, FS_Union, PieceFinite
<1>3. Cardinality({}) = 0
  BY FS_EmptySet
<1>4. QED
  BY <1>2, <1>3, PieceFinite DEF Amount

\* The amount depends on the quantities of the members alone.
LEMMA AmountSame ==
    ASSUME NEW rs, NEW ss, NEW R \in SUBSET Rids,
           \A r \in R : rs[r].qty = ss[r].qty
    PROVE  Amount(rs, R) = Amount(ss, R)
<1>1. Piece(rs, R) = Piece(ss, R)
  BY DEF Piece
<1>2. QED
  BY <1>1 DEF Amount

\* A single reservation holds its quantity.
LEMMA AmountOne ==
    ASSUME NEW rs, NEW r \in Rids, NEW n \in 1 .. MaxQty, rs[r].qty = n
    PROVE  Amount(rs, {r}) = n
<1>1. Piece(rs, {r}) = {r} \X (1 .. n)
  BY InventoryAssumption DEF Piece
<1>2. IsFiniteSet({r}) /\ Cardinality({r}) = 1
  BY FS_Singleton
<1>3. n \in Int /\ 1 \in Int /\ n >= 1
  BY InventoryAssumption
<1>4. /\ IsFiniteSet(1 .. n)
      /\ Cardinality(1 .. n) = IF 1 > n THEN 0 ELSE n - 1 + 1
  BY <1>3, FS_Interval
<1>5. Cardinality({r} \X (1 .. n)) = Cardinality({r}) * Cardinality(1 .. n)
  BY <1>2, <1>4, FS_Product, Zenon
<1>6. Cardinality(1 .. n) = n
  BY <1>3, <1>4
<1>7. Cardinality(Piece(rs, {r})) = 1 * n
  BY <1>1, <1>2, <1>5, <1>6, Zenon
<1>8. QED
  BY <1>3, <1>7 DEF Amount

-----------------------------------------------------------------------------
(* Types *)

\* Undo and Keep let go of the cells of one writer.
LEMMA LetGo ==
    ASSUME TypeInv, NEW w \in Procs \cup {Job}, Undo(w) \/ Keep(w)
    PROVE  /\ stock' \in [Cells -> Cell]
           /\ draft' \in [Cells -> Cell]
           /\ lock' \in [Cells -> Procs \cup {Job, NoProc}]
           /\ \A c \in Cells : lock'[c] = IF lock[c] = w THEN NoProc ELSE lock[c]
  BY DEF TypeInv, TypeOK, Undo, Keep

\* A request that finishes after letting go of its cells.
LEMMA FinishType ==
    ASSUME TypeInv, NEW p \in Procs, Undo(p) \/ Keep(p), Finish(p),
           res' = res, UNCHANGED <<lapsed, job, fetched, stale>>,
           faults' \in 0 .. MaxFaults
    PROVE  TypeInv'
<1> USE InventoryAssumption DEF TypeInv, TypeOK, Finish, Goto
<1>1. req' \in [Procs -> Request] /\ pc' \in [Procs -> Steps]
  BY DEF Request, NoRequest, Steps
<1>2. LocksHaveOwners'
  BY LetGo DEF LocksHaveOwners
<1>3. RequestsInv'
  BY LetGo DEF RequestsInv, LocksHaveOwners
<1>4. ActiveInv'
  BY DEF ActiveInv
<1>5. QED
  BY <1>1, <1>2, <1>3, <1>4, LetGo

\* A request that writes a free cell, or goes on to a step of its own.
LEMMA WriteType ==
    ASSUME TypeInv, NEW w \in Procs \cup {Job}, NEW c \in Cells,
           NEW r \in Cell, lock[c] = NoProc, Write(w, c, r)
    PROVE  /\ draft' \in [Cells -> Cell]
           /\ lock' \in [Cells -> Procs \cup {Job, NoProc}]
           /\ lock' = [lock EXCEPT ![c] = w]
  BY DEF TypeInv, TypeOK, Write

LEMMA InitType == Init => TypeInv
<1> SUFFICES ASSUME Init PROVE TypeInv
  OBVIOUS
<1> USE InventoryAssumption DEF Init
<1>1. stock \in [Cells -> Cell] /\ draft \in [Cells -> Cell]
  BY DEF Cell
<1>2. res \in [Rids -> Reservation] /\ ActiveInv
  BY DEF Reservation, NoReservation, ActiveInv
<1>3. req \in [Procs -> Request] /\ pc \in [Procs -> Steps]
  BY DEF Request, NoRequest, Steps
<1>4. LocksHaveOwners /\ RequestsInv
  BY DEF LocksHaveOwners, RequestsInv
<1>5. QED
  BY <1>1, <1>2, <1>3, <1>4 DEF TypeInv, TypeOK, NoRun

LEMMA RequestType ==
    ASSUME TypeInv, NEW p \in Procs, AdjustRequest(p) \/ ReserveRequest(p)
    PROVE  TypeInv'
<1> USE InventoryAssumption DEF TypeInv, TypeOK, Goto, dbVars
<1>1. PICK r \in Request :
          /\ pc[p] = "idle"
          /\ r.cell \in Cells
          /\ r.op = "reserve" => r.n \in 1 .. MaxQty
          /\ req' = [req EXCEPT ![p] = r]
          /\ pc' = [pc EXCEPT ![p] = "update"]
          /\ UNCHANGED <<stock, draft, lock, res, lapsed, job, fetched, stale, faults>>
  <2>1. CASE AdjustRequest(p)
    <3>1. PICK c \in Cells, d \in Deltas :
              /\ pc[p] = "idle"
              /\ req' = [req EXCEPT ![p] = [op |-> "adjust", cell |-> c, n |-> d]]
      BY <2>1 DEF AdjustRequest
    <3>2. [op |-> "adjust", cell |-> c, n |-> d] \in Request
      BY DEF Request
    <3>3. QED
      BY <2>1, <3>1, <3>2 DEF AdjustRequest
  <2>2. CASE ReserveRequest(p)
    <3>1. PICK c \in Cells, q \in 1 .. MaxQty :
              /\ pc[p] = "idle"
              /\ req' = [req EXCEPT ![p] = [op |-> "reserve", cell |-> c, n |-> q]]
      BY <2>2 DEF ReserveRequest
    <3>2. [op |-> "reserve", cell |-> c, n |-> q] \in Request
      BY DEF Request
    <3>3. QED
      BY <2>2, <3>1, <3>2 DEF ReserveRequest
  <2>3. QED
    BY <2>1, <2>2
<1>2. req' \in [Procs -> Request] /\ pc' \in [Procs -> Steps]
  BY <1>1 DEF Steps
<1>3. LocksHaveOwners' /\ RequestsInv' /\ ActiveInv'
  BY <1>1 DEF LocksHaveOwners, RequestsInv, ActiveInv
<1>4. QED
  BY <1>1, <1>2, <1>3

LEMMA UpdateType ==
    ASSUME TypeInv, NEW p \in Procs, AdjustUpdate(p) \/ ReserveUpdate(p)
    PROVE  TypeInv'
<1> DEFINE c == req[p].cell
<1> USE InventoryAssumption DEF TypeInv, TypeOK, Goto, dbVars
<1>1. /\ pc[p] = "update"
      /\ c \in Cells
      /\ lock[c] = NoProc
      /\ UNCHANGED <<stock, res, lapsed, req, job, fetched, stale, faults>>
  BY DEF AdjustUpdate, ReserveUpdate, Reserving, RequestsInv
<1>2. PICK s \in {"check", "insert"} :
          /\ pc' = [pc EXCEPT ![p] = s]
          /\ s = "check" => req[p].op = "adjust"
          /\ s = "insert" => req[p].op = "reserve"
  BY DEF AdjustUpdate, ReserveUpdate, Reserving
<1>3. PICK r \in Cell : Write(p, c, r)
  <2>1. stock[c] \in Cell /\ req[p].n \in Int
    BY <1>1 DEF Request
  <2>2. QED
    BY <2>1 DEF AdjustUpdate, ReserveUpdate, Cell
<1>4. lock' = [lock EXCEPT ![c] = p]
  BY <1>3 DEF Write
<1>5. LocksHaveOwners' /\ RequestsInv' /\ ActiveInv'
  BY <1>1, <1>2, <1>4 DEF LocksHaveOwners, RequestsInv, ActiveInv
<1>6. QED
  BY <1>1, <1>2, <1>3, <1>5, WriteType DEF Steps

LEMMA AdjustCommitType ==
    ASSUME TypeInv, NEW p \in Procs, AdjustCommit(p)
    PROVE  TypeInv'
<1> USE InventoryAssumption DEF TypeInv, TypeOK, AdjustCommit, Goto
<1>1. LocksHaveOwners' /\ RequestsInv' /\ ActiveInv'
  BY LetGo DEF LocksHaveOwners, RequestsInv, ActiveInv
<1>2. QED
  BY <1>1, LetGo DEF Steps

LEMMA PublishType ==
    ASSUME TypeInv, NEW p \in Procs, PublishStock(p)
    PROVE  TypeInv'
<1> USE InventoryAssumption DEF TypeInv, TypeOK, PublishStock, Finish, Goto, dbVars
<1>1. req' \in [Procs -> Request] /\ pc' \in [Procs -> Steps]
  BY DEF Request, NoRequest, Steps
<1>2. stale' \in SUBSET Shown /\ faults' \in 0 .. MaxFaults
  OBVIOUS
<1>3. LocksHaveOwners' /\ RequestsInv' /\ ActiveInv'
  BY DEF LocksHaveOwners, RequestsInv, ActiveInv
<1>4. QED
  BY <1>1, <1>2, <1>3

LEMMA ReserveRefusedType ==
    ASSUME TypeInv, NEW p \in Procs, ReserveRefused(p)
    PROVE  TypeInv'
<1> USE InventoryAssumption DEF TypeInv, TypeOK, ReserveRefused, Reserving, Finish, Goto, dbVars
<1>1. req' \in [Procs -> Request] /\ pc' \in [Procs -> Steps]
  BY DEF Request, NoRequest, Steps
<1>2. LocksHaveOwners' /\ RequestsInv' /\ ActiveInv'
  BY DEF LocksHaveOwners, RequestsInv, ActiveInv
<1>3. QED
  BY <1>1, <1>2

LEMMA ReserveCommitType ==
    ASSUME TypeInv, NEW p \in Procs, ReserveCommit(p)
    PROVE  TypeInv'
<1> USE InventoryAssumption DEF TypeInv, TypeOK, Finish, Goto
<1>1. PICK r \in Unused :
          res' = [res EXCEPT ![r] = [cell |-> req[p].cell, qty |-> req[p].n,
                                     status |-> "ACTIVE"]]
  BY DEF ReserveCommit
<1>2. /\ pc[p] = "insert" /\ req[p].op = "reserve"
      /\ Keep(p) /\ Finish(p)
      /\ UNCHANGED <<lapsed, job, fetched, stale, faults>>
  BY DEF ReserveCommit
<1>3. req[p].cell \in Cells /\ req[p].n \in 0 .. MaxQty
  BY <1>2 DEF RequestsInv
<1>4. res' \in [Rids -> Reservation] /\ ActiveInv'
  BY <1>1, <1>3 DEF Reservation, ActiveInv, Unused
<1>5. req' \in [Procs -> Request] /\ pc' \in [Procs -> Steps]
  BY <1>2 DEF Request, NoRequest, Steps
<1>6. LocksHaveOwners' /\ RequestsInv'
  BY <1>2, LetGo DEF LocksHaveOwners, RequestsInv
<1>7. QED
  BY <1>2, <1>4, <1>5, <1>6, LetGo

LEMMA CleanupSelectType ==
    ASSUME TypeInv, CleanupSelect
    PROVE  TypeInv'
<1> USE InventoryAssumption DEF TypeInv, TypeOK, dbVars
<1>1. PICK R \in SUBSET Lapsed :
          job' = [phase |-> "release", rows |-> R, cells |-> {res[r].cell : r \in R}]
  BY DEF CleanupSelect
<1>2. R \subseteq Rids /\ {res[r].cell : r \in R} \subseteq Cells
  BY DEF Lapsed, ActiveInv
<1>3. UNCHANGED <<stock, draft, lock, res, lapsed, pc, req, fetched, stale, faults>>
  BY DEF CleanupSelect
<1>4. LocksHaveOwners' /\ RequestsInv' /\ ActiveInv'
  BY <1>1, <1>3 DEF LocksHaveOwners, RequestsInv, ActiveInv
<1>5. QED
  BY <1>1, <1>2, <1>3, <1>4

LEMMA GreatestType ==
    ASSUME NEW R, NEW n \in Int
    PROVE  Greatest(0, n - Held(R)) \in Int
<1>1. Held(R) = Amount(res, R)
  BY DEF Held, Copies, Amount, Piece
<1>2. QED
  BY <1>1, PieceFinite DEF Greatest

LEMMA CleanupReleaseType ==
    ASSUME TypeInv, NEW c \in Cells, CleanupRelease(c)
    PROVE  TypeInv'
<1> USE InventoryAssumption DEF TypeInv, TypeOK
<1> DEFINE n == Greatest(0, stock[c].reserved - Held(job.rows \cap ActiveOf(c)))
<1>1. n \in Int
  BY GreatestType DEF Cell
<1>2. [stock[c] EXCEPT !.reserved = n] \in Cell
  BY <1>1 DEF Cell
<1>3. /\ lock[c] = NoProc
      /\ Write(Job, c, [stock[c] EXCEPT !.reserved = n])
      /\ job.phase = "release"
      /\ job' = [job EXCEPT !.cells = @ \ {c}]
      /\ UNCHANGED <<stock, res, lapsed, pc, req, fetched, stale, faults>>
  BY DEF CleanupRelease
<1>4. /\ draft' \in [Cells -> Cell]
      /\ lock' \in [Cells -> Procs \cup {Job, NoProc}]
      /\ lock' = [lock EXCEPT ![c] = Job]
  BY <1>2, <1>3, WriteType
<1>5. LocksHaveOwners' /\ RequestsInv' /\ ActiveInv'
  BY <1>3, <1>4 DEF LocksHaveOwners, RequestsInv, ActiveInv
<1>6. QED
  BY <1>3, <1>4, <1>5

\* The end of a run, committed or undone.
LEMMA CleanupEndType ==
    ASSUME TypeInv, CleanupCommit \/ CleanupCrash
    PROVE  TypeInv'
<1> USE InventoryAssumption DEF TypeInv, TypeOK, CleanupCommit, CleanupCrash
<1>1. job' = NoRun /\ UNCHANGED <<lapsed, pc, req, fetched, stale>>
      /\ faults' \in 0 .. MaxFaults
  OBVIOUS
<1>2. Undo(Job) \/ Keep(Job)
  OBVIOUS
<1>3. res' \in [Rids -> Reservation] /\ ActiveInv'
  BY DEF Reservation, ActiveInv
<1>4. LocksHaveOwners' /\ RequestsInv'
  BY <1>1, <1>2, LetGo DEF LocksHaveOwners, RequestsInv
<1>5. QED
  BY <1>1, <1>2, <1>3, <1>4, LetGo DEF NoRun

LEMMA NextType == TypeInv /\ [Next]_vars => TypeInv'
<1> SUFFICES ASSUME TypeInv, [Next]_vars PROVE TypeInv'
  OBVIOUS
<1>1. ASSUME NEW p \in Procs, AdjustRefused(p) \/ Crash(p) PROVE TypeInv'
  <2>1. faults' \in 0 .. MaxFaults
    BY <1>1, InventoryAssumption DEF AdjustRefused, Crash, TypeInv, TypeOK
  <2>2. QED
    BY <1>1, <2>1, FinishType DEF AdjustRefused, Crash
<1>2. ASSUME NEW p \in Procs, AdjustRequest(p) \/ ReserveRequest(p) PROVE TypeInv'
  BY <1>2, RequestType
<1>3. ASSUME NEW p \in Procs, Work(p) PROVE TypeInv'
  BY <1>1, <1>3, UpdateType, AdjustCommitType, PublishType, ReserveRefusedType,
     ReserveCommitType DEF Work
<1>4. ASSUME NEW c \in Cells, Refetch(c) PROVE TypeInv'
  BY <1>4 DEF Refetch, TypeInv, TypeOK, Cell, LocksHaveOwners, RequestsInv, ActiveInv, dbVars
<1>5. ASSUME NEW r \in Rids, Lapse(r) PROVE TypeInv'
  BY <1>5 DEF Lapse, TypeInv, TypeOK, LocksHaveOwners, RequestsInv, ActiveInv, dbVars
<1>6. CASE UNCHANGED vars
  BY <1>6 DEF vars, TypeInv, TypeOK, LocksHaveOwners, RequestsInv, ActiveInv
<1>7. QED
  BY <1>1, <1>2, <1>3, <1>4, <1>5, <1>6, CleanupReleaseType, CleanupSelectType,
     CleanupEndType DEF Next

\* Every variable of inventory-svc keeps its type, and a cell is locked only by
\* a transaction that is still open and about that cell.
THEOREM CellsTypeCorrect == Spec => []TypeOK
<1>1. Spec => []TypeInv
  BY InitType, NextType, PTL DEF Spec
<1>2. QED
  BY <1>1, PTL DEF TypeInv

-----------------------------------------------------------------------------
(* Stock and reservations *)

LEMMA HeldAmount ==
    /\ \A R : Held(R) = Amount(res, R)
    /\ \A c \in Cells :
          /\ Held(ActiveOf(c))' = Amount(res', ActiveOf(c)')
          /\ Held(ActiveOf(c) \ job.rows)' = Amount(res', (ActiveOf(c) \ job.rows)')
  BY DEF Held, Copies, Amount, Piece

\* Reservations that stay as they are keep holding what they hold.
LEMMA SameReservations ==
    ASSUME res' = res, NEW c \in Cells
    PROVE  /\ Held(ActiveOf(c))' = Held(ActiveOf(c))
           /\ job' = job => Held(ActiveOf(c) \ job.rows)' = Held(ActiveOf(c) \ job.rows)
<1>1. ActiveOf(c)' = ActiveOf(c)
  BY DEF ActiveOf
<1>2. QED
  BY <1>1, HeldAmount

\* A new reservation is one of its own cell, and adds its quantity to it.
LEMMA NewReservation ==
    ASSUME Inv, NEW p \in Procs, ReserveCommit(p), NEW c \in Cells
    PROVE  /\ c # req[p].cell =>
                 /\ Held(ActiveOf(c))' = Held(ActiveOf(c))
                 /\ Held(ActiveOf(c) \ job.rows)' = Held(ActiveOf(c) \ job.rows)
           /\ c = req[p].cell => Held(ActiveOf(c))' = Held(ActiveOf(c)) + req[p].n
<1>1. PICK r \in Rids :
          /\ res[r].status = "UNUSED"
          /\ res' = [res EXCEPT ![r] = [cell |-> req[p].cell, qty |-> req[p].n,
                                        status |-> "ACTIVE"]]
  BY DEF ReserveCommit, Unused
<1>2. /\ pc[p] = "insert" /\ req[p].op = "reserve" /\ job' = job
      /\ req[p].n \in 1 .. MaxQty
  BY DEF ReserveCommit, Inv, TypeInv, RequestsInv
<1>3. res \in [Rids -> Reservation]
  BY DEF Inv, TypeInv, TypeOK
<1>4. \A k \in Rids \ {r} : res'[k] = res[k]
  BY <1>1, <1>3
<1>5. /\ res'[r].qty = req[p].n
      /\ res'[r].cell = req[p].cell
      /\ res'[r].status = "ACTIVE"
  BY <1>1, <1>3
<1>6. ActiveOf(c) \subseteq Rids \ {r}
  BY <1>1 DEF ActiveOf
<1>7. CASE c # req[p].cell
  <2>1. ActiveOf(c)' = ActiveOf(c)
    BY <1>4, <1>5, <1>6, <1>7 DEF ActiveOf
  <2>2. /\ Amount(res', ActiveOf(c)) = Amount(res, ActiveOf(c))
        /\ Amount(res', ActiveOf(c) \ job.rows) = Amount(res, ActiveOf(c) \ job.rows)
    BY <1>4, <1>6, AmountSame
  <2>3. QED
    BY <1>2, <1>7, <2>1, <2>2, HeldAmount
<1>8. CASE c = req[p].cell
  <2>1. ActiveOf(c)' = ActiveOf(c) \cup {r}
    BY <1>4, <1>5, <1>6, <1>8 DEF ActiveOf
  <2>2. Amount(res', ActiveOf(c) \cup {r})
           = Amount(res', {r}) + Amount(res', (ActiveOf(c) \cup {r}) \ {r})
    BY AmountSplit
  <2>3. (ActiveOf(c) \cup {r}) \ {r} = ActiveOf(c)
    BY <1>6
  <2>4. Amount(res', ActiveOf(c)) = Amount(res, ActiveOf(c))
    BY <1>4, <1>6, AmountSame
  <2>5. Amount(res', {r}) = req[p].n
    BY <1>2, <1>5, AmountOne
  <2>6. Held(ActiveOf(c))' = req[p].n + Held(ActiveOf(c))
    BY <2>1, <2>2, <2>3, <2>4, <2>5, HeldAmount
  <2>7. Held(ActiveOf(c)) \in Nat /\ req[p].n \in Nat
    BY <1>2, HeldAmount, PieceFinite, InventoryAssumption
  <2>8. QED
    BY <1>8, <2>6, <2>7
<1>9. QED
  BY <1>7, <1>8

\* A cell whose versions, writer and reservations stay as they are.
LEMMA DraftKept ==
    ASSUME TypeInv, NEW c \in Cells, DraftOK(c),
           lock'[c] = lock[c], draft'[c] = draft[c], stock'[c] = stock[c],
           \A p \in Procs : lock[c] = p => pc'[p] = pc[p] /\ req'[p] = req[p],
           lock[c] = Job =>
              Held(ActiveOf(c) \ job.rows)' = Held(ActiveOf(c) \ job.rows)
    PROVE  DraftOK(c)'
  BY DEF DraftOK, Available

\* A cell nobody writes has nothing to answer for.
LEMMA DraftFree ==
    ASSUME NEW c \in Cells, lock'[c] = NoProc
    PROVE  DraftOK(c)'
  BY InventoryAssumption DEF DraftOK

LEMMA JobKept ==
    ASSUME JobInv, job' = job,
           \A c \in Cells \cup {NoCell} : lock[c] = Job => lock'[c] = Job,
           \A r \in Rids : res[r].status = "ACTIVE" => res'[r] = res[r],
           TypeInv
    PROVE  JobInv'
<1>1. \A r \in job.rows : r \in Rids
  BY DEF TypeInv, TypeOK
<1>2. \A r \in job.rows : job.phase = "release" => res[r].cell \in Cells
  BY <1>1 DEF JobInv, TypeInv, ActiveInv
<1>3. QED
  BY <1>1, <1>2 DEF JobInv

\* A request that has no cell locked, and none afterwards.
LEMMA StockOutside ==
    ASSUME Inv, NEW p \in Procs, pc[p] \notin {"check", "insert"},
           UNCHANGED <<dbVars, job>>,
           \A q \in Procs \ {p} : pc'[q] = pc[q] /\ req'[q] = req[q]
    PROVE  JobInv' /\ DraftsInv' /\ StockInv'
<1> USE DEF dbVars
<1>1. JobInv'
  BY JobKept DEF Inv
<1>2. ASSUME NEW c \in Cells PROVE DraftOK(c)'
  <2>1. lock[c] # p
    BY DEF Inv, TypeInv, TypeOK, LocksHaveOwners
  <2>2. QED
    BY <2>1, DraftKept, SameReservations DEF Inv, DraftsInv
<1>3. StockInv'
  BY SameReservations DEF Inv, StockInv, ReservedMatchesActive, NeverNegative
<1>4. QED
  BY <1>1, <1>2, <1>3 DEF DraftsInv

LEMMA StockUpdate ==
    ASSUME Inv, NEW p \in Procs, AdjustUpdate(p) \/ ReserveUpdate(p)
    PROVE  JobInv' /\ DraftsInv' /\ StockInv'
<1>0. PICK c \in Cells : c = req[p].cell
  BY DEF AdjustUpdate, ReserveUpdate, Reserving, Inv, TypeInv, RequestsInv
<1>1. /\ pc[p] = "update" /\ lock[c] = NoProc
      /\ UNCHANGED <<stock, res, lapsed, req, job, fetched, stale, faults>>
      /\ pc \in [Procs -> Steps] /\ lock \in [Cells -> Procs \cup {Job, NoProc}]
      /\ draft \in [Cells -> Cell] /\ stock \in [Cells -> Cell]
      /\ req \in [Procs -> Request]
  BY <1>0 DEF AdjustUpdate, ReserveUpdate, Reserving, Inv, TypeInv, TypeOK
<1>2. PICK r : Write(p, c, r)
  BY <1>0 DEF AdjustUpdate, ReserveUpdate
<1>3. /\ lock' = [lock EXCEPT ![c] = p]
      /\ \A k \in Cells \ {c} : draft'[k] = draft[k]
      /\ \A q \in Procs \ {p} : pc'[q] = pc[q]
  BY <1>1, <1>2 DEF Write, AdjustUpdate, ReserveUpdate, Goto
<1>4. JobInv'
  BY <1>1, <1>3, JobKept, InventoryAssumption DEF Inv
<1>5. DraftOK(c)'
  <2>1. lock'[c] = p /\ p # Job
    BY <1>1, <1>3, InventoryAssumption
  <2>2. CASE AdjustUpdate(p)
    <3>1. pc'[p] = "check" /\ draft'[c] = [stock[c] EXCEPT !.on_hand = @ + req[p].n]
      BY <1>0, <1>1, <2>2 DEF AdjustUpdate, Write, Goto
    <3>2. QED
      BY <1>1, <2>1, <3>1 DEF DraftOK, Cell
  <2>3. CASE ReserveUpdate(p)
    <3>1. /\ pc'[p] = "insert"
          /\ draft'[c] = [stock[c] EXCEPT !.reserved = @ + req[p].n]
          /\ Available(stock[c]) >= req[p].n
      BY <1>0, <1>1, <2>3 DEF ReserveUpdate, Write, Goto
    <3>2. stock[c] \in Cell /\ req[p].n \in Int
      BY <1>1 DEF Request
    <3>3. /\ draft'[c].on_hand = stock[c].on_hand
          /\ draft'[c].reserved = stock[c].reserved + req[p].n
      BY <3>1, <3>2 DEF Cell
    <3>4. draft'[c].on_hand - draft'[c].reserved >= 0
      BY <3>1, <3>2, <3>3 DEF Available, Cell
    <3>5. QED
      BY <1>1, <2>1, <3>1, <3>3, <3>4 DEF DraftOK, Available
  <2>4. QED
    BY <2>2, <2>3
<1>6. ASSUME NEW k \in Cells \ {c} PROVE DraftOK(k)'
  <2>1. lock[k] # p
    BY <1>0, <1>1 DEF Inv, TypeInv, TypeOK, LocksHaveOwners
  <2>2. lock'[k] = lock[k]
    BY <1>1, <1>3
  <2>3. QED
    BY <1>1, <1>3, <2>1, <2>2, DraftKept, SameReservations DEF Inv, DraftsInv
<1>7. StockInv'
  BY <1>1, SameReservations DEF Inv, StockInv, ReservedMatchesActive, NeverNegative
<1>8. QED
  BY <1>4, <1>5, <1>6, <1>7 DEF DraftsInv

\* A request that ends by letting go of its cell: refused, committed or dead.
LEMMA LetGoKeeps ==
    ASSUME Inv, NEW p \in Procs, Undo(p) \/ Keep(p), job' = job,
           \A q \in Procs \ {p} : pc'[q] = pc[q] /\ req'[q] = req[q],
           \A r \in Rids : res[r].status = "ACTIVE" => res'[r] = res[r],
           \A c \in Cells : lock[c] = Job =>
              Held(ActiveOf(c) \ job.rows)' = Held(ActiveOf(c) \ job.rows)
    PROVE  JobInv' /\ DraftsInv'
<1>1. \A c \in Cells : lock'[c] = IF lock[c] = p THEN NoProc ELSE lock[c]
  BY LetGo DEF Inv
<1>2. JobInv'
  <2>1. \A r \in Rids : res[r].status = "ACTIVE" => res[r].cell \in Cells
    BY DEF Inv, TypeInv, ActiveInv
  <2>2. \A c \in Cells : lock[c] = Job => lock'[c] = Job
    BY <1>1, InventoryAssumption
  <2>3. \A r \in job.rows : r \in Rids
    BY DEF Inv, TypeInv, TypeOK
  <2>4. QED
    BY <2>1, <2>2, <2>3 DEF Inv, JobInv
<1>3. ASSUME NEW c \in Cells PROVE DraftOK(c)'
  <2>1. CASE lock[c] = p
    BY <1>1, <2>1, DraftFree
  <2>2. CASE lock[c] # p
    <3>1. lock'[c] = lock[c] /\ draft'[c] = draft[c] /\ stock'[c] = stock[c]
      BY <1>1, <2>2 DEF Undo, Keep, Inv, TypeInv, TypeOK
    <3>2. QED
      BY <2>2, <3>1, DraftKept DEF Inv, DraftsInv
  <2>3. QED
    BY <2>1, <2>2
<1>4. QED
  BY <1>2, <1>3 DEF DraftsInv

LEMMA StockUndo ==
    ASSUME Inv, NEW p \in Procs, AdjustRefused(p) \/ Crash(p)
    PROVE  JobInv' /\ DraftsInv' /\ StockInv'
<1>1. /\ Undo(p) /\ Finish(p) /\ UNCHANGED <<res, job>>
  BY DEF AdjustRefused, Crash
<1>2. \A q \in Procs \ {p} : pc'[q] = pc[q] /\ req'[q] = req[q]
  BY <1>1 DEF Finish, Goto, Inv, TypeInv, TypeOK
<1>3. JobInv' /\ DraftsInv'
  BY <1>1, <1>2, LetGoKeeps, SameReservations
<1>4. StockInv'
  BY <1>1, SameReservations
  DEF Undo, Inv, StockInv, ReservedMatchesActive, NeverNegative
<1>5. QED
  BY <1>3, <1>4

LEMMA StockAdjustCommit ==
    ASSUME Inv, NEW p \in Procs, AdjustCommit(p)
    PROVE  JobInv' /\ DraftsInv' /\ StockInv'
<1>1. /\ pc[p] = "check" /\ Keep(p) /\ Goto(p, "publish")
      /\ draft[req[p].cell].on_hand >= 0
      /\ UNCHANGED <<res, req, job>>
  BY DEF AdjustCommit
<1>2. \A q \in Procs \ {p} : pc'[q] = pc[q] /\ req'[q] = req[q]
  BY <1>1 DEF Goto, Inv, TypeInv, TypeOK
<1>3. JobInv' /\ DraftsInv'
  BY <1>1, <1>2, LetGoKeeps, SameReservations
<1>4. ASSUME NEW c \in Cells
      PROVE  /\ stock'[c].reserved = stock[c].reserved
             /\ stock'[c].on_hand >= 0
  <2>1. CASE lock[c] = p
    <3>1. req[p].cell = c /\ draft[c].reserved = stock[c].reserved
      BY <1>1, <2>1 DEF Inv, TypeInv, TypeOK, LocksHaveOwners, DraftsInv, DraftOK
    <3>2. QED
      BY <1>1, <2>1, <3>1 DEF Keep
  <2>2. CASE lock[c] # p
    BY <1>1, <2>2 DEF Keep, Inv, StockInv, NeverNegative
  <2>3. QED
    BY <2>1, <2>2
<1>5. StockInv'
  BY <1>1, <1>4, SameReservations DEF Inv, StockInv, ReservedMatchesActive, NeverNegative
<1>6. QED
  BY <1>3, <1>5

LEMMA StockReserveCommit ==
    ASSUME Inv, NEW p \in Procs, ReserveCommit(p)
    PROVE  JobInv' /\ DraftsInv' /\ StockInv'
<1>1. /\ pc[p] = "insert" /\ req[p].op = "reserve" /\ Keep(p) /\ Finish(p)
      /\ job' = job
  BY DEF ReserveCommit
<1>2. \A q \in Procs \ {p} : pc'[q] = pc[q] /\ req'[q] = req[q]
  BY <1>1 DEF Finish, Goto, Inv, TypeInv, TypeOK
<1>3. \A r \in Rids : res[r].status = "ACTIVE" => res'[r] = res[r]
  BY DEF ReserveCommit, Unused, Inv, TypeInv, TypeOK
<1>4. req[p].cell \in Cells /\ lock[req[p].cell] = p
  BY <1>1 DEF Inv, TypeInv, RequestsInv
<1>5. JobInv' /\ DraftsInv'
  BY <1>1, <1>2, <1>3, <1>4, LetGoKeeps, NewReservation, InventoryAssumption
<1>6. ASSUME NEW c \in Cells
      PROVE  /\ stock'[c].reserved = Held(ActiveOf(c))'
             /\ stock'[c].on_hand >= 0
  <2>1. CASE c = req[p].cell
    <3>1. /\ stock'[c] = draft[c]
          /\ draft[c].on_hand = stock[c].on_hand
          /\ draft[c].reserved = stock[c].reserved + req[p].n
      BY <1>1, <1>4, <2>1 DEF Keep, Inv, DraftsInv, DraftOK
    <3>2. Held(ActiveOf(c))' = Held(ActiveOf(c)) + req[p].n
      BY <2>1, NewReservation
    <3>3. QED
      BY <3>1, <3>2 DEF Inv, StockInv, ReservedMatchesActive, NeverNegative
  <2>2. CASE c # req[p].cell
    <3>1. lock[c] # p
      BY <2>2 DEF Inv, TypeInv, TypeOK, LocksHaveOwners
    <3>2. stock'[c] = stock[c]
      BY <1>1, <3>1 DEF Keep
    <3>3. Held(ActiveOf(c))' = Held(ActiveOf(c))
      BY <2>2, NewReservation
    <3>4. QED
      BY <3>2, <3>3 DEF Inv, StockInv, ReservedMatchesActive, NeverNegative
  <2>3. QED
    BY <2>1, <2>2
<1>7. QED
  BY <1>5, <1>6 DEF StockInv, ReservedMatchesActive, NeverNegative

LEMMA StockCleanupSelect ==
    ASSUME Inv, CleanupSelect
    PROVE  JobInv' /\ DraftsInv' /\ StockInv'
<1> USE DEF dbVars
<1>1. PICK R \in SUBSET Lapsed :
          job' = [phase |-> "release", rows |-> R, cells |-> {res[r].cell : r \in R}]
  BY DEF CleanupSelect
<1>2. job.phase = "idle" /\ UNCHANGED <<stock, draft, lock, res, pc, req>>
  BY DEF CleanupSelect
<1>3. JobInv'
  BY <1>1, <1>2 DEF JobInv, Lapsed
<1>4. ASSUME NEW c \in Cells PROVE DraftOK(c)'
  <2>1. lock[c] # Job
    BY <1>2 DEF Inv, TypeInv, TypeOK, LocksHaveOwners
  <2>2. QED
    BY <1>2, <2>1, DraftKept DEF Inv, DraftsInv
<1>5. StockInv'
  BY <1>2, SameReservations DEF Inv, StockInv, ReservedMatchesActive, NeverNegative
<1>6. QED
  BY <1>3, <1>4, <1>5 DEF DraftsInv

\* What is left reserved is what the reservations that stay hold; GREATEST
\* never has anything to do.
LEMMA StockCleanupRelease ==
    ASSUME Inv, NEW c \in Cells, CleanupRelease(c)
    PROVE  JobInv' /\ DraftsInv' /\ StockInv'
<1> DEFINE n == Greatest(0, stock[c].reserved - Held(job.rows \cap ActiveOf(c)))
<1>1. /\ job.phase = "release" /\ c \in job.cells /\ lock[c] = NoProc
      /\ Write(Job, c, [stock[c] EXCEPT !.reserved = n])
      /\ job' = [job EXCEPT !.cells = @ \ {c}]
      /\ UNCHANGED <<stock, res, lapsed, pc, req, fetched, stale, faults>>
  BY DEF CleanupRelease
<1>2. /\ job \in [phase : {"idle", "release"}, rows : SUBSET Rids, cells : SUBSET Cells]
      /\ draft \in [Cells -> Cell] /\ stock \in [Cells -> Cell]
      /\ lock \in [Cells -> Procs \cup {Job, NoProc}]
  BY DEF Inv, TypeInv, TypeOK
<1>3. /\ lock' = [lock EXCEPT ![c] = Job]
      /\ draft' = [draft EXCEPT ![c] = [stock[c] EXCEPT !.reserved = n]]
      /\ job'.phase = "release" /\ job'.rows = job.rows
      /\ job'.cells = job.cells \ {c}
  BY <1>1, <1>2 DEF Write
<1>4. JobInv'
  BY <1>1, <1>2, <1>3 DEF JobInv, Inv, TypeInv, ActiveInv
<1>5. n = Held(ActiveOf(c) \ job.rows)
  <2> DEFINE A == ActiveOf(c)
             B == job.rows \cap A
  <2>1. Amount(res, A) = Amount(res, B) + Amount(res, A \ B)
    BY AmountSplit
  <2>2. A \ B = A \ job.rows
    OBVIOUS
  <2>3. stock[c].reserved = Held(A)
    BY DEF Inv, StockInv, ReservedMatchesActive
  <2>4. /\ Held(A) = Amount(res, A)
        /\ Held(B) = Amount(res, B)
        /\ Held(A \ job.rows) = Amount(res, A \ B)
    BY <2>2, HeldAmount
  <2>5. Amount(res, B) \in Nat /\ Amount(res, A \ B) \in Nat
    BY PieceFinite
  <2>6. stock[c].reserved - Held(B) = Held(A \ job.rows)
    BY <2>1, <2>3, <2>4, <2>5
  <2>7. QED
    BY <2>4, <2>5, <2>6 DEF Greatest
<1>6. \A k \in Cells :
          Held(ActiveOf(k) \ job.rows)' = Held(ActiveOf(k) \ job.rows)
  BY <1>1, <1>3, HeldAmount DEF ActiveOf
<1>7. DraftOK(c)'
  <2>1. draft'[c].on_hand = stock'[c].on_hand /\ draft'[c].reserved = n
    BY <1>1, <1>2, <1>3 DEF Cell
  <2>2. lock'[c] = Job /\ Job \notin Procs
    BY <1>2, <1>3, InventoryAssumption
  <2>3. QED
    BY <1>5, <1>6, <2>1, <2>2 DEF DraftOK
<1>8. ASSUME NEW k \in Cells \ {c} PROVE DraftOK(k)'
  <2>1. lock'[k] = lock[k] /\ draft'[k] = draft[k] /\ stock'[k] = stock[k]
    BY <1>1, <1>2, <1>3
  <2>2. QED
    BY <1>1, <1>6, <2>1, DraftKept DEF Inv, DraftsInv
<1>9. StockInv'
  BY <1>1, SameReservations DEF Inv, StockInv, ReservedMatchesActive, NeverNegative
<1>10. QED
  BY <1>4, <1>7, <1>8, <1>9 DEF DraftsInv

\* Every cell keeps what its reservations that stay hold.
LEMMA StockCleanupCommit ==
    ASSUME Inv, CleanupCommit
    PROVE  /\ JobInv' /\ DraftsInv' /\ StockInv'
           /\ \A c \in Cells : stock'[c].reserved <= stock[c].reserved
<1>1. /\ job.phase = "release" /\ job.cells = {} /\ Keep(Job) /\ job' = NoRun
      /\ res' = [r \in Rids |-> IF r \in job.rows
                                THEN [res[r] EXCEPT !.status = "EXPIRED"] ELSE res[r]]
      /\ UNCHANGED <<lapsed, pc, req, fetched, stale, faults>>
  BY DEF CleanupCommit
<1>2. /\ res \in [Rids -> Reservation] /\ lock \in [Cells -> Procs \cup {Job, NoProc}]
      /\ job.rows \subseteq Rids
  BY DEF Inv, TypeInv, TypeOK
<1>3. JobInv'
  BY <1>1 DEF JobInv, NoRun
<1>4. ASSUME NEW c \in Cells PROVE DraftOK(c)'
  <2>1. CASE lock[c] = Job
    BY <1>1, <2>1, DraftFree DEF Keep
  <2>2. CASE lock[c] # Job
    BY <1>1, <2>2, DraftKept DEF Keep, Inv, DraftsInv
  <2>3. QED
    BY <2>1, <2>2
<1>5. ASSUME NEW c \in Cells
      PROVE  /\ Held(ActiveOf(c))' = Held(ActiveOf(c) \ job.rows)
             /\ Held(ActiveOf(c) \ job.rows) <= Held(ActiveOf(c))
  <2>1. ActiveOf(c)' = ActiveOf(c) \ job.rows
    BY <1>1, <1>2 DEF ActiveOf, Reservation
  <2>2. \A r \in Rids : res'[r].qty = res[r].qty
    BY <1>1, <1>2 DEF Reservation
  <2>3. ActiveOf(c) \ job.rows \subseteq Rids
    BY DEF ActiveOf
  <2>4. Amount(res', ActiveOf(c) \ job.rows) = Amount(res, ActiveOf(c) \ job.rows)
    BY <2>2, <2>3, AmountSame
  <2>5. Amount(res, ActiveOf(c) \ job.rows) <= Amount(res, ActiveOf(c))
    <3>1. Amount(res, ActiveOf(c)) = Amount(res, ActiveOf(c) \ job.rows)
             + Amount(res, ActiveOf(c) \ (ActiveOf(c) \ job.rows))
      BY AmountSplit
    <3>2. QED
      BY <3>1, PieceFinite
  <2>6. QED
    BY <2>1, <2>4, <2>5, HeldAmount
<1>6. ASSUME NEW c \in Cells
      PROVE  /\ stock'[c].reserved = Held(ActiveOf(c) \ job.rows)
             /\ stock'[c].on_hand = stock[c].on_hand
  <2>1. CASE lock[c] = Job
    BY <1>1, <2>1 DEF Keep, Inv, DraftsInv, DraftOK
  <2>2. CASE lock[c] # Job
    <3>1. ActiveOf(c) \ job.rows = ActiveOf(c)
      BY <1>1, <2>2 DEF Inv, JobInv, ActiveOf
    <3>2. QED
      BY <1>1, <2>2, <3>1 DEF Keep, Inv, StockInv, ReservedMatchesActive
  <2>3. QED
    BY <2>1, <2>2
<1>7. StockInv'
  BY <1>5, <1>6 DEF Inv, StockInv, ReservedMatchesActive, NeverNegative
<1>8. \A c \in Cells : stock'[c].reserved <= stock[c].reserved
  BY <1>5, <1>6 DEF Inv, StockInv, ReservedMatchesActive
<1>9. QED
  BY <1>3, <1>4, <1>7, <1>8 DEF DraftsInv

LEMMA StockCleanupCrash ==
    ASSUME Inv, CleanupCrash
    PROVE  JobInv' /\ DraftsInv' /\ StockInv'
<1>1. /\ Undo(Job) /\ job' = NoRun
      /\ UNCHANGED <<res, lapsed, pc, req, fetched, stale>>
  BY DEF CleanupCrash
<1>2. JobInv'
  BY <1>1 DEF JobInv, NoRun
<1>3. ASSUME NEW c \in Cells PROVE DraftOK(c)'
  <2>1. CASE lock[c] = Job
    BY <1>1, <2>1, DraftFree DEF Undo
  <2>2. CASE lock[c] # Job
    BY <1>1, <2>2, DraftKept DEF Undo, Inv, DraftsInv
  <2>3. QED
    BY <2>1, <2>2
<1>4. StockInv'
  BY <1>1, SameReservations
  DEF Undo, Inv, StockInv, ReservedMatchesActive, NeverNegative
<1>5. QED
  BY <1>2, <1>3, <1>4 DEF DraftsInv

\* Steps that touch neither the database nor a request.
LEMMA StockElsewhere ==
    ASSUME Inv, UNCHANGED <<dbVars, pc, req, job>>
    PROVE  JobInv' /\ DraftsInv' /\ StockInv'
<1> USE DEF dbVars
<1>1. JobInv'
  BY JobKept DEF Inv
<1>2. DraftsInv'
  BY DraftKept, SameReservations DEF Inv, DraftsInv
<1>3. StockInv'
  BY SameReservations DEF Inv, StockInv, ReservedMatchesActive, NeverNegative
<1>4. QED
  BY <1>1, <1>2, <1>3

LEMMA StockNext == Inv /\ [Next]_vars => Inv'
<1> SUFFICES ASSUME Inv, [Next]_vars PROVE Inv'
  OBVIOUS
<1>1. TypeInv'
  BY NextType DEF Inv
<1>2. ASSUME NEW p \in Procs,
             \/ AdjustRequest(p) \/ ReserveRequest(p)
             \/ PublishStock(p) \/ ReserveRefused(p)
      PROVE  JobInv' /\ DraftsInv' /\ StockInv'
  <2>1. pc[p] \notin {"check", "insert"} /\ UNCHANGED <<dbVars, job>>
    BY <1>2 DEF AdjustRequest, ReserveRequest, PublishStock, ReserveRefused, Reserving
  <2>2. \A q \in Procs \ {p} : pc'[q] = pc[q] /\ req'[q] = req[q]
    BY <1>2 DEF AdjustRequest, ReserveRequest, PublishStock, ReserveRefused,
                Finish, Goto, Inv, TypeInv, TypeOK
  <2>3. QED
    BY <2>1, <2>2, StockOutside
<1>3. ASSUME NEW p \in Procs, Work(p)
      PROVE  JobInv' /\ DraftsInv' /\ StockInv'
  BY <1>2, <1>3, StockUpdate, StockUndo, StockAdjustCommit, StockReserveCommit DEF Work
<1>4. ASSUME NEW c \in Cells, Refetch(c)
      PROVE  JobInv' /\ DraftsInv' /\ StockInv'
  BY <1>4, StockElsewhere DEF Refetch
<1>5. ASSUME NEW r \in Rids, Lapse(r)
      PROVE  JobInv' /\ DraftsInv' /\ StockInv'
  BY <1>5, StockElsewhere DEF Lapse
<1>6. CASE UNCHANGED vars
  <2>1. UNCHANGED <<dbVars, pc, req, job>>
    BY <1>6 DEF vars, dbVars
  <2>2. JobInv' /\ DraftsInv' /\ StockInv'
    BY <2>1, StockElsewhere
  <2>3. QED
    BY <1>1, <2>2 DEF Inv
<1>7. ASSUME Next PROVE JobInv' /\ DraftsInv' /\ StockInv'
  <2>1. ASSUME NEW p \in Procs,
               AdjustRequest(p) \/ ReserveRequest(p) \/ Work(p) \/ Crash(p)
        PROVE  JobInv' /\ DraftsInv' /\ StockInv'
    BY <1>2, <1>3, <2>1, StockUndo
  <2>2. ASSUME NEW c \in Cells, CleanupRelease(c) \/ Refetch(c)
        PROVE  JobInv' /\ DraftsInv' /\ StockInv'
    BY <1>4, <2>2, StockCleanupRelease
  <2>3. ASSUME CleanupSelect \/ CleanupCommit \/ CleanupCrash
        PROVE  JobInv' /\ DraftsInv' /\ StockInv'
    BY <2>3, StockCleanupSelect, StockCleanupCommit, StockCleanupCrash
  <2>4. QED
    BY <1>5, <1>7, <2>1, <2>2, <2>3 DEF Next
<1>8. QED
  BY <1>1, <1>6, <1>7 DEF Inv

LEMMA StockInit == Init => Inv
<1> SUFFICES ASSUME Init PROVE Inv
  OBVIOUS
<1>1. TypeInv
  BY InitType
<1>2. JobInv
  BY DEF Init, NoRun, JobInv
<1>3. DraftsInv
  BY InventoryAssumption DEF Init, DraftsInv, DraftOK
<1>4. StockInv
  <2>1. ASSUME NEW c \in Cells PROVE Held(ActiveOf(c)) = 0
    <3>1. ActiveOf(c) = {}
      BY DEF Init, NoReservation, ActiveOf
    <3>2. Piece(res, {}) = {}
      BY DEF Piece
    <3>3. QED
      BY <3>1, <3>2, HeldAmount, FS_EmptySet DEF Amount
  <2>2. QED
    BY <2>1, InventoryAssumption
    DEF Init, StockInv, ReservedMatchesActive, NeverNegative
<1>5. QED
  BY <1>1, <1>2, <1>3, <1>4 DEF Inv

LEMMA SpecInv == Spec => []Inv
  BY StockInit, StockNext, PTL DEF Spec

\* For any cells, requests, reservations, batch size and faults, reserved_qty is
\* what the ACTIVE reservations of the cell add up to.
THEOREM ReservedCorrect == Spec => []ReservedMatchesActive
<1>1. Inv => ReservedMatchesActive
  BY DEF Inv, StockInv
<1>2. QED
  BY <1>1, SpecInv, PTL

\* For any adjustments asked for at the same time, on_hand stays above zero.
THEOREM NeverNegativeCorrect == Spec => []NeverNegative
<1>1. Inv => NeverNegative
  BY DEF Inv, StockInv
<1>2. QED
  BY <1>1, SpecInv, PTL

\* A step that raises reserved_qty is the commit of a reservation, and leaves
\* as many copies on hand as it leaves reserved.
LEMMA NoOverbookingStep ==
    ASSUME Inv, Next, NEW c \in Cells, stock'[c].reserved > stock[c].reserved
    PROVE  Available(stock'[c]) >= 0
<1>1. stock \in [Cells -> Cell]
  BY DEF Inv, TypeInv, TypeOK
<1>2. stock' # stock
  BY <1>1 DEF Cell
<1>3. CASE CleanupCommit
  <2>1. stock'[c].reserved <= stock[c].reserved
    BY <1>3, StockCleanupCommit
  <2>2. Inv'
    BY StockNext
  <2>3. stock[c].reserved \in Int /\ stock'[c].reserved \in Int
    BY <1>1, <2>2 DEF Inv, TypeInv, TypeOK, Cell
  <2>4. QED
    BY <2>1, <2>3
<1>4. CASE \E p \in Procs : AdjustCommit(p) \/ ReserveCommit(p)
  <2>1. PICK p \in Procs : AdjustCommit(p) \/ ReserveCommit(p)
    BY <1>4
  <2>2. Keep(p) /\ pc[p] \in {"check", "insert"}
    BY <2>1 DEF AdjustCommit, ReserveCommit
  <2>3. lock[c] = p /\ stock'[c] = draft[c]
    BY <1>1, <2>2 DEF Keep, Cell
  <2>4. draft[c].reserved # stock[c].reserved
    BY <1>1, <2>3 DEF Cell
  <2>5. QED
    BY <2>2, <2>3, <2>4 DEF Inv, DraftsInv, DraftOK
<1>5. QED
  BY <1>2, <1>3, <1>4
  DEF Next, Work, dbVars, AdjustRequest, ReserveRequest, AdjustUpdate, AdjustRefused,
      PublishStock, ReserveUpdate, ReserveRefused, Crash, CleanupRelease, Refetch,
      Lapse, CleanupSelect, CleanupCrash, Undo

\* No reservation is made of copies that others have reserved.
THEOREM NoOverbookingCorrect == Spec => NoOverbooking
<1>1. Inv /\ [Next]_vars =>
        [\A c \in Cells : stock'[c].reserved > stock[c].reserved
                             => Available(stock'[c]) >= 0]_vars
  BY NoOverbookingStep
<1>2. QED
  BY <1>1, SpecInv, PTL DEF Spec, NoOverbooking

-----------------------------------------------------------------------------
(* Screens *)

\* A screen that shows the cell shows what is there, or will be told.
ScreenOK(c) ==
    \/ c \in stale
    \/ \E p \in Procs : pc[p] = "publish" /\ req[p].cell = c
    \/ fetched[c] = stock[c].on_hand

\* Nobody but a request about to tell the screens changes an on_hand.
LEMMA OnHandKept ==
    ASSUME Inv, NEW w \in Procs \cup {Job}, Undo(w) \/ Keep(w),
           Keep(w) => \A p \in Procs : w = p => pc[p] = "insert",
           NEW c \in Cells
    PROVE  stock'[c].on_hand = stock[c].on_hand
<1> USE InventoryAssumption
<1>1. CASE Undo(w)
  BY <1>1 DEF Undo
<1>2. CASE Keep(w) /\ lock[c] = w
  <2>1. draft[c].on_hand = stock[c].on_hand
    BY <1>2 DEF Inv, DraftsInv, DraftOK
  <2>2. QED
    BY <1>2, <2>1 DEF Keep
<1>3. CASE Keep(w) /\ lock[c] # w
  BY <1>3 DEF Keep
<1>4. QED
  BY <1>1, <1>2, <1>3

\* The request at its message is still there, and so is the message, unless
\* this step sends it.
LEMMA TellingKept ==
    ASSUME Inv, NEW p \in Procs, NEW c \in Shown, ScreenOK(c),
           stock'[c].on_hand = stock[c].on_hand,
           UNCHANGED <<fetched, stale>>, pc[p] # "publish",
           pc' = [pc EXCEPT ![p] = pc'[p]], req' = [req EXCEPT ![p] = req'[p]]
    PROVE  ScreenOK(c)'
<1>1. CASE c \in stale \/ fetched[c] = stock[c].on_hand
  BY <1>1 DEF ScreenOK
<1>2. CASE \E q \in Procs : pc[q] = "publish" /\ req[q].cell = c
  <2>1. PICK q \in Procs : pc[q] = "publish" /\ req[q].cell = c
    BY <1>2
  <2>2. pc'[q] = "publish" /\ req'[q].cell = c
    BY <2>1 DEF Inv, TypeInv, TypeOK
  <2>3. QED
    BY <2>2 DEF ScreenOK
<1>3. QED
  BY <1>1, <1>2 DEF ScreenOK

\* An adjustment that commits is the one that tells of the cell it changed.
LEMMA ScreenAdjustCommit ==
    ASSUME Inv, NEW p \in Procs, AdjustCommit(p), NEW c \in Shown, ScreenOK(c)
    PROVE  ScreenOK(c)'
<1> USE InventoryAssumption DEF Inv, TypeInv, TypeOK
<1>1. /\ pc[p] = "check" /\ Keep(p) /\ pc' = [pc EXCEPT ![p] = "publish"]
      /\ UNCHANGED <<req, fetched, stale>>
  BY DEF AdjustCommit, Goto
<1>2. CASE lock[c] = p
  BY <1>1, <1>2 DEF LocksHaveOwners, ScreenOK
<1>3. CASE lock[c] # p
  <2>1. stock'[c].on_hand = stock[c].on_hand
    BY <1>1, <1>3 DEF Keep
  <2>2. QED
    BY <1>1, <2>1, TellingKept
<1>4. QED
  BY <1>2, <1>3

LEMMA ScreenPublish ==
    ASSUME Inv, NEW p \in Procs, PublishStock(p), faults' = 0, faults = 0,
           NEW c \in Shown, ScreenOK(c)
    PROVE  ScreenOK(c)'
<1> USE DEF Inv, TypeInv, TypeOK
<1>1. /\ stale' = stale \cup ({req[p].cell} \cap Shown)
      /\ pc' = [pc EXCEPT ![p] = "idle"] /\ req' = [req EXCEPT ![p] = NoRequest]
      /\ UNCHANGED <<stock, fetched>>
  BY DEF PublishStock, Finish, Goto, dbVars
<1>2. CASE req[p].cell = c
  BY <1>1, <1>2 DEF ScreenOK
<1>3. CASE req[p].cell # c
  <2>1. ASSUME NEW q \in Procs, pc[q] = "publish", req[q].cell = c
        PROVE  pc'[q] = "publish" /\ req'[q].cell = c
    BY <1>1, <1>3, <2>1
  <2>2. QED
    BY <1>1, <2>1 DEF ScreenOK
<1>4. QED
  BY <1>2, <1>3

LEMMA ScreensNext == Inv /\ [Next]_vars /\ ScreensCatchUp => ScreensCatchUp'
<1> SUFFICES ASSUME Inv, [Next]_vars, ScreensCatchUp, faults' = 0, NEW c \in Shown
             PROVE  ScreenOK(c)'
  BY DEF ScreensCatchUp, ScreenOK
<1> USE InventoryAssumption
<1>1. faults \in Nat /\ c \in Cells
  BY DEF Inv, TypeInv, TypeOK
<1>2. ASSUME CleanupCrash \/ \E p \in Procs : Crash(p) PROVE FALSE
  BY <1>1, <1>2 DEF Crash, CleanupCrash
<1>3. faults = 0
  <2>1. ASSUME NEW p \in Procs, AdjustRequest(p) \/ ReserveRequest(p) \/ Work(p)
        PROVE  faults' = faults \/ faults' = faults + 1
    BY <2>1 DEF AdjustRequest, ReserveRequest, Work, AdjustUpdate, AdjustRefused,
       AdjustCommit, PublishStock, ReserveUpdate, ReserveRefused, ReserveCommit
  <2>2. ASSUME \/ \E d \in Cells : CleanupRelease(d) \/ Refetch(d)
               \/ \E r \in Rids : Lapse(r)
               \/ CleanupSelect \/ CleanupCommit
        PROVE  faults' = faults
    BY <2>2 DEF CleanupRelease, Refetch, Lapse, CleanupSelect, CleanupCommit
  <2>3. faults' = faults \/ faults' = faults + 1
    BY <1>2, <2>1, <2>2 DEF Next, vars
  <2>4. QED
    BY <1>1, <2>3
<1>4. ScreenOK(c)
  BY <1>3 DEF ScreensCatchUp, ScreenOK
<1>5. ASSUME NEW p \in Procs, AdjustRequest(p) \/ ReserveRequest(p) PROVE ScreenOK(c)'
  <2>1. /\ pc[p] = "idle" /\ UNCHANGED <<stock, fetched, stale>>
        /\ pc' = [pc EXCEPT ![p] = "update"]
        /\ req' = [req EXCEPT ![p] = req'[p]]
    BY <1>5 DEF AdjustRequest, ReserveRequest, Goto, dbVars, Inv, TypeInv, TypeOK
  <2>2. QED
    BY <1>4, <2>1, TellingKept DEF Inv, TypeInv, TypeOK
<1>6. ASSUME NEW p \in Procs, AdjustUpdate(p) \/ ReserveUpdate(p) \/ ReserveRefused(p)
      PROVE  ScreenOK(c)'
  <2>1. /\ pc[p] = "update" /\ UNCHANGED <<stock, fetched, stale>>
        /\ pc' = [pc EXCEPT ![p] = pc'[p]]
        /\ req' = [req EXCEPT ![p] = req'[p]]
    BY <1>6 DEF AdjustUpdate, ReserveUpdate, ReserveRefused, Reserving, Goto, Finish,
       dbVars, Inv, TypeInv, TypeOK
  <2>2. QED
    BY <1>4, <2>1, TellingKept
<1>7. ASSUME NEW p \in Procs, AdjustRefused(p) \/ ReserveCommit(p) PROVE ScreenOK(c)'
  <2>1. /\ pc[p] \in {"check", "insert"} /\ UNCHANGED <<fetched, stale>>
        /\ pc' = [pc EXCEPT ![p] = "idle"] /\ req' = [req EXCEPT ![p] = NoRequest]
    BY <1>7 DEF AdjustRefused, ReserveCommit, Goto, Finish
  <2>2. stock'[c].on_hand = stock[c].on_hand
    BY <1>1, <1>7, OnHandKept DEF AdjustRefused, ReserveCommit, Undo, Keep
  <2>3. QED
    BY <1>4, <2>1, <2>2, TellingKept DEF Inv, TypeInv, TypeOK
<1>8. ASSUME CleanupCommit PROVE ScreenOK(c)'
  <2>1. Keep(Job) /\ UNCHANGED <<pc, req, fetched, stale>>
    BY <1>8 DEF CleanupCommit
  <2>2. stock'[c].on_hand = stock[c].on_hand
    BY <1>1, <2>1, OnHandKept
  <2>3. QED
    BY <1>4, <2>1, <2>2 DEF ScreenOK
<1>9. ASSUME NEW d \in Cells, Refetch(d) PROVE ScreenOK(c)'
  BY <1>4, <1>9 DEF Refetch, ScreenOK, dbVars, Inv, TypeInv, TypeOK
<1>10. ASSUME UNCHANGED <<stock, pc, req, fetched, stale>> PROVE ScreenOK(c)'
  BY <1>4, <1>10 DEF ScreenOK
<1>11. ASSUME NEW p \in Procs, Work(p) PROVE ScreenOK(c)'
  BY <1>3, <1>4, <1>6, <1>7, <1>11, ScreenAdjustCommit, ScreenPublish DEF Work
<1>12. ASSUME \/ \E d \in Cells : CleanupRelease(d)
              \/ \E r \in Rids : Lapse(r)
              \/ CleanupSelect \/ UNCHANGED vars
       PROVE  ScreenOK(c)'
  BY <1>10, <1>12 DEF CleanupRelease, Lapse, CleanupSelect, vars, dbVars
<1>13. QED
  BY <1>2, <1>5, <1>8, <1>9, <1>11, <1>12 DEF Next

\* As long as no message has failed and nothing has died, a screen that has
\* fetched all it was told to shows the copies that are there.
THEOREM ScreensCorrect == Spec => []ScreensCatchUp
<1>1. Init => ScreensCatchUp
  BY InventoryAssumption DEF Init, ScreensCatchUp
<1>2. QED
  BY <1>1, ScreensNext, SpecInv, PTL DEF Spec

=============================================================================

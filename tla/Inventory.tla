------------------------------ MODULE Inventory ------------------------------
(***************************************************************************)
(* inventory-svc: the stock of a book at a location (a cell), adjusted and *)
(* reserved by concurrent requests and relieved of lapsed reservations by  *)
(* a job that runs every five minutes.  Each request is one transaction on *)
(* one cell; the job is one transaction on as many cells as it finds.      *)
(* After an adjustment has committed, a message on Redis makes the screens *)
(* that show the cell fetch it again.                                      *)
(*                                                                         *)
(* stock[c] is the committed version of a cell, draft[c] the newest one,   *)
(* lock[c] the transaction that wrote it, as in StateMachine.              *)
(***************************************************************************)
EXTENDS Integers, FiniteSets

CONSTANTS
    Cells,          \* (isbn13, location_id) pairs with an inventory row
    Rids,           \* reservation ids that can be drawn
    OnHand,         \* on_hand of each cell at the start
    Shown,          \* the cells a screen shows
    Deltas,         \* the deltas an adjustment may ask for
    MaxQty,         \* bound on the quantity of a reservation
    BatchSize,      \* reservations one run of the job may take
    Procs,          \* requests being served at the same time
    Job,            \* the clean-up job as the writer of a cell
    MaxOnHand,      \* bound on the on_hand that adjustments are asked to reach
    MaxFaults,      \* bound on crashes and failed messages
    NoProc,
    NoCell

ASSUME InventoryAssumption ==
    /\ IsFiniteSet(Rids)
    /\ OnHand \in [Cells -> Nat]
    /\ Shown \subseteq Cells
    /\ Deltas \subseteq Int
    /\ MaxQty \in Nat
    /\ BatchSize \in Nat \ {0}
    /\ Job \notin Procs
    /\ NoProc \notin Procs \cup {Job}
    /\ MaxOnHand \in Nat
    /\ MaxFaults \in Nat
    /\ NoCell \notin Cells

VARIABLES
    stock, draft, lock,
    res,            \* reservations, as committed
    lapsed,         \* reservations whose ttl has passed
    pc, req,        \* where each request stands and what it asks for
    job,            \* the run of the job: its phase, reservations and cells
    fetched,        \* on_hand as the screens show it
    stale,          \* cells the screens have been told to fetch again
    faults

dbVars == <<stock, draft, lock, res>>
vars   == <<stock, draft, lock, res, lapsed, pc, req, job, fetched, stale, faults>>

Cell        == [on_hand : Int, reserved : Int]
Reservation == [cell : Cells \cup {NoCell}, qty : 0 .. MaxQty,
                status : {"UNUSED", "ACTIVE", "EXPIRED"}]
Request     == [op : {"adjust", "reserve"}, cell : Cells \cup {NoCell}, n : Int]
Steps       == {"idle", "update", "check", "insert", "publish"}

NoReservation == [cell |-> NoCell, qty |-> 0, status |-> "UNUSED"]
NoRequest     == [op |-> "reserve", cell |-> NoCell, n |-> 0]
NoRun         == [phase |-> "idle", rows |-> {}, cells |-> {}]

-----------------------------------------------------------------------------
(* Cells and reservations *)

Available(r) == r.on_hand - r.reserved

Greatest(m, n) == IF m >= n THEN m ELSE n

ActiveOf(c) == {r \in Rids : res[r].status = "ACTIVE" /\ res[r].cell = c}

\* The copies that the reservations of a set hold, one element for each.
Copies(R) == {x \in Rids \X (1 .. MaxQty) : x[1] \in R /\ x[2] <= res[x[1]].qty}

Held(R) == Cardinality(Copies(R))

Write(w, c, r) == /\ draft' = [draft EXCEPT ![c] = r]
                  /\ lock'  = [lock EXCEPT ![c] = w]

\* Mutant of Undo: the connection goes back with its transaction open.
UndoKeepsLocks(w) ==
    /\ draft' = [c \in Cells |-> IF lock[c] = w THEN stock[c] ELSE draft[c]]
    /\ UNCHANGED <<stock, lock>>

Undo(w) ==
    /\ draft' = [c \in Cells |-> IF lock[c] = w THEN stock[c] ELSE draft[c]]
    /\ lock'  = [c \in Cells |-> IF lock[c] = w THEN NoProc ELSE lock[c]]
    /\ UNCHANGED stock

Keep(w) ==
    /\ stock' = [c \in Cells |-> IF lock[c] = w THEN draft[c] ELSE stock[c]]
    /\ lock'  = [c \in Cells |-> IF lock[c] = w THEN NoProc ELSE lock[c]]
    /\ UNCHANGED draft

Goto(p, step) == pc' = [pc EXCEPT ![p] = step]

Finish(p) == Goto(p, "idle") /\ req' = [req EXCEPT ![p] = NoRequest]

-----------------------------------------------------------------------------
(* POST /inventory/adjust *)

AdjustRequest(p) ==
    \E c \in Cells, d \in Deltas :
        /\ pc[p] = "idle"
        /\ stock[c].on_hand + d <= MaxOnHand
        /\ req' = [req EXCEPT ![p] = [op |-> "adjust", cell |-> c, n |-> d]]
        /\ Goto(p, "update")
        /\ UNCHANGED <<dbVars, lapsed, job, fetched, stale, faults>>

\* Its WHERE clause names the cell only, so it waits for whoever writes it.
AdjustUpdate(p) ==
    LET c == req[p].cell
    IN  /\ pc[p] = "update"
        /\ req[p].op = "adjust"
        /\ lock[c] = NoProc
        /\ Write(p, c, [stock[c] EXCEPT !.on_hand = @ + req[p].n])
        /\ Goto(p, "check")
        /\ UNCHANGED <<stock, res, lapsed, req, job, fetched, stale, faults>>

\* 409: on_hand would go negative.
AdjustRefused(p) ==
    /\ pc[p] = "check"
    /\ draft[req[p].cell].on_hand < 0
    /\ Undo(p)
    /\ Finish(p)
    /\ UNCHANGED <<res, lapsed, job, fetched, stale, faults>>

\* Mutant of AdjustCommit: on_hand checked as it was before the UPDATE.
AdjustCommitOld(p) ==
    /\ pc[p] = "check"
    /\ stock[req[p].cell].on_hand >= 0
    /\ Keep(p)
    /\ Goto(p, "publish")
    /\ UNCHANGED <<res, lapsed, req, job, fetched, stale, faults>>

\* Mutant of AdjustCommit: the message sent before the commit.
AdjustCommitLast(p) ==
    \/ /\ pc[p] = "check"
       /\ draft[req[p].cell].on_hand >= 0
       /\ stale' = stale \cup ({req[p].cell} \cap Shown)
       /\ Goto(p, "insert")
       /\ UNCHANGED <<dbVars, lapsed, req, job, fetched, faults>>
    \/ /\ pc[p] = "insert"
       /\ req[p].op = "adjust"
       /\ Keep(p)
       /\ Finish(p)
       /\ UNCHANGED <<res, lapsed, job, fetched, stale, faults>>

AdjustCommit(p) ==
    /\ pc[p] = "check"
    /\ draft[req[p].cell].on_hand >= 0
    /\ Keep(p)
    /\ Goto(p, "publish")
    /\ UNCHANGED <<res, lapsed, req, job, fetched, stale, faults>>

\* The message on stock.changed; without Redis the caller gets a 500 for an
\* adjustment that has been made.
PublishStock(p) ==
    /\ pc[p] = "publish"
    /\ \/ stale' = stale \cup ({req[p].cell} \cap Shown) /\ UNCHANGED faults
       \/ /\ faults < MaxFaults
          /\ faults' = faults + 1
          /\ UNCHANGED stale
    /\ Finish(p)
    /\ UNCHANGED <<dbVars, lapsed, job, fetched>>

-----------------------------------------------------------------------------
(* POST /inventory/reserve *)

Unused == {r \in Rids : res[r].status = "UNUSED"}

Reserves(p) == req[p].op = "reserve" /\ pc[p] \in {"update", "insert"}

\* No more requests at a time than ids left for them.
ReserveRequest(p) ==
    \E c \in Cells, q \in 1 .. MaxQty :
        /\ pc[p] = "idle"
        /\ Cardinality(Unused) > Cardinality({r \in Procs : Reserves(r)})
        /\ req' = [req EXCEPT ![p] = [op |-> "reserve", cell |-> c, n |-> q]]
        /\ Goto(p, "update")
        /\ UNCHANGED <<dbVars, lapsed, job, fetched, stale, faults>>

Reserving(p) == pc[p] = "update" /\ req[p].op = "reserve"

\* Mutant of ReserveUpdate: the guard compares with on_hand.
ReserveUpdateOnHand(p) ==
    LET c == req[p].cell
    IN  /\ Reserving(p)
        /\ stock[c].on_hand >= req[p].n
        /\ lock[c] = NoProc
        /\ Write(p, c, [stock[c] EXCEPT !.reserved = @ + req[p].n])
        /\ Goto(p, "insert")
        /\ UNCHANGED <<stock, res, lapsed, req, job, fetched, stale, faults>>

\* UPDATE ... WHERE on_hand - reserved_qty >= qty: a cell another transaction
\* has written is waited for, and the guard evaluated on what that one leaves.
ReserveUpdate(p) ==
    LET c == req[p].cell
    IN  /\ Reserving(p)
        /\ Available(stock[c]) >= req[p].n
        /\ lock[c] = NoProc
        /\ Write(p, c, [stock[c] EXCEPT !.reserved = @ + req[p].n])
        /\ Goto(p, "insert")
        /\ UNCHANGED <<stock, res, lapsed, req, job, fetched, stale, faults>>

\* 409: insufficient available stock.
ReserveRefused(p) ==
    /\ Reserving(p)
    /\ Available(stock[req[p].cell]) < req[p].n
    /\ Finish(p)
    /\ UNCHANGED <<dbVars, lapsed, job, fetched, stale, faults>>

\* The reservation is inserted under a fresh id and committed with its cell.
ReserveCommit(p) ==
    \E r \in Unused :
        /\ pc[p] = "insert"
        /\ req[p].op = "reserve"
        /\ res' = [res EXCEPT ![r] = [cell |-> req[p].cell, qty |-> req[p].n,
                                      status |-> "ACTIVE"]]
        /\ Keep(p)
        /\ Finish(p)
        /\ UNCHANGED <<lapsed, job, fetched, stale, faults>>

-----------------------------------------------------------------------------
(* The clean-up job, time, screens and faults *)

Lapse(r) ==
    /\ res[r].status = "ACTIVE"
    /\ r \notin lapsed
    /\ lapsed' = lapsed \cup {r}
    /\ UNCHANGED <<dbVars, pc, req, job, fetched, stale, faults>>

Lapsed == {r \in lapsed : res[r].status = "ACTIVE"}

\* Mutant of CleanupSelect: a run waits until it can take a full batch.
CleanupSelectFull ==
    /\ job.phase = "idle"
    /\ \E R \in SUBSET Lapsed :
          /\ Cardinality(R) = BatchSize
          /\ job' = [phase |-> "release", rows |-> R,
                     cells |-> {res[r].cell : r \in R}]
    /\ UNCHANGED <<dbVars, lapsed, pc, req, fetched, stale, faults>>

\* SELECT ... FOR UPDATE SKIP LOCKED LIMIT: any BatchSize of them, or all.  No
\* other transaction ever locks a reservation.
CleanupSelect ==
    /\ job.phase = "idle"
    /\ \E R \in SUBSET Lapsed :
          /\ R # {}
          /\ \/ Cardinality(R) = BatchSize
             \/ Cardinality(R) < BatchSize /\ R = Lapsed
          /\ job' = [phase |-> "release", rows |-> R,
                     cells |-> {res[r].cell : r \in R}]
    /\ UNCHANGED <<dbVars, lapsed, pc, req, fetched, stale, faults>>

\* Mutant of CleanupRelease: one reservation of the cell taken for all of them.
CleanupReleaseOne(c) ==
    /\ job.phase = "release"
    /\ c \in job.cells
    /\ lock[c] = NoProc
    /\ \E r \in job.rows \cap ActiveOf(c) :
          Write(Job, c, [stock[c] EXCEPT !.reserved = Greatest(0, @ - Held({r}))])
    /\ job' = [job EXCEPT !.cells = @ \ {c}]
    /\ UNCHANGED <<stock, res, lapsed, pc, req, fetched, stale, faults>>

\* The cells are relieved one UPDATE after the other.
CleanupRelease(c) ==
    /\ job.phase = "release"
    /\ c \in job.cells
    /\ lock[c] = NoProc
    /\ Write(Job, c, [stock[c] EXCEPT
                        !.reserved = Greatest(0, @ - Held(job.rows \cap ActiveOf(c)))])
    /\ job' = [job EXCEPT !.cells = @ \ {c}]
    /\ UNCHANGED <<stock, res, lapsed, pc, req, fetched, stale, faults>>

CleanupCommit ==
    /\ job.phase = "release"
    /\ job.cells = {}
    /\ res' = [r \in Rids |-> IF r \in job.rows
                              THEN [res[r] EXCEPT !.status = "EXPIRED"] ELSE res[r]]
    /\ Keep(Job)
    /\ job' = NoRun
    /\ UNCHANGED <<lapsed, pc, req, fetched, stale, faults>>

\* A screen fetches a cell it has been told about.
Refetch(c) ==
    /\ c \in stale
    /\ fetched' = [fetched EXCEPT ![c] = stock[c].on_hand]
    /\ stale' = stale \ {c}
    /\ UNCHANGED <<dbVars, lapsed, pc, req, job, faults>>

\* The pod, the job or its connection dies: PostgreSQL undoes what it had open.
Crash(p) ==
    /\ pc[p] # "idle"
    /\ faults < MaxFaults
    /\ faults' = faults + 1
    /\ Undo(p)
    /\ Finish(p)
    /\ UNCHANGED <<res, lapsed, job, fetched, stale>>

CleanupCrash ==
    /\ job.phase = "release"
    /\ faults < MaxFaults
    /\ faults' = faults + 1
    /\ Undo(Job)
    /\ job' = NoRun
    /\ UNCHANGED <<res, lapsed, pc, req, fetched, stale>>

-----------------------------------------------------------------------------

Init ==
    /\ stock = [c \in Cells |-> [on_hand |-> OnHand[c], reserved |-> 0]]
    /\ draft = stock
    /\ lock = [c \in Cells |-> NoProc]
    /\ res = [r \in Rids |-> NoReservation]
    /\ lapsed = {}
    /\ pc = [p \in Procs |-> "idle"]
    /\ req = [p \in Procs |-> NoRequest]
    /\ job = NoRun
    /\ fetched = [c \in Shown |-> OnHand[c]]
    /\ stale = {}
    /\ faults = 0

\* The statements of a request already accepted.
Work(p) ==
    \/ AdjustUpdate(p)
    \/ AdjustRefused(p)
    \/ AdjustCommit(p)
    \/ PublishStock(p)
    \/ ReserveUpdate(p)
    \/ ReserveRefused(p)
    \/ ReserveCommit(p)

Next ==
    \/ \E p \in Procs :
          \/ AdjustRequest(p)
          \/ ReserveRequest(p)
          \/ Work(p)
          \/ Crash(p)
    \/ \E c \in Cells : CleanupRelease(c) \/ Refetch(c)
    \/ \E r \in Rids : Lapse(r)
    \/ CleanupSelect
    \/ CleanupCommit
    \/ CleanupCrash

Spec == Init /\ [][Next]_vars

\* The CronJob starts the job again and again, PostgreSQL grants a cell to its
\* waiters in the order they came, and a request that can go on does.
FairSpec ==
    /\ Spec
    /\ \A p \in Procs : SF_vars(Work(p))
    /\ \A c \in Cells : SF_vars(CleanupRelease(c))
    /\ WF_vars(CleanupSelect)
    /\ WF_vars(CleanupCommit)

-----------------------------------------------------------------------------
(* Properties *)

\* A cell is locked by a transaction that is still open, and for no other's sake.
LocksHaveOwners ==
    \A c \in Cells :
        /\ lock[c] = Job => job.phase = "release"
        /\ \A p \in Procs : lock[c] = p => /\ pc[p] \in {"check", "insert"}
                                           /\ req[p].cell = c

TypeOK ==
    /\ stock \in [Cells -> Cell]
    /\ draft \in [Cells -> Cell]
    /\ lock \in [Cells -> Procs \cup {Job, NoProc}]
    /\ res \in [Rids -> Reservation]
    /\ lapsed \in SUBSET Rids
    /\ pc \in [Procs -> Steps]
    /\ req \in [Procs -> Request]
    /\ job \in [phase : {"idle", "release"}, rows : SUBSET Rids, cells : SUBSET Cells]
    /\ fetched \in [Shown -> Int]
    /\ stale \in SUBSET Shown
    /\ faults \in 0 .. MaxFaults
    /\ LocksHaveOwners

\* reserved_qty of every cell is what its ACTIVE reservations add up to, through
\* reservations, clean-ups, refusals and crashes: no copy is freed twice, and
\* none stays reserved without a reservation.
ReservedMatchesActive == \A c \in Cells : stock[c].reserved = Held(ActiveOf(c))

\* No adjustment leaves a cell below zero, whatever was adjusted meanwhile.
NeverNegative == \A c \in Cells : stock[c].on_hand >= 0

\* A reservation is made of copies nobody else has reserved.  (An adjustment may
\* take reserved copies away: it looks at on_hand only.)
NoOverbooking ==
    [][\A c \in Cells :
          stock'[c].reserved > stock[c].reserved => Available(stock'[c]) >= 0]_vars

\* With all messages sent and all screens refreshed, they show what is there:
\* the message never runs ahead of the commit it tells of.
ScreensCatchUp ==
    faults = 0 =>
        \A c \in Shown :
            \/ c \in stale
            \/ \E p \in Procs : pc[p] = "publish" /\ req[p].cell = c
            \/ fetched[c] = stock[c].on_hand

\* Lapsed reservations are released in the end, in spite of the LIMIT of a run and
\* of runs that die: again and again there comes a moment at which none is left.  (An
\* id is used once, so each of them has its turn.)
LapsedAreReleased == []<>(Lapsed = {})

=============================================================================

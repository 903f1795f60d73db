---------------------------- MODULE StateMachine ----------------------------
(***************************************************************************)
(* The order workflow of intervention-svc (state_machine.py, reached       *)
(* through routes/orders.py): every request is one database transaction at *)
(* READ COMMITTED that updates pending_orders and order_approvals and, in  *)
(* between, calls POST /inventory/adjust of inventory-svc, which commits   *)
(* on its own.  Requests of several clients interleave at every statement. *)
(*                                                                         *)
(* The database is modelled by versions of a row: row[o] is the committed  *)
(* version, draft[o] the newest one, and lock[o] the transaction that      *)
(* wrote it.  An UPDATE whose WHERE clause fails on the version it sees    *)
(* matches nothing; one that matches a row another transaction has written *)
(* waits and is evaluated again on the version that transaction leaves.    *)
(***************************************************************************)
EXTENDS Integers, Sequences, FiniteSets, Functions

CONSTANTS
    Orders,       \* order ids: the proposed orders and the chained ones
    Type,         \* order_type of each order
    Parent,       \* forecast_rationale->>'parent_order_id', or NoOrder
    InitialQty,   \* qty of each proposed order
    PatchQtys,    \* the quantities a PATCH may write
    Procs,        \* requests being served at the same time
    Ops,          \* the endpoints that are called
    Clients,      \* the parties that call them
    NamedSides,   \* the approval_side values a request body may carry
    Watched,      \* the (order, event) pairs whose publication is followed
    Batches,      \* the order_ids lists of the batch endpoints
    Attempts,     \* what one HTTP attempt to inventory-svc may come to
    MaxFaults,    \* bound on the requests a fault disturbs
    NoOrder,
    NoProc

OrderTypes == {"REBALANCE", "WH_TO_STORE", "WH_TRANSFER", "PUBLISHER_ORDER"}
OpNames    == {"approve", "dispatch", "receive", "reject", "patch"}
BatchOps   == {"approve", "dispatch", "receive"}
Live       == {"PENDING", "APPROVED", "IN_TRANSIT"}
Statuses   == Live \cup {"ABSENT", "EXECUTED", "REJECTED"}
Sides      == {"SOURCE", "TARGET", "FINAL"}
Parties    == {"hq", "source", "target"}
Ends       == {"src", "tgt"}
Events     == {"OrderApprovedFinal", "OrderDispatched", "OrderExecuted",
               "OrderRejected"}
AttemptKinds == {"ok", "refused", "redis_down", "lost", "late"}

ASSUME ConstantsAssumption ==
    /\ Type \in [Orders -> OrderTypes]
    /\ Parent \in [Orders -> Orders \cup {NoOrder}]
    /\ NoOrder \notin Orders
    /\ \A c \in Orders : Parent[c] # NoOrder =>
          /\ Type[c] = "WH_TO_STORE"
          /\ Type[Parent[c]] \in {"WH_TRANSFER", "PUBLISHER_ORDER"}
    /\ InitialQty \in [Orders -> Nat \ {0}]
    /\ PatchQtys \subseteq Nat \ {0}
    /\ NoProc \notin Procs
    /\ Ops \subseteq OpNames
    /\ Clients \subseteq Parties
    /\ NamedSides \subseteq Sides
    /\ Watched \subseteq Orders \X Events
    /\ Batches \subseteq Seq(Orders)
    /\ Attempts \subseteq AttemptKinds
    /\ MaxFaults \in Nat

VARIABLES
    row,        \* pending_orders, last committed version of each row
    draft,      \* pending_orders, newest version of each row
    lock,       \* the transaction that wrote draft[o], or NoProc
    sides,      \* order_approvals with decision APPROVED, committed
    mine,       \* order_approvals written by each open transaction
    ledger,     \* what inventory-svc has applied for each order, by end
    pc,         \* where each request stands
    req,        \* what each request asked for
    calls,      \* /inventory/adjust calls a request has still to make
    outbox,     \* events a request sends once it has committed
    published,  \* how often notification-svc was sent each event
    faults

dbVars == <<row, draft, lock, sides, mine>>
vars   == <<row, draft, lock, sides, mine, ledger, pc, req, calls, outbox,
            published, faults>>

-----------------------------------------------------------------------------
(* Rows, requests and calls *)

Row == [status : Statuses, stage : Live \cup {"NONE"},
        dispatched : BOOLEAN, executed : BOOLEAN, qty : Nat]

Request == [op : OpNames, who : Parties, todo : Seq(Orders),
            batch : BOOLEAN, sides : SUBSET Sides, qty : Nat]

Call == [ord : Orders, end : Ends, delta : Int]

PCs == {"idle", "upsert", "update", "adjust", "cascade", "restore", "commit",
        "publish"}

NoRequest == [op |-> "approve", who |-> "hq", todo |-> <<>>, batch |-> FALSE,
              sides |-> {}, qty |-> 0]

NewRow(status, qty) == [status |-> status, stage |-> "NONE",
                        dispatched |-> FALSE, executed |-> FALSE, qty |-> qty]

Absent == NewRow("ABSENT", 0)

\* The columns that record a row's history agree with its status.
StampsOK(r) ==
    /\ r.dispatched <=> \/ r.status \in {"IN_TRANSIT", "EXECUTED"}
                       \/ /\ r.status = "REJECTED"
                          /\ r.stage = "IN_TRANSIT"
    /\ r.executed <=> r.status = "EXECUTED"
    /\ r.stage # "NONE" <=> r.status = "REJECTED"

Children(o) == {c \in Orders : Parent[c] = o}

\* Only an order to a publisher has a NULL source_location_id.
HasSource(o) == Type[o] # "PUBLISHER_ORDER"

Chains(o) == Type[o] \in {"PUBLISHER_ORDER", "WH_TRANSFER"}

Total(f) == FoldFunction(+, 0, f)

\* How an approved quantity is dealt out to the stores of a warehouse: the
\* forecast, shortage and even rules all hand out exactly qty, whatever the
\* weights; a warehouse with no store of the book gets no chained order.
Splits(o, qty) ==
    {f \in [Children(o) -> 0 .. qty] : Total(f) = qty \/ Total(f) = 0}

-----------------------------------------------------------------------------
(* What a transaction sees, and its outcome *)

Sees(p, o) == IF lock[o] = p THEN draft[o] ELSE row[o]

Free(p, o) == lock[o] \in {p, NoProc}

Decided(p, o) == sides[o] \cup {s \in Sides : <<o, s>> \in mine[p]}

\* Mutant of From: dispatch without its guard on the status.
FromAnyDispatch == [approve  |-> {"PENDING"},
                    dispatch |-> {"APPROVED", "IN_TRANSIT"},
                    receive  |-> {"IN_TRANSIT"},
                    reject   |-> {"PENDING", "APPROVED", "IN_TRANSIT"},
                    patch    |-> {"PENDING", "APPROVED"}]

\* The status each UPDATE's WHERE clause admits.
From == [approve  |-> {"PENDING"},
         dispatch |-> {"APPROVED"},
         receive  |-> {"IN_TRANSIT"},
         reject   |-> {"PENDING", "APPROVED", "IN_TRANSIT"},
         patch    |-> {"PENDING", "APPROVED"}]

\* Mutant of Agreed: the COUNT of approvals compared with 1.
AgreedByOne(p, o) ==
    \/ Type[o] = "PUBLISHER_ORDER"
    \/ {"SOURCE", "TARGET"} \cap Decided(p, o) # {}

\* Both sides have approved; an order to a publisher needs no second side.
Agreed(p, o) ==
    \/ Type[o] = "PUBLISHER_ORDER"
    \/ {"SOURCE", "TARGET"} \subseteq Decided(p, o)

Matches(p, o) ==
    /\ Sees(p, o).status \in From[req[p].op]
    /\ req[p].op = "approve" => Agreed(p, o)

Current(p) == Head(req[p].todo)

Write(p, o, r) == /\ draft' = [draft EXCEPT ![o] = r]
                  /\ lock'  = [lock EXCEPT ![o] = p]

StartOf(op) == IF op = "approve" THEN "upsert" ELSE "update"

\* The request is done with its current order; es are the events it will send.
Advance(p, es) ==
    LET rest == Tail(req[p].todo)
    IN  /\ req' = [req EXCEPT ![p].todo = rest]
        /\ pc' = [pc EXCEPT ![p] = IF rest = <<>> THEN "commit"
                                   ELSE StartOf(req[p].op)]
        /\ outbox' = [outbox EXCEPT ![p] = @ \cup (es \cap Watched)]

\* Mutant of Rollback: the connection goes back with its transaction open.
RollbackKeepsLocks(p) ==
    /\ draft' = [o \in Orders |-> IF lock[o] = p THEN row[o] ELSE draft[o]]
    /\ lock' = lock
    /\ mine' = [mine EXCEPT ![p] = {}]
    /\ calls' = [calls EXCEPT ![p] = {}]
    /\ outbox' = [outbox EXCEPT ![p] = {}]
    /\ pc' = [pc EXCEPT ![p] = "idle"]
    /\ req' = [req EXCEPT ![p] = NoRequest]
    /\ UNCHANGED <<row, sides, published>>

\* The transaction is undone: nothing of it was visible to any other.
Rollback(p) ==
    /\ draft' = [o \in Orders |-> IF lock[o] = p THEN row[o] ELSE draft[o]]
    /\ lock' = [o \in Orders |-> IF lock[o] = p THEN NoProc ELSE lock[o]]
    /\ mine' = [mine EXCEPT ![p] = {}]
    /\ calls' = [calls EXCEPT ![p] = {}]
    /\ outbox' = [outbox EXCEPT ![p] = {}]
    /\ pc' = [pc EXCEPT ![p] = "idle"]
    /\ req' = [req EXCEPT ![p] = NoRequest]
    /\ UNCHANGED <<row, sides, published>>

\* HTTPException.  A single request propagates it and the transaction is
\* rolled back; a batch endpoint catches it, reports the order as failed and
\* goes on in the same transaction.
Fail(p) ==
    \/ /\ ~req[p].batch
       /\ Rollback(p)
    \/ /\ req[p].batch
       /\ Advance(p, {})
       /\ calls' = [calls EXCEPT ![p] = {}]
       /\ UNCHANGED <<row, draft, lock, sides, mine, published>>

-----------------------------------------------------------------------------
(* Requests *)

\* authority.py: "source" and "target" are the clerk of the store or the manager
\* of the warehouse at that end of the order.  The manager of a warehouse is
\* also a party at its stores, where the chained and other local orders go.
ActsAt(who, o) ==
    IF who = "source" /\ Type[o] = "WH_TO_STORE" THEN {"source", "target"}
    ELSE {who}

Authorized(who, op, o, status) ==
    \/ who = "hq"
    \/ /\ Type[o] = "PUBLISHER_ORDER"
       /\ who = "target"
       /\ op # "patch"
    \/ /\ Type[o] # "PUBLISHER_ORDER"
       /\ \/ op \in {"approve", "patch"}
          \/ op = "dispatch" /\ "source" \in ActsAt(who, o)
          \/ op = "receive" /\ "target" \in ActsAt(who, o)
          \/ op = "reject" /\ (status = "IN_TRANSIT" => "target" \in ActsAt(who, o))

InferSide(who, o) ==
    CASE Type[o] = "PUBLISHER_ORDER" -> {"FINAL"}
      [] Type[o] # "PUBLISHER_ORDER" /\ who = "hq" -> {"SOURCE", "TARGET"}
      [] Type[o] # "PUBLISHER_ORDER" /\ who = "source" -> {"SOURCE"}
      [] OTHER -> {"TARGET"}

\* An approve request names a side or leaves it to InferSide.
SideChoices(op, who, o) ==
    IF op = "approve"
    THEN {InferSide(who, o)} \cup {{s} : s \in NamedSides}
    ELSE {{}}

QtyChoices(op) == IF op = "patch" THEN PatchQtys ELSE {0}

Start(p, r) ==
    /\ pc[p] = "idle"
    /\ req' = [req EXCEPT ![p] = r]
    /\ pc' = [pc EXCEPT ![p] = StartOf(r.op)]
    /\ UNCHANGED <<dbVars, ledger, calls, outbox, published, faults>>

\* A request on one order; its authority is decided on a version read in a
\* transaction of its own, before the one that changes the order.
SingleRequest(p) ==
    \E op \in Ops, who \in Clients, o \in Orders :
        /\ row[o].status # "ABSENT"
        /\ Authorized(who, op, o, row[o].status)
        /\ \E ss \in SideChoices(op, who, o), q \in QtyChoices(op) :
              Start(p, [op |-> op, who |-> who, todo |-> <<o>>,
                        batch |-> FALSE, sides |-> ss, qty |-> q])

\* A batch request.  The orders the caller may not touch, or that do not
\* exist, are skipped before anything is written, so the list holds the rest.
BatchRequest(p) ==
    \E op \in Ops \cap BatchOps, b \in Batches :
        /\ b # <<>>
        /\ \A i \in 1 .. Len(b) : row[b[i]].status # "ABSENT"
        /\ Start(p, [op |-> op, who |-> "hq", todo |-> b, batch |-> TRUE,
                     sides |-> {}, qty |-> 0])

\* INSERT INTO order_approvals ... ON CONFLICT (order_id, approval_side) DO
\* UPDATE: waits while another transaction has the same key uncommitted.
UpsertApprovals(p) ==
    LET o  == Current(p)
        ss == IF req[p].batch THEN InferSide(req[p].who, o) ELSE req[p].sides
        ks == {<<o, s>> : s \in ss}
    IN  /\ pc[p] = "upsert"
        /\ \A q \in Procs \ {p} : mine[q] \cap ks = {}
        /\ mine' = [mine EXCEPT ![p] = @ \cup ks]
        /\ pc' = [pc EXCEPT ![p] = "update"]
        /\ UNCHANGED <<row, draft, lock, sides, ledger, req, calls, outbox,
                       published, faults>>

-----------------------------------------------------------------------------
(* The transitions.  Each is the UPDATE of a request on its current order. *)

Updating(p, op) == pc[p] = "update" /\ req[p].op = op

\* Both approvals are in: the order is approved, an order to a publisher is at
\* once in transit, and the stores' chained orders are inserted as approved.
ToApproved(p) ==
    LET o == Current(p)
        r == Sees(p, o)
        c == IF HasSource(o)
             THEN [r EXCEPT !.status = "APPROVED"]
             ELSE [r EXCEPT !.status = "IN_TRANSIT", !.dispatched = TRUE]
    IN  /\ Updating(p, "approve")
        /\ Matches(p, o)
        /\ Free(p, o)
        /\ \E f \in Splits(o, r.qty) :
              LET new == {k \in DOMAIN f : Chains(o) /\ f[k] > 0}
              IN  /\ draft' = [k \in Orders |->
                                 IF k = o THEN c
                                 ELSE IF k \in new THEN NewRow("APPROVED", f[k])
                                 ELSE draft[k]]
                  /\ lock' = [k \in Orders |->
                                 IF k = o \/ k \in new THEN p ELSE lock[k]]
        /\ Advance(p, {<<o, "OrderApprovedFinal">>})
        /\ UNCHANGED <<row, sides, mine, ledger, calls, published, faults>>

\* Mutant of ApprovedOneSide: the final event for every approval.
ApprovedOneSideIsFinal(p) ==
    /\ Updating(p, "approve")
    /\ ~Matches(p, Current(p))
    /\ Advance(p, {<<Current(p), "OrderApprovedFinal">>})
    /\ UNCHANGED <<dbVars, ledger, calls, published, faults>>

\* One side only, or not PENDING: the approval stays recorded, no transition.
ApprovedOneSide(p) ==
    /\ Updating(p, "approve")
    /\ ~Matches(p, Current(p))
    /\ Advance(p, {})
    /\ UNCHANGED <<dbVars, ledger, calls, published, faults>>

ToInTransit(p) ==
    LET o == Current(p)
        r == Sees(p, o)
    IN  /\ Updating(p, "dispatch")
        /\ Matches(p, o)
        /\ Free(p, o)
        /\ Write(p, o, [r EXCEPT !.status = "IN_TRANSIT", !.dispatched = TRUE])
        /\ IF HasSource(o)
           THEN /\ calls' = [calls EXCEPT ![p] =
                               {[ord |-> o, end |-> "src", delta |-> -r.qty]}]
                /\ pc' = [pc EXCEPT ![p] = "adjust"]
                /\ UNCHANGED <<req, outbox>>
           ELSE /\ Advance(p, {<<o, "OrderDispatched">>})
                /\ UNCHANGED calls
        /\ UNCHANGED <<row, sides, mine, ledger, published, faults>>

ToExecuted(p) ==
    LET o == Current(p)
        r == Sees(p, o)
    IN  /\ Updating(p, "receive")
        /\ Matches(p, o)
        /\ Free(p, o)
        /\ Write(p, o, [r EXCEPT !.status = "EXECUTED", !.executed = TRUE])
        /\ calls' = [calls EXCEPT ![p] =
                       {[ord |-> o, end |-> "tgt", delta |-> r.qty]}]
        /\ pc' = [pc EXCEPT ![p] = "adjust"]
        /\ UNCHANGED <<row, sides, mine, ledger, req, outbox, published, faults>>

\* Mutants of Rejected: the stage read after the status is written, and the
\* stage left out.
RejectedStageAfter(r) == [r EXCEPT !.status = "REJECTED", !.stage = "REJECTED"]
RejectedNoStage(r)    == [r EXCEPT !.status = "REJECTED"]

\* A rejected version of a row: the stage is the status it is rejected from.
Rejected(r) == [r EXCEPT !.status = "REJECTED", !.stage = r.status]

\* Mutant of Restore: a return that puts nothing back.
RestoreNothing(o, r) == {}

\* The call that puts back what a rejected order had already taken out.
Restore(o, r) ==
    IF r.status = "IN_TRANSIT" /\ HasSource(o)
    THEN {[ord |-> o, end |-> "src", delta |-> r.qty]}
    ELSE {}

ToRejected(p) ==
    LET o == Current(p)
        r == Sees(p, o)
    IN  /\ Updating(p, "reject")
        /\ Matches(p, o)
        /\ Free(p, o)
        /\ Write(p, o, Rejected(r))
        /\ calls' = [calls EXCEPT ![p] = Restore(o, r)]
        /\ IF Restore(o, r) # {}
           THEN pc' = [pc EXCEPT ![p] = "adjust"] /\ UNCHANGED <<req, outbox>>
           ELSE IF Chains(o)
           THEN pc' = [pc EXCEPT ![p] = "cascade"] /\ UNCHANGED <<req, outbox>>
           ELSE Advance(p, {<<o, "OrderRejected">>})
        /\ UNCHANGED <<row, sides, mine, ledger, published, faults>>

\* PATCH of the quantity.
PatchOrder(p) ==
    LET o == Current(p)
    IN  /\ Updating(p, "patch")
        /\ Matches(p, o)
        /\ Free(p, o)
        /\ Write(p, o, [Sees(p, o) EXCEPT !.qty = req[p].qty])
        /\ Advance(p, {})
        /\ UNCHANGED <<row, sides, mine, ledger, calls, published, faults>>

\* The UPDATE matched no row: 409.
Conflict(p) ==
    /\ pc[p] = "update"
    /\ req[p].op # "approve"
    /\ ~Matches(p, Current(p))
    /\ Fail(p)
    /\ UNCHANGED <<ledger, faults>>

\* Mutant of CancelChained: only the chained orders not yet shipped.
CancelChainedUnshipped(p) ==
    LET o  == Current(p)
        cs == {c \in Children(o) : Sees(p, c).status \in {"PENDING", "APPROVED"}}
    IN  /\ pc[p] = "cascade"
        /\ \A c \in cs : Free(p, c)
        /\ draft' = [c \in Orders |-> IF c \in cs THEN Rejected(Sees(p, c))
                                      ELSE draft[c]]
        /\ lock' = [c \in Orders |-> IF c \in cs THEN p ELSE lock[c]]
        /\ Advance(p, {<<o, "OrderRejected">>})
        /\ UNCHANGED <<row, sides, mine, ledger, calls, published, faults>>

\* The chained orders of a rejected order are rejected with it.
CancelChained(p) ==
    LET o  == Current(p)
        cs == {c \in Children(o) : Sees(p, c).status \in Live}
        restores == UNION {Restore(c, Sees(p, c)) : c \in cs}
    IN  /\ pc[p] = "cascade"
        /\ \A c \in cs : Free(p, c)
        /\ draft' = [c \in Orders |-> IF c \in cs THEN Rejected(Sees(p, c))
                                      ELSE draft[c]]
        /\ lock' = [c \in Orders |-> IF c \in cs THEN p ELSE lock[c]]
        /\ calls' = [calls EXCEPT ![p] = restores]
        /\ IF restores # {}
           THEN pc' = [pc EXCEPT ![p] = "restore"] /\ UNCHANGED <<req, outbox>>
           ELSE Advance(p, {<<o, "OrderRejected">>})
        /\ UNCHANGED <<row, sides, mine, ledger, published, faults>>

-----------------------------------------------------------------------------
(* The call to inventory-svc, the end of the transaction, and faults *)

Applied(a) == IF a \in {"ok", "redis_down", "late"} THEN 1 ELSE 0

\* One adjust call: a first attempt that times out or finds no connection is
\* repeated once; the caller cannot tell whether it was applied.  inventory-svc
\* commits before it publishes to Redis, so it may answer 500 to a delta it has
\* applied.
CallResult(a, b) ==
    IF a \in {"lost", "late"}
    THEN [ok |-> b = "ok", times |-> Applied(a) + Applied(b)]
    ELSE [ok |-> a = "ok", times |-> Applied(a)]

\* inventory-svc sees the token of the caller, who may change the stock of his
\* own end only; a chained order leaves the warehouse its parent goes to.
MayAdjust(who, o, c) ==
    \/ who = "hq"
    \/ c.ord = o /\ c.end = "src" /\ "source" \in ActsAt(who, o)
    \/ c.ord = o /\ c.end = "tgt" /\ "target" \in ActsAt(who, o)
    \/ c.ord # o /\ who = "target"

\* What an attempt may come to: 403 for a caller who may not change that stock.
Answers(who, o, c) ==
    IF MayAdjust(who, o, c) THEN Attempts
    ELSE {"refused"} \cup (Attempts \cap {"lost"})

Disturbed(a) == IF a \in {"ok", "refused"} THEN 0 ELSE 1

EventOf == [approve |-> "OrderApprovedFinal", dispatch |-> "OrderDispatched",
            receive |-> "OrderExecuted", reject |-> "OrderRejected"]

CallInventoryAdjust(p) ==
    LET o == Current(p)
    IN  \E c \in calls[p] : \E a, b \in Answers(req[p].who, o, c) :
        LET res  == CallResult(a, b)
            rest == calls[p] \ {c}
        IN  /\ pc[p] \in {"adjust", "restore"}
            /\ faults' = faults + Disturbed(a)
            /\ faults' <= MaxFaults
            /\ ledger' = [ledger EXCEPT ![c.ord][c.end] =
                            @ + res.times * c.delta]
            /\ IF ~res.ok THEN Fail(p)
               ELSE /\ calls' = [calls EXCEPT ![p] = rest]
                    /\ IF rest # {} THEN UNCHANGED <<pc, req, outbox>>
                       ELSE IF pc[p] = "adjust" /\ req[p].op = "reject" /\ Chains(o)
                       THEN pc' = [pc EXCEPT ![p] = "cascade"]
                            /\ UNCHANGED <<req, outbox>>
                       ELSE Advance(p, {<<o, EventOf[req[p].op]>>})
                    /\ UNCHANGED <<dbVars, published>>

Commit(p) ==
    /\ pc[p] = "commit"
    /\ row' = [o \in Orders |-> IF lock[o] = p THEN draft[o] ELSE row[o]]
    /\ lock' = [o \in Orders |-> IF lock[o] = p THEN NoProc ELSE lock[o]]
    /\ sides' = [o \in Orders |-> Decided(p, o)]
    /\ mine' = [mine EXCEPT ![p] = {}]
    /\ pc' = [pc EXCEPT ![p] = "publish"]
    /\ UNCHANGED <<draft, ledger, req, calls, outbox, published, faults>>

\* Fire-and-forget: a call to notification-svc that fails is logged and skipped.
PublishOrderEvent(p) ==
    /\ pc[p] = "publish"
    /\ \E sent \in SUBSET outbox[p] :
          published' = [k \in Watched |->
                          published[k] + IF k \in sent THEN 1 ELSE 0]
    /\ outbox' = [outbox EXCEPT ![p] = {}]
    /\ pc' = [pc EXCEPT ![p] = "idle"]
    /\ req' = [req EXCEPT ![p] = NoRequest]
    /\ UNCHANGED <<dbVars, ledger, calls, faults>>

\* The pod dies, or the connection or the commit fails: PostgreSQL undoes what
\* was not committed, inventory-svc keeps what it applied.
Crash(p) ==
    /\ pc[p] # "idle"
    /\ faults < MaxFaults
    /\ faults' = faults + 1
    /\ Rollback(p)
    /\ UNCHANGED ledger

\* p waits for a row, or for a key of order_approvals, that q has written.
Waits(p, q) ==
    /\ p # q
    /\ \/ /\ pc[p] = "update"
          /\ Matches(p, Current(p))
          /\ lock[Current(p)] = q
       \/ /\ pc[p] = "cascade"
          /\ \E c \in Children(Current(p)) :
                row[c].status \in Live /\ lock[c] = q
       \/ /\ pc[p] = "upsert"
          /\ \E s \in (IF req[p].batch THEN InferSide(req[p].who, Current(p))
                       ELSE req[p].sides) : <<Current(p), s>> \in mine[q]

\* PostgreSQL aborts a transaction of a cycle; the error is no HTTPException,
\* so the batch endpoints do not catch it either.
DeadlockVictim(p) ==
    /\ \E S \in SUBSET Procs :
          /\ p \in S
          /\ \A q \in S : (\E r \in S : Waits(q, r)) /\ (\E r \in S : Waits(r, q))
    /\ Rollback(p)
    /\ UNCHANGED <<ledger, faults>>

-----------------------------------------------------------------------------

Init ==
    /\ row = [o \in Orders |-> IF Parent[o] = NoOrder
                               THEN NewRow("PENDING", InitialQty[o])
                               ELSE Absent]
    /\ draft = row
    /\ lock = [o \in Orders |-> NoProc]
    /\ sides = [o \in Orders |-> {}]
    /\ mine = [p \in Procs |-> {}]
    /\ ledger = [o \in Orders |-> [src |-> 0, tgt |-> 0]]
    /\ pc = [p \in Procs |-> "idle"]
    /\ req = [p \in Procs |-> NoRequest]
    /\ calls = [p \in Procs |-> {}]
    /\ outbox = [p \in Procs |-> {}]
    /\ published = [k \in Watched |-> 0]
    /\ faults = 0

\* The statements of a request already accepted.
Work(p) ==
    \/ UpsertApprovals(p)
    \/ ToApproved(p)
    \/ ApprovedOneSide(p)
    \/ ToInTransit(p)
    \/ ToExecuted(p)
    \/ ToRejected(p)
    \/ PatchOrder(p)
    \/ Conflict(p)
    \/ CancelChained(p)
    \/ CallInventoryAdjust(p)
    \/ Commit(p)
    \/ PublishOrderEvent(p)
    \/ DeadlockVictim(p)

Next ==
    \E p \in Procs :
        \/ SingleRequest(p)
        \/ BatchRequest(p)
        \/ Work(p)
        \/ Crash(p)

Spec == Init /\ [][Next]_vars

\* Rows are granted to their waiters in the order they came, and a cycle is
\* broken after deadlock_timeout, so a statement that can run time and again
\* does run.
FairSpec == Spec /\ \A p \in Procs : SF_vars(Work(p))

-----------------------------------------------------------------------------
(* Properties *)

TypeOK ==
    /\ row \in [Orders -> Row]
    /\ draft \in [Orders -> Row]
    /\ lock \in [Orders -> Procs \cup {NoProc}]
    /\ sides \in [Orders -> SUBSET Sides]
    /\ mine \in [Procs -> SUBSET (Orders \X Sides)]
    /\ ledger \in [Orders -> [src : Int, tgt : Int]]
    /\ pc \in [Procs -> PCs]
    /\ req \in [Procs -> Request]
    /\ calls \in [Procs -> SUBSET Call]
    /\ outbox \in [Procs -> SUBSET Watched]
    /\ published \in [Watched -> Nat]
    /\ faults \in 0 .. MaxFaults

\* The three CHECKs of state_machine.py:8-10 on every committed row:
\* dispatched_at, executed_at and rejection_stage are set exactly in the
\* statuses that call for them, whichever requests met on the row.
StampsMatchStatus == \A o \in Orders : StampsOK(row[o])

Effect(o, r) ==
    [src |-> IF HasSource(o) /\ r.status \in {"IN_TRANSIT", "EXECUTED"}
             THEN -r.qty ELSE 0,
     tgt |-> IF r.status = "EXECUTED" THEN r.qty ELSE 0]

\* Whenever no transaction has an order open, the stock inventory-svc has moved
\* for it is what its status says: taken from the source once it is in transit,
\* given to the target once it is executed, put back if it was rejected.
StockMatchesStatus ==
    \A o \in Orders : lock[o] = NoProc => ledger[o] = Effect(o, row[o])

\* A rejected order leaves no chained order of its own to be shipped.
NoChainUnderRejected ==
    \A c \in Orders :
        /\ Parent[c] # NoOrder
        /\ row[Parent[c]].status = "REJECTED"
        => row[c].status \notin Live

\* No transfer is approved, shipped or delivered that its source and its target
\* have not both approved; no chained order exists before its parent's approval.
NoneWithoutConsent ==
    \A o \in Orders :
        row[o].status \in {"APPROVED", "IN_TRANSIT", "EXECUTED"} =>
            IF Parent[o] # NoOrder
            THEN row[Parent[o]].status \notin {"ABSENT", "PENDING"}
            ELSE HasSource(o) => {"SOURCE", "TARGET"} \subseteq sides[o]

\* Every event tells of a committed transition, and tells of it only once.
EventsOnceAndTrue ==
    \A k \in Watched :
        LET r == row[k[1]]
        IN  /\ published[k] <= 1
            /\ published[k] = 1 =>
                  CASE k[2] = "OrderApprovedFinal" -> r.status \notin {"ABSENT", "PENDING"}
                    [] k[2] = "OrderDispatched" -> r.dispatched
                    [] k[2] = "OrderExecuted" -> r.status = "EXECUTED"
                    [] k[2] = "OrderRejected" -> r.status = "REJECTED"

\* The committed version of an order until inventory-svc has moved its stock,
\* the newest one from then on.
Settled(o) == IF lock[o] # NoProc /\ ledger[o] # Effect(o, row[o])
              THEN draft[o] ELSE row[o]

Lifecycle == INSTANCE OrderLifecycle WITH
    Sourced <- {o \in Orders : HasSource(o)},
    order   <- [o \in Orders |-> [status |-> Settled(o).status,
                                  qty |-> Settled(o).qty]],
    stock   <- ledger

\* The transactions and calls implement the lifecycle: stock and status change
\* together, along its edges only.
ImplementsLifecycle == Lifecycle!Spec

\* Every accepted request is answered: no set of requests waits for ever for
\* the rows of the others.
RequestsFinish == \A p \in Procs : pc[p] # "idle" ~> pc[p] = "idle"

-----------------------------------------------------------------------------
(* What comments and documents say of the code, and it does not do *)

\* state_machine.py:142: the guard on the status blocks a double dispatch, so
\* the source of an order gives up its quantity at most once.
DeductedOnce == \A o \in Orders : ledger[o].src >= -draft[o].qty

\* README.md:7 of intervention-svc: once both sides have approved, the order is
\* approved (state_machine.py:52 calls the transition race-safe).
BothSidesSuffice ==
    \A o \in Orders :
        /\ {"SOURCE", "TARGET"} \subseteq sides[o]
        /\ \A p \in Procs : pc[p] = "idle"
        => row[o].status # "PENDING"

=============================================================================

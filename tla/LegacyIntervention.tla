-------------------------- MODULE LegacyIntervention -------------------------
(***************************************************************************)
(* The first generation of endpoints (routes/intervention.py) on the rows  *)
(* of StateMachine, next to its requests.  They write pending_orders by    *)
(* order_id with little or no condition on the status: what they rely on   *)
(* is what they read a statement earlier, and the CHECK constraints of     *)
(* the table.  None of them chains orders or calls inventory-svc before    *)
(* its commit.                                                             *)
(*                                                                         *)
(* A legacy request is a process of Legacy.  It shares the locks and the   *)
(* uncommitted approvals of StateMachine; pc, req and calls belong to the  *)
(* requests of the state machine and stay as they are.                     *)
(***************************************************************************)
EXTENDS StateMachine

CONSTANTS
    Legacy,       \* the processes that serve legacy endpoints
    V1Ops,        \* the legacy endpoints that are called
    V1Clients,    \* the parties that call them
    V1Lists       \* the item lists of the bulk endpoints, as sets of orders

V1OpNames == {"approve", "reject", "receive", "refuse", "edit"}

ASSUME LegacyAssumption ==
    /\ Legacy \subseteq Procs
    /\ V1Ops \subseteq V1OpNames
    /\ V1Clients \subseteq Parties
    /\ V1Lists \subseteq SUBSET Orders

VARIABLES
    v1,           \* each legacy request
    turned        \* order_approvals rows a legacy rejection has written

allVars == <<vars, v1, turned>>

Keys == Orders \X Sides

\* A request.  items: approvals still to be written; had: those the SELECT before
\* has found; denied: those written with decision REJECTED; todo: orders still to be
\* updated; qty: quantities read, or to be written.
Idle == [step |-> "idle", op |-> "approve", who |-> "hq", bulk |-> FALSE,
         items |-> {}, had |-> {}, denied |-> {}, todo |-> {},
         qty |-> [o \in Orders |-> 0]]

\* Mutant of CheckAllows: the migration that adds the CHECKs has not been run.
CheckAllowsAll(r) == TRUE

\* The CHECK constraints of pending_orders.
CheckAllows(r) == StampsOK(r)

Exists(k) == k[2] \in sides[k[1]] \/ <<k[1], k[2]>> \in turned

\* The keys of order_approvals that process q has written and not committed.
Held(q) == mine[q] \cup (IF q \in Legacy THEN v1[q].denied ELSE {})

-----------------------------------------------------------------------------
(* Authority *)

\* The approval_side values a legacy request may carry for an order.
V1Sides(o) == IF HasSource(o) THEN {"SOURCE", "TARGET"} ELSE {"FINAL"}

\* _validate_authority, and _check_authority_rules in bulk requests.
MayDecide(who, o, s) ==
    /\ s \in V1Sides(o)
    /\ \/ who = "hq"
       \/ s = "SOURCE" /\ who = "source"
       \/ s # "SOURCE" /\ who = "target"

\* The rights matrix of the inbound endpoints.
MayReceive(who, o) == who = "hq" \/ "target" \in ActsAt(who, o)

-----------------------------------------------------------------------------
(* Requests.  The SELECTs before the first write are one step with the start; *)
(* what they return is kept in the request.                                   *)

Accept(u, r) ==
    /\ v1[u].step = "idle"
    /\ v1' = [v1 EXCEPT ![u] = r]
    /\ UNCHANGED <<vars, turned>>

\* POST /approve and /reject on one side, /intervene/batch and
\* /intervene/approve-all-today on every side the caller may decide.
V1Decide(u) ==
    \E op \in V1Ops \cap {"approve", "reject"}, who \in V1Clients :
        \/ \E o \in Orders, s \in Sides :
              /\ row[o].status # "ABSENT"
              /\ MayDecide(who, o, s)
              /\ Accept(u, [Idle EXCEPT !.step = "record", !.op = op, !.who = who,
                               !.items = {<<o, s>>},
                               !.had = {k \in {<<o, s>>} : Exists(k)},
                               !.todo = {o}])
        \/ \E os \in V1Lists :
              LET ks == {k \in os \X Sides : /\ row[k[1]].status # "ABSENT"
                                             /\ MayDecide(who, k[1], k[2])}
              IN  /\ ks # {}
                  /\ Accept(u, [Idle EXCEPT !.step = "record", !.op = op,
                                   !.who = who, !.bulk = TRUE, !.items = ks,
                                   !.had = {k \in ks : Exists(k)},
                                   !.todo = {k[1] : k \in ks}])

\* POST /inbound/{id}/receive, /inbound/{id}/reject and /inbound/batch-receive,
\* for what is APPROVED when it is read.
V1Inbound(u) ==
    \E op \in V1Ops \cap {"receive", "refuse"}, who \in V1Clients :
        \E os \in {{o} : o \in Orders} \cup (IF op = "receive" THEN V1Lists ELSE {}) :
            LET good == {o \in os : row[o].status = "APPROVED" /\ MayReceive(who, o)}
            IN  /\ good # {}
                /\ Accept(u, [Idle EXCEPT !.step = "status", !.op = op, !.who = who,
                                 !.bulk = os \in V1Lists, !.todo = good,
                                 !.qty = [o \in Orders |-> IF o \in good
                                                           THEN row[o].qty ELSE 0]])

\* PATCH /pending-orders/{id}, for what is PENDING when it is read.
V1Edit(u) ==
    \E o \in Orders, q \in PatchQtys, who \in V1Clients :
        /\ "edit" \in V1Ops
        /\ row[o].status = "PENDING"
        /\ Accept(u, [Idle EXCEPT !.step = "status", !.op = "edit", !.who = who,
                         !.todo = {o}, !.qty = [Idle.qty EXCEPT ![o] = q]])

-----------------------------------------------------------------------------
(* Statements *)

\* Any error: the transaction is undone and the request answered with it.
V1Undo(u) ==
    /\ Rollback(u)
    /\ v1' = [v1 EXCEPT ![u] = Idle]
    /\ UNCHANGED turned

\* SELECT-then-write of one order_approvals row: an UPDATE if the SELECT found
\* it, else an INSERT, which fails if somebody else has inserted it since.
V1Record(u) ==
    \E k \in v1[u].items :
        /\ v1[u].step = "record"
        /\ \A q \in Procs \ {u} : k \notin Held(q)
        /\ IF k \notin v1[u].had /\ Exists(k)
           THEN V1Undo(u) /\ UNCHANGED <<ledger, faults>>
           ELSE /\ LET rest == v1[u].items \ {k}
                   IN  v1' = [v1 EXCEPT ![u].items = rest,
                                 ![u].denied = IF v1[u].op = "reject"
                                               THEN @ \cup {k} ELSE @,
                                 ![u].step = IF rest = {} THEN "status" ELSE @]
                /\ mine' = [mine EXCEPT ![u] = IF v1[u].op = "approve"
                                               THEN @ \cup {k} ELSE @]
                /\ UNCHANGED <<row, draft, lock, sides, ledger, pc, req, calls,
                               outbox, published, faults, turned>>

\* Mutant of V1Admits: the bulk rejection leaves out what is on its way, too.
V1AdmitsStaying(u, o) ==
    LET r == Sees(u, o)
    IN  CASE v1[u].op = "approve" ->
               /\ v1[u].bulk => r.status \notin {"APPROVED", "EXECUTED"}
               /\ Agreed(u, o)
          [] v1[u].op = "reject" ->
               v1[u].bulk => r.status \notin {"IN_TRANSIT", "REJECTED", "EXECUTED"}
          [] OTHER -> TRUE

\* The WHERE clause beside the order_id: bulk requests leave out some statuses,
\* an approval of a side asks for both approvals.
V1Admits(u, o) ==
    LET r == Sees(u, o)
    IN  CASE v1[u].op = "approve" ->
               /\ v1[u].bulk => r.status \notin {"APPROVED", "EXECUTED"}
               /\ Agreed(u, o)
          [] v1[u].op = "reject" ->
               v1[u].bulk => r.status \notin {"REJECTED", "EXECUTED"}
          [] OTHER -> TRUE

\* Mutant of V1Version: an approval clears what a dispatch has recorded.
V1VersionUndispatched(u, o) ==
    LET r == Sees(u, o)
    IN  CASE v1[u].op = "approve" -> [r EXCEPT !.status = "APPROVED",
                                               !.dispatched = FALSE,
                                               !.executed = FALSE]
          [] v1[u].op \in {"reject", "refuse"} ->
               [r EXCEPT !.status = "REJECTED",
                         !.stage = IF r.status \in Live THEN r.status ELSE "NONE"]
          [] v1[u].op = "receive" ->
               [r EXCEPT !.status = "EXECUTED", !.dispatched = TRUE,
                         !.executed = TRUE]
          [] OTHER -> [r EXCEPT !.qty = v1[u].qty[o]]

\* What the SET clause makes of the version it finds.
V1Version(u, o) ==
    LET r == Sees(u, o)
    IN  CASE v1[u].op = "approve" -> [r EXCEPT !.status = "APPROVED"]
          [] v1[u].op \in {"reject", "refuse"} ->
               [r EXCEPT !.status = "REJECTED",
                         !.stage = IF r.status \in Live THEN r.status ELSE "NONE"]
          [] v1[u].op = "receive" ->
               [r EXCEPT !.status = "EXECUTED", !.dispatched = TRUE,
                         !.executed = TRUE]
          [] OTHER -> [r EXCEPT !.qty = v1[u].qty[o]]

\* UPDATE pending_orders: waits for whoever has written the row, and a version
\* that fails a CHECK fails the whole request, bulk or not.
V1Update(u) ==
    \E o \in v1[u].todo :
        LET rest == v1[u].todo \ {o}
            done == [v1 EXCEPT ![u].todo = rest,
                               ![u].step = IF rest = {} THEN "commit" ELSE @]
        IN  /\ v1[u].step = "status"
            /\ \/ /\ ~V1Admits(u, o)
                  /\ v1' = done
                  /\ UNCHANGED <<vars, turned>>
               \/ /\ V1Admits(u, o)
                  /\ Free(u, o)
                  /\ CheckAllows(V1Version(u, o))
                  /\ Write(u, o, V1Version(u, o))
                  /\ v1' = done
                  /\ UNCHANGED <<row, sides, mine, ledger, pc, req, calls, outbox,
                                 published, faults, turned>>
               \/ /\ V1Admits(u, o)
                  /\ Free(u, o)
                  /\ ~CheckAllows(V1Version(u, o))
                  /\ V1Undo(u)
                  /\ UNCHANGED <<ledger, faults>>

\* The bulk receive adds to inventory in its own transaction; the single one
\* calls inventory-svc once it has committed.
V1Commit(u) ==
    LET got == {o \in Orders : v1[u].bulk /\ v1[u].op = "receive" /\ lock[o] = u}
    IN  /\ v1[u].step = "commit"
        /\ row' = [o \in Orders |-> IF lock[o] = u THEN draft[o] ELSE row[o]]
        /\ lock' = [o \in Orders |-> IF lock[o] = u THEN NoProc ELSE lock[o]]
        /\ sides' = [o \in Orders |->
                       {s \in Decided(u, o) : <<o, s>> \notin v1[u].denied}]
        /\ turned' = turned \cup v1[u].denied
        /\ mine' = [mine EXCEPT ![u] = {}]
        /\ ledger' = [o \in Orders |->
                        IF o \in got
                        THEN [ledger[o] EXCEPT !.tgt = @ + v1[u].qty[o]]
                        ELSE ledger[o]]
        /\ v1' = [v1 EXCEPT ![u] =
                    IF v1[u].op = "receive" /\ ~v1[u].bulk
                    THEN [@ EXCEPT !.step = "adjust"] ELSE Idle]
        /\ UNCHANGED <<draft, pc, req, calls, outbox, published, faults>>

\* One attempt, whose failure is logged and reported but changes nothing.
\* The order is the one whose quantity was read at the start.
V1Adjust(u) ==
    \E o \in {k \in Orders : v1[u].qty[k] > 0} :
        LET c == [ord |-> o, end |-> "tgt", delta |-> v1[u].qty[o]]
        IN  \E a \in Answers(v1[u].who, o, c) :
                /\ v1[u].step = "adjust"
                /\ faults' = faults + Disturbed(a)
                /\ faults' <= MaxFaults
                /\ ledger' = [ledger EXCEPT ![o].tgt = @ + Applied(a) * c.delta]
                /\ v1' = [v1 EXCEPT ![u] = Idle]
                /\ UNCHANGED <<dbVars, pc, req, calls, outbox, published, turned>>

V1Crash(u) ==
    /\ v1[u].step # "idle"
    /\ faults < MaxFaults
    /\ faults' = faults + 1
    /\ V1Undo(u)
    /\ UNCHANGED ledger

-----------------------------------------------------------------------------
(* Waiting for each other *)

\* A request of the state machine waits for an approval a legacy rejection has
\* written.
BlockedByDenial(p, u) ==
    /\ pc[p] = "upsert"
    /\ \E s \in (IF req[p].batch THEN InferSide(req[p].who, Current(p))
                 ELSE req[p].sides) : <<Current(p), s>> \in v1[u].denied

WaitsFor(p, q) ==
    IF p \notin Legacy
    THEN Waits(p, q) \/ (q \in Legacy /\ BlockedByDenial(p, q))
    ELSE /\ p # q
         /\ \/ v1[p].step = "record" /\ v1[p].items \cap Held(q) # {}
            \/ /\ v1[p].step = "status"
               /\ \E o \in v1[p].todo : V1Admits(p, o) /\ lock[o] = q

\* PostgreSQL aborts a transaction of a cycle that a legacy request is part of.
V1Deadlock(p) ==
    /\ \E S \in SUBSET Procs :
          /\ p \in S
          /\ S \cap Legacy # {}
          /\ \A q \in S : /\ \E r \in S : WaitsFor(q, r)
                          /\ \E r \in S : WaitsFor(r, q)
    /\ IF p \in Legacy THEN V1Undo(p)
       ELSE Rollback(p) /\ UNCHANGED <<v1, turned>>
    /\ UNCHANGED <<ledger, faults>>

-----------------------------------------------------------------------------

V1Work(u) ==
    \/ V1Record(u)
    \/ V1Update(u)
    \/ V1Commit(u)
    \/ V1Adjust(u)
    \/ V1Deadlock(u)

\* The steps of a request of the state machine, beside legacy ones.
V2Work(p) ==
    \/ /\ Work(p)
       /\ \A u \in Legacy : ~BlockedByDenial(p, u)
       /\ UNCHANGED <<v1, turned>>
    \/ V1Deadlock(p)

LegacyInit ==
    /\ Init
    /\ v1 = [u \in Legacy |-> Idle]
    /\ turned = {}

LegacyNext ==
    \/ \E u \in Legacy :
          \/ V1Decide(u)
          \/ V1Inbound(u)
          \/ V1Edit(u)
          \/ V1Work(u)
          \/ V1Crash(u)
    \/ \E p \in Procs \ Legacy :
          \/ V2Work(p)
          \/ /\ SingleRequest(p) \/ BatchRequest(p) \/ Crash(p)
             /\ UNCHANGED <<v1, turned>>

LegacySpec == LegacyInit /\ [][LegacyNext]_allVars

-----------------------------------------------------------------------------
(* Properties *)

Rank == [ABSENT |-> 0, PENDING |-> 1, APPROVED |-> 2, IN_TRANSIT |-> 3,
         EXECUTED |-> 4, REJECTED |-> 4]

\* However legacy and state-machine requests overlap on an order, no committed
\* status ever goes back, and an executed or rejected order stays what it is:
\* the unconditional UPDATEs of intervention.py are held off by the CHECKs.
OnlyForward ==
    [][\A o \in Orders : \/ row'[o].status = row[o].status
                         \/ Rank[row'[o].status] > Rank[row[o].status]]_allVars

\* As long as no request is disturbed, an order whose committed status says that
\* it has not left its source has moved no stock, whoever wrote over it.
NothingMovedBefore ==
    faults = 0 => \A o \in Orders :
        /\ lock[o] = NoProc
        /\ row[o].status \in {"ABSENT", "PENDING", "APPROVED"}
        => ledger[o] = [src |-> 0, tgt |-> 0]

\* Whichever generation of endpoints approves an order between two locations,
\* both of its sides have approved it when it leaves PENDING.
ApprovedByBoth ==
    [][\A o \in Orders :
          /\ HasSource(o)
          /\ row[o].status = "PENDING"
          /\ row'[o].status \notin {"PENDING", "REJECTED"}
          => {"SOURCE", "TARGET"} \subseteq sides'[o]]_allVars

\* A rejection, of one order or in bulk, leaves none of its orders open, or else
\* leaves all of them as they were.
RejectClosesAll ==
    [][\A u \in Legacy :
          /\ v1[u].step = "commit" /\ v1[u].op = "reject" /\ v1'[u].step = "idle"
          => \/ \A k \in v1[u].denied :
                   row'[k[1]].status \in {"REJECTED", "EXECUTED"}
             \/ row' = row]_allVars

=============================================================================

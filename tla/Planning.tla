------------------------------- MODULE Planning -------------------------------
(***************************************************************************)
(* decision-svc (routes/decision.py) for one book: /decide proposes one    *)
(* order, /plan-daily replaces the day's proposals by a new plan.  The     *)
(* planner is one transaction at READ COMMITTED whose statements each see  *)
(* what others have committed by then; meanwhile people approve, edit,     *)
(* ship, receive and reject orders.  Those requests are atomic here,       *)
(* except for a receipt, whose stock inventory-svc commits before its      *)
(* status is committed.                                                    *)
(*                                                                         *)
(* Books do not influence each other's plan.  The forecast of the day is   *)
(* in the constants; reserved stock stays reserved and is left out.        *)
(***************************************************************************)
EXTENDS Integers, Sequences, FiniteSets, Functions

CONSTANTS
    Whs,          \* warehouses; a name stands for its body location, too
    Stores,       \* active offline stores
    WhOf,
    Order,        \* the locations in the order the database lists them
    InitStocks,   \* the stocks to start from
    Safety,       \* inventory.safety_stock
    Desired,      \* max(safety_stock, ceil(forecast * PLAN_..._DAYS))
    Demand,       \* forecast of 14 days
    MinRow,       \* PLAN_MIN_ROW_QTY
    MinEoq,       \* MIN_EOQ
    Eoq,          \* _calc_eoq of the book
    DecideQtys,   \* quantities asked of /decide
    NewQtys,      \* quantities and
    NewTargets,   \*   targets an order is given later
    Planners,     \* calls of /plan-daily at the same time
    Modes,        \* the modes a book is put in
    Ids,          \* bound on the orders that exist
    None

Locations == Whs \cup Stores
Sides     == {"SOURCE", "TARGET", "FINAL"}
AllModes  == {"NORMAL", "SOFT_DISCONTINUE", "INACTIVE"}

ASSUME PlanningAssumption ==
    /\ IsFiniteSet(Locations)
    /\ IsFiniteSet(Ids)
    /\ Whs \cap Stores = {}
    /\ None \notin Locations \cup Ids
    /\ NewTargets \subseteq Locations
    /\ WhOf \in [Locations -> Whs]
    /\ \A w \in Whs : WhOf[w] = w
    /\ Order \in [Locations -> Nat]
    /\ \A l, m \in Locations : Order[l] = Order[m] => l = m
    /\ InitStocks \subseteq [Locations -> Nat]
    /\ Safety \in [Locations -> Nat]
    /\ Desired \in [Locations -> Nat]
    /\ Demand \in [Locations -> Nat]
    /\ {MinRow, MinEoq, Eoq} \subseteq Nat \ {0}
    /\ DecideQtys \cup NewQtys \subseteq Nat \ {0}
    /\ Modes \subseteq AllModes

VARIABLES
    mode,       \* books.active and discontinue_mode
    stock,      \* inventory.on_hand - reserved_qty
    orders,     \* pending_orders
    approvals,  \* order_approvals
    plan        \* each call of /plan-daily

vars == <<mode, stock, orders, approvals, plan>>

Absent == [type |-> "REBALANCE", src |-> None, tgt |-> None, qty |-> 0,
           status |-> "ABSENT", planned |-> FALSE, arrived |-> FALSE,
           retargeted |-> FALSE, parent |-> None]

\* planned: forecast_rationale has the plan's snapshot date.
\* arrived: inventory-svc has added it to the target's stock.
\* retargeted: somebody has given it another target (a history field).
\* parent: forecast_rationale.parent_order_id of a chained order.
AsOrder(r, status, planned) ==
    [type |-> r.type, src |-> r.src, tgt |-> r.tgt, qty |-> r.qty,
     status |-> status, planned |-> planned, arrived |-> FALSE,
     retargeted |-> FALSE, parent |-> None]

Idle == [step |-> "idle", found |-> {}, gone |-> {}, unapproved |-> {}, seen |-> <<>>,
         book |-> "INACTIVE", gap |-> <<>>, rows |-> {}]

StoresOf(w) == {s \in Stores : WhOf[s] = w}

Lower(a, b)  == IF a < b THEN a ELSE b
Higher(a, b) == IF a > b THEN a ELSE b

SumOver(S, f(_)) == FoldFunction(+, 0, [x \in S |-> f(x)])

-----------------------------------------------------------------------------
(* The plan of a day, from the gap of each location: what it lacks (> 0) or *)
(* can give (< 0)                                                           *)

\* sorted(..., key = |gap|, reverse): larger gaps first, else as listed.
Ahead(g, l, m) ==
    LET x == IF g[l] > 0 THEN g[l] ELSE -g[l]
        y == IF g[m] > 0 THEN g[m] ELSE -g[m]
    IN  x > y \/ (x = y /\ Order[l] < Order[m])

Sorted(g, S) ==
    CHOOSE q \in [1 .. Cardinality(S) -> S] :
        \A i, j \in DOMAIN q : i < j => Ahead(g, q[i], q[j])

Givers(g, S) == Sorted(g, {l \in S : g[l] < 0})
Takers(g, S) == Sorted(g, {l \in S : g[l] > 0})

\* Mutant of Turn: a target that is not filled up is left behind.
TurnOnce(b, give, need) ==
    LET s == give[b.i]
        t == need[b.j]
        q == Lower(-b.gap[s], b.gap[t])
    IN  IF b.i > Len(give) \/ b.j > Len(need) THEN b
        ELSE [i |-> IF b.gap[s] + q = 0 THEN b.i + 1 ELSE b.i,
              j |-> b.j + 1,
              gap |-> [b.gap EXCEPT ![s] = @ + q, ![t] = @ - q],
              moved |-> [b.moved EXCEPT ![<<s, t>>] = q]]

\* A turn of the greedy loop of the phases: give[i] fills need[j] as far as it goes.
Turn(b, give, need) ==
    LET s == give[b.i]
        t == need[b.j]
        q == Lower(-b.gap[s], b.gap[t])
    IN  IF b.i > Len(give) \/ b.j > Len(need) THEN b
        ELSE [i |-> IF b.gap[s] + q = 0 THEN b.i + 1 ELSE b.i,
              j |-> IF b.gap[t] = q THEN b.j + 1 ELSE b.j,
              gap |-> [b.gap EXCEPT ![s] = @ + q, ![t] = @ - q],
              moved |-> [b.moved EXCEPT ![<<s, t>>] = q]]

\* The loop.  Each turn empties a giver or fills a taker, so there are at most as
\* many turns as locations.
Match(g, S) ==
    LET give  == Givers(g, S)
        need  == Takers(g, S)
        turns == Len(give) + Len(need)
        run[k \in 0 .. turns] ==
            IF k = 0
            THEN [i |-> 1, j |-> 1, gap |-> g, moved |-> [p \in S \X S |-> 0]]
            ELSE Turn(run[k - 1], give, need)
    IN  run[turns]

\* What Match moves, said without a loop: lay what is given and what is needed end
\* to end, in the order of their sizes; a pair gets where the two overlap.
Overlap(g, S, s, t) ==
    LET before(l, T) == {m \in T \ {l} : Ahead(g, m, l)}
        given(m) == -g[m]
        lacks(m) == g[m]
        a == SumOver(before(s, {l \in S : g[l] < 0}), given)
        b == SumOver(before(t, {l \in S : g[l] > 0}), lacks)
    IN  Higher(0, Lower(a - g[s], b + g[t]) - Higher(a, b))

\* Mutant of Phase: the gaps are not brought up to date.
PhaseOfOldGaps(type, g, S) ==
    LET m == Match(g, S)
    IN  [gap  |-> g,
         rows |-> {[type |-> type, src |-> p[1], tgt |-> p[2], qty |-> m.moved[p]] :
                     p \in {x \in S \X S : m.moved[x] >= MinRow}}]

\* A phase: the gaps it leaves, and its rows; small ones are skipped, their
\* quantity counts as moved.
Phase(type, g, S) ==
    LET m == Match(g, S)
    IN  [gap  |-> [l \in Locations |-> IF l \in S THEN m.gap[l] ELSE g[l]],
         rows |-> {[type |-> type, src |-> p[1], tgt |-> p[2], qty |-> m.moved[p]] :
                     p \in {x \in S \X S : m.moved[x] >= MinRow}}]

\* One phase after the other for every warehouse.
InTurn(type, g, scope) ==
    LET ps == [w \in Whs |-> Phase(type, g, scope[w])]
    IN  [gap  |-> [l \in Locations |-> ps[WhOf[l]].gap[l]],
         rows |-> UNION {ps[w].rows : w \in Whs}]

\* The body and the stores that still lack something; a body that lacks something
\* itself has nothing to give.
Refilled(g, w) == {w} \cup {s \in StoresOf(w) : g[s] > 0}

\* Mutant of Residual: what the stores still lack is left out.
ResidualOfBody(g, w) == Higher(0, g[w])

\* What a warehouse with stores still lacks, in its stores and its body.
Residual(g, w) == SumOver({l \in StoresOf(w) \cup {w} : g[l] > 0}, LAMBDA l : g[l])

\* _build_daily_plan: rebalance among the stores of a warehouse, refill them from
\* its body, even out the bodies, and order what is left from the publisher.
DailyPlan(gap) ==
    LET a == InTurn("REBALANCE", gap, [w \in Whs |-> StoresOf(w)])
        b == InTurn("WH_TO_STORE", a.gap,
                    [w \in Whs |-> IF a.gap[w] < 0 THEN Refilled(a.gap, w) ELSE {}])
        c == Phase("WH_TRANSFER", b.gap, Whs)
    IN  a.rows \cup b.rows \cup c.rows \cup
        {[type |-> "PUBLISHER_ORDER", src |-> None, tgt |-> w,
          qty |-> Higher(Residual(c.gap, w), MinEoq)] :
            w \in {v \in Whs : StoresOf(v) # {} /\ Residual(c.gap, v) >= MinRow}}

-----------------------------------------------------------------------------
(* Reading the database *)

Live(o) == orders[o].status \in {"APPROVED", "IN_TRANSIT"}

QtyOf(o) == orders[o].qty

\* Orders on their way to l.
Incoming(l) == SumOver({o \in Ids : Live(o) /\ orders[o].tgt = l}, QtyOf)

\* _estimated_chained_incoming: an even share of what is on its way to the body.
ChainedIncoming(s) ==
    LET big == {o \in Ids : /\ Live(o)
                            /\ orders[o].type \in {"WH_TRANSFER", "PUBLISHER_ORDER"}
                            /\ orders[o].tgt = WhOf[s]}
    IN  SumOver(big, QtyOf) \div Cardinality(StoresOf(WhOf[s]))

Gap(seen) ==
    [l \in Locations |->
        Desired[l] - seen[l] - Incoming(l)
            - (IF l \in Stores THEN ChainedIncoming(l) ELSE 0)]

\* Any way of giving free ids to new rows; CHOOSE fixes one.
Placed(rows, free) == CHOOSE f \in [rows -> free] : IsInjective(f)

-----------------------------------------------------------------------------
(* /plan-daily, statement by statement *)

Doomed == {o \in Ids : orders[o].status = "PENDING" /\ orders[o].planned}

HeldBy(p, o) == o \in plan[p].gone

\* DELETE FROM order_approvals: waits for rows another call is deleting.
DeleteApprovals(p) ==
    LET rows == {k \in Doomed \X Sides : k[2] \in approvals[k[1]]}
    IN  /\ plan[p].step = "idle"
        /\ \A q \in Planners : plan[q].unapproved \cap rows = {}
        /\ plan' = [plan EXCEPT ![p] = [Idle EXCEPT !.step = "orders",
                                           !.unapproved = rows]]
        /\ UNCHANGED <<mode, stock, orders, approvals>>

\* DELETE FROM pending_orders begins: it finds the proposals of this moment.
FindOrders(p) ==
    /\ plan[p].step = "orders"
    /\ plan' = [plan EXCEPT ![p].step = "delete", ![p].found = Doomed]
    /\ UNCHANGED <<mode, stock, orders, approvals>>

\* Mutant of DeleteOrders: what was found is deleted, whatever has become of it.
DeleteOrdersFound(p) ==
    /\ plan[p].step = "delete"
    /\ \A q \in Planners \ {p}, o \in plan[p].found : ~HeldBy(q, o)
    /\ plan' = [plan EXCEPT ![p].step = "stock", ![p].gone = plan[p].found]
    /\ UNCHANGED <<mode, stock, orders, approvals>>

\* Mutant of DeleteOrders: orders with an approval are spared.
DeleteOrdersUnapproved(p) ==
    LET rows == {o \in plan[p].found \cap Doomed : approvals[o] = {}}
    IN  /\ plan[p].step = "delete"
        /\ \A q \in Planners \ {p}, o \in plan[p].found : ~HeldBy(q, o)
        /\ plan' = [plan EXCEPT ![p].step = "stock", ![p].gone = rows]
        /\ UNCHANGED <<mode, stock, orders, approvals>>

\* It waits for rows another call is deleting, and deletes what is still a proposal.
\* An approval given since the first statement still refers to its order, and the
\* foreign key undoes the call.
DeleteOrders(p) ==
    LET rows == plan[p].found \cap Doomed
        kept == {o \in rows : \E s \in approvals[o] : <<o, s>> \notin plan[p].unapproved}
    IN  /\ plan[p].step = "delete"
        /\ \A q \in Planners \ {p}, o \in plan[p].found : ~HeldBy(q, o)
        /\ plan' = [plan EXCEPT ![p] =
                      IF kept # {} THEN Idle
                      ELSE [@ EXCEPT !.step = "stock", !.gone = rows]]
        /\ UNCHANGED <<mode, stock, orders, approvals>>

ReadStock(p) ==
    /\ plan[p].step = "stock"
    /\ plan' = [plan EXCEPT ![p].step = "incoming", ![p].seen = stock,
                            ![p].book = mode]
    /\ UNCHANGED <<mode, stock, orders, approvals>>

ReadIncoming(p) ==
    LET g == Gap(plan[p].seen)
    IN  /\ plan[p].step = "incoming"
        /\ plan' = [plan EXCEPT ![p].step = "insert", ![p].gap = g,
                       ![p].rows = IF plan[p].book # "INACTIVE" THEN DailyPlan(g) ELSE {}]
        /\ UNCHANGED <<mode, stock, orders, approvals>>

\* INSERT and COMMIT.  What it has deleted others no longer find; its id may stand
\* for another order from now on.
InsertPlan(p) ==
    LET c    == plan[p]
        free == {o \in Ids : orders[o].status = "ABSENT" \/ o \in c.gone}
        f    == Placed(c.rows, free)
        new  == [r \in c.rows |-> AsOrder(r, "PENDING", TRUE)]
    IN  /\ c.step = "insert"
        /\ \E g \in [c.rows -> free] : IsInjective(g)
        /\ orders' = [o \in Ids |->
                        IF \E r \in c.rows : f[r] = o
                        THEN new[CHOOSE r \in c.rows : f[r] = o]
                        ELSE IF o \in c.gone THEN Absent ELSE orders[o]]
        /\ approvals' = [o \in Ids |->
                           IF o \in c.gone THEN {}
                           ELSE {s \in approvals[o] : <<o, s>> \notin c.unapproved}]
        /\ plan' = [q \in Planners |->
                      IF q = p THEN Idle ELSE [plan[q] EXCEPT !.found = @ \ c.gone]]
        /\ UNCHANGED <<mode, stock>>

\* An error, or the pod dies: nothing of the call remains.
PlanFails(p) ==
    /\ plan[p].step # "idle"
    /\ plan' = [plan EXCEPT ![p] = Idle]
    /\ UNCHANGED <<mode, stock, orders, approvals>>

-----------------------------------------------------------------------------
(* /decide *)

\* _effective_available and _partner_surplus, as the SQL of the stages has them.
Available(l) == stock[l] - Incoming(l) - Demand[l]
Surplus(l)   == stock[l] - Safety[l] - Demand[l]

\* The location with the most to spare, if any can spare qty.
Best(S, f(_), qty) == {l \in S : f(l) >= qty /\ \A m \in S : f(m) <= f(l)}

\* The cascade for a target: stores nearby, the body, another body, a publisher.
Cascade(t, qty) ==
    LET shops  == IF t \in Stores THEN StoresOf(WhOf[t]) \ {t} ELSE {}
        body   == IF t \in Stores THEN {WhOf[t]} ELSE {}
        reb    == Best(shops, Available, qty)
        wts    == Best(body, Available, qty)
        across == Best(Whs \ {WhOf[t]}, Surplus, qty)
        row(type, l, q) == [type |-> type, src |-> l, tgt |-> t, qty |-> q]
    IN  IF reb # {} THEN {row("REBALANCE", l, qty) : l \in reb}
        ELSE IF wts # {} THEN {row("WH_TO_STORE", l, qty) : l \in wts}
        ELSE IF across # {} THEN {row("WH_TRANSFER", l, qty) : l \in across}
        ELSE IF mode = "NORMAL" THEN {row("PUBLISHER_ORDER", None, Higher(Eoq, qty))}
        ELSE {}

Decide ==
    \E t \in Locations, qty \in DecideQtys :
        /\ mode # "INACTIVE"
        /\ \E r \in Cascade(t, qty) :
              LET free == {o \in Ids : orders[o].status = "ABSENT"}
              IN  /\ free # {}
                  /\ orders' = [orders EXCEPT ![Placed({r}, free)[r]] =
                                  AsOrder(r, "PENDING", FALSE)]
        /\ UNCHANGED <<mode, stock, approvals, plan>>

-----------------------------------------------------------------------------
(* The rest of the system, seen from decision-svc *)

Needs(o) == IF orders[o].src = None THEN {"FINAL"} ELSE {"SOURCE", "TARGET"}

\* _trigger_chained_wh_to_store: a store's order for the goods of order o.
ChainedTo(o, t) ==
    [type |-> "WH_TO_STORE", src |-> orders[o].tgt, tgt |-> t, qty |-> orders[o].qty,
     status |-> "APPROVED", planned |-> FALSE, arrived |-> FALSE,
     retargeted |-> FALSE, parent |-> o]

\* A side approves.  Its row in order_approvals, or the order, may be one that an
\* open call of /plan-daily is deleting: then it waits.  The goods that come to a
\* body are dealt out at once; here they go to one store, or to none.
Approve(o, s) ==
    LET r    == orders[o]
        free == {k \in Ids : orders[k].status = "ABSENT"}
        deal == {t \in StoresOf(r.tgt) :
                    r.type \in {"WH_TRANSFER", "PUBLISHER_ORDER"} /\ free # {}}
        done == [orders EXCEPT ![o].status =
                    IF r.src = None THEN "IN_TRANSIT" ELSE "APPROVED"]
    IN  /\ r.status = "PENDING"
        /\ s \in Needs(o) \ approvals[o]
        /\ \A p \in Planners : /\ ~HeldBy(p, o)
                               /\ <<o, s>> \notin plan[p].unapproved
        /\ approvals' = [approvals EXCEPT ![o] = @ \cup {s}]
        /\ IF approvals'[o] = Needs(o)
           THEN \/ orders' = done
                \/ \E t \in deal :
                      orders' = [done EXCEPT ![Placed({t}, free)[t]] = ChainedTo(o, t)]
           ELSE UNCHANGED orders
        /\ UNCHANGED <<mode, stock, plan>>

Dispatch(o) ==
    /\ orders[o].status = "APPROVED"
    /\ stock[orders[o].src] >= orders[o].qty
    /\ stock' = [stock EXCEPT ![orders[o].src] = @ - orders[o].qty]
    /\ orders' = [orders EXCEPT ![o].status = "IN_TRANSIT"]
    /\ UNCHANGED <<mode, approvals, plan>>

\* inventory-svc commits the goods first, ...
Arrive(o) ==
    /\ orders[o].status = "IN_TRANSIT"
    /\ ~orders[o].arrived
    /\ stock' = [stock EXCEPT ![orders[o].tgt] = @ + orders[o].qty]
    /\ orders' = [orders EXCEPT ![o].arrived = TRUE]
    /\ UNCHANGED <<mode, approvals, plan>>

\* ... intervention-svc the status later.
Receive(o) ==
    /\ orders[o].arrived
    /\ orders[o].status = "IN_TRANSIT"
    /\ orders' = [orders EXCEPT ![o].status = "EXECUTED"]
    /\ UNCHANGED <<mode, stock, approvals, plan>>

\* edit_pending_order of a PENDING order, patch_order of a PENDING or APPROVED one:
\* another quantity, another target.  It stays a proposal of the day's plan.
Edit(o) ==
    /\ orders[o].status \in {"PENDING", "APPROVED"}
    /\ \A p \in Planners : ~HeldBy(p, o)
    /\ \E l \in NewTargets \cup {orders[o].tgt}, qty \in NewQtys \cup {orders[o].qty} :
          orders' = [orders EXCEPT ![o] =
                       [orders[o] EXCEPT !.tgt = l, !.qty = qty,
                                         !.retargeted = @ \/ l # orders[o].tgt]]
    /\ UNCHANGED <<mode, stock, approvals, plan>>

Open(o) == orders[o].status \in {"PENDING", "APPROVED", "IN_TRANSIT"}

\* _to_rejected, and _cancel_chained of the orders chained to o.  Goods on their way
\* go back to where they came from.
Reject(o) ==
    LET closed  == {k \in Ids : (k = o \/ orders[k].parent = o) /\ Open(k)}
        back(l) == {k \in closed : orders[k].status = "IN_TRANSIT" /\ orders[k].src = l}
    IN  /\ Open(o)
        /\ \A k \in closed : ~orders[k].arrived
        /\ \A p \in Planners : closed \cap plan[p].gone = {}
        /\ orders' = [k \in Ids |-> IF k \in closed
                                    THEN [orders[k] EXCEPT !.status = "REJECTED"]
                                    ELSE orders[k]]
        /\ stock' = [l \in Locations |-> stock[l] + SumOver(back(l), QtyOf)]
        /\ UNCHANGED <<mode, approvals, plan>>

\* _record_approval of a rejection: the side's row says REJECTED from now on, other
\* orders and the stock stay as they are.
LegacyReject(o) ==
    /\ Open(o)
    /\ ~orders[o].arrived
    /\ \E s \in Needs(o) :
          /\ \A p \in Planners : ~HeldBy(p, o) /\ <<o, s>> \notin plan[p].unapproved
          /\ approvals' = [approvals EXCEPT ![o] = @ \ {s}]
    /\ orders' = [orders EXCEPT ![o].status = "REJECTED"]
    /\ UNCHANGED <<mode, stock, plan>>

\* change_book_status of intervention-svc
ChangeBookStatus ==
    /\ \E m \in Modes : mode' = m
    /\ UNCHANGED <<stock, orders, approvals, plan>>

-----------------------------------------------------------------------------

Init ==
    /\ mode = "NORMAL"
    /\ stock \in InitStocks
    /\ orders = [o \in Ids |-> Absent]
    /\ approvals = [o \in Ids |-> {}]
    /\ plan = [p \in Planners |-> Idle]

Next ==
    \/ \E p \in Planners :
          \/ DeleteApprovals(p)
          \/ FindOrders(p)
          \/ DeleteOrders(p)
          \/ ReadStock(p)
          \/ ReadIncoming(p)
          \/ InsertPlan(p)
          \/ PlanFails(p)
    \/ Decide
    \/ \E o \in Ids :
          \/ \E s \in Sides : Approve(o, s)
          \/ Dispatch(o)
          \/ Arrive(o)
          \/ Receive(o)
          \/ Edit(o)
          \/ Reject(o)
          \/ LegacyReject(o)
    \/ ChangeBookStatus

Spec == Init /\ [][Next]_vars

-----------------------------------------------------------------------------
(* Properties *)

\* The greedy loop gives every pair of locations what the two amounts share when
\* they are laid end to end, in whatever state a plan is made.
GreedyIsOverlap ==
    \A p \in Planners : plan[p].step = "insert" =>
        \A S \in {StoresOf(w) : w \in Whs} \cup {Whs, Locations} :
            LET g == plan[p].gap
                m == Match(g, S)
            IN  \A s, t \in S :
                  m.moved[<<s, t>>] = IF g[s] < 0 /\ g[t] > 0
                                      THEN Overlap(g, S, s, t) ELSE 0

RowQty(r) == r.qty

\* A plan takes from nobody more than his surplus, gives nobody more than he
\* lacks, and has no location give and receive the book at the same time.
PlanWithinGaps ==
    \A p \in Planners : plan[p].step = "insert" /\ plan[p].book # "INACTIVE" =>
        \A l \in Locations :
            LET moves == {r \in plan[p].rows : r.src # None}
                out   == SumOver({r \in moves : r.src = l}, RowQty)
                in    == SumOver({r \in moves : r.tgt = l}, RowQty)
                g     == plan[p].gap[l]
            IN  /\ out <= Higher(0, -g)
                /\ in  <= Higher(0, g)

\* What a warehouse and its stores lack is in the plan, from inside or outside,
\* but for the scraps too small to be sent: fewer than MinRow for each of the
\* pairings the phases make there, and a last remainder.
ShortagePlanned ==
    \A p \in Planners : plan[p].step = "insert" /\ plan[p].book # "INACTIVE" =>
        \A w \in {v \in Whs : StoresOf(v) # {}} :
            LET here  == StoresOf(w) \cup {w}
                lack  == SumOver({l \in here : plan[p].gap[l] > 0},
                                 LAMBDA l : plan[p].gap[l])
                in    == SumOver({r \in plan[p].rows : r.tgt \in here}, RowQty)
                pairs == 2 * Cardinality(StoresOf(w)) + Cardinality(Whs) - 2
            IN  lack - in <= (MinRow - 1) * (pairs + 1)

\* A new plan takes the place of proposals of the day's plan only: an order of
\* /decide, and one that somebody has approved, shipped or rejected meanwhile, stays
\* as it is.  An order of /decide keeps its approvals, too.  An order of the plan that
\* was approved meanwhile does not: the first DELETE has taken the row of one side.
OnlyProposalsReplaced ==
    [][\A p \in Planners :
          plan[p].step = "insert" /\ plan'[p].step = "idle" =>
              \A o \in Ids \ Doomed :
                  orders[o].status # "ABSENT" =>
                      /\ orders'[o] = orders[o]
                      /\ orders[o].planned \/ approvals'[o] = approvals[o]]_vars

\* However often /plan-daily is called, one call after the other, between two
\* locations there is one proposal of the day's plan, unless somebody has given a
\* proposal another target.
OneProposalPerPair ==
    \A o, k \in Doomed :
        /\ ~orders[o].retargeted /\ ~orders[k].retargeted
        /\ orders[o].src = orders[k].src /\ orders[o].tgt = orders[k].tgt
        => o = k

=============================================================================

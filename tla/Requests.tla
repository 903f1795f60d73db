------------------------------- MODULE Requests -------------------------------
(***************************************************************************)
(* What the headquarters and the stores ask for beside single orders, from *)
(* the button in the dashboard to the mail: new books, sales spikes,       *)
(* returns and refused deliveries (intervention-svc, routes/               *)
(* intervention.py), through the dashboard's retries (Gateway), with the   *)
(* mails of notification-svc (Notifications).  A new book comes from the   *)
(* publisher's form (publisher/backend/main.py) and is found by a CronJob  *)
(* (publisher-watcher, poll.py).                                           *)
(*                                                                         *)
(* The transaction of a request is one step: its first statement locks the *)
(* row that decides, under the condition that it is still undecided.  The  *)
(* CronJob's transaction holds its rows over several steps.  One book, one *)
(* spike and one delivery stand for all: their rows are independent.       *)
(***************************************************************************)
EXTENDS Gateway, Notifications, Sequences

CONSTANTS
    Whs,          \* warehouses
    Shops,        \* how many stores each has
    Predicted,    \* spike_events.predicted_qty
    Returns       \* bound on the rows of returns

RequestKinds == {"approveBook", "rejectBook", "approveSpike", "askReturn",
                 "approveReturn", "rejectReturn", "receive", "refuse", "closeDay"}

\* A request, and the quantities for the warehouses if it carries any.
ASSUME RequestsAssumption ==
    /\ \A op \in Ops : op.kind \in RequestKinds => op.qty \in [Whs -> Nat]
    /\ Whs # {} /\ IsFiniteSet(Whs)
    /\ Shops \in [Whs -> Nat]
    /\ Predicted \in Nat

VARIABLES
    book,         \* new_book_requests.status
    job,          \* the CronJob of publisher-watcher
    spike,        \* spike_events: is triggered_order_id set
    returned,     \* returns.status
    delivery,     \* the status of an order on its way to a store
    orders,       \* the orders created for each warehouse, decision by decision
    flag          \* daily_plan_finalized in Redis

tableVars == <<book, job, spike, returned, delivery, orders, flag>>

Open == {"NEW", "FETCHED"}

Tell(event, about, stage, w) ==
    [event |-> event, about |-> about, stage |-> stage, region |-> w]

AnyWh == CHOOSE w \in Whs : TRUE

BookMail(stage) == Tell("NewBookRequest", "book", stage, AnyWh)
SpikeMail       == Tell("SpikeUrgent", "spike", "ORDER_APPROVED", AnyWh)
ReturnMail(r)   == Tell("ReturnPending", r, "PENDING", AnyWh)
ArrivalMail     == Tell("StockArrivalPending", "delivery", "EXECUTED", AnyWh)
RefusalMail     == Tell("InboundRejected", "delivery", "REJECTED", AnyWh)
DayMail         == Tell("DailyPlanFinalized", "day", "DONE", AnyWh)

-----------------------------------------------------------------------------
(* Orders for a decision *)

\* Mutant of Share: the stores after the first ones get one, too.
ShareRoundedUp(qty, i, n) == (qty + n - 1) \div n

\* base, and 1 more for the first extra stores
Share(qty, i, n) ==
    LET base  == qty \div n
        extra == qty - base * n
    IN  IF i <= extra THEN base + 1 ELSE base

\* The stores, by location_id, whose share is not 0
Served(qty, n) == {i \in 1 .. n : Share(qty, i, n) > 0}

\* What is created for a warehouse: a PUBLISHER_ORDER of qty, and a WH_TO_STORE
\* order for each store that is served.
Ordered(about, w, qty) ==
    [about |-> about, qty |-> qty,
     shares |-> [i \in Served(qty, Shops[w]) |-> Share(qty, i, Shops[w])]]

\* for wh_id, qty in [(1, wh1_qty), (2, wh2_qty)]
Order(about, qty) ==
    orders' = [w \in Whs |-> IF qty[w] = 0 THEN orders[w]
                             ELSE Append(orders[w], Ordered(about, w, qty[w]))]

\* int(round(total * 0.6)), the rest for the second warehouse
Fallback(total) ==
    [w \in Whs |-> LET first == (6 * total + 5) \div 10
                   IN  IF w = AnyWh THEN first ELSE total - first]

Given(qty) == IF \A w \in Whs : qty[w] = 0 THEN Fallback(Predicted) ELSE qty

-----------------------------------------------------------------------------
(* The publisher's form, and the CronJob that looks for what it has stored *)

\* submit_new_book_request: a second request for an ISBN is answered 409.
Submit ==
    /\ session.form
    /\ book = "none"
    /\ book' = "NEW"
    /\ UNCHANGED <<gateVars, notifVars, faults, job, spike, returned, delivery,
                   orders, flag>>

\* GET /new-book-requests?status=NEW; nothing found ends the job.
JobList ==
    /\ job = "idle"
    /\ book = "NEW"
    /\ job' = "listed"
    /\ UNCHANGED <<gateVars, notifVars, faults, book, spike, returned, delivery,
                   orders, flag>>

\* UPDATE ... SET status = 'FETCHED' WHERE status = 'NEW' RETURNING: the row is
\* this job's until its commit.
JobUpdate ==
    /\ job = "listed"
    /\ job' = IF book = "NEW" THEN "updated" ELSE "idle"
    /\ UNCHANGED <<gateVars, notifVars, faults, book, spike, returned, delivery,
                   orders, flag>>

JobCommit ==
    /\ job = "updated"
    /\ job' = "committed"
    /\ book' = "FETCHED"
    /\ UNCHANGED <<gateVars, notifVars, faults, spike, returned, delivery, orders,
                   flag>>

\* _notify_new_book_request, which may fail.
JobNotify ==
    /\ job = "committed"
    /\ job' = "idle"
    /\ \/ /\ \E c \in Calls : Send(c, BookMail("DISCOVERED"))
          /\ UNCHANGED faults
       \/ Fault /\ UNCHANGED notifVars
    /\ UNCHANGED <<gateVars, book, spike, returned, delivery, orders, flag>>

\* An error or the end of its pod: what is not committed is undone, what is not
\* told stays untold.
JobDies ==
    /\ job # "idle"
    /\ Fault
    /\ job' = "idle"
    /\ UNCHANGED <<gateVars, notifVars, book, spike, returned, delivery, orders,
                   flag>>

-----------------------------------------------------------------------------
(* The handlers of intervention-svc *)

Kind(h) == handler[h].op.kind

Refuse(h) == To(h, "respond", "refused") /\ UNCHANGED <<click, tableVars>>

\* What is told goes to notification-svc; the rest of Mails is not followed here.
Done(h, mails) ==
    handler' = [handler EXCEPT ![h].step = "tell", ![h].result = "ok",
                               ![h].todo = mails \cap Mails]

\* Mutant of BookOpen: any request that exists is decided.
BookOpenAlways == book # "none"

\* WHERE status IN ('NEW', 'FETCHED')
BookOpen == book \in Open

ApproveBook(h) ==
    /\ Kind(h) = "approveBook"
    /\ job # "updated"
    /\ IF BookOpen
       THEN /\ book' = "APPROVED"
            /\ Order("book", handler[h].op.qty)
            /\ Done(h, {BookMail("APPROVED")})
            /\ UNCHANGED <<click, job, spike, returned, delivery, flag>>
       ELSE Refuse(h)

RejectBook(h) ==
    /\ Kind(h) = "rejectBook"
    /\ job # "updated"
    /\ IF BookOpen
       THEN /\ book' = "REJECTED"
            /\ Done(h, {BookMail("REJECTED")})
            /\ UNCHANGED <<click, job, spike, returned, delivery, orders, flag>>
       ELSE Refuse(h)

\* SELECT ... FOR UPDATE, then a look at triggered_order_id and the quantities.
ApproveSpike(h) ==
    LET qty == Given(handler[h].op.qty)
    IN  /\ Kind(h) = "approveSpike"
        /\ IF ~spike /\ \E w \in Whs : qty[w] > 0
           THEN /\ spike' = TRUE
                /\ Order("spike", qty)
                /\ Done(h, {SpikeMail})
                /\ UNCHANGED <<click, book, job, returned, delivery, flag>>
           ELSE Refuse(h)

\* returns_request: every attempt has a new return_id.
AskReturn(h) ==
    /\ Kind(h) = "askReturn"
    /\ \E r \in Returns :
          /\ returned[r] = "ABSENT"
          /\ returned' = [returned EXCEPT ![r] = "PENDING"]
          /\ Done(h, {ReturnMail(r)})
    /\ UNCHANGED <<click, book, job, spike, delivery, orders, flag>>

\* returns_approve and returns_reject, of a return that there is or not
DecideReturn(h) ==
    LET new == IF Kind(h) = "approveReturn" THEN "APPROVED" ELSE "REJECTED"
    IN  /\ Kind(h) \in {"approveReturn", "rejectReturn"}
        /\ \E r \in Returns :
              IF returned[r] = "PENDING"
              THEN /\ returned' = [returned EXCEPT ![r] = new]
                   /\ Done(h, IF new = "APPROVED" THEN {ReturnMail(r)} ELSE {})
                   /\ UNCHANGED <<click, book, job, spike, delivery, orders, flag>>
              ELSE Refuse(h)

\* receive_inbound and reject_inbound look at the status without a lock ...
LookAtDelivery(h) ==
    /\ Kind(h) \in {"receive", "refuse"}
    /\ To(h, IF delivery = "APPROVED" THEN "update" ELSE "respond", "refused")
    /\ UNCHANGED <<click, tableVars>>

\* ... and update without a condition.  The CHECKs of pending_orders let an
\* executed order be executed again, and fail everything else.
UpdateDelivery(h) ==
    LET new == IF Kind(h) = "receive" THEN "EXECUTED" ELSE "REJECTED"
    IN  /\ handler[h].step = "update"
        /\ IF delivery = "APPROVED" \/ (delivery = new /\ new = "EXECUTED")
           THEN /\ delivery' = new
                /\ Done(h, IF new = "EXECUTED" THEN {ArrivalMail} ELSE {RefusalMail})
                /\ UNCHANGED <<click, book, job, spike, returned, orders, flag>>
           ELSE Refuse(h)
        /\ UNCHANGED <<notifVars, faults>>

\* _check_and_notify_plan_finalized, after a decision that was the last one
LookAtFlag(h) ==
    /\ Kind(h) = "closeDay"
    /\ To(h, IF flag THEN "respond" ELSE "flag", "ok")
    /\ UNCHANGED <<click, tableVars>>

SetFlag(h) ==
    /\ handler[h].step = "flag"
    /\ flag' = TRUE
    /\ Done(h, {DayMail})
    /\ UNCHANGED <<click, notifVars, faults, book, job, spike, returned, delivery,
                   orders>>

Serve(h) ==
    /\ handler[h].step = "run"
    /\ \/ ApproveBook(h)
       \/ RejectBook(h)
       \/ ApproveSpike(h)
       \/ AskReturn(h)
       \/ DecideReturn(h)
       \/ LookAtDelivery(h)
       \/ LookAtFlag(h)
    /\ UNCHANGED <<notifVars, faults>>

\* _notify: a failure is logged, and the person is answered.
TellAll(h) ==
    /\ handler[h].step = "tell"
    /\ \/ /\ handler[h].todo = {}
          /\ To(h, "respond", "ok")
          /\ UNCHANGED <<notifVars, faults>>
       \/ \E m \in handler[h].todo :
             /\ handler' = [handler EXCEPT ![h].todo = @ \ {m}]
             /\ \/ (\E c \in Calls : Send(c, m)) /\ UNCHANGED faults
                \/ Fault /\ UNCHANGED notifVars
    /\ UNCHANGED <<click, tableVars>>

-----------------------------------------------------------------------------

RequestInit ==
    /\ book = "none"
    /\ job = "idle"
    /\ spike = FALSE
    /\ returned = [r \in Returns |-> "ABSENT"]
    /\ delivery = "APPROVED"
    /\ orders = [w \in Whs |-> <<>>]
    /\ flag = FALSE

RequestStep(h) == Serve(h) \/ UpdateDelivery(h) \/ SetFlag(h) \/ TellAll(h)

JobStep == JobList \/ JobUpdate \/ JobCommit \/ JobNotify

=============================================================================

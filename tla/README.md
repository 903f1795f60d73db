# BookFlow: models, checks and proofs

TLA+ specifications of BookFlow, from the orders people decide on to the plans,
mails and campaigns around them, TLC configurations that check them on small instances, and TLAPS proofs of the
properties that matter most for every instance. Paths below are relative to the
repository; `IS` stands for `eks-pods/intervention-svc/src`, a bare
`intervention.py` or the like for the file of that name.

## The system

BookFlow keeps the stock of books at stores and warehouses. A nightly planner
proposes orders that move books; people at both ends approve, ship, receive or
reject them; a batch at 08:00 closes what nobody decided on. All services share
one PostgreSQL database (psycopg, READ COMMITTED), call each other over HTTP,
and tell the browser what changed through Redis.

| Component | Source | State it keeps | Operations |
|---|---|---|---|
| order workflow (v2) | `IS/state_machine.py`, `IS/routes/orders.py`, `IS/authority.py` | `pending_orders`, `order_approvals` | approve, dispatch, receive, reject, patch; batch approve, dispatch, receive |
| 08:00 batch | `IS/cron/auto_execute.py` | the same tables | approve the eligible, reject the rest |
| legacy endpoints (v1) | `IS/routes/intervention.py` | the same tables; returns, new books, spikes, a Redis flag | approve, reject, edit, receive, refuse, single and bulk; decide on returns, new books and spikes |
| inventory-svc | `eks-pods/inventory-svc/src` | `inventory`, `reservations` | adjust, reserve, expire reservations (CronJob) |
| order planning | `eks-pods/decision-svc/src/routes/decision.py` | `pending_orders` in PENDING | plan-daily, decide |
| notification-svc | `eks-pods/notification-svc/src` | `notifications_log`, Redis keys and lists | send with duplicate filter, flush of refused deliveries |
| publisher site, publisher-watcher | `publisher/backend`, `eks-pods/publisher-watcher` | `new_book_requests` | submit; list, mark, mail (CronJob) |
| dashboard-svc | `eks-pods/dashboard-svc/src` | requests that are being forwarded; web sockets | forward with retries; read; fan out Redis messages |
| forecast-svc | `eks-pods/forecast-svc/src` | campaigns with their recommendations and history; forecasts | create, recommend, patch, send, delete; forecast queries |
| auth-pod | `eks-pods/auth-pod/src` | tokens | log in |
| simulators, glue jobs, mocks | `ecs-sims`, `glue-jobs`, `mocks` | none of the workflow | generate or aggregate events |

How they interact, and what is hard about it:

- **A transition moves stock from inside a transaction.** `_to_in_transit`,
  `_to_executed` and `_to_rejected` update a row and then call
  `POST /inventory/adjust`, which commits on its own before the caller does. A
  refusal, a rollback, a lost answer, a deadlock or a dead pod in between can
  separate the status of an order from the stock it has moved.
- **Requests of several people overlap** on one row or on a parent and its
  chained orders. Every transition is one guarded UPDATE, so what is right or
  wrong depends on which version each statement sees and which locks it waits
  for.
- **Authority is decided in an earlier transaction** (`require_authority`) than
  the one that changes the order.
- **Approving a WH_TRANSFER or a PUBLISHER_ORDER inserts chained WH_TO_STORE
  orders** that are approved already; rejecting the parent must reject them and
  put back what they have shipped.
- **Batch endpoints** walk over a list in one transaction and go on when one
  order fails.
- **The 08:00 batch** updates by `order_id` alone what an earlier SELECT found.
- **Reservations** reduce what is available until a CronJob releases those that
  have lapsed, several at a time, while adjustments and reservations go on.
- **Events are sent after the commit**, once, and may be lost.
- **The first generation of endpoints** writes the same rows by `order_id`, with
  little or no condition on the status, next to the state machine.
- **The plan of a day is one transaction of many statements**, each of which sees
  what people have committed by then to the orders it is about to replace.
- **The dashboard repeats what it gets no answer for** while the attempt it has
  given up runs on.
- **notification-svc answers, mails and logs in steps** that other requests and a
  background flush come between; a pod that dies takes its mails with it.
- **Several places decide for themselves** who may see, approve, ship, receive
  and count an order.

What makes each component correct:

- order workflow: the stock moved for an order agrees with its status; nothing
  is shipped without the consent of both sides; a rejected parent leaves no live
  chained order; the columns that record history agree with the status; every
  event tells of a committed transition once; every request is answered.
- 08:00 batch: leaves no order PENDING that it started with; writes over no
  order that has moved on in a way that changes the stock it stands for; holds
  no locks after it ends.
- inventory-svc: `reserved_qty` is the sum of the ACTIVE reservations; no cell
  goes negative; no copy is reserved twice; a lapsed reservation is released;
  screens see every change that was published.
- legacy endpoints: no status ever goes back, whichever generation of endpoints
  is used; no transfer is approved by one side; a bulk request takes all its
  orders along or none. A decision on a book, a spike or a return is taken once.
- planning: a plan takes from nobody more than his surplus and gives nobody more
  than he lacks; every shortage is in it; it replaces proposals only.
- notification-svc: a mail says what is true, once; a refused delivery is not
  lost on its way to the mail.
- dashboard-svc: a person gets an answer, and what it says holds.
- forecast-svc: a campaign that is marked sent has been, and a deleted one leaves
  nothing behind.
- authority, in all services: whoever has to act on an order sees it, may do all
  the act consists of, and is counted.

## Modules

| Module | What it is |
|---|---|
| `OrderLifecycle` | What the workflow promises, with no transactions or calls: the edges PENDING → APPROVED → IN_TRANSIT → EXECUTED or REJECTED, and stock that changes in the step that changes the status |
| `StateMachine` | The order workflow, statement by statement; implements `OrderLifecycle` |
| `AutoExecute` | The 08:00 batch; extends `StateMachine` and interleaves with its requests |
| `Inventory` | inventory-svc: adjust, reserve, the reservation clean-up, the screens |
| `LegacyIntervention` | The legacy endpoints on the rows of `StateMachine`, next to its requests |
| `Authority` | Accounts, tokens, and every rule about who may do what to an order; the histories of one order that make a difference to them |
| `Planning` | decision-svc: /decide and /plan-daily, the latter statement by statement |
| `Notifications` | notification-svc |
| `Gateway` | dashboard-svc between a person and a service: retries and abandoned attempts |
| `Requests` | New books, spikes, returns, deliveries, from the button to the mail; extends `Gateway` and `Notifications` |
| `Campaigns` | The campaigns of forecast-svc; extends `Gateway` and `Notifications` |
| `Dashboard` | The composition of `Requests` and `Campaigns` |
| `MCStateMachine`, `MCAutoExecute`, `MCInventory`, `MCLegacyIntervention`, `MCAuthority`, `MCPlanning`, `MCDashboard` | constants of the instances TLC checks |
| `StateMachine_proofs` | types, stamps and consent, proved for every instance |
| `WorkflowProofs` | stock against status, and the workflow implements `OrderLifecycle`, for every undisturbed instance; no chained order survives a rejected parent, what is published is true and published once, and a batch that has finished closes all it began with and moves no stock, for every instance, batches and faults included |
| `LegacyIntervention_proofs` | no status goes back, both sides approve, a legacy rejection closes all or nothing, and no stock moves early but by a deadlock's victim, proved for every instance of both generations of endpoints |
| `Inventory_proofs` | types, reservations, non-negative stock, no overbooking, screens, proved for every instance |
| `Authority_proofs` | all properties of `Authority`, proved for every company |
| `Sums` | induction by the smallest counterexample, and sums over finite sets |
| `Dashboard_proofs` | the five invariants of `Dashboard`, proved for any number of people, handlers, calls, stores and faults |
| `Planning_proofs` | what a plan takes, brings, makes up for and replaces, for any map and stocks and any number of concurrent calls; one proposal per pair when the calls follow each other and nobody has changed a target; the greedy loop against its reference definition |

### StateMachine

The database is modelled by versions. `row[o]` is the last committed version of
an order, `draft[o]` the newest, `lock[o]` the open transaction that wrote it.
`Sees(p, o)` is what a statement of `p` reads at READ COMMITTED. An UPDATE that
matches the version it sees waits until the row is free (`Free`) and is then
evaluated on what it finds; one that matches nothing does not wait. `sides` and
`mine` are the committed and the uncommitted rows of `order_approvals`. `ledger`
is what inventory-svc has applied for each order at its source and its target;
it has no rollback. `pc`, `req`, `calls`, `outbox` are a request's own state.

One action per statement of a request:

| Action | Code |
|---|---|
| `SingleRequest`, `BatchRequest` | the endpoints of `routes/orders.py` with `require_authority`; a side the request does not name is inferred (`InferSide`) |
| `UpsertApprovals` | `INSERT INTO order_approvals ... ON CONFLICT`, waits for the same key |
| `ToApproved`, `ApprovedOneSide` | `_to_approved` with its COUNT, the publisher's jump to IN_TRANSIT and `_trigger_chained_wh_to_store`; or its UPDATE that matches nothing |
| `ToInTransit`, `ToExecuted`, `ToRejected` | the UPDATE of each transition, which leaves the adjust calls to make |
| `CancelChained` | `_cancel_chained` |
| `CallInventoryAdjust` | one `_call_inventory_adjust`, with its one retry and the permission check of inventory-svc |
| `PatchOrder`, `Conflict` | `patch_order`; an UPDATE without a match, 409 |
| `Commit`, `PublishOrderEvent` | the commit and the fire-and-forget event |
| `Crash`, `DeadlockVictim` | a pod or connection that dies; PostgreSQL's deadlock detection |

An HTTPException in a single request rolls back; a batch endpoint catches it and
goes on in the same transaction (`Fail`).

### AutoExecute

`cron` holds the phase of the batch, the orders it has still to write and the
orders that were PENDING when it began. `CronSelectEligible`, `CronApprove`,
`CronCommit` are the first transaction, `CronSelectPending`, `CronReject`,
`CronCommit` the second; a CHECK that fails or a deadlock undoes the open one
and ends the job (`CronUndo`), as `raise` in `main` does. The CHECK constraints
of migration 006 (`state_machine.py:8-10`) are `CheckAllows`.

### Inventory

`stock`, `draft`, `lock` are versions of inventory rows as above, `res` the
reservations. A request is one transaction on one cell: `AdjustUpdate` then
`AdjustRefused` or `AdjustCommit` and, after the commit, `PublishStock`;
`ReserveUpdate` or `ReserveRefused`, then `ReserveCommit`. The clean-up job
selects lapsed reservations (`CleanupSelect`), relieves their cells one UPDATE
at a time (`CleanupRelease`) and commits (`CleanupCommit`). `Lapse` is time.
`fetched` and `stale` are what the screens show and what they have been told to
fetch again (`useLiveInvalidate.ts:98-101`).

### LegacyIntervention

A legacy request is a process of its own (`v1`) that shares the rows, locks and
uncommitted approvals of `StateMachine`. `V1Decide`, `V1Inbound` and `V1Edit` are
the endpoints with the SELECTs they start with; `V1Record` writes one row of
`order_approvals` (an UPDATE if the SELECT found one, else an INSERT), `V1Update`
one row of `pending_orders`, `V1Commit` commits. `V1Admits` is the WHERE clause
beside the `order_id`, `V1Version` the SET clause, `CheckAllows` the CHECK
constraints of the table: they are what an unconditional UPDATE runs into.
`V1Adjust` is the call a receipt makes after its commit. `V1Deadlock` extends the
deadlock detection to cycles with a legacy request in them.

### Authority

`Resolve` is what a login makes of an account (`auth-pod/src/db.py`). `MayDecide`
and `MayDecideInBulk` are the two implementations of the legacy rule
(`intervention.py:161`, `:923`), `CanApprove` .. `CanPatch` and `InferSide` those of
the state machine (`authority.py`, `state_machine.py:443`), `MayWriteStock` and
`StockShows` those of inventory-svc; `QueueShows`, `ManualReview`, `PlanShows`,
`CalendarCells`, `InstructionsShow`, `FunnelCounts`, `ExecutionCells` and
`LocationShows` the scope filters of the lists and figures. Requests are atomic:
what matters is the order of approvals, rejections, edits and retargetings.
`/orders/{id}/approve` is two actions: `V2ApproveInferred` for a request that leaves
the side to `InferSide`, `V2ApproveNamed` for one that names it (`ApproveReq`,
`orders.py:37`), which `_to_approved` takes as it is. `claimed` marks the approvals
whose side no rule of the code has found to be the caller's: a named side, and both
sides of an escalation. `offday` says that an order arrived on another day than its
`expected_arrival_at`, which the calendar compares (`orders.py:410-411`).

### Planning

`mode`, `stock`, `orders` and `approvals` are what is committed, `plan[p]` a call of
/plan-daily: `DeleteApprovals`, `FindOrders` with `DeleteOrders`, `ReadStock`,
`ReadIncoming` (with the whole algorithm, `DailyPlan`), `InsertPlan`, one statement
each, and `PlanFails`. The second DELETE takes two steps because it may wait for
another call: it finds the proposals of one moment (`FindOrders`), waits, and deletes
those of them that still are proposals (`DeleteOrders`); what is inserted meanwhile it
does not see. A call holds what it has deleted until its commit: whoever approves,
edits or rejects waits for it, and an approval given between its two deletes undoes
it (the foreign key). `Match` is the greedy loop of the phases as a recursive function,
`Phase`, `InTurn` and `Residual` put the phases together. `Overlap` says without a
loop what `Match` moves between two locations, and is its reference definition.
`Decide` is /decide; the rest of the system is `Approve`, `Dispatch`, `Arrive`,
`Receive`, `Edit` (another quantity or target, `edit_pending_order` and
`patch_order`), `Reject` (with the chained orders, and the goods on their way back to
the source), `LegacyReject` and `ChangeBookStatus`.

### Notifications, Gateway, Requests, Campaigns, Dashboard

notification-svc is one event loop: a step of `call[c]` ends where the coroutine
awaits. `Dedup` is `SET NX EX 300`, `Post` the call to Logic Apps, `FlushTake` the
LRANGE and DELETE of the background task and `FlushPost` its mail. `Expire` is
time, `NotifierCrash` the pod.

`click[g]` is what a person asks for, `handler[h]` an attempt that has reached a
service. `Press`, `Reach`, `Fails` (with `Retry` and `Abandoned`) and `Respond` are
`_safe_post`, `_safe_patch` and `_safe_delete` (`clients.py`): a time-out lets go of
the handler, which runs on.

`Requests` has the handlers of `intervention.py` for books, spikes, returns,
deliveries and the end of the day, and the CronJob of publisher-watcher
(`JobList`, `JobUpdate`, `JobCommit`, `JobNotify`, `JobDies`). A transaction that
locks the deciding row under its condition is one step; deliveries, which look
first and write later, are two. `Campaigns` has `goods_campaigns.py`, with
`Begin`, `Mail`, `Answered` and `Close` inside the one transaction of a send.
`Dashboard` puts them together and lets pods die.

### Abstractions

- Quantities are natural numbers, one book per order; an order is written by
  its row, not its text. Titles, mails, `audit_log` and log lines are left out.
- The deal of a chained quantity over the stores (`Splits`) is any one that
  hands out exactly the quantity, or nothing at all: the forecast, shortage and
  even rules differ in the weights only.
- `"source"` and `"target"` stand for the clerk or manager of that location.
  Rights that equal those of hq for the order at hand are covered by `"hq"`.
- The COUNT of approvals in a waiting approve is evaluated when its row is
  granted. PostgreSQL may use an older snapshot, which only adds to the cases
  `write_skew` shows.
- PATCH of the state machine changes the quantity only, its check of the status
  and its UPDATE are one guard; the legacy PATCH has them apart. A new target is
  in `Authority`.
- Batch requests come from hq. The batch's upsert of the FINAL approval and its
  UPDATE of the order are one step; it takes its orders in any order.
- Mails for departure and arrival and the one-side approval event are left out;
  the four events of `Events` are followed.
- In `Planning` there is one book: books do not influence each other's plan.
  Forecasts are constants, reserved stock is left out, a request of another
  service is one step but for a receipt, whose stock is committed before its
  status. What is dealt out of a delivery goes to one store or none. Calls are about
  one snapshot date. A rejection that meets goods already added to the target's
  stock is left to `StateMachine`.
- In `Requests` one book, one spike and one delivery stand for all; a person asks
  for one thing. `notifications_log` is a set.
- `Authority` knows what an approval was given for, not when: it has no overlap
  of requests. Every order has an `expected_arrival_at`, and the calendar is asked
  for the days of that column.
- Adjustments in `Inventory` come from any caller allowed to make them; the
  permission check is in `StateMachine`, where it matters.

## Runs

| Run | Instance | Result |
|---|---|---|
| `single` | one transfer between stores, two requests, every party, side and operation, calls accepted or refused; 298,984 states | stock, stamps, consent and events agree with the status; implements `OrderLifecycle` |
| `chain` | a transfer and its two chained orders, two requests; 600,652 states | rejecting takes the chained orders along; implements `OrderLifecycle` |
| `faults` | a publisher order and its chained order, singly and in a batch, one crash or disturbed call; 127,984 states | rows stay consistent among themselves |
| `deadlock` | two batches over two orders in opposite orders; 1,667 states | every request is answered |
| `batch` | the 08:00 batch on two moves and a publisher order, with one request at a time of the target's side or of a batch, one fault; 885,414 states | no lock left, nothing left PENDING at the end, no stock changed |
| `cells` | two cells, three reservations, two requests, the clean-up of two reservations at a time, one fault; 657,976 states | the six properties of `Inventory` |
| `legacy` | one legacy and one state-machine request of any operation, single or bulk, on a transfer and a publisher order, one fault; 1,483,000 states | no status goes back, no stock moves early, both sides approve, a bulk rejection closes all or nothing |
| `rights` | nine accounts, two warehouses, three stores, one order of every type and state; 111,186 states | the rules agree, in six properties |
| `plans` | two warehouses, two stores, two initial stocks, two orders at a time, which get another target, one call of plan-daily after the other; 1,537,798 states | plans stay within the gaps, cover every shortage and replace proposals only; one proposal per pair but for new targets |
| `requests` | two people with twelve pairs of requests, two handlers, one notification at a time, the CronJob, the flush, one fault; 92,000 states | decisions once, answers and mails true, everybody answered |
| `retry` | an adjust call whose answer is lost | **violated** `DeductedOnce`: applied twice |
| `write_skew` | both sides approve at once | **violated** `BothSidesSuffice`: stays PENDING |

The two violated properties state what a comment or a document says of the code;
`findings` in `PROJECT.json` quotes it. Other disagreements are listed below,
under "What the models show beside the runs".

Bounds. Two requests are enough for every race of the workflow: its guards and
locks relate two transactions at a time, and a third finds what the second left.
One order and one with its children cover the rows a request can touch;
quantities 1 and 2 tell a patched quantity from the original and let a split be
uneven, even or empty. One fault is what each fault property needs; two would be
independent accidents. Two cells and three reservations let the clean-up take
several reservations of one cell and of different cells, and with `BatchSize = 2` its
LIMIT leaves one that has lapsed to the next run; `MaxOnHand` bounds how
far adjustments refill a cell and `MaxFaults` the crashes, and both are guards of
the actions they bound (`CronDeadlock` also spends `MaxFaults` when the request
is the victim, since it may come back and lose again). `deadlock` lets every adjust
call be refused, since the stock a deadlock victim loses would otherwise grow
without bound.

In `legacy` the state machine approves and dispatches, since a receipt or a
rejection of its own is in `single` and the legacy ones are all there. In `rights`
one order is enough: no rule looks at two. `plans` allows two orders at once,
which a plan for the stocks of the instance fills, and one call of plan-daily:
what is said of concurrent calls is proved for any number of them, and what they
do to the size of the plan is described below. The stocks start so that one plan has
one row, which a second plan can repeat under the other id, and another has two, one
of which can be given the target of the other; every phase has rows in some state.
Edits multiply the states: there is one target to change to (`NewTargets`) and no
other quantity (`NewQtys` is empty); the proofs hold for any. `MinRow = 2` makes rows that
are too small to be sent happen. `requests` fixes the pairs of requests that are
about the same row (`Pairs`); three retries and two handlers let an abandoned
attempt overlap with its repetition.

Symmetry is used for requests, in safety runs only.

Deadlock is checked except in `rights`, `plans` and `requests`, where people may
stop asking, and one order, one plan or one request each is all there is.

Fairness. `deadlock` assumes strong fairness of the statements of an accepted
request: PostgreSQL grants a row in the order its waiters came and breaks a cycle
after `deadlock_timeout`. New requests are under no fairness. `cells` assumes the
same of requests and of the job's UPDATEs, and weak fairness of the job's start
and commit: the CronJob runs every five minutes
(`k8s/cronjob-reservation-cleanup.yaml:12`) and a run that dies is followed by
another. Crashes are bounded and under no fairness. Nothing is assumed of Redis.
`requests` (`FairSpec` of `Dashboard`) assumes weak fairness of the threads that
serve a request, of the event loop of notification-svc, of its background task,
which wakes up every 300 seconds (`notification-svc/src/main.py`), and of the
CronJob. Nobody has to press a button, no fault has to happen, and a CronJob
that dies is started again by its schedule.

## Proofs

For every value of the constants that the named assumptions allow:

| Theorem | States |
|---|---|
| `StateMachine_proofs!TypeCorrect` | `Spec => []TypeOK` |
| `StateMachine_proofs!StampsCorrect` | `Spec => []StampsMatchStatus` |
| `StateMachine_proofs!ConsentCorrect` | `Spec => []NoneWithoutConsent` |
| `WorkflowProofs!StockCorrect` | `Undisturbed` implies `Spec => []StockMatchesStatus` |
| `WorkflowProofs!LifecycleCorrect` | `Undisturbed` implies `Spec => ImplementsLifecycle` |
| `WorkflowProofs!ChainCorrect` | `Spec => []NoChainUnderRejected` |
| `WorkflowProofs!EventsCorrect` | `Spec => []EventsOnceAndTrue` |
| `WorkflowProofs!ClosesAllCorrect` | `AutoSpec => []FinishedBatchClosesAll` |
| `WorkflowProofs!BatchMovesNoStockCorrect` | `AutoSpec => BatchMovesNoStock` |
| `LegacyIntervention_proofs!OnlyForwardCorrect` | `LegacySpec => OnlyForward` |
| `LegacyIntervention_proofs!ApprovedByBothCorrect` | `LegacySpec => ApprovedByBoth` |
| `LegacyIntervention_proofs!RejectClosesAllCorrect` | `LegacySpec => RejectClosesAll` |
| `LegacyIntervention_proofs!NothingMovedButByVictims` | `LegacySpec /\ [][VictimsMovedNothing]_allVars => []NothingMovedBefore` |
| `Inventory_proofs!CellsTypeCorrect` | `Spec => []TypeOK` |
| `Inventory_proofs!ReservedCorrect` | `Spec => []ReservedMatchesActive` |
| `Inventory_proofs!NeverNegativeCorrect` | `Spec => []NeverNegative` |
| `Inventory_proofs!NoOverbookingCorrect` | `Spec => NoOverbooking` |
| `Inventory_proofs!ScreensCorrect` | `Spec => []ScreensCatchUp` |
| `Authority_proofs!AuthTypeCorrect` | `Spec => []AuthTypeOK` |
| `Authority_proofs!BulkAgreement` | `Spec => []BulkAgreesWithSingle` |
| `Authority_proofs!ActorsSee` | `Spec => []ActorsSeeTheirOrders` |
| `Authority_proofs!CalendarCounts` | `Spec => []CountedOnce` |
| `Authority_proofs!StockRights` | `Spec => []StockRightsFollow` |
| `Authority_proofs!SourceConsentCorrect` | `Spec => []SourceConsentStands` |
| `Planning_proofs!PlansStayWithinGaps` | `Spec => []PlanWithinGaps` |
| `Planning_proofs!ShortagesArePlanned` | `Spec => []ShortagePlanned` |
| `Planning_proofs!GreedyOverlaps` | `Spec => []GreedyIsOverlap` |
| `Planning_proofs!OneProposalHolds` | a single planner implies `Spec => []OneProposalPerPair` |
| `Planning_proofs!OnlyProposalsAreReplaced` | `Spec => OnlyProposalsReplaced` |
| `Dashboard_proofs!DashboardInvariant` | `Spec => []Inv` |
| `Dashboard_proofs!OrdersCorrect` | `Spec => []OrdersMatchDecision` |
| `Dashboard_proofs!AnswersCorrect` | `Spec => []AnswersAreTrue` |
| `Dashboard_proofs!MailsCorrect` | `Spec => []MailsAreTrue` |
| `Dashboard_proofs!RejectionsCorrect` | `Spec => []RejectionsAccounted` |
| `Dashboard_proofs!CampaignsCorrect` | `Spec => []CampaignsConsistent` |

The inductive invariants, and why the properties alone are not inductive:

- `TypeInv`: the next statement takes the head of the request's list, so a busy
  request must have one (`BusyHasOrder`).
- `StampsInv`: a commit publishes the draft, so the stamps must hold of it too.
  `VersionStep` shows that a step only ever writes a `Successor` of the version
  it saw.
- `ConsentInv`: what a transaction counted must still be there when it commits
  (`SidesInv`); a version is never behind the committed one (`VersionsInv`); a
  chained order is inserted in the transaction that approves its parent
  (`ChainedInv`).
- `StockInv`: while a row is open, the calls still to be made account for the
  difference between what is moved and what the draft stands for (`LedgerInv`),
  which needs one call per row (`CallsInv`) and a row for each step (`LocksInv`).
- Refinement: an order is mapped to its committed version until its stock
  has moved and to its draft from then on (`Settled`), so the call that moves it,
  or the commit where no call is made, has to be one edge of `OrderLifecycle`.
  `EdgeInv` says that of the draft of every open row; `SettledInv`, from
  `StockInv`, keeps stock and mapped status together; `AllTouched` says that every
  step keeps, opens, moves or closes each order.
- `ChainInv`: a rejection cancels its chained orders several statements later, in
  the same transaction. Until then they are still to come (`CascadeInv`), after the
  commit nobody may bring them back: a row that is EXECUTED or REJECTED is never
  locked again (`TerminalInv`), and a batch endpoint never rejects
  (`BatchesInv`).
- `EventInv`: an event goes out after the commit, when others may have changed
  the row. What is published must therefore be a fact that lasts (`LastingInv`),
  nobody else may still owe it (`OutboxInv`, `DueInv`), and it must not be
  published before (`PublishedInv`).
- `CronInv`: what the batch has still to reject is on its
  list or in its own transaction (`ClosingInv`); that nothing joins the PENDING
  orders it began with is `NotAgainInv`, no order ever is PENDING again. It keeps
  the stamps because the CHECKs refuse the rest, so `CronDraftsInv` can say that
  it never writes an order that has left. What a request does to rows and stamps
  is cited from `StateMachine_proofs`, whose lemmas are stated for any writer.
- `LegacyInv` (`LegacyIntervention_proofs`): a legacy UPDATE has no guard on the
  status; no newer version goes back all the same (`ForwardInv`), because of the
  CHECKs and of what a legacy request has read, which stays true (`TodoOK`).
  A legacy rejection takes approvals back, so `SidesInv` fails here: in its
  place, `ApprovalInv` counts those that will be there once the request commits.
  `LocksOK` and `DeniedOK` follow a bulk rejection order by order until its
  commit. `StampsInv`, `VersionsInv` and `ChainedInv` are those of
  `StateMachine_proofs`, shown again for the writers added here.
- `MoveInv` (`LegacyIntervention_proofs`): stock moved for an order that has not
  left belongs to a dispatch that still holds the order and will commit it
  (`LedgerInv`, `Shipping`). For that, no call may be about an order that has not
  left but the one the dispatch is at (`CallsOK`), which needs that only
  approvals and dispatches take an order on its way (`HoldsOK`); and a legacy
  receipt adds to the stock only of what it has taken to EXECUTED (`ReceiptOK`). A dispatch
  loses such an order in one way, as the victim of a deadlock in a batch:
  the theorem assumes of each step only that it is not that one
  (`VictimsMovedNothing`), and speaks of every list of a batch endpoint. The
  list of `legacy` moves stock last, where no such step exists.
- `Inventory_proofs!Inv`: what a writer has put into a draft (`DraftsInv`), and
  that each reservation of a run is in a cell it has relieved or will
  (`JobInv`). Sums are cardinalities of the sets of copies the reservations hold
  (`Copies`), so `AmountSplit` and `AmountSame` follow from the finite-set
  theorems. That `GREATEST(0, ..)` never has anything to do follows on the way.
  `ScreensCatchUp` is inductive next to it: only an adjustment changes an
  `on_hand`, and it stands at its message when it has.
- `Authority_proofs`: four of the theorems compare rules in one state and need of
  its history only that a source is missing exactly from orders to publishers
  (`AuthTypeOK`). Consent has a history: an approval stands though the order gets
  another target, because no edit touches a source (`ConsentInv`, with `Unasked`:
  nobody has approved an order before it is there). It speaks of the approvals
  that are not `claimed`.
- `PlanInv` and `PlanTypes` (`Planning_proofs`): a call replaces what it saw
  PENDING several statements ago. That these orders still are PENDING, and that no
  two calls delete the same one, is `GoneArePending`; it holds because everybody
  waits for the locks of a call. That its rows are the `DailyPlan` of what it has
  read is `PlansAreMade`. That they are proposals of the plan, whatever edits do to
  their rows meanwhile, is `DeletedArePlanned`. `CallInv` adds, for a single planner,
  that a call finds every proposal there is and has deleted it (`AllGone`).
- `Dashboard_proofs!Inv`: `HandlersInv`, `CallsInv` and `ClicksInv` say what a
  handler, a call and a person have in hand at each step. An answer is true when
  it is given because it was when the handler got its result, and `TruthInv`
  follows it from there: every row it speaks of is written under a condition
  that its first decision ends (`TableMoves`). `OrdersMatchDecision` therefore
  needs that no two entries of a warehouse are about the same decision
  (`OrdersInv`), and of a share that the shares add up (`SharesAddUp`).
- `BookMailInv`: a mail about the book is with one handler, in one call or
  mailed, and what it says cannot change any more. What the CronJob tells is the
  exception, since it tells it after its commit and not in a handler: no second
  job finds the row NEW again (`JobInv`).
- `KeysInv`: what has passed the duplicate filter and what has been mailed is at
  most one more than the times its key has lapsed, and not one more unless the
  key is there. `RejectionsAccounted` is inductive with `ClicksInv` and
  `CallsInv`; its proof is about cardinalities (`RefusalSteps`).
- `CampaignsInv`: a handler that holds rows it has not committed holds the
  campaign, too, so a DELETE waits; and whoever waits for a call waits for its
  own next mail, and alone.

What a plan consists of is a matter of data: sums, a sort, a greedy loop, phases.

- Induction goes by the smallest counterexample: `SmallestSet`, `BySets` and
  `ByNumbers` take it from the library's `WFMin`, which needs no operator as a
  parameter; the sets for which a claim holds are a set. Sums (`SumPick` ..
  `SumUnion`, in `Sums`), the sorted lists (`SortedIs`) and the turns of the loop (`ByTurns`)
  rest on them.
- `LoopInv` is the invariant of the loop: gaps shrink and keep their sign
  (`GapsOK`), goods go from those with too many to those with too few
  (`MovedOK`), what has become of a gap has been moved (`SumsOK`), and no pair
  comes twice (`PlaceOK`). A phase turns that into a `Flow` from gaps to gaps, and
  flows one after the other are a flow (`FlowsAdd`), which is `PlanWithinGaps`.
- `ShortagePlanned` counts what is lost: each turn goes a step along one of the
  lists and leaves at most one row below `MinRow` (`ScrapsOK`). The accounts of a
  phase, of a location and of a set of them (`PhaseAccounts`, `LocationAccounts`,
  `SetAccounts`) add up what was there, what was brought and what was lost; the
  phase across warehouses reaches a set only through its body (`ThirdLoses`).
- `GreedyIsOverlap`: after each turn the loop has dealt with the first `m` copies
  of both lists laid end to end, and each pair has what its two stretches share
  up to `m` (`LaidUpTo`).

`Undisturbed` is what the disagreements leave of stock against status: no batch
endpoint, no fault, and no refused call in a cascade: `retry` and the first two
points of the list below violate it without them.

Each of the state invariants was first checked by TLC, on the instance of the run of
its component.

Only model-checked:

- liveness (`RequestsFinish`, `LapsedAreReleased`, `ClicksAnswered`,
  `EverythingTold`), which TLAPS does not reach;
- the sums of `Splits` in `StateMachine`: the proofs hold for any way of dealing
  an order out. The sums of `Planning` are proved about.

## What the models show beside the runs

With other constants, or in states no property speaks of, the same modules show
these disagreements of the code with itself or with what it says. They are kept
here and not as runs.

The state machine and the 08:00 batch:

- `batch_dispatch` commits IN_TRANSIT for an order whose adjust call was refused:
  the exception is caught per order, the row stays written (`orders.py:245`,
  against "atomic" at `state_machine.py:140`).
- `_cancel_chained` restores several orders; when a later call fails, the
  earlier ones stay restored and the transaction is undone. The victim of a
  deadlock between two batch dispatches loses its statuses after inventory-svc
  has moved their stock.
- A source may turn away an order that is already on its way: authority is
  decided on an older status (`authority.py:15`, `:152`). A return by the target
  is allowed by `authority.py:118` and refused by inventory-svc
  (`inventory.py:66-104`).
- The batch rejects an order approved since its SELECT (`auto_execute.py:157-160`),
  although a comment there says it only rejects what is PENDING; if that is a
  transfer, its chained orders stay live. An order that was shipped meanwhile
  fails a CHECK, and the whole batch is undone until the next day.
- The batch approves publisher orders but does not put them in transit or chain
  the stores' orders, as `state_machine.py:118-119` does.
- `patch_order` changes the quantity of an APPROVED order whose chained orders
  are dealt out (`state_machine.py:109` calls the plan locked).

The legacy endpoints:

- An order can be received twice: the second `receive_inbound` has read APPROVED
  and its UPDATE matches EXECUTED too, so the stock is added twice
  (`intervention.py:1782` says only APPROVED orders can be received).
- An approval of the target side survives a retargeting
  (`intervention.py:1290-1300`), so it may speak for a location that has not
  been asked. A source never changes, so an approval for it stays one for it
  (`SourceConsentStands`).
- A rejection of an EXECUTED order in bulk leaves the order but commits
  REJECTED approvals; a rejection of an order on its way does not put its stock
  back; an approval chains nothing and leaves a publisher order at APPROVED.
- One CHECK that fails undoes a whole bulk request. Mails of
  `_record_approval` are sent before the commit.
- The mail that closes the day can be sent twice (`intervention.py:108`: once).

Planning:

- Two calls of plan-daily at the same time double the plan; the forecast refresh
  triggers one (`forecast.py:264-306`).
- A plan may delete the approval of one side while the other side approves. The
  first side has to approve again; or, as the other side's COUNT still sees the row
  that is being deleted, the order is approved and keeps the approval of one side
  only. The second DELETE spares it, as it is not PENDING any more, and the commit
  leaves it without the row (`decision.py:1055-1076`). `OnlyProposalsReplaced`
  therefore compares the approvals of the orders of /decide only; TLC reaches the
  state in the instance of `plans`.
- A proposal that was given another target (`intervention.py:1290`) stays a proposal
  of the plan, so a pair may have two until the next plan.
- Orders that will leave a location are not subtracted from what it has
  (`decision.py:99`), so a second plan promises the same surplus; chained orders
  are counted at the body and at the store. Rows too small to be sent count as
  sent. A warehouse without stores never orders from a publisher.
- A plan orders books in SOFT_DISCONTINUE from the publisher, which /decide does
  not (`decision.py:203`).

Requests, mails and campaigns:

- A repeated request that inserts is carried out twice: a return is asked for
  twice, a campaign made twice, an adjustment added twice. Decisions are not
  (`OrdersMatchDecision`).
- The key of the duplicate filter stays when the mail failed, so a repetition
  within 300 seconds is dropped; NewBookRequest mails have no key. A pod that dies
  after the flush has deleted its list, or after a commit and before its mail,
  loses the mail.
- The campaign mails go out before the commit: a send that is undone is not in
  the history and is mailed again. An answer that says FAILED is stored as SENT.
  A new recommendation overwrites hand edits and takes SENT back to RECOMMENDED.
- `EventType` of notification-svc lacks the events of the state machine
  (OrderApprovedFinal, OrderDispatched, OrderExecuted), so those are answered 422
  (`notification-svc/src/models.py:15-32`).

Authority:

- A side that a request to `/orders/{id}/approve` names is not compared with the
  caller (`orders.py:37`, `state_machine.py:63`): whoever may approve an order may
  record the approval of any side of it. `SourceConsentStands` therefore speaks of
  the sides the code has found itself, `NoneWithoutConsent` and `ApprovedByBoth` of
  approval rows.
- The calendar counts an order that arrived on another day than expected in none of
  its figures (`orders.py:410-411`), although a comment says that the figures add up to
  the number of rows (`orders.py:387`). `CountedOnce` says it of the others.
- NEWBOOK orders are for the headquarters only in `authority.py`, not in the
  legacy rule. A role without a filter, or one whose scope is missing, falls
  through to all orders in the lists, while the calendar answers 403.
- The lists of a plan show a clerk the orders to his store only, although
  `decision.py:1175` refers to the convention of the queue, which shows both.
- The calendar's docstring lists PENDING (`orders.py:368-369`), its SQL leaves
  it out; the in-transit sums of `inventory.py:135` count APPROVED orders only.

Also seen while reading: an adjustment looks at `on_hand` only, so it may leave a
cell with more reserved than it has; the value pushed as `available` on
`stock.changed` is `on_hand` (`inventory.py:242`), not what is left of it.

## Not modelled

`PROJECT.json` lists every component with its status and the reason.

- `forecast.py`: it reads forecasts, and its writes are jobs of BigQuery
  (delete, insert, average) whose isolation is not in the repository; the
  feature rows are checked and inserted in two statements, so two predictions
  for one book may overlap.
- The read-only queries of dashboard-svc about books, sales and KPIs, the web
  application, and `redis_bridge.py`, which feeds web sockets and ends for good
  when its listener raises.
- The exchange of OIDC messages and signatures in auth-pod; pages and covers of
  the publisher site.
- Simulators and glue jobs, which write files and streams that no other part
  modelled here reads; the mocks of cloud services.

## What could come next

The safety and action properties of the passing runs are all proved, some of them
under the hypotheses named above. What is left is to model more: the write paths of
`forecast.py` over BigQuery, once it is settled what its jobs guarantee of each
other, and the web sockets of `redis_bridge.py`. And to decide about the disagreements above: if a batch committed each order before
it took the next, `VictimsMovedNothing` would hold of every list.

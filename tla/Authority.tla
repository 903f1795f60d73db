------------------------------- MODULE Authority ------------------------------
(***************************************************************************)
(* Who may do what to an order.  The role and scope of a caller come from  *)
(* auth-pod; six places of the code then decide on them independently:     *)
(* _validate_authority and _check_authority_rules for the legacy requests  *)
(* (routes/intervention.py), authority.py with _infer_side for the state   *)
(* machine's, inventory-svc for the stock they move, and the scope filters *)
(* of the lists people work from.                                          *)
(*                                                                         *)
(* Requests are atomic here, one order at a time: StateMachine and         *)
(* LegacyIntervention have their interleavings.  What matters is which     *)
(* order an approval was given for: a PATCH changes the target of an order *)
(* whose approvals are already recorded.                                   *)
(***************************************************************************)
EXTENDS Integers, FiniteSets

CONSTANTS
    Orders,
    Whs,           \* warehouses; a name stands for the wh_id and its location
    Stores,
    WhOf,          \* locations.wh_id
    Accounts,      \* the accounts that log in
    Local,         \* local part of each account's UPN: kind and number
    Group,         \* Entra group of each account
    FirstWh,       \* scope of a member of BF-Logistics
    DefaultStore,  \* settings.default_store_id
    None

Locations == Whs \cup Stores
Roles     == {"hq-admin", "wh-manager", "branch-clerk", "engineer"}
Kinds     == {"hq", "wh", "branch", "engineer", "other"}
Groups    == {"admin", "logistics", "branch", "none"}
Types     == {"WH_TO_STORE", "REBALANCE", "WH_TRANSFER", "PUBLISHER_ORDER"}
Statuses  == {"NONE", "PENDING", "APPROVED", "IN_TRANSIT", "EXECUTED", "REJECTED"}
Ends      == {"SOURCE", "TARGET"}
Sides     == Ends \cup {"FINAL"}

ASSUME AuthorityAssumption ==
    /\ Whs \cap Stores = {}
    /\ None \notin Locations
    /\ WhOf \in [Locations -> Whs]
    /\ \A w \in Whs : WhOf[w] = w
    /\ Local \in [Accounts -> [kind : Kinds, n : Locations]]
    /\ \A a \in Accounts :
          /\ Local[a].kind = "wh" => Local[a].n \in Whs
          /\ Local[a].kind = "branch" => Local[a].n \in Stores
    /\ Group \in [Accounts -> Groups]
    /\ FirstWh \in Whs
    /\ DefaultStore \in Stores

Token == [role : Roles, wh : Whs \cup {None}, store : Stores \cup {None}]

VARIABLES
    order,      \* pending_orders
    consent     \* order_approvals: who approved which side, and as what

vars == <<order, consent>>

\* offday: received on another day than expected_arrival_at, which every order has.
Order == [type : Types, src : Locations \cup {None}, tgt : Locations,
          newbook : BOOLEAN, status : Statuses, offday : BOOLEAN]

\* claimed: that the side is the caller's is his own claim; no rule of the code
\* has found it to be (a side he named, or an escalation).
Consent == [who : Token, claimed : BOOLEAN]

-----------------------------------------------------------------------------
(* auth-pod *)

TokenOf(role, wh, store) == [role |-> role, wh |-> wh, store |-> store]

\* _map_groups_to_role
ByGroup(g) ==
    CASE g = "admin"     -> TokenOf("hq-admin", None, None)
      [] g = "logistics" -> TokenOf("wh-manager", FirstWh, None)
      [] OTHER           -> TokenOf("branch-clerk", None, DefaultStore)

\* Mutant of Resolve: the number of a manager's UPN in the place of the store.
ResolveMisplaced(a) ==
    CASE Local[a].kind = "hq"       -> TokenOf("hq-admin", None, None)
      [] Local[a].kind = "engineer" -> TokenOf("engineer", None, None)
      [] Local[a].kind = "wh"       -> TokenOf("wh-manager", None, Local[a].n)
      [] Local[a].kind = "branch"   -> TokenOf("branch-clerk", None, Local[a].n)
      [] OTHER                      -> ByGroup(Group[a])

\* _resolve_role_scope: the UPN decides, the groups if it says nothing.
Resolve(a) ==
    CASE Local[a].kind = "hq"       -> TokenOf("hq-admin", None, None)
      [] Local[a].kind = "engineer" -> TokenOf("engineer", None, None)
      [] Local[a].kind = "wh"       -> TokenOf("wh-manager", Local[a].n, None)
      [] Local[a].kind = "branch"   -> TokenOf("branch-clerk", None, Local[a].n)
      [] OTHER                      -> ByGroup(Group[a])

\* The callers: each login issues a token with what the account resolves to.
Tokens == {Resolve(a) : a \in Accounts}

-----------------------------------------------------------------------------
(* The rules *)

\* _location_wh; NULL for the source of an order to a publisher.
WhAt(l) == IF l = None THEN None ELSE WhOf[l]

End(o, s) == IF s = "SOURCE" THEN order[o].src ELSE order[o].tgt

IsHq(t) == t.role = "hq-admin"

ClerkAt(t, l) == t.role = "branch-clerk" /\ t.store # None /\ t.store = l

ManagerAt(t, l) == t.role = "wh-manager" /\ t.wh # None /\ t.wh = WhAt(l)

\* _is_source_party and _is_target_party
Party(t, l) == ClerkAt(t, l) \/ ManagerAt(t, l)

SidesOf(o) == IF order[o].type = "PUBLISHER_ORDER" THEN {"FINAL"} ELSE Ends

\* Mutant of MayDecide: the sides of a rebalancing swapped.
MayDecideSwapped(t, o, s) ==
    /\ s \in SidesOf(o)
    /\ \/ IsHq(t)
       \/ /\ order[o].type = "REBALANCE"
          /\ Party(t, End(o, IF s = "SOURCE" THEN "TARGET" ELSE "SOURCE"))
       \/ /\ order[o].type = "WH_TO_STORE"
          /\ IF s = "SOURCE" THEN ManagerAt(t, order[o].src)
             ELSE ClerkAt(t, order[o].tgt)
       \/ order[o].type = "WH_TRANSFER" /\ ManagerAt(t, End(o, s))
       \/ order[o].type = "PUBLISHER_ORDER" /\ ManagerAt(t, order[o].tgt)

\* _validate_authority: one legacy decision.
MayDecide(t, o, s) ==
    /\ s \in SidesOf(o)
    /\ \/ IsHq(t)
       \/ order[o].type = "REBALANCE" /\ Party(t, End(o, s))
       \/ /\ order[o].type = "WH_TO_STORE"
          /\ IF s = "SOURCE" THEN ManagerAt(t, order[o].src)
             ELSE ClerkAt(t, order[o].tgt)
       \/ order[o].type = "WH_TRANSFER" /\ ManagerAt(t, End(o, s))
       \/ order[o].type = "PUBLISHER_ORDER" /\ ManagerAt(t, order[o].tgt)

\* _check_authority_rules: the same decision on an order read in bulk.  It looks
\* at the role first where _validate_authority looks at the side.
MayDecideInBulk(t, o, s) ==
    LET r    == order[o]
        mine == IF s = "SOURCE" THEN r.src ELSE r.tgt
    IN  IF r.type = "PUBLISHER_ORDER"
        THEN s = "FINAL" /\ (IsHq(t) \/ ManagerAt(t, r.tgt))
        ELSE /\ s \in Ends
             /\ CASE IsHq(t) -> TRUE
                  [] t.role = "branch-clerk" ->
                       /\ t.store = mine
                       /\ \/ r.type = "REBALANCE"
                          \/ r.type = "WH_TO_STORE" /\ s = "TARGET"
                  [] t.role = "wh-manager" ->
                       /\ t.wh = WhAt(mine)
                       /\ r.type = "WH_TO_STORE" => s = "SOURCE"
                  [] OTHER -> FALSE

\* The rows /intervene/approve-all-today picks for a caller.
ApproveAllSees(t, o) ==
    LET r == order[o]
    IN  \/ IsHq(t) /\ r.type = "PUBLISHER_ORDER"
        \/ ManagerAt(t, r.src) \/ ManagerAt(t, r.tgt)
        \/ r.type = "REBALANCE" /\ (ClerkAt(t, r.src) \/ ClerkAt(t, r.tgt))
        \/ r.type = "WH_TO_STORE" /\ ClerkAt(t, r.tgt)

\* Authority.can_approve, can_dispatch, can_receive, can_reject, can_patch
CanApprove(t, o) ==
    \/ IsHq(t)
    \/ IF order[o].type = "PUBLISHER_ORDER"
       THEN ~order[o].newbook /\ ManagerAt(t, order[o].tgt)
       ELSE \/ Party(t, order[o].src)
            \/ Party(t, order[o].tgt)
            \/ t.role = "wh-manager"

\* Mutant of CanDispatch: either side may send the goods off.
CanDispatchEither(t, o) ==
    \/ IsHq(t)
    \/ IF order[o].type = "PUBLISHER_ORDER" THEN ManagerAt(t, order[o].tgt)
       ELSE Party(t, order[o].src) \/ Party(t, order[o].tgt)

CanDispatch(t, o) ==
    \/ IsHq(t)
    \/ IF order[o].type = "PUBLISHER_ORDER" THEN ManagerAt(t, order[o].tgt)
       ELSE Party(t, order[o].src)

CanReceive(t, o) ==
    \/ IsHq(t)
    \/ IF order[o].type = "PUBLISHER_ORDER" THEN ManagerAt(t, order[o].tgt)
       ELSE Party(t, order[o].tgt)

CanReject(t, o) ==
    \/ IsHq(t)
    \/ IF order[o].type = "PUBLISHER_ORDER"
       THEN ~order[o].newbook /\ ManagerAt(t, order[o].tgt)
       ELSE \/ Party(t, order[o].tgt)
            \/ order[o].status # "IN_TRANSIT" /\ Party(t, order[o].src)

CanPatch(t, o) ==
    \/ IsHq(t)
    \/ /\ order[o].type # "PUBLISHER_ORDER"
       /\ Party(t, order[o].src) \/ Party(t, order[o].tgt)

\* receive_inbound: no difference between the order types.
MayReceiveInbound(t, o) == IsHq(t) \/ Party(t, order[o].tgt)

\* edit_pending_order: not for clerks; the new target is in the manager's region.
MayEdit(t, o, l) ==
    /\ t.role # "branch-clerk"
    /\ t.role = "wh-manager" =>
          /\ ManagerAt(t, order[o].src) \/ ManagerAt(t, order[o].tgt)
          /\ l # order[o].tgt => ManagerAt(t, l)

\* Mutant of InferSide: the manager of the target's region taken for the source's.
InferSideByTarget(t, o) ==
    LET r == order[o]
    IN  CASE r.type = "PUBLISHER_ORDER" -> {"FINAL"}
          [] r.type # "PUBLISHER_ORDER" /\ IsHq(t) -> Ends
          [] ClerkAt(t, r.src) -> {"SOURCE"}
          [] ClerkAt(t, r.tgt) /\ ~ClerkAt(t, r.src) -> {"TARGET"}
          [] /\ r.type \in {"WH_TRANSFER", "WH_TO_STORE"}
             /\ ManagerAt(t, r.tgt) -> {"SOURCE"}
          [] OTHER -> Ends

\* _infer_side
InferSide(t, o) ==
    LET r == order[o]
    IN  CASE r.type = "PUBLISHER_ORDER" -> {"FINAL"}
          [] r.type # "PUBLISHER_ORDER" /\ IsHq(t) -> Ends
          [] ClerkAt(t, r.src) -> {"SOURCE"}
          [] ClerkAt(t, r.tgt) /\ ~ClerkAt(t, r.src) -> {"TARGET"}
          [] /\ r.type \in {"WH_TRANSFER", "WH_TO_STORE"}
             /\ ManagerAt(t, r.src) -> {"SOURCE"}
          [] /\ r.type = "WH_TRANSFER"
             /\ ManagerAt(t, r.tgt)
             /\ ~ManagerAt(t, r.src) -> {"TARGET"}
          [] OTHER -> Ends

\* _check_inventory_write_perm of inventory-svc
MayWriteStock(t, l) == IsHq(t) \/ Party(t, l)

\* Mutant of QueueShows: the /queue of 2026-05-15 v2, without the clerk's filter
\* on the source.
QueueShowsTarget(t, o) ==
    CASE t.role = "wh-manager" /\ t.wh # None ->
           ManagerAt(t, order[o].src) \/ ManagerAt(t, order[o].tgt)
      [] t.role = "branch-clerk" /\ t.store # None -> ClerkAt(t, order[o].tgt)
      [] OTHER -> TRUE

\* The role filter of /queue, /queue/summary and /grouped: it is left out for
\* every other role, and for a scope that is NULL.
QueueShows(t, o) ==
    CASE t.role = "wh-manager" /\ t.wh # None ->
           ManagerAt(t, order[o].src) \/ ManagerAt(t, order[o].tgt)
      [] t.role = "branch-clerk" /\ t.store # None ->
           ClerkAt(t, order[o].src) \/ ClerkAt(t, order[o].tgt)
      [] OTHER -> TRUE

\* /grouped: the orders that wait for a decision, and how many they are.
ManualReview(t) ==
    {o \in Orders : order[o].status = "PENDING" /\ QueueShows(t, o)}

\* _plan_scope_clause of decision-svc, for the lists of a day's plan.
PlanShows(t, o) ==
    CASE t.role = "wh-manager" /\ t.wh # None ->
           ManagerAt(t, order[o].src) \/ ManagerAt(t, order[o].tgt)
      [] t.role = "branch-clerk" /\ t.store # None -> ClerkAt(t, order[o].tgt)
      [] OTHER -> TRUE

Mine(t, l) == IsHq(t) \/ Party(t, l)

\* Mutant of CalendarCells: coming in and going out are not told apart.
CalendarCellsBoth(t, o) ==
    LET st  == order[o].status
        in  == Mine(t, order[o].tgt)
        out == Mine(t, order[o].src)
    IN  {c \in {"inbound", "outbound", "in_transit", "executed"} :
            CASE c = "inbound"    -> st = "APPROVED" /\ in
              [] c = "outbound"   -> st = "APPROVED" /\ out
              [] c = "in_transit" -> st = "IN_TRANSIT" /\ (in \/ out)
              [] OTHER            -> /\ st = "EXECUTED" /\ ~order[o].offday
                                     /\ in \/ out}

\* /orders/calendar: the counters of its expected day that an order adds to.
CalendarCells(t, o) ==
    LET st  == order[o].status
        in  == Mine(t, order[o].tgt)
        out == Mine(t, order[o].src)
    IN  {c \in {"inbound", "outbound", "in_transit", "executed"} :
            CASE c = "inbound"    -> st = "APPROVED" /\ in
              [] c = "outbound"   -> st = "APPROVED" /\ out /\ ~in
              [] c = "in_transit" -> st = "IN_TRANSIT" /\ (in \/ out)
              [] OTHER            -> /\ st = "EXECUTED" /\ ~order[o].offday
                                     /\ in \/ out}

\* The filter of the dashboard's per-location figures, and of _check_location_scope.
LocationShows(t, l) ==
    CASE t.role = "wh-manager" /\ t.wh # None -> ManagerAt(t, l)
      [] t.role = "branch-clerk" /\ t.store # None -> ClerkAt(t, l)
      [] OTHER -> TRUE

\* /instructions: what there is to pack, or has been delivered.
InstructionsShow(t, o) ==
    /\ order[o].status \in {"APPROVED", "EXECUTED"}
    /\ CASE t.role = "wh-manager" /\ t.wh # None ->
              ManagerAt(t, order[o].src) \/ ManagerAt(t, order[o].tgt)
         [] t.role = "branch-clerk" /\ t.store # None ->
              ClerkAt(t, order[o].src) \/ ClerkAt(t, order[o].tgt)
         [] OTHER -> TRUE

\* /cascade/funnel: the orders a caller's figures are made of.
FunnelCounts(t, o) ==
    CASE t.role = "wh-manager" /\ t.wh # None ->
           \E s \in Ends : WhAt(End(o, s)) = t.wh
      [] t.role = "branch-clerk" /\ t.store # None -> \E s \in Ends : End(o, s) = t.store
      [] OTHER -> TRUE

\* /execution/by-location: the figures an order adds to.
ExecutionCells(t, o) ==
    {s \in Ends : /\ order[o].status \in {"APPROVED", "EXECUTED"}
                  /\ End(o, s) # None
                  /\ LocationShows(t, End(o, s))}

\* _check_inventory_read_scope of inventory-svc, for the stock of a warehouse and
\* its stores
StockShows(t, w) ==
    \/ IsHq(t)
    \/ t.role = "wh-manager" /\ t.wh = w
    \/ t.role = "branch-clerk" /\ t.store # None /\ WhOf[t.store] = w

-----------------------------------------------------------------------------
(* Requests *)

Existing(o) == order[o].status # "NONE"

Become(o, st) == order' = [order EXCEPT ![o].status = st]

Recorded(o, ss, t, claimed) ==
    [consent EXCEPT ![o] = [s \in Sides |->
        IF s \in ss THEN {[who |-> t, claimed |-> claimed]} ELSE consent[o][s]]]

\* executed_at is the moment of the receipt, whatever day was expected.
Arrive(o) ==
    \E offday \in BOOLEAN :
        order' = [order EXCEPT ![o].status = "EXECUTED", ![o].offday = offday]

\* The shapes in which plan_daily and the spike and new-book approvals propose.
Propose(o) ==
    \E type \in Types, l \in Locations \cup {None}, m \in Locations :
        /\ ~Existing(o)
        /\ CASE type = "WH_TO_STORE" -> l \in Whs /\ m \in Stores /\ WhOf[m] = l
             [] type = "REBALANCE"   -> /\ l \in Stores /\ m \in Stores \ {l}
                                        /\ WhOf[l] = WhOf[m]
             [] type = "WH_TRANSFER" -> l \in Whs /\ m \in Whs \ {l}
             [] OTHER                -> l = None /\ m \in Whs
        /\ \E nb \in (IF type = "PUBLISHER_ORDER" THEN BOOLEAN ELSE {FALSE}) :
              order' = [order EXCEPT ![o] =
                          [type |-> type, src |-> l, tgt |-> m, newbook |-> nb,
                           status |-> IF nb THEN "APPROVED" ELSE "PENDING",
                           offday |-> FALSE]]
        /\ UNCHANGED consent

BothIn(o, c) == \/ "FINAL" \in SidesOf(o)
                \/ \A s \in Ends : c[o][s] # {}

\* Legacy approvals of some sides: the order is approved once both are in.  From
\* any status but these the UPDATE fails on a CHECK and the request with it.
V1Record(t, o, ss) ==
    LET c == Recorded(o, ss, t, FALSE)
    IN  /\ consent' = c
        /\ IF BothIn(o, c)
           THEN /\ order[o].status \in {"PENDING", "APPROVED"}
                /\ Become(o, "APPROVED")
           ELSE UNCHANGED order

V1Approve(t, o) ==
    /\ Existing(o)
    /\ \E s \in Sides : MayDecide(t, o, s) /\ V1Record(t, o, {s})

\* approve_all_today: every side the caller may decide of the rows it picks.
V1ApproveAll(t, o) ==
    LET ss == {s \in SidesOf(o) : MayDecideInBulk(t, o, s)}
    IN  /\ order[o].status = "PENDING"
        /\ ApproveAllSees(t, o)
        /\ ss # {}
        /\ V1Record(t, o, ss)

V1Reject(t, o) ==
    /\ order[o].status \in {"PENDING", "APPROVED", "IN_TRANSIT"}
    /\ \E s \in Sides :
          /\ MayDecide(t, o, s)
          /\ consent' = [consent EXCEPT ![o][s] = {}]
    /\ Become(o, "REJECTED")

\* PATCH /pending-orders/{id} with a new target; the approvals are left alone.
V1Edit(t, o) ==
    /\ order[o].status = "PENDING"
    /\ \E l \in Locations :
          /\ MayEdit(t, o, l)
          /\ order' = [order EXCEPT ![o].tgt = l]
    /\ UNCHANGED consent

V1Receive(t, o) ==
    /\ order[o].status = "APPROVED"
    /\ MayReceiveInbound(t, o)
    /\ Arrive(o)
    /\ UNCHANGED consent

\* _to_approved: the approvals, and the transition if the order waits for no more.
V2Record(t, o, ss, claimed) ==
    LET c == Recorded(o, ss, t, claimed)
    IN  /\ consent' = c
        /\ IF order[o].status = "PENDING" /\ BothIn(o, c)
           THEN Become(o, IF order[o].type = "PUBLISHER_ORDER" THEN "IN_TRANSIT"
                          ELSE "APPROVED")
           ELSE UNCHANGED order

\* POST /orders/{id}/approve for the side that is inferred: the caller's, or both
\* if he has none (an escalation).
V2ApproveInferred(t, o) ==
    LET ss == InferSide(t, o)
    IN  /\ Existing(o)
        /\ CanApprove(t, o)
        /\ V2Record(t, o, ss, ~IsHq(t) /\ Cardinality(ss) # 1)

\* The same for a side that the request names, which is recorded as it is.
V2ApproveNamed(t, o) ==
    /\ Existing(o)
    /\ CanApprove(t, o)
    /\ \E s \in Sides : V2Record(t, o, {s}, TRUE)

V2Dispatch(t, o) ==
    /\ order[o].status = "APPROVED"
    /\ CanDispatch(t, o)
    /\ Become(o, "IN_TRANSIT")
    /\ UNCHANGED consent

V2Receive(t, o) ==
    /\ order[o].status = "IN_TRANSIT"
    /\ CanReceive(t, o)
    /\ Arrive(o)
    /\ UNCHANGED consent

V2Reject(t, o) ==
    /\ order[o].status \in {"PENDING", "APPROVED", "IN_TRANSIT"}
    /\ CanReject(t, o)
    /\ Become(o, "REJECTED")
    /\ UNCHANGED consent

\* PATCH /orders/{id}: any location may be the new target.
V2Patch(t, o) ==
    /\ order[o].status \in {"PENDING", "APPROVED"}
    /\ CanPatch(t, o)
    /\ \E l \in Locations : order' = [order EXCEPT ![o].tgt = l]
    /\ UNCHANGED consent

-----------------------------------------------------------------------------

Unborn == [type |-> "REBALANCE", src |-> None, tgt |-> DefaultStore,
           newbook |-> FALSE, status |-> "NONE", offday |-> FALSE]

Init ==
    /\ order = [o \in Orders |-> Unborn]
    /\ consent = [o \in Orders |-> [s \in Sides |-> {}]]

Act(t, o) ==
    \/ V1Approve(t, o)
    \/ V1ApproveAll(t, o)
    \/ V1Reject(t, o)
    \/ V1Edit(t, o)
    \/ V1Receive(t, o)
    \/ V2ApproveInferred(t, o)
    \/ V2ApproveNamed(t, o)
    \/ V2Dispatch(t, o)
    \/ V2Receive(t, o)
    \/ V2Reject(t, o)
    \/ V2Patch(t, o)

Next == \E o \in Orders : Propose(o) \/ \E t \in Tokens : Act(t, o)

Spec == Init /\ [][Next]_vars

-----------------------------------------------------------------------------
(* Properties *)

AuthTypeOK ==
    /\ order \in [Orders -> Order]
    /\ consent \in [Orders -> [Sides -> SUBSET Consent]]
    /\ \A o \in Orders : Existing(o) =>
          (order[o].src = None <=> order[o].type = "PUBLISHER_ORDER")

\* The two implementations of the legacy rules, one per order and one for bulk
\* requests, agree on every caller, side and order, however it was edited.
BulkAgreesWithSingle ==
    \A o \in Orders, t \in Tokens, s \in Sides :
        Existing(o) => (MayDecide(t, o, s) <=> MayDecideInBulk(t, o, s))

\* Everybody finds the orders that wait for him where he looks for them: what he
\* may decide in his review list, what he may send off in the instructions and the
\* calendar, what he may receive in the calendar, and all of it in his queue.  An escalation by another region's manager is no
\* such order.
ActorsSeeTheirOrders ==
    \A o \in Orders, t \in Tokens :
        LET st      == order[o].status
            decides == \E s \in Sides : MayDecide(t, o, s)
        IN  Existing(o) =>
              /\ decides \/ CanDispatch(t, o) \/ CanReceive(t, o) \/ CanReject(t, o)
                 => QueueShows(t, o)
              /\ st = "PENDING" /\ decides => o \in ManualReview(t)
              /\ \/ st = "APPROVED" /\ CanDispatch(t, o)
                 \/ st = "IN_TRANSIT" /\ CanReceive(t, o)
                 => CalendarCells(t, o) # {}
              /\ st = "APPROVED" /\ CanDispatch(t, o) => InstructionsShow(t, o)

\* The calendar counts an order that goes somewhere, or arrived on the day it was
\* expected, once, for exactly the people whose history shows it; one that arrived on
\* another day it counts for nobody.  The funnel and, of either end that is theirs, the
\* figures per location count it for the same people, whenever it arrived.  The lists
\* of a plan show nobody more than that.  (An engineer gets no calendar.)
CountedOnce ==
    \A o \in Orders, t \in {x \in Tokens : x.role # "engineer"} :
        Existing(o) =>
            /\ Cardinality(CalendarCells(t, o)) =
                  IF /\ QueueShows(t, o)
                     /\ \/ order[o].status \in {"APPROVED", "IN_TRANSIT"}
                        \/ order[o].status = "EXECUTED" /\ ~order[o].offday
                  THEN 1 ELSE 0
            /\ FunnelCounts(t, o) <=> QueueShows(t, o)
            /\ ExecutionCells(t, o) # {} <=> InstructionsShow(t, o)
            /\ PlanShows(t, o) => QueueShows(t, o)

\* Who may send off or receive an order may change the stock that moves with it:
\* inventory-svc, which checks the caller again, does not stop a dispatch or a
\* receipt that intervention-svc has accepted.  He can see that stock, too, and the
\* dashboard has its figures.
StockRightsFollow ==
    \A o \in Orders, t \in Tokens :
        Existing(o) =>
            /\ CanDispatch(t, o) /\ order[o].src # None =>
                  /\ MayWriteStock(t, order[o].src)
                  /\ StockShows(t, WhAt(order[o].src))
                  /\ LocationShows(t, order[o].src)
            /\ CanReceive(t, o) \/ MayReceiveInbound(t, o) =>
                  /\ MayWriteStock(t, order[o].tgt)
                  /\ StockShows(t, WhAt(order[o].tgt))
                  /\ LocationShows(t, order[o].tgt)

\* An approval of the source side that the code took for the caller's own (by the
\* legacy rules, or because it inferred that side for him) was given by the
\* headquarters or by a party at the order's source, through all the edits, rejections
\* and later approvals of the order.  It does not speak of escalations, nor of a side
\* that the request of an approval named: /orders/{id}/approve compares it with nothing.
SourceConsentStands ==
    \A o \in Orders : \A c \in consent[o]["SOURCE"] :
        c.claimed \/ IsHq(c.who) \/ Party(c.who, order[o].src)

=============================================================================

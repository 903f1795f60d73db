--------------------------- MODULE OrderLifecycle ---------------------------
(***************************************************************************)
(* What intervention-svc promises of an order and of the stock it moves,   *)
(* with no transactions, calls or requests: an order goes through          *)
(*    PENDING -> APPROVED -> IN_TRANSIT -> EXECUTED,                        *)
(* or is rejected from any of the first three, and the stock at its two    *)
(* ends changes in the very step that changes its status.                  *)
(***************************************************************************)
EXTENDS Integers

CONSTANTS
    Orders,
    Sourced       \* the orders whose source is a location of ours

VARIABLES
    order,        \* status and quantity of each order
    stock         \* net change of stock at the ends of each order

vars == <<order, stock>>

\* The stock an order in a given state has moved.
Effect(o, r) ==
    [src |-> IF o \in Sourced /\ r.status \in {"IN_TRANSIT", "EXECUTED"}
             THEN -r.qty ELSE 0,
     tgt |-> IF r.status = "EXECUTED" THEN r.qty ELSE 0]

-----------------------------------------------------------------------------
(* One step of one order *)

Become(o, from, to) ==
    /\ order[o].status = from
    /\ order'[o].status = to
    /\ order'[o].qty = order[o].qty

\* A chained order is approved when it is made.
Chain(o)   == order[o].status = "ABSENT" /\ order'[o].status = "APPROVED"

Approve(o) == o \in Sourced /\ Become(o, "PENDING", "APPROVED")

\* The approval of an order to a publisher is its shipment.
Order(o)   == o \notin Sourced /\ Become(o, "PENDING", "IN_TRANSIT")

Amend(o)   == /\ order[o].status \in {"PENDING", "APPROVED"}
              /\ order'[o].status = order[o].status

Ship(o)    == Become(o, "APPROVED", "IN_TRANSIT")

Deliver(o) == Become(o, "IN_TRANSIT", "EXECUTED")

Cancel(o)  == \E from \in {"PENDING", "APPROVED", "IN_TRANSIT"} :
                 Become(o, from, "REJECTED")

Step(o) == \/ Chain(o)   \/ Approve(o) \/ Order(o) \/ Amend(o)
           \/ Ship(o)    \/ Deliver(o) \/ Cancel(o)

-----------------------------------------------------------------------------

Init == /\ \A o \in Orders : order[o].status \in {"ABSENT", "PENDING"}
        /\ stock = [o \in Orders |-> Effect(o, order[o])]

\* A transaction may take several orders one step each.
Next == /\ \A o \in Orders : order'[o] = order[o] \/ Step(o)
        /\ stock' = [o \in Orders |-> Effect(o, order'[o])]

Spec == Init /\ [][Next]_vars

=============================================================================

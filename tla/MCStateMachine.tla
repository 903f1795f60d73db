--------------------------- MODULE MCStateMachine ---------------------------
(***************************************************************************)
(* Instances of StateMachine for TLC.                                      *)
(***************************************************************************)
EXTENDS StateMachine, TLC

CONSTANTS move, swap, wide, pub, c1, c2

\* One rebalancing order between two stores.
OneMove     == {move}

\* Two rebalancing orders.
TwoMoves    == {move, swap}

\* A transfer between warehouses and the orders it chains to two stores.
TransferTree == {wide, c1, c2}

\* An order to a publisher and the order it chains to one store.
PublisherTree == {pub, c1}

TypeOf == [o \in Orders |->
             CASE o \in {move, swap} -> "REBALANCE"
               [] o = wide -> "WH_TRANSFER"
               [] o = pub  -> "PUBLISHER_ORDER"
               [] OTHER    -> "WH_TO_STORE"]

ParentOf == [o \in Orders |->
               CASE o \in {c1, c2} /\ wide \in Orders -> wide
                 [] o \in {c1, c2} /\ pub \in Orders  -> pub
                 [] OTHER -> NoOrder]

One == [o \in Orders |-> 1]
Two == [o \in Orders |-> 2]

\* One order in a batch of its own; a parent and its child; two unrelated orders
\* in both orders.
BatchOfOne    == {<<move>>}
BatchOfPair   == {<<pub, c1>>}
BatchesOfTwo  == {<<move, swap>>, <<swap, move>>}

AllEvents == Orders \X Events

\* Requests differ in nothing but what they do.
ProcSymmetry == Permutations(Procs)

=============================================================================

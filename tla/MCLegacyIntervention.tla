------------------------ MODULE MCLegacyIntervention -------------------------
(***************************************************************************)
(* Instances of LegacyIntervention for TLC.                                *)
(***************************************************************************)
EXTENDS LegacyIntervention, TLC

CONSTANTS move, swap, pub

OneMove     == {move}
TwoMoves    == {move, swap}
MoveAndPub  == {move, pub}

TypeOf == [o \in Orders |-> IF o = pub THEN "PUBLISHER_ORDER" ELSE "REBALANCE"]

Unchained == [o \in Orders |-> NoOrder]

One == [o \in Orders |-> 1]

AllOrders    == {Orders}
\* Nothing of a batch waits for a row once it has moved stock.
PubThenMove == {<<pub, move>>}

=============================================================================

--------------------------- MODULE MCAutoExecute ----------------------------
(***************************************************************************)
(* Instances of AutoExecute for TLC.                                       *)
(***************************************************************************)
EXTENDS AutoExecute, TLC

CONSTANTS move, swap, pub

\* Orders between two stores, which wait for two sides, and an urgent order to a
\* publisher, which the batch approves.
MovesAndPublisher == {move, swap, pub}
MoveAndPublisher  == {move, pub}
Urgent            == {pub}

TypeOf == [o \in Orders |-> IF o = pub THEN "PUBLISHER_ORDER" ELSE "REBALANCE"]

Unchained == [o \in Orders |-> NoOrder]

One == [o \in Orders |-> 1]

\* The two moves in one batch request; the 08:00 batch meets them in any order.
BatchOfTwo == {<<move, swap>>}

=============================================================================

----------------------------- MODULE MCInventory -----------------------------
(***************************************************************************)
(* An instance of Inventory for TLC.                                       *)
(***************************************************************************)
EXTENDS Inventory, TLC

CONSTANTS a, b

TwoCells == {a, b}

\* Two reservations fit into the first cell, one into the second.
SomeStock == [c \in Cells |-> IF c = a THEN 2 ELSE 1]

\* An adjustment takes one copy out.
OneOut == {-1}

=============================================================================

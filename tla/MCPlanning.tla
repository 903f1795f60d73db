------------------------------ MODULE MCPlanning ------------------------------
(***************************************************************************)
(* An instance of Planning for TLC: a warehouse w1 with stores s1 and s2,  *)
(* and a warehouse w2 without stores.                                      *)
(***************************************************************************)
EXTENDS Planning, TLC

CONSTANTS w1, w2, s1, s2

At(x, y, i, j) == w1 :> x @@ w2 :> y @@ s1 :> i @@ s2 :> j

WhOfDef   == At(w1, w2, w1, w1)
OrderDef  == At(1, 2, 3, 4)
SafetyDef == At(1, 1, 0, 0)
Wanted    == At(2, 2, 3, 4)
DemandDef == At(0, 0, 1, 1)

\* A store that can fill the other one, so the plan has one row; and a body that can
\* fill both stores, so it has two, of which one may be given the other's target.
SomeStocks == {At(2, 4, 7, 0), At(9, 0, 0, 1)}

=============================================================================

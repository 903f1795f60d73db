----------------------------- MODULE MCAuthority ------------------------------
(***************************************************************************)
(* Instances of Authority for TLC: two warehouses, two stores of the first *)
(* and one of the second, and an account of every kind.                    *)
(***************************************************************************)
EXTENDS Authority, TLC

CONSTANTS w1, w2, s1, s2, s3

WhOfDef == [l \in {w1, w2, s1, s2, s3} |->
              CASE l \in {w1, s1, s2} -> w1 [] OTHER -> w2]

AccountsDef == {"hq", "eng", "wh1", "wh2", "br1", "br2", "br3", "new", "log"}

LocalDef == [a \in AccountsDef |->
    CASE a = "hq"  -> [kind |-> "hq", n |-> w1]
      [] a = "eng" -> [kind |-> "engineer", n |-> w1]
      [] a = "wh1" -> [kind |-> "wh", n |-> w1]
      [] a = "wh2" -> [kind |-> "wh", n |-> w2]
      [] a = "br1" -> [kind |-> "branch", n |-> s1]
      [] a = "br2" -> [kind |-> "branch", n |-> s2]
      [] a = "br3" -> [kind |-> "branch", n |-> s3]
      [] OTHER     -> [kind |-> "other", n |-> w1]]

GroupDef == [a \in AccountsDef |->
    IF a = "log" THEN "logistics" ELSE IF a = "hq" THEN "admin" ELSE "none"]

=============================================================================

---------------------- MODULE LegacyIntervention_proofs ----------------------
(***************************************************************************)
(* Proofs about the legacy endpoints next to the requests of StateMachine, *)
(* for any orders, requests of both kinds, item lists and faults.  SidesInv *)
(* of StateMachine_proofs does not hold here, for a legacy rejection takes *)
(* approvals back: what takes its place is tied to who may still commit.   *)
(***************************************************************************)
EXTENDS LegacyIntervention, StateMachine_proofs

-----------------------------------------------------------------------------
(* The inductive invariant *)

V1Request == [step : {"idle", "record", "status", "commit", "adjust"},
              op : V1OpNames, who : Parties, bulk : BOOLEAN,
              items : SUBSET Keys, had : SUBSET Keys, denied : SUBSET Keys,
              todo : SUBSET Orders, qty : [Orders -> Nat]]

LegacyTypeInv ==
    /\ TypeInv
    /\ v1 \in [Legacy -> V1Request]
    /\ turned \subseteq Keys

Forward(v, w) == w.status = v.status \/ Rank[w.status] > Rank[v.status]

\* No newer version of a row goes back.
ForwardInv == \A o \in Orders : Forward(row[o], draft[o])

\* What a legacy request has read of its orders stays true of them: they exist,
\* and those of an inbound request are not PENDING.
TodoOK(r) ==
    \A o \in r.todo :
        /\ row[o].status # "ABSENT"
        /\ r.op \in {"receive", "refuse"} => row[o].status # "PENDING"

\* The order of an approval still to be written is still to be updated.
ItemsOK(r) ==
    /\ r.step = "record" => \A k \in r.items : k[1] \in r.todo
    /\ r.step \notin {"record", "status"} => r.todo = {}

\* A legacy request has rows of its own only between its first UPDATE and its
\* commit, and those of a rejection are rejected.
LocksOK(u) ==
    \A o \in Orders : lock[o] = u =>
        /\ v1[u].step \in {"status", "commit"}
        /\ v1[u].op = "reject" => draft[o].status = "REJECTED"

\* An order with a denied side will be updated, has been, or is closed.
DeniedOK(u) ==
    \A k \in v1[u].denied :
        /\ v1[u].op = "reject"
        /\ \/ k[1] \in v1[u].todo
           \/ lock[k[1]] = u
           \/ row[k[1]].status \in {"REJECTED", "EXECUTED"}

V1OK(u) == TodoOK(v1[u]) /\ ItemsOK(v1[u]) /\ LocksOK(u) /\ DeniedOK(u)

V1Inv == \A u \in Legacy : V1OK(u)

\* The sides that have approved o once q has committed.
Kept(q, o) == {s \in Decided(q, o) : q \in Legacy => <<o, s>> \notin v1[q].denied}

\* If q is about to take an order on from PENDING, it will leave the approvals
\* of both its sides behind.
ApprovalOK(q) ==
    \A o \in Orders :
        /\ HasSource(o)
        /\ lock[o] = q
        /\ row[o].status = "PENDING"
        /\ draft[o].status \notin {"PENDING", "REJECTED"}
        => {"SOURCE", "TARGET"} \subseteq Kept(q, o)

ApprovalInv == \A q \in Procs : ApprovalOK(q)

RowsInv == LegacyTypeInv /\ StampsInv /\ VersionsInv /\ ChainedInv /\ ForwardInv

LegacyInv == RowsInv /\ V1Inv /\ ApprovalInv

-----------------------------------------------------------------------------
(* No version goes back *)

LEMMA RankType ==
    /\ Rank["ABSENT"] = 0 /\ Rank["PENDING"] = 1 /\ Rank["APPROVED"] = 2
    /\ Rank["IN_TRANSIT"] = 3 /\ Rank["EXECUTED"] = 4 /\ Rank["REJECTED"] = 4
  BY DEF Rank

LEMMA ForwardTrans ==
    ASSUME NEW a \in Row, NEW b \in Row, NEW c \in Row, Forward(a, b), Forward(b, c)
    PROVE  Forward(a, c)
  BY RankType DEF Forward, Row, Statuses, Live

\* What does not go back stays in existence, out of PENDING, and closed.
LEMMA ForwardKeeps ==
    ASSUME NEW a \in Row, NEW b \in Row, Forward(a, b)
    PROVE  /\ a.status # "ABSENT" => b.status # "ABSENT"
           /\ a.status \notin Open => b.status \notin Open
           /\ a.status \in {"REJECTED", "EXECUTED"} => b.status = a.status
           /\ a.status # "ABSENT" => GoesOn(a, b)
  BY RankType DEF Forward, Row, Statuses, Live, Open, GoesOn

LEMMA SuccessorForward ==
    ASSUME NEW v \in Row, NEW w, Successor(v, w)
    PROVE  Forward(v, w)
<1> USE RankType DEF Forward, Row, Statuses, Live
<1>1. CASE v.status = "PENDING" /\ w = [v EXCEPT !.status = "APPROVED"]
  BY <1>1
<1>2. CASE /\ v.status \in {"PENDING", "APPROVED"}
           /\ w = [v EXCEPT !.status = "IN_TRANSIT", !.dispatched = TRUE]
  BY <1>2
<1>3. CASE /\ v.status = "IN_TRANSIT"
           /\ w = [v EXCEPT !.status = "EXECUTED", !.executed = TRUE]
  BY <1>3
<1>4. CASE v.status \in Live /\ w = Rejected(v)
  BY <1>4 DEF Rejected
<1>5. CASE /\ v.status \in {"PENDING", "APPROVED"}
           /\ \E q \in Nat : w = [v EXCEPT !.qty = q]
  BY <1>5
<1>6. QED
  BY <1>1, <1>2, <1>3, <1>4, <1>5 DEF Successor

\* The CHECKs hold off a legacy UPDATE that would take a row back.
LEMMA V1VersionType ==
    ASSUME LegacyTypeInv, NEW u \in Legacy, NEW o \in Orders
    PROVE  Sees(u, o) \in Row /\ V1Version(u, o) \in Row
<1>1. u \in Procs
  BY LegacyAssumption
<1>2. Sees(u, o) \in Row
  BY <1>1, VersionType DEF LegacyTypeInv
<1>3. v1[u].op \in V1OpNames /\ v1[u].qty[o] \in Nat
  BY DEF LegacyTypeInv, V1Request
<1>4. QED
  BY <1>2, <1>3 DEF V1Version, V1OpNames, Row, Statuses, Live

LEMMA V1VersionForward ==
    ASSUME LegacyTypeInv, NEW u \in Legacy, NEW o \in Orders,
           StampsOK(Sees(u, o)), StampsOK(V1Version(u, o))
    PROVE  Forward(Sees(u, o), V1Version(u, o))
<1> DEFINE r == Sees(u, o)
<1>1. r \in Row
  BY V1VersionType
<1>2. v1[u].op \in V1OpNames
  BY DEF LegacyTypeInv, V1Request
<1> HIDE DEF r
<1> USE <1>1, RankType DEF Forward, StampsOK, Row, Statuses, Live
<1>3. CASE v1[u].op = "approve"
  <2>1. V1Version(u, o) = [r EXCEPT !.status = "APPROVED"]
    BY <1>3 DEF V1Version, r
  <2>2. QED
    BY <2>1 DEF r
<1>4. CASE v1[u].op \in {"reject", "refuse"}
  <2>1. V1Version(u, o) = [r EXCEPT !.status = "REJECTED",
                             !.stage = IF r.status \in Live THEN r.status ELSE "NONE"]
    BY <1>4 DEF V1Version, r
  <2>2. QED
    BY <2>1 DEF r
<1>5. CASE v1[u].op = "receive"
  <2>1. V1Version(u, o) = [r EXCEPT !.status = "EXECUTED", !.dispatched = TRUE,
                                    !.executed = TRUE]
    BY <1>5 DEF V1Version, r
  <2>2. QED
    BY <2>1 DEF r
<1>6. CASE v1[u].op = "edit"
  <2>1. V1Version(u, o) = [r EXCEPT !.qty = v1[u].qty[o]]
    BY <1>6 DEF V1Version, r
  <2>2. QED
    BY <2>1 DEF r
<1>7. QED
  BY <1>2, <1>3, <1>4, <1>5, <1>6 DEF V1OpNames

-----------------------------------------------------------------------------
(* Rows: every step takes them forward *)

RowsForward == \A o \in Orders : Forward(row[o], row'[o])

\* A parent that somebody sees PENDING has no chained order yet.
LEMMA InsertsAbsent ==
    ASSUME VersionsInv, ChainedInv, NEW o \in Orders, Insertable(o)
    PROVE  row[o].status = "ABSENT"
<1>1. Parent[o] \in Orders /\ Parent[o] # NoOrder
  BY ParentIsRoot DEF Insertable
<1>2. PICK p \in Procs : Sees(p, Parent[o]).status = "PENDING"
  BY DEF Insertable
<1>3. row[Parent[o]].status \in Open
  BY <1>1, <1>2 DEF VersionsInv, Sees, Open
<1>4. QED
  BY <1>1, <1>3 DEF ChainedInv

LEMMA MovesForward ==
    ASSUME TypeInv, TypeInv', VersionsInv, ChainedInv, ForwardInv,
           \A o \in Orders : RowMoves(o)
    PROVE  ForwardInv' /\ RowsForward
<1> SUFFICES ASSUME NEW o \in Orders
             PROVE  Forward(row'[o], draft'[o]) /\ Forward(row[o], row'[o])
  BY DEF ForwardInv, RowsForward
<1>1. row[o] \in Row /\ draft[o] \in Row /\ row'[o] \in Row /\ draft'[o] \in Row
  BY DEF TypeInv, TypeOK
<1>2. Forward(row[o], draft[o])
  BY DEF ForwardInv
<1>3. NextVersion(o, draft'[o])
  BY DEF RowMoves
<1>4. row'[o] = row[o] \/ (row'[o] = draft[o] /\ draft'[o] = draft[o])
  BY DEF RowMoves
<1>5. Forward(row[o], draft'[o])
  <2>1. CASE draft'[o] \in {draft[o], row[o]}
    BY <1>2, <2>1 DEF Forward
  <2>2. CASE Insertable(o) /\ \E k \in Nat : draft'[o] = NewRow("APPROVED", k)
    <3>1. row[o].status = "ABSENT" /\ draft'[o].status = "APPROVED"
      BY <2>2, InsertsAbsent DEF NewRow
    <3>2. QED
      BY <3>1, RankType DEF Forward
  <2>3. CASE Successor(draft[o], draft'[o])
    BY <1>1, <1>2, <2>3, SuccessorForward, ForwardTrans
  <2>4. CASE Successor(row[o], draft'[o])
    BY <1>1, <2>4, SuccessorForward
  <2>5. QED
    BY <1>3, <2>1, <2>2, <2>3, <2>4 DEF NextVersion
<1>6. QED
  BY <1>2, <1>4, <1>5 DEF Forward

\* A commit of any kind makes the drafts of p the rows.
LEMMA KeepsMoves ==
    ASSUME TypeInv, NEW p \in Procs, Keeps(p)
    PROVE  \A o \in Orders : RowMoves(o)
<1> SUFFICES ASSUME NEW o \in Orders PROVE RowMoves(o)
  OBVIOUS
<1>1. CASE lock[o] = p
  BY <1>1 DEF Keeps, RowMoves, NextVersion
<1>2. CASE lock[o] # p
  BY <1>2, RowKept DEF Keeps
<1>3. QED
  BY <1>1, <1>2

\* A step that moves rows as the requests do, and keeps families.
LEMMA MovesRows ==
    ASSUME RowsInv, LegacyTypeInv', \A o \in Orders : RowMoves(o),
           VersionsInv' /\ ChainedInv'
    PROVE  RowsInv' /\ RowsForward
<1>1. TypeInv /\ TypeInv' /\ ShapeInv
  BY TypeShape DEF RowsInv, LegacyTypeInv
<1>2. StampsInv'
  BY <1>1, MovesStamps DEF RowsInv
<1>3. ForwardInv' /\ RowsForward
  BY <1>1, MovesForward DEF RowsInv
<1>4. QED
  BY <1>2, <1>3 DEF RowsInv

LEMMA StillRows ==
    ASSUME RowsInv, LegacyTypeInv', UNCHANGED <<row, draft, lock>>
    PROVE  RowsInv' /\ RowsForward
  BY RowKept, FamilyKept, MovesRows DEF RowsInv

LEMMA RollbackRows ==
    ASSUME RowsInv, LegacyTypeInv', NEW p \in Procs, Rollback(p)
    PROVE  RowsInv' /\ RowsForward
<1>1. \A o \in Orders : RowMoves(o)
  BY TypeShape, RollbackVersion DEF RowsInv, LegacyTypeInv
<1>2. VersionsInv' /\ ChainedInv'
  BY FamilyRollback DEF RowsInv
<1>3. QED
  BY <1>1, <1>2, MovesRows

LEMMA CommitRows ==
    ASSUME RowsInv, LegacyTypeInv', NEW p \in Procs, Keeps(p)
    PROVE  RowsInv' /\ RowsForward
<1>1. \A o \in Orders : RowMoves(o)
  BY KeepsMoves DEF RowsInv, LegacyTypeInv
<1>2. VersionsInv' /\ ChainedInv'
  BY FamilyCommit DEF RowsInv
<1>3. QED
  BY <1>1, <1>2, MovesRows

\* An UPDATE of a legacy request that the CHECKs allow.
V1Writes(u, o) ==
    /\ V1Admits(u, o)
    /\ Free(u, o)
    /\ StampsOK(V1Version(u, o))
    /\ Write(u, o, V1Version(u, o))
    /\ UNCHANGED <<row, sides, mine>>

LEMMA WriteRows ==
    ASSUME RowsInv, LegacyTypeInv', NEW u \in Legacy, NEW o \in Orders,
           row[o].status # "ABSENT", V1Writes(u, o)
    PROVE  RowsInv' /\ RowsForward
<1> DEFINE r == Sees(u, o)
           w == V1Version(u, o)
<1>1. u \in Procs /\ TypeInv
  BY LegacyAssumption DEF RowsInv, LegacyTypeInv
<1>2. r \in Row /\ w \in Row /\ row[o] \in Row /\ draft[o] \in Row
  BY V1VersionType DEF RowsInv, LegacyTypeInv, TypeInv, TypeOK
<1>3. StampsOK(r) /\ StampsOK(w)
  BY DEF V1Writes, RowsInv, StampsInv, Sees
<1>4. Forward(r, w)
  BY <1>3, V1VersionForward DEF RowsInv
<1>5. Forward(row[o], r)
  BY DEF RowsInv, ForwardInv, Sees, Forward
<1>6. \A x \in Orders : /\ draft'[x] = IF x = o THEN w ELSE draft[x]
                        /\ lock'[x] = IF x = o THEN u ELSE lock[x]
                        /\ row'[x] = row[x]
  BY <1>1 DEF V1Writes, Write, TypeInv, TypeOK
<1> HIDE DEF r, w
<1>7. GoesOn(r, w) /\ Forward(row[o], w)
  BY <1>2, <1>4, <1>5, ForwardTrans, ForwardKeeps
<1>8. VersionsInv' /\ ChainedInv'
  <2>1. Overwrites(u, {o})
    BY <1>6, <1>7 DEF Overwrites, V1Writes, r
  <2>2. QED
    BY <1>1, <2>1, FamilyWrites DEF RowsInv, V1Writes
<1>9. StampsInv'
  BY <1>3, <1>6 DEF RowsInv, StampsInv
<1>10. ForwardInv' /\ RowsForward
  BY <1>6, <1>7 DEF RowsInv, ForwardInv, RowsForward, Forward
<1>11. QED
  BY <1>8, <1>9, <1>10 DEF RowsInv

-----------------------------------------------------------------------------
(* Whose rows a step touches *)

\* p touches only rows that are free for it, and locks them for itself.
Touches(p) ==
    \A x \in Orders :
        IF lock[x] \in {p, NoProc}
        THEN lock'[x] \in {p, NoProc}
        ELSE row'[x] = row[x] /\ draft'[x] = draft[x] /\ lock'[x] = lock[x]

LEMMA StillTouches ==
    ASSUME NEW p, UNCHANGED <<row, draft, lock>>
    PROVE  Touches(p)
  BY DEF Touches

LEMMA RollbackTouches ==
    ASSUME NEW p \in Procs, Rollback(p)
    PROVE  Touches(p)
  BY DEF Touches, Rollback

LEMMA KeepsTouches ==
    ASSUME NEW p \in Procs, Keeps(p)
    PROVE  Touches(p)
  BY DEF Touches, Keeps

\* The chained orders that an approval inserts over are not somebody else's.
LEMMA ToApprovedTouches ==
    ASSUME TypeInv, VersionsInv, ChainedInv, NEW p \in Procs, ToApproved(p)
    PROVE  Touches(p)
<1> DEFINE o == Current(p)
           v == ApprovedVersion(o, Sees(p, o))
<1>1. o \in Orders /\ Sees(p, o).status = "PENDING" /\ Free(p, o) /\ row' = row
  BY ToApprovedWrites DEF ToApproved
<1>2. PICK new \in SUBSET Children(o) : o \notin new /\ ApprovesNew(p, o, v, new)
  BY ToApprovedWrites
<1>3. \A x \in Orders :
         /\ draft'[x] = IF x = o THEN v
                        ELSE IF x \in new THEN draft'[x] ELSE draft[x]
         /\ lock'[x] = IF x = o \/ x \in new THEN p ELSE lock[x]
  BY <1>2 DEF ApprovesNew
<1>4. ASSUME NEW x \in new PROVE lock[x] \in {p, NoProc}
  <2>1. x \in Orders /\ Parent[x] = o /\ Parent[x] # NoOrder
    BY <1>1, ConstantsAssumption DEF Children
  <2>2. row[x].status = "ABSENT"
    BY <1>1, <2>1, InsertsAbsent DEF Insertable
  <2>3. ASSUME NEW q \in Procs, lock[x] = q PROVE q = p
    BY <1>1, <2>1, <2>2, <2>3, ConstantsAssumption DEF ChainedInv, Free
  <2>4. lock[x] \in Procs \cup {NoProc}
    BY <2>1 DEF TypeInv, TypeOK
  <2>5. QED
    BY <2>3, <2>4
<1> HIDE DEF v, o
<1>5. QED
  BY <1>1, <1>3, <1>4 DEF Touches, Free

LEMMA RequestTouches ==
    ASSUME TypeInv, VersionsInv, ChainedInv, NEW p \in Procs,
           SingleRequest(p) \/ BatchRequest(p) \/ Work(p) \/ Crash(p)
    PROVE  Touches(p)
<1>1. ASSUME Amends(p) PROVE Touches(p)
  BY <1>1 DEF Amends, Writes, Touches, Free
<1>2. ASSUME Commit(p) PROVE Touches(p)
  BY <1>2, KeepsTouches DEF Commit, Keeps
<1>3. QED
  BY <1>1, <1>2, RequestCases, StillTouches, ToApprovedTouches, RollbackTouches
     DEF Still

-----------------------------------------------------------------------------
(* Legacy requests *)

\* Somebody else's step changes nothing that a legacy request relies on.
LEMMA OthersV1 ==
    ASSUME RowsInv, RowsInv', RowsForward, NEW p \in Procs, Touches(p),
           NEW u \in Legacy, u # p, v1'[u] = v1[u], V1OK(u)
    PROVE  V1OK(u)'
<1>1. u # NoProc /\ v1[u].todo \subseteq Orders
      /\ \A k \in v1[u].denied : k[1] \in Orders
  BY ConstantsAssumption, LegacyAssumption
     DEF RowsInv, LegacyTypeInv, V1Request, Keys
<1>2. \A o \in Orders : row[o] \in Row /\ row'[o] \in Row /\ Forward(row[o], row'[o])
  BY DEF RowsInv, LegacyTypeInv, TypeInv, TypeOK, RowsForward
<1>3. \A o \in Orders :
         /\ row[o].status # "ABSENT" => row'[o].status # "ABSENT"
         /\ row[o].status \notin Open => row'[o].status \notin Open
         /\ row[o].status \in {"REJECTED", "EXECUTED"} =>
               row'[o].status \in {"REJECTED", "EXECUTED"}
  BY <1>2, ForwardKeeps
<1>4. TodoOK(v1[u])'
  BY <1>1, <1>3 DEF V1OK, TodoOK, Open
<1>5. ItemsOK(v1[u])'
  BY DEF V1OK, ItemsOK
<1>6. \A o \in Orders : /\ lock'[o] = u => lock[o] = u
                        /\ lock[o] = u => lock'[o] = u /\ draft'[o] = draft[o]
  BY <1>1 DEF Touches
<1>7. LocksOK(u)'
  BY <1>6 DEF V1OK, LocksOK
<1>8. DeniedOK(u)'
  BY <1>1, <1>3, <1>6 DEF V1OK, DeniedOK
<1>9. QED
  BY <1>4, <1>5, <1>7, <1>8 DEF V1OK

\* A request as it is accepted, and as it is forgotten.
Fresh(r) ==
    /\ r \in V1Request
    /\ r.step \in {"record", "status"}
    /\ r.denied = {}
    /\ TodoOK(r)
    /\ ItemsOK(r)
    /\ r.op = "receive" => \A o \in Orders : r.qty[o] > 0 => o \in r.todo

LEMMA IdleType == Idle \in V1Request
  BY DEF Idle, V1Request, V1OpNames, Parties

LEMMA DecideFresh ==
    ASSUME LegacyTypeInv, NEW u \in Legacy, V1Decide(u)
    PROVE  \E r : Fresh(r) /\ Accept(u, r)
<1>1. PICK op \in V1Ops \cap {"approve", "reject"}, who \in V1Clients :
        \/ \E o \in Orders, s \in Sides :
              /\ row[o].status # "ABSENT"
              /\ Accept(u, [Idle EXCEPT !.step = "record", !.op = op, !.who = who,
                               !.items = {<<o, s>>},
                               !.had = {k \in {<<o, s>>} : Exists(k)},
                               !.todo = {o}])
        \/ \E os \in V1Lists :
              LET ks == {k \in os \X Sides : /\ row[k[1]].status # "ABSENT"
                                             /\ MayDecide(who, k[1], k[2])}
              IN  Accept(u, [Idle EXCEPT !.step = "record", !.op = op,
                                   !.who = who, !.bulk = TRUE, !.items = ks,
                                   !.had = {k \in ks : Exists(k)},
                                   !.todo = {k[1] : k \in ks}])
  BY DEF V1Decide
<1>2. op \in V1OpNames /\ who \in Parties
  BY LegacyAssumption
<1>3. ASSUME NEW o \in Orders, NEW s \in Sides, row[o].status # "ABSENT"
      PROVE  Fresh([Idle EXCEPT !.step = "record", !.op = op, !.who = who,
                               !.items = {<<o, s>>},
                               !.had = {k \in {<<o, s>>} : Exists(k)},
                               !.todo = {o}])
  <2> DEFINE ks == {<<o, s>>}
             hs == {k \in {<<o, s>>} : Exists(k)}
  <2>1. ks \subseteq Keys /\ hs \subseteq Keys /\ \A k \in ks : k[1] = o
    BY DEF Keys
  <2> HIDE DEF ks, hs
  <2>2. Fresh([Idle EXCEPT !.step = "record", !.op = op, !.who = who,
                           !.items = ks, !.had = hs, !.todo = {o}])
    BY <1>2, <1>3, <2>1, IdleType DEF Fresh, Idle, V1Request, TodoOK, ItemsOK
  <2>3. QED
    BY <2>2 DEF ks, hs
<1>4. ASSUME NEW os \in V1Lists
      PROVE  LET ks == {k \in os \X Sides : /\ row[k[1]].status # "ABSENT"
                                             /\ MayDecide(who, k[1], k[2])}
             IN  Fresh([Idle EXCEPT !.step = "record", !.op = op,
                                   !.who = who, !.bulk = TRUE, !.items = ks,
                                   !.had = {k \in ks : Exists(k)},
                                   !.todo = {k[1] : k \in ks}])
  <2> DEFINE ks == {k \in os \X Sides : /\ row[k[1]].status # "ABSENT"
                                        /\ MayDecide(who, k[1], k[2])}
             ts == {k[1] : k \in ks}
             hs == {k \in ks : Exists(k)}
  <2>1. os \subseteq Orders
    BY LegacyAssumption
  <2>2. ks \subseteq Keys /\ \A k \in ks : row[k[1]].status # "ABSENT"
    BY <2>1 DEF Keys
  <2>3. ts \subseteq Orders /\ \A o \in ts : row[o].status # "ABSENT"
    BY <2>1, <2>2 DEF Keys
  <2>4. hs \subseteq Keys /\ \A k \in ks : k[1] \in ts
    BY <2>2
  <2> HIDE DEF ks, ts, hs
  <2>5. Fresh([Idle EXCEPT !.step = "record", !.op = op, !.who = who, !.bulk = TRUE,
                           !.items = ks, !.had = hs, !.todo = ts])
    BY <1>2, <2>2, <2>3, <2>4, IdleType DEF Fresh, Idle, V1Request, TodoOK, ItemsOK
  <2>6. QED
    BY <2>5 DEF ks, ts, hs
<1>5. QED
  BY <1>1, <1>3, <1>4

LEMMA InboundFresh ==
    ASSUME LegacyTypeInv, NEW u \in Legacy, V1Inbound(u)
    PROVE  \E r : Fresh(r) /\ Accept(u, r)
<1>1. PICK op \in V1Ops \cap {"receive", "refuse"}, who \in V1Clients :
        \E os \in {{o} : o \in Orders} \cup (IF op = "receive" THEN V1Lists ELSE {}) :
            LET good == {o \in os : row[o].status = "APPROVED" /\ MayReceive(who, o)}
            IN  Accept(u, [Idle EXCEPT !.step = "status", !.op = op, !.who = who,
                                 !.bulk = os \in V1Lists, !.todo = good,
                                 !.qty = [o \in Orders |-> IF o \in good
                                                           THEN row[o].qty ELSE 0]])
  BY DEF V1Inbound
<1>2. op \in V1OpNames /\ who \in Parties
  BY LegacyAssumption
<1>3. PICK os \in {{o} : o \in Orders} \cup (IF op = "receive" THEN V1Lists ELSE {}) :
            LET good == {o \in os : row[o].status = "APPROVED" /\ MayReceive(who, o)}
            IN  Accept(u, [Idle EXCEPT !.step = "status", !.op = op, !.who = who,
                                 !.bulk = os \in V1Lists, !.todo = good,
                                 !.qty = [o \in Orders |-> IF o \in good
                                                           THEN row[o].qty ELSE 0]])
  BY <1>1
<1> DEFINE good == {o \in os : row[o].status = "APPROVED" /\ MayReceive(who, o)}
           bulk == os \in V1Lists
           qty  == [o \in Orders |-> IF o \in good THEN row[o].qty ELSE 0]
<1>4. good \subseteq Orders /\ \A o \in good : row[o].status = "APPROVED"
  BY LegacyAssumption
<1>5. qty \in [Orders -> Nat]
  BY DEF LegacyTypeInv, TypeInv, TypeOK, Row
<1>6. bulk \in BOOLEAN
  OBVIOUS
<1>7. \A o \in Orders : qty[o] > 0 => o \in good
  OBVIOUS
<1> HIDE DEF good, bulk, qty
<1>8. Fresh([Idle EXCEPT !.step = "status", !.op = op, !.who = who,
                         !.bulk = bulk, !.todo = good, !.qty = qty])
  BY <1>2, <1>4, <1>5, <1>6, <1>7, IdleType DEF Fresh, Idle, V1Request, TodoOK, ItemsOK
<1>9. QED
  BY <1>3, <1>8 DEF good, bulk, qty

LEMMA EditFresh ==
    ASSUME LegacyTypeInv, NEW u \in Legacy, V1Edit(u)
    PROVE  \E r : Fresh(r) /\ Accept(u, r)
<1>1. PICK o \in Orders, q \in PatchQtys, who \in V1Clients :
         /\ row[o].status = "PENDING"
         /\ Accept(u, [Idle EXCEPT !.step = "status", !.op = "edit", !.who = who,
                          !.todo = {o}, !.qty = [Idle.qty EXCEPT ![o] = q]])
  BY DEF V1Edit
<1> DEFINE qty == [Idle.qty EXCEPT ![o] = q]
<1>2. who \in Parties /\ qty \in [Orders -> Nat]
  BY LegacyAssumption, ConstantsAssumption DEF Idle
<1> HIDE DEF qty
<1>3. Fresh([Idle EXCEPT !.step = "status", !.op = "edit", !.who = who,
                         !.todo = {o}, !.qty = qty])
  BY <1>1, <1>2, IdleType DEF Fresh, Idle, V1Request, V1OpNames, TodoOK, ItemsOK
<1>4. QED
  BY <1>1, <1>3 DEF qty

-----------------------------------------------------------------------------
(* A step and its owner *)

\* What p does to others' approvals and requests: nothing they rely on.
Spares(p) ==
    /\ Touches(p)
    /\ \A q \in Procs \ {p} : mine[q] \subseteq mine'[q]
    /\ \A u \in Legacy \ {p} : v1'[u] = v1[u]
    /\ \A o \in Orders :
          row[o].status = "PENDING" /\ lock[o] # p => sides[o] \subseteq sides'[o]

\* A row changes only by the commit of its writer, with his approvals.
Commits(p) ==
    \A o \in Orders :
        \/ row'[o] = row[o]
        \/ /\ lock[o] = p
           /\ row'[o] = draft[o]
           /\ Kept(p, o) \subseteq sides'[o]

\* A step of p, which keeps the invariant if it keeps what concerns p.
GoodStep(p) ==
    /\ RowsInv'
    /\ RowsForward
    /\ Spares(p)
    /\ Commits(p)
    /\ p \in Legacy => V1OK(p)'
    /\ ApprovalOK(p)'

LEMMA OthersApproval ==
    ASSUME RowsInv, NEW p \in Procs, Spares(p), NEW q \in Procs, q # p, ApprovalOK(q)
    PROVE  ApprovalOK(q)'
<1> SUFFICES ASSUME NEW o \in Orders, HasSource(o), lock'[o] = q,
                    row'[o].status = "PENDING",
                    draft'[o].status \notin {"PENDING", "REJECTED"}
             PROVE  {"SOURCE", "TARGET"} \subseteq Kept(q, o)'
  BY DEF ApprovalOK
<1>1. lock[o] = q /\ row'[o] = row[o] /\ draft'[o] = draft[o]
  BY ConstantsAssumption DEF Spares, Touches
<1>2. {"SOURCE", "TARGET"} \subseteq Kept(q, o)
  BY <1>1 DEF ApprovalOK
<1>3. sides[o] \subseteq sides'[o] /\ mine[q] \subseteq mine'[q]
  BY <1>1 DEF Spares
<1>4. q \in Legacy => v1'[q] = v1[q]
  BY DEF Spares
<1>5. Kept(q, o) \subseteq Kept(q, o)'
  BY <1>3, <1>4 DEF Kept, Decided
<1>6. QED
  BY <1>2, <1>5

LEMMA GoodStepInv ==
    ASSUME LegacyInv, NEW p \in Procs, GoodStep(p)
    PROVE  LegacyInv'
<1>1. V1Inv'
  BY OthersV1, LegacyAssumption DEF LegacyInv, V1Inv, GoodStep, Spares
<1>2. ApprovalInv'
  BY OthersApproval DEF LegacyInv, ApprovalInv, GoodStep
<1>3. QED
  BY <1>1, <1>2 DEF LegacyInv, GoodStep

\* Steps that leave rows, locks and approvals alone.
LEMMA StillSpares ==
    ASSUME NEW p, UNCHANGED <<row, draft, lock, sides>>,
           \A q \in Procs : mine[q] \subseteq mine'[q],
           \A u \in Legacy \ {p} : v1'[u] = v1[u]
    PROVE  Spares(p) /\ Commits(p)
  BY StillTouches DEF Spares, Commits

\* What p has at stake is gone once it has let go of its rows.
LEMMA ReleasedApproval ==
    ASSUME NEW p, \A o \in Orders : lock'[o] # p
    PROVE  ApprovalOK(p)'
  BY DEF ApprovalOK

-----------------------------------------------------------------------------
(* The requests of the state machine *)

LEMMA V2Type ==
    ASSUME LegacyTypeInv, TypeInv', UNCHANGED <<v1, turned>>
    PROVE  LegacyTypeInv'
  BY DEF LegacyTypeInv

LEMMA RollbackTypeInv ==
    ASSUME TypeInv, NEW p \in Procs, Rollback(p), ledger' = ledger,
           faults' \in 0 .. MaxFaults
    PROVE  TypeInv'
<1>1. ShapeInv /\ \A o \in Orders : lock[o] \in Procs \cup {NoProc}
  BY TypeShape
<1>2. ShapeInv'
  BY <1>1, RollbackType DEF ShapeInv
<1>3. \A o \in Orders : lock'[o] \in Procs \cup {NoProc}
  BY <1>1 DEF Rollback
<1>4. QED
  BY <1>2, <1>3 DEF TypeInv, TypeOK, ShapeInv, IsLock

\* Undone, p has no rows, and others keep theirs.
LEMMA RollbackSpares ==
    ASSUME TypeInv, NEW p \in Procs, Rollback(p), \A u \in Legacy \ {p} : v1'[u] = v1[u]
    PROVE  Spares(p) /\ Commits(p) /\ ApprovalOK(p)' /\ \A o \in Orders : lock'[o] # p
<1>1. \A o \in Orders : lock'[o] # p
  BY ConstantsAssumption DEF Rollback
<1>2. \A q \in Procs \ {p} : mine'[q] = mine[q]
  BY DEF Rollback, TypeInv, TypeOK
<1>3. UNCHANGED <<row, sides>>
  BY DEF Rollback
<1>4. QED
  BY <1>1, <1>2, <1>3, RollbackTouches, ReleasedApproval DEF Spares, Commits

LEMMA V2Rollback ==
    ASSUME LegacyInv, NEW p \in Procs \ Legacy, Rollback(p), ledger' = ledger,
           faults' \in 0 .. MaxFaults, UNCHANGED <<v1, turned>>
    PROVE  GoodStep(p)
<1>1. RowsInv /\ LegacyTypeInv /\ TypeInv
  BY DEF LegacyInv, RowsInv, LegacyTypeInv
<1>2. LegacyTypeInv'
  BY <1>1, RollbackTypeInv, V2Type
<1>3. RowsInv' /\ RowsForward
  BY <1>1, <1>2, RollbackRows
<1>4. Spares(p) /\ Commits(p) /\ ApprovalOK(p)'
  BY <1>1, RollbackSpares
<1>5. QED
  BY <1>3, <1>4 DEF GoodStep

\* An approval of the state machine counts approvals that it keeps.
LEMMA ToApprovedOwn ==
    ASSUME LegacyInv, NEW p \in Procs \ Legacy, ToApproved(p), UNCHANGED v1
    PROVE  ApprovalOK(p)'
<1> DEFINE o == Current(p)
           v == ApprovedVersion(o, Sees(p, o))
<1>0. TypeInv /\ VersionsInv /\ ChainedInv /\ ApprovalOK(p)
  BY DEF LegacyInv, RowsInv, LegacyTypeInv, ApprovalInv
<1>1. o \in Orders /\ Sees(p, o).status = "PENDING"
  BY <1>0, ToApprovedWrites
<1>2. PICK new \in SUBSET Children(o) : o \notin new /\ ApprovesNew(p, o, v, new)
  BY <1>0, ToApprovedWrites
<1>3. UNCHANGED <<row, sides, mine>>
  BY DEF ToApproved
<1>4. \A x \in Orders : Kept(p, x)' = Kept(p, x) /\ Kept(p, x) = Decided(p, x)
  BY <1>3 DEF Kept, Decided
<1> SUFFICES ASSUME NEW x \in Orders, HasSource(x), lock'[x] = p,
                    row[x].status = "PENDING",
                    draft'[x].status \notin {"PENDING", "REJECTED"}
             PROVE  {"SOURCE", "TARGET"} \subseteq Kept(p, x)
  BY <1>3, <1>4 DEF ApprovalOK
<1>5. CASE x = o
  <2>1. Agreed(p, o)
    BY DEF ToApproved, Matches, Updating
  <2>2. QED
    BY <1>4, <1>5, <2>1 DEF Agreed, HasSource
<1>6. CASE x \in new
  <2>1. Insertable(x)
    BY <1>1, <1>6, ConstantsAssumption DEF Insertable, Children
  <2>2. QED
    BY <1>0, <2>1, InsertsAbsent
<1>7. CASE x # o /\ x \notin new
  BY <1>0, <1>2, <1>7 DEF ApprovesNew, ApprovalOK
<1>8. QED
  BY <1>5, <1>6, <1>7

\* An order already decided is only taken on by whoever has approved it.
LEMMA AmendsOwn ==
    ASSUME LegacyInv, NEW p \in Procs \ Legacy, Amends(p), UNCHANGED v1
    PROVE  ApprovalOK(p)'
<1>0. TypeInv /\ VersionsInv /\ ApprovalOK(p)
  BY DEF LegacyInv, RowsInv, LegacyTypeInv, ApprovalInv
<1>1. PICK W \in SUBSET Orders :
         /\ Writes(p, W)
         /\ \A x \in W : \/ Sees(p, x).status # "PENDING"
                         \/ draft'[x].status \notin Approved
         /\ UNCHANGED <<row, sides, mine>>
  BY DEF Amends
<1>2. \A x \in Orders : Kept(p, x)' = Kept(p, x)
  BY <1>1 DEF Kept, Decided
<1> SUFFICES ASSUME NEW x \in Orders, HasSource(x), lock'[x] = p,
                    row[x].status = "PENDING",
                    draft'[x].status \notin {"PENDING", "REJECTED"}
             PROVE  {"SOURCE", "TARGET"} \subseteq Kept(p, x)
  BY <1>1, <1>2 DEF ApprovalOK
<1>3. CASE x \in W
  <2>1. Sees(p, x) \in Row /\ Successor(Sees(p, x), draft'[x])
    BY <1>0, <1>1, <1>3, VersionType DEF Writes
  <2>2. draft'[x].status \in Approved /\ Sees(p, x).status \in Live
    BY <2>1, SuccessorStatus DEF Statuses, Live, Approved
  <2>3. Sees(p, x).status \notin {"PENDING", "REJECTED"}
    BY <1>1, <1>3, <2>2 DEF Live
  <2>4. lock[x] = p /\ draft[x].status \notin {"PENDING", "REJECTED"}
    BY <2>3 DEF Sees
  <2>5. QED
    BY <1>0, <2>4 DEF ApprovalOK
<1>4. CASE x \notin W
  BY <1>0, <1>1, <1>4 DEF Writes, ApprovalOK
<1>5. QED
  BY <1>3, <1>4

LEMMA V2Request ==
    ASSUME LegacyInv, NEW p \in Procs \ Legacy,
           SingleRequest(p) \/ BatchRequest(p) \/ Work(p) \/ Crash(p),
           UNCHANGED <<v1, turned>>
    PROVE  GoodStep(p)
<1>1. RowsInv /\ LegacyTypeInv /\ TypeInv /\ VersionsInv /\ ChainedInv /\ ApprovalOK(p)
  BY DEF LegacyInv, RowsInv, LegacyTypeInv, ApprovalInv
<1>2. [Next]_vars
  BY DEF Next
<1>3. LegacyTypeInv'
  BY <1>1, <1>2, NextType, V2Type
<1>4. RowsInv' /\ RowsForward
  <2>1. \A o \in Orders : RowMoves(o)
    BY <1>1, <1>2, TypeShape, VersionStep
  <2>2. QED
    BY <1>1, <1>2, <1>3, <2>1, FamilyNext, MovesRows
<1>5. Touches(p)
  BY <1>1, RequestTouches
<1>6. ASSUME Still PROVE Spares(p) /\ Commits(p) /\ ApprovalOK(p)'
  <2>1. Spares(p) /\ Commits(p)
    BY <1>6, StillSpares DEF Still
  <2>2. \A o \in Orders : Kept(p, o) \subseteq Kept(p, o)'
    BY <1>6 DEF Still, Kept, Decided
  <2>3. ApprovalOK(p)'
    BY <1>1, <1>6, <2>2 DEF Still, ApprovalOK
  <2>4. QED
    BY <2>1, <2>3
<1>7. ASSUME ToApproved(p) PROVE Spares(p) /\ Commits(p) /\ ApprovalOK(p)'
  BY <1>5, <1>7, ToApprovedOwn DEF ToApproved, Spares, Commits
<1>8. ASSUME Amends(p) PROVE Spares(p) /\ Commits(p) /\ ApprovalOK(p)'
  BY <1>5, <1>8, AmendsOwn DEF Amends, Spares, Commits
<1>9. ASSUME Rollback(p) PROVE Spares(p) /\ Commits(p) /\ ApprovalOK(p)'
  BY <1>1, <1>9, RollbackSpares
<1>10. ASSUME Commit(p) PROVE Spares(p) /\ Commits(p) /\ ApprovalOK(p)'
  <2>1. \A o \in Orders : lock'[o] # p
    BY <1>10, ConstantsAssumption DEF Commit
  <2>2. \A q \in Procs \ {p} : mine'[q] = mine[q]
    BY <1>1, <1>10 DEF Commit, TypeInv, TypeOK
  <2>3. \A o \in Orders : sides'[o] = Decided(p, o)
    BY <1>10 DEF Commit
  <2>4. Spares(p)
    BY <1>5, <2>2, <2>3 DEF Spares, Decided
  <2>5. Commits(p)
    BY <1>10, <2>3 DEF Commits, Commit, Kept
  <2>6. QED
    BY <2>1, <2>4, <2>5, ReleasedApproval
<1>11. Spares(p) /\ Commits(p) /\ ApprovalOK(p)'
  BY <1>1, <1>6, <1>7, <1>8, <1>9, <1>10, RequestCases
<1>12. QED
  BY <1>4, <1>11 DEF GoodStep

-----------------------------------------------------------------------------
(* The legacy endpoints *)

\* A legacy request that has not begun to update holds no row.
LEMMA NoRows ==
    ASSUME NEW u \in Legacy, V1OK(u), v1[u].step \notin {"status", "commit"}
    PROVE  \A o \in Orders : lock[o] # u
  BY DEF V1OK, LocksOK

LEMMA NoRowsApproval ==
    ASSUME NEW u, UNCHANGED <<row, draft, lock>>, \A o \in Orders : lock[o] # u
    PROVE  ApprovalOK(u)'
  BY DEF ApprovalOK

\* What a step of request u of a row that is left alone needs to be good.
LEMMA V1Still ==
    ASSUME LegacyInv, NEW u \in Legacy, LegacyTypeInv',
           UNCHANGED <<row, draft, lock, sides>>,
           \A q \in Procs : mine[q] \subseteq mine'[q],
           \A w \in Legacy \ {u} : v1'[w] = v1[w],
           V1OK(u)', ApprovalOK(u)'
    PROVE  GoodStep(u)
<1>1. RowsInv' /\ RowsForward
  BY StillRows DEF LegacyInv
<1>2. Spares(u) /\ Commits(u)
  BY StillSpares
<1>3. QED
  BY <1>1, <1>2 DEF GoodStep

LEMMA V1Accept ==
    ASSUME LegacyInv, NEW u \in Legacy, NEW r, Fresh(r), Accept(u, r)
    PROVE  GoodStep(u)
<1>1. v1 \in [Legacy -> V1Request] /\ r \in V1Request /\ V1OK(u)
  BY DEF LegacyInv, RowsInv, LegacyTypeInv, Fresh, V1Inv
<1>2. v1'[u] = r /\ v1' \in [Legacy -> V1Request] /\ \A w \in Legacy \ {u} : v1'[w] = v1[w]
  BY <1>1 DEF Accept
<1>3. UNCHANGED <<row, draft, lock, sides, mine, turned>> /\ UNCHANGED vars
  BY DEF Accept, vars
<1>4. LegacyTypeInv'
  BY <1>2, <1>3 DEF LegacyInv, RowsInv, LegacyTypeInv, TypeInv, TypeOK, BusyHasOrder, vars
<1>5. \A o \in Orders : lock[o] # u
  BY <1>1, NoRows DEF Accept
<1>6. V1OK(u)'
  BY <1>2, <1>3, <1>5 DEF Fresh, V1OK, TodoOK, ItemsOK, LocksOK, DeniedOK
<1>7. QED
  BY <1>2, <1>3, <1>4, <1>5, <1>6, NoRowsApproval, V1Still

\* The request is undone.
LEMMA V1UndoGood ==
    ASSUME LegacyInv, NEW u \in Legacy, V1Undo(u), ledger' = ledger,
           faults' \in 0 .. MaxFaults
    PROVE  GoodStep(u) /\ row' = row
<1>1. RowsInv /\ LegacyTypeInv /\ TypeInv /\ v1 \in [Legacy -> V1Request] /\ u \in Procs
  BY LegacyAssumption DEF LegacyInv, RowsInv, LegacyTypeInv
<1>2. Rollback(u) /\ UNCHANGED turned
  BY DEF V1Undo
<1>3. v1'[u] = Idle /\ v1' \in [Legacy -> V1Request] /\ \A w \in Legacy \ {u} : v1'[w] = v1[w]
  BY <1>1, IdleType DEF V1Undo
<1>4. LegacyTypeInv'
  BY <1>1, <1>2, <1>3, RollbackTypeInv DEF LegacyTypeInv
<1>5. RowsInv' /\ RowsForward
  BY <1>1, <1>2, <1>4, RollbackRows
<1>6. Spares(u) /\ Commits(u) /\ ApprovalOK(u)' /\ \A o \in Orders : lock'[o] # u
  BY <1>1, <1>2, <1>3, RollbackSpares
<1>7. V1OK(u)'
  BY <1>3, <1>6 DEF V1OK, TodoOK, ItemsOK, LocksOK, DeniedOK, Idle
<1>8. row' = row
  BY <1>2 DEF Rollback
<1>9. QED
  BY <1>5, <1>6, <1>7, <1>8 DEF GoodStep

\* The approval k is written, with the decision of the request.
Records(u, k) ==
    LET rest == v1[u].items \ {k}
    IN  /\ k \in v1[u].items
        /\ v1[u].step = "record"
        /\ v1' = [v1 EXCEPT ![u].items = rest,
                            ![u].denied = IF v1[u].op = "reject"
                                          THEN @ \cup {k} ELSE @,
                            ![u].step = IF rest = {} THEN "status" ELSE @]
        /\ mine' = [mine EXCEPT ![u] = IF v1[u].op = "approve"
                                       THEN @ \cup {k} ELSE @]
        /\ UNCHANGED <<row, draft, lock, sides, ledger, pc, req, calls,
                       outbox, published, faults, turned>>

LEMMA RecordCases ==
    ASSUME NEW u \in Legacy, V1Record(u)
    PROVE  \/ \E k \in v1[u].items : Records(u, k)
           \/ V1Undo(u) /\ UNCHANGED <<ledger, faults>>
  BY DEF V1Record, Records

LEMMA RecordsGood ==
    ASSUME LegacyInv, NEW u \in Legacy, NEW k \in v1[u].items, Records(u, k)
    PROVE  GoodStep(u)
<1>1. /\ v1 \in [Legacy -> V1Request] /\ v1[u] \in V1Request /\ k \in Keys
      /\ V1OK(u) /\ u \in Procs /\ TypeInv
  BY LegacyAssumption DEF LegacyInv, RowsInv, LegacyTypeInv, V1Inv, V1Request
<1> DEFINE rest == v1[u].items \ {k}
           den  == IF v1[u].op = "reject" THEN v1[u].denied \cup {k} ELSE v1[u].denied
           st   == IF rest = {} THEN "status" ELSE v1[u].step
<1>2. v1' = [v1 EXCEPT ![u] = [v1[u] EXCEPT !.items = rest, !.denied = den, !.step = st]]
  BY <1>1 DEF Records
<1>3. v1[u].step = "record" /\ st \in {"record", "status"}
  BY DEF Records
<1>4. rest \subseteq Keys /\ den \subseteq Keys
  BY <1>1 DEF V1Request
<1> HIDE DEF st
<1>5. v1' \in [Legacy -> V1Request]
  <2> HIDE DEF rest, den
  <2>1. [v1[u] EXCEPT !.items = rest, !.denied = den, !.step = st] \in V1Request
    BY <1>1, <1>3, <1>4 DEF V1Request
  <2>2. QED
    BY <1>1, <1>2, <2>1
<1>6. /\ v1'[u].items = rest /\ v1'[u].denied = den /\ v1'[u].step = st
      /\ v1'[u].op = v1[u].op /\ v1'[u].todo = v1[u].todo
      /\ \A w \in Legacy \ {u} : v1'[w] = v1[w]
  <2> HIDE DEF rest, den
  <2>1. QED
    BY <1>1, <1>2 DEF V1Request
<1>7. mine' \in [Procs -> SUBSET (Orders \X Sides)] /\ \A q \in Procs : mine[q] \subseteq mine'[q]
  BY <1>1 DEF Records, TypeInv, TypeOK, Keys
<1>8. UNCHANGED <<row, draft, lock, sides, ledger, pc, req, calls, outbox, published,
                  faults, turned>>
  BY DEF Records
<1>9. LegacyTypeInv'
  BY <1>5, <1>7, <1>8 DEF LegacyInv, RowsInv, LegacyTypeInv, TypeInv, TypeOK, BusyHasOrder
<1>10. \A o \in Orders : lock[o] # u
  BY <1>1, <1>3, NoRows
<1>11. V1OK(u)'
  <2>1. TodoOK(v1[u])'
    BY <1>1, <1>6, <1>8 DEF V1OK, TodoOK
  <2>2. ItemsOK(v1[u])'
    BY <1>1, <1>3, <1>6 DEF V1OK, ItemsOK
  <2>3. LocksOK(u)'
    BY <1>8, <1>10 DEF LocksOK
  <2>4. k[1] \in v1[u].todo
    BY <1>1, <1>3 DEF V1OK, ItemsOK
  <2>5. DeniedOK(u)'
    BY <1>1, <1>6, <1>8, <2>4 DEF V1OK, DeniedOK
  <2>6. QED
    BY <2>1, <2>2, <2>3, <2>5 DEF V1OK
<1>12. QED
  BY <1>6, <1>7, <1>8, <1>9, <1>10, <1>11, NoRowsApproval, V1Still

\* The request is done with order o.
Passes(u, o) ==
    LET rest == v1[u].todo \ {o}
    IN  /\ o \in v1[u].todo
        /\ v1[u].step = "status"
        /\ v1' = [v1 EXCEPT ![u].todo = rest,
                            ![u].step = IF rest = {} THEN "commit" ELSE @]

LEMMA UpdateCases ==
    ASSUME NEW u \in Legacy, V1Update(u)
    PROVE  \/ \E o \in v1[u].todo :
                 Passes(u, o) /\ ~V1Admits(u, o) /\ UNCHANGED <<vars, turned>>
           \/ \E o \in v1[u].todo :
                 /\ Passes(u, o)
                 /\ V1Writes(u, o)
                 /\ UNCHANGED <<ledger, pc, req, calls, outbox, published, faults, turned>>
           \/ V1Undo(u) /\ UNCHANGED <<ledger, faults>>
  BY DEF V1Update, Passes, V1Writes, CheckAllows

LEMMA PassesRequest ==
    ASSUME v1 \in [Legacy -> V1Request], NEW u \in Legacy, NEW o, Passes(u, o)
    PROVE  /\ v1' \in [Legacy -> V1Request]
           /\ \A w \in Legacy \ {u} : v1'[w] = v1[w]
           /\ v1'[u].todo = v1[u].todo \ {o}
           /\ v1'[u].step \in {"status", "commit"}
           /\ v1'[u].step = "commit" => v1'[u].todo = {}
           /\ v1'[u].op = v1[u].op /\ v1'[u].denied = v1[u].denied
<1> DEFINE rest == v1[u].todo \ {o}
           st   == IF rest = {} THEN "commit" ELSE v1[u].step
<1>1. v1' = [v1 EXCEPT ![u] = [v1[u] EXCEPT !.todo = rest, !.step = st]]
  BY DEF Passes
<1>2. st \in {"status", "commit"} /\ (st = "commit" => rest = {}) /\ rest \subseteq Orders
  BY DEF Passes, V1Request
<1> HIDE DEF rest, st
<1>3. [v1[u] EXCEPT !.todo = rest, !.step = st] \in V1Request
  BY <1>2 DEF V1Request
<1>4. v1' \in [Legacy -> V1Request] /\ v1'[u] = [v1[u] EXCEPT !.todo = rest, !.step = st]
      /\ \A w \in Legacy \ {u} : v1'[w] = v1[w]
  BY <1>1, <1>3
<1>5. v1[u] \in V1Request
  OBVIOUS
<1>6. QED
  BY <1>2, <1>4, <1>5 DEF rest, V1Request

LEMMA SkipGood ==
    ASSUME LegacyInv, NEW u \in Legacy, NEW o \in v1[u].todo, Passes(u, o),
           ~V1Admits(u, o), UNCHANGED <<vars, turned>>
    PROVE  GoodStep(u)
<1>1. v1 \in [Legacy -> V1Request] /\ V1OK(u) /\ ApprovalOK(u) /\ u \in Procs /\ o \in Orders
  BY LegacyAssumption
     DEF LegacyInv, RowsInv, LegacyTypeInv, V1Inv, ApprovalInv, V1Request
<1>2. /\ v1' \in [Legacy -> V1Request]
      /\ \A w \in Legacy \ {u} : v1'[w] = v1[w]
      /\ v1'[u].todo = v1[u].todo \ {o}
      /\ v1'[u].step \in {"status", "commit"}
      /\ v1'[u].step = "commit" => v1'[u].todo = {}
      /\ v1'[u].op = v1[u].op /\ v1'[u].denied = v1[u].denied
  BY <1>1, PassesRequest
<1>3. UNCHANGED <<row, draft, lock, sides, mine>>
  BY DEF vars
<1>4. LegacyTypeInv'
  BY <1>2 DEF LegacyInv, RowsInv, LegacyTypeInv, TypeInv, TypeOK, BusyHasOrder, vars
<1>5. v1[u].op = "reject" => Sees(u, o).status \in {"REJECTED", "EXECUTED"}
  BY DEF V1Admits
<1>6. V1OK(u)'
  <2>1. TodoOK(v1[u])' /\ ItemsOK(v1[u])'
    BY <1>1, <1>2, <1>3 DEF V1OK, TodoOK, ItemsOK
  <2>2. LocksOK(u)'
    BY <1>1, <1>2, <1>3 DEF V1OK, LocksOK
  <2>3. DeniedOK(u)'
    BY <1>1, <1>2, <1>3, <1>5 DEF V1OK, DeniedOK, Sees
  <2>4. QED
    BY <2>1, <2>2, <2>3 DEF V1OK
<1>7. ApprovalOK(u)'
  <2>1. \A x \in Orders : Kept(u, x)' = Kept(u, x)
    BY <1>2, <1>3 DEF Kept, Decided
  <2>2. QED
    BY <1>1, <1>3, <2>1 DEF ApprovalOK
<1>8. QED
  BY <1>2, <1>3, <1>4, <1>6, <1>7, V1Still

\* What the version that a legacy request writes owes to the one it finds.
LEMMA V1WritesApproval ==
    ASSUME LegacyInv, NEW u \in Legacy, NEW o \in v1[u].todo, o \in Orders,
           V1Writes(u, o), HasSource(o), row[o].status = "PENDING",
           V1Version(u, o).status \notin {"PENDING", "REJECTED"}
    PROVE  {"SOURCE", "TARGET"} \subseteq Kept(u, o)
<1>1. V1OK(u) /\ ApprovalOK(u) /\ u \in Procs /\ Sees(u, o) \in Row
      /\ v1[u].op \in V1OpNames
  BY LegacyAssumption, V1VersionType
     DEF LegacyInv, RowsInv, LegacyTypeInv, V1Inv, ApprovalInv, V1Request
<1>2. CASE v1[u].op = "approve"
  <2>1. Agreed(u, o)
    BY <1>2 DEF V1Writes, V1Admits
  <2>2. v1[u].denied = {}
    BY <1>1, <1>2 DEF V1OK, DeniedOK
  <2>3. QED
    BY <2>1, <2>2 DEF Agreed, HasSource, Kept, Decided
<1>3. CASE v1[u].op \in {"reject", "refuse"}
  BY <1>1, <1>3 DEF V1Version, Row
<1>4. CASE v1[u].op = "receive"
  BY <1>1, <1>4 DEF V1OK, TodoOK
<1>5. CASE v1[u].op = "edit"
  <2>1. V1Version(u, o).status = Sees(u, o).status
    BY <1>1, <1>5 DEF V1Version, Row
  <2>2. lock[o] = u /\ draft[o].status \notin {"PENDING", "REJECTED"}
    BY <2>1 DEF Sees
  <2>3. QED
    BY <1>1, <2>2 DEF ApprovalOK
<1>6. QED
  BY <1>1, <1>2, <1>3, <1>4, <1>5 DEF V1OpNames

LEMMA WritesGood ==
    ASSUME LegacyInv, NEW u \in Legacy, NEW o \in v1[u].todo, Passes(u, o),
           V1Writes(u, o),
           UNCHANGED <<ledger, pc, req, calls, outbox, published, faults, turned>>
    PROVE  GoodStep(u) /\ row' = row
<1> DEFINE w == V1Version(u, o)
<1>1. /\ v1 \in [Legacy -> V1Request] /\ V1OK(u) /\ ApprovalOK(u) /\ TypeInv
      /\ u \in Procs /\ u # NoProc /\ o \in Orders /\ w \in Row
      /\ v1[u].op \in V1OpNames
  BY LegacyAssumption, ConstantsAssumption, V1VersionType
     DEF LegacyInv, RowsInv, LegacyTypeInv, V1Inv, ApprovalInv, V1Request
<1>2. /\ v1' \in [Legacy -> V1Request]
      /\ \A x \in Legacy \ {u} : v1'[x] = v1[x]
      /\ v1'[u].todo = v1[u].todo \ {o}
      /\ v1'[u].step \in {"status", "commit"}
      /\ v1'[u].step = "commit" => v1'[u].todo = {}
      /\ v1'[u].op = v1[u].op /\ v1'[u].denied = v1[u].denied
  BY <1>1, PassesRequest
<1>3. /\ draft' = [draft EXCEPT ![o] = w] /\ lock' = [lock EXCEPT ![o] = u]
      /\ UNCHANGED <<row, sides, mine>> /\ lock[o] \in {u, NoProc}
  BY DEF V1Writes, Write, Free
<1>4. v1[u].op = "reject" => w.status = "REJECTED"
  BY <1>1, V1VersionType DEF V1Version, Row
<1>5. {"SOURCE", "TARGET"} \subseteq Kept(u, o)
      \/ ~HasSource(o) \/ row[o].status # "PENDING" \/ w.status \in {"PENDING", "REJECTED"}
  BY <1>1, V1WritesApproval
<1> HIDE DEF w
<1>6. \A x \in Orders : /\ draft'[x] = IF x = o THEN w ELSE draft[x]
                        /\ lock'[x] = IF x = o THEN u ELSE lock[x]
  BY <1>1, <1>3 DEF TypeInv, TypeOK
<1>7. LegacyTypeInv'
  <2>1. draft' \in [Orders -> Row] /\ lock' \in [Orders -> Procs \cup {NoProc}]
    BY <1>1, <1>3 DEF TypeInv, TypeOK
  <2>2. QED
    BY <1>2, <1>3, <2>1
       DEF LegacyInv, RowsInv, LegacyTypeInv, TypeInv, TypeOK, BusyHasOrder
<1>8. RowsInv' /\ RowsForward
  BY <1>1, <1>7, WriteRows DEF LegacyInv, V1OK, TodoOK
<1>9. Spares(u) /\ Commits(u)
  <2>1. Touches(u)
    BY <1>3, <1>6 DEF Touches
  <2>2. QED
    BY <1>2, <1>3, <2>1 DEF Spares, Commits
<1>10. V1OK(u)'
  <2>1. TodoOK(v1[u])' /\ ItemsOK(v1[u])'
    BY <1>1, <1>2, <1>3 DEF V1OK, TodoOK, ItemsOK
  <2>2. LocksOK(u)'
    BY <1>1, <1>2, <1>4, <1>6 DEF V1OK, LocksOK
  <2>3. \A k \in v1[u].denied : k[1] \in Orders
    BY <1>1 DEF V1Request, Keys
  <2>4. DeniedOK(u)'
    BY <1>1, <1>2, <1>3, <1>6, <2>3 DEF V1OK, DeniedOK
  <2>5. QED
    BY <2>1, <2>2, <2>4 DEF V1OK
<1>11. ApprovalOK(u)'
  <2>1. \A x \in Orders : Kept(u, x)' = Kept(u, x)
    BY <1>2, <1>3 DEF Kept, Decided
  <2>2. QED
    BY <1>1, <1>3, <1>5, <1>6, <2>1 DEF ApprovalOK
<1>12. QED
  BY <1>3, <1>8, <1>9, <1>10, <1>11 DEF GoodStep

\* When a legacy rejection commits, the orders it denies are its own or closed.
LEMMA DeniedAtCommit ==
    ASSUME LegacyInv, NEW u \in Legacy, v1[u].step = "commit", NEW k \in v1[u].denied
    PROVE  /\ k[1] \in Orders
           /\ \/ lock[k[1]] = u /\ draft[k[1]].status = "REJECTED"
              \/ row[k[1]].status \in {"REJECTED", "EXECUTED"}
<1>1. V1OK(u) /\ v1[u] \in V1Request
  BY DEF LegacyInv, RowsInv, LegacyTypeInv, V1Inv
<1>2. k[1] \in Orders /\ v1[u].todo = {}
  BY <1>1 DEF V1Request, Keys, V1OK, ItemsOK
<1>3. QED
  BY <1>1, <1>2 DEF V1OK, DeniedOK, LocksOK

LEMMA V1CommitRequest ==
    ASSUME v1 \in [Legacy -> V1Request], NEW u \in Legacy, V1Commit(u)
    PROVE  /\ v1' \in [Legacy -> V1Request]
           /\ \A w \in Legacy \ {u} : v1'[w] = v1[w]
           /\ \/ v1'[u] = Idle
              \/ /\ v1'[u].step = "adjust" /\ v1[u].op = "receive"
                 /\ v1'[u].todo = v1[u].todo /\ v1'[u].denied = v1[u].denied
<1>1. CASE v1[u].op = "receive" /\ ~v1[u].bulk
  <2>1. v1' = [v1 EXCEPT ![u] = [v1[u] EXCEPT !.step = "adjust"]]
    BY <1>1 DEF V1Commit
  <2>2. [v1[u] EXCEPT !.step = "adjust"] \in V1Request
    BY DEF V1Request
  <2>3. QED
    BY <1>1, <2>1, <2>2 DEF V1Request
<1>2. CASE ~(v1[u].op = "receive" /\ ~v1[u].bulk)
  <2>1. v1' = [v1 EXCEPT ![u] = Idle]
    BY <1>2 DEF V1Commit
  <2>2. QED
    BY <2>1, IdleType
<1>3. QED
  BY <1>1, <1>2

LEMMA V1CommitGood ==
    ASSUME LegacyInv, NEW u \in Legacy, V1Commit(u)
    PROVE  GoodStep(u)
<1>1. /\ v1 \in [Legacy -> V1Request] /\ V1OK(u) /\ RowsInv /\ TypeInv /\ turned \subseteq Keys
      /\ u \in Procs /\ u # NoProc
  BY LegacyAssumption, ConstantsAssumption
     DEF LegacyInv, RowsInv, LegacyTypeInv, V1Inv
<1>2. /\ v1' \in [Legacy -> V1Request]
      /\ \A w \in Legacy \ {u} : v1'[w] = v1[w]
      /\ \/ v1'[u] = Idle
         \/ /\ v1'[u].step = "adjust" /\ v1[u].op = "receive"
            /\ v1'[u].todo = v1[u].todo /\ v1'[u].denied = v1[u].denied
  BY <1>1, V1CommitRequest
<1>3. Keeps(u)
  BY DEF V1Commit, Keeps
<1>4. \A o \in Orders : sides'[o] = {s \in Decided(u, o) : <<o, s>> \notin v1[u].denied}
  BY DEF V1Commit
<1>5. \A q \in Procs \ {u} : mine'[q] = mine[q]
  BY <1>1 DEF V1Commit, TypeInv, TypeOK
<1>6. TypeInv'
  <2>1. row' \in [Orders -> Row] /\ lock' \in [Orders -> Procs \cup {NoProc}]
    BY <1>1, <1>3 DEF Keeps, TypeInv, TypeOK
  <2>2. sides' \in [Orders -> SUBSET Sides]
    BY <1>1 DEF V1Commit, Decided, TypeInv, TypeOK
  <2>3. mine' \in [Procs -> SUBSET (Orders \X Sides)]
    BY <1>1 DEF V1Commit, TypeInv, TypeOK
  <2>4. ledger' \in [Orders -> [src : Int, tgt : Int]]
    <3>1. \A o \in Orders : v1[u].qty[o] \in Nat /\ ledger[o] \in [src : Int, tgt : Int]
      BY <1>1 DEF V1Request, TypeInv, TypeOK
    <3>2. \A o \in Orders : [ledger[o] EXCEPT !.tgt = @ + v1[u].qty[o]] \in [src : Int, tgt : Int]
      BY <3>1
    <3>3. QED
      BY <3>1, <3>2 DEF V1Commit
  <2>5. UNCHANGED <<draft, pc, req, calls, outbox, published, faults>>
    BY DEF V1Commit
  <2>6. QED
    BY <1>1, <2>1, <2>2, <2>3, <2>4, <2>5 DEF TypeInv, TypeOK, BusyHasOrder
<1>7. LegacyTypeInv'
  <2>1. turned' \subseteq Keys
    BY <1>1 DEF V1Commit, V1Request
  <2>2. QED
    BY <1>2, <1>6, <2>1 DEF LegacyTypeInv
<1>8. RowsInv' /\ RowsForward
  BY <1>1, <1>3, <1>7, CommitRows
<1>9. \A o \in Orders : lock'[o] # u
  BY <1>1, <1>3 DEF Keeps
<1>10. Spares(u)
  <2>1. ASSUME NEW o \in Orders, row[o].status = "PENDING", lock[o] # u
        PROVE  sides[o] \subseteq sides'[o]
    <3>1. \A s \in Sides : <<o, s>> \notin v1[u].denied
      BY <2>1, DeniedAtCommit DEF V1Commit
    <3>2. sides[o] \subseteq Sides
      BY <1>1 DEF TypeInv, TypeOK
    <3>3. QED
      BY <1>4, <3>1, <3>2 DEF Decided
  <2>2. Touches(u)
    BY <1>1, <1>3, KeepsTouches
  <2>3. QED
    BY <1>2, <1>5, <2>1, <2>2 DEF Spares
<1>11. Commits(u)
  BY <1>3, <1>4 DEF Commits, Keeps, Kept
<1>12. V1OK(u)'
  <2>1. v1[u].op = "receive" => v1[u].denied = {}
    BY <1>1 DEF V1OK, DeniedOK
  <2>2. v1[u].todo = {}
    BY <1>1 DEF V1Commit, V1OK, ItemsOK
  <2>3. QED
    BY <1>2, <1>9, <2>1, <2>2 DEF V1OK, TodoOK, ItemsOK, LocksOK, DeniedOK, Idle
<1>13. QED
  BY <1>8, <1>9, <1>10, <1>11, <1>12, ReleasedApproval DEF GoodStep

LEMMA V1AdjustGood ==
    ASSUME LegacyInv, NEW u \in Legacy, V1Adjust(u)
    PROVE  GoodStep(u)
<1>1. /\ v1 \in [Legacy -> V1Request] /\ V1OK(u) /\ TypeInv /\ turned \subseteq Keys
      /\ v1[u] \in V1Request
  BY DEF LegacyInv, RowsInv, LegacyTypeInv, V1Inv
<1>2. PICK o \in {x \in Orders : v1[u].qty[x] > 0} :
         LET c == [ord |-> o, end |-> "tgt", delta |-> v1[u].qty[o]]
         IN  \E a \in Answers(v1[u].who, o, c) :
                /\ v1[u].step = "adjust"
                /\ faults' = faults + Disturbed(a)
                /\ faults' <= MaxFaults
                /\ ledger' = [ledger EXCEPT ![o].tgt = @ + Applied(a) * c.delta]
                /\ v1' = [v1 EXCEPT ![u] = Idle]
                /\ UNCHANGED <<dbVars, pc, req, calls, outbox, published, turned>>
  BY DEF V1Adjust
<1>3. v1[u].step = "adjust" /\ v1' = [v1 EXCEPT ![u] = Idle] /\ UNCHANGED dbVars
      /\ UNCHANGED <<pc, req, calls, outbox, published, turned>>
  BY <1>2
<1>4. v1'[u] = Idle /\ v1' \in [Legacy -> V1Request] /\ \A w \in Legacy \ {u} : v1'[w] = v1[w]
  BY <1>1, <1>3, IdleType
<1>5. ledger' \in [Orders -> [src : Int, tgt : Int]] /\ faults' \in 0 .. MaxFaults
  <2>1. PICK a : /\ faults' = faults + Disturbed(a)
                 /\ faults' <= MaxFaults
                 /\ ledger' = [ledger EXCEPT ![o].tgt = @ + Applied(a) * v1[u].qty[o]]
    BY <1>2
  <2>2. v1[u].qty[o] \in Nat
    BY <1>1 DEF V1Request
  <2>3. Applied(a) \in Nat /\ Disturbed(a) \in Nat
    BY DEF Applied, Disturbed
  <2>4. Applied(a) * v1[u].qty[o] \in Int
    BY <2>2, <2>3
  <2>5. ledger[o].tgt + Applied(a) * v1[u].qty[o] \in Int
    BY <1>1, <2>4 DEF TypeInv, TypeOK
  <2>6. ledger' \in [Orders -> [src : Int, tgt : Int]]
    BY <1>1, <2>1, <2>5 DEF TypeInv, TypeOK
  <2>7. faults' \in 0 .. MaxFaults
    BY <1>1, <2>1, <2>3, ConstantsAssumption DEF TypeInv, TypeOK
  <2>8. QED
    BY <2>6, <2>7
<1>6. UNCHANGED <<row, draft, lock, sides, mine>>
  BY <1>3 DEF dbVars
<1>7. LegacyTypeInv'
  BY <1>1, <1>3, <1>4, <1>5, <1>6 DEF LegacyTypeInv, TypeInv, TypeOK, BusyHasOrder
<1>8. \A o2 \in Orders : lock[o2] # u
  BY <1>1, <1>3, NoRows
<1>9. V1OK(u)'
  BY <1>4, <1>6, <1>8 DEF V1OK, TodoOK, ItemsOK, LocksOK, DeniedOK, Idle
<1>10. QED
  BY <1>4, <1>6, <1>7, <1>8, <1>9, NoRowsApproval, V1Still

-----------------------------------------------------------------------------
(* Every step keeps the invariant *)

V2Requests(p) ==
    /\ SingleRequest(p) \/ BatchRequest(p) \/ Work(p) \/ Crash(p)
    /\ UNCHANGED <<v1, turned>>

V2Undone(p) ==
    /\ V1Deadlock(p)
    /\ Rollback(p)
    /\ UNCHANGED <<ledger, faults, v1, turned>>

V1Undone(u) ==
    /\ V1Undo(u)
    /\ ledger' = ledger
    /\ faults' \in faults .. MaxFaults

V1Skips(u) ==
    \E o \in v1[u].todo :
        Passes(u, o) /\ ~V1Admits(u, o) /\ UNCHANGED <<vars, turned>>

V1Puts(u) ==
    \E o \in v1[u].todo :
        /\ Passes(u, o)
        /\ V1Writes(u, o)
        /\ UNCHANGED <<ledger, pc, req, calls, outbox, published, faults, turned>>

V1Accepts(u) == \E r : Fresh(r) /\ Accept(u, r)

V1Records(u) == \E k \in v1[u].items : Records(u, k)

LEMMA LegacyStepKinds ==
    ASSUME LegacyInv, LegacyNext
    PROVE  \/ \E p \in Procs \ Legacy : V2Requests(p) \/ V2Undone(p)
           \/ \E u \in Legacy : \/ V1Accepts(u) \/ V1Records(u) \/ V1Skips(u) \/ V1Puts(u)
                                \/ V1Commit(u) \/ V1Adjust(u) \/ V1Undone(u)
<1>1. faults \in 0 .. MaxFaults /\ LegacyTypeInv
  BY DEF LegacyInv, RowsInv, LegacyTypeInv, TypeInv, TypeOK
<1>2. ASSUME NEW u \in Legacy, V1Decide(u) \/ V1Inbound(u) \/ V1Edit(u)
      PROVE  V1Accepts(u)
  BY <1>1, <1>2, DecideFresh, InboundFresh, EditFresh DEF V1Accepts
<1>3. ASSUME NEW u \in Legacy, V1Undo(u), UNCHANGED <<ledger, faults>>
      PROVE  V1Undone(u)
  BY <1>1, <1>3 DEF V1Undone
<1>4. ASSUME NEW u \in Legacy, V1Record(u)
      PROVE  V1Records(u) \/ V1Undone(u)
  BY <1>3, <1>4, RecordCases DEF V1Records
<1>5. ASSUME NEW u \in Legacy, V1Update(u)
      PROVE  V1Skips(u) \/ V1Puts(u) \/ V1Undone(u)
  BY <1>3, <1>5, UpdateCases DEF V1Skips, V1Puts
<1>6. ASSUME NEW u \in Legacy, V1Deadlock(u)
      PROVE  V1Undone(u)
  BY <1>3, <1>6 DEF V1Deadlock
<1>7. ASSUME NEW u \in Legacy, V1Crash(u)
      PROVE  V1Undone(u)
  BY <1>1, <1>7, ConstantsAssumption DEF V1Crash, V1Undone
<1>8. ASSUME NEW p \in Procs \ Legacy, V1Deadlock(p)
      PROVE  V2Undone(p)
  BY <1>1, <1>8 DEF V1Deadlock, V2Undone
<1>9. ASSUME NEW u \in Legacy, V1Work(u)
      PROVE  \/ V1Records(u) \/ V1Skips(u) \/ V1Puts(u)
             \/ V1Commit(u) \/ V1Adjust(u) \/ V1Undone(u)
  BY <1>4, <1>5, <1>6, <1>9 DEF V1Work
<1>10. ASSUME NEW p \in Procs \ Legacy, V2Work(p)
       PROVE  V2Requests(p) \/ V2Undone(p)
  BY <1>8, <1>10 DEF V2Work, V2Requests
<1>11. ASSUME NEW p \in Procs \ Legacy,
              SingleRequest(p) \/ BatchRequest(p) \/ Crash(p), UNCHANGED <<v1, turned>>
       PROVE  V2Requests(p)
  BY <1>11 DEF V2Requests
<1>12. QED
  BY <1>2, <1>7, <1>9, <1>10, <1>11 DEF LegacyNext

LEMMA StepGood ==
    ASSUME LegacyInv, LegacyNext
    PROVE  \E p \in Procs : GoodStep(p)
<1>1. ASSUME NEW p \in Procs \ Legacy, V2Requests(p) \/ V2Undone(p)
      PROVE  GoodStep(p)
  <2>1. faults \in 0 .. MaxFaults
    BY DEF LegacyInv, RowsInv, LegacyTypeInv, TypeInv, TypeOK
  <2>2. QED
    BY <1>1, <2>1, V2Request, V2Rollback DEF V2Requests, V2Undone
<1>2. ASSUME NEW u \in Legacy, V1Accepts(u) \/ V1Records(u) \/ V1Skips(u) \/ V1Puts(u)
      PROVE  GoodStep(u)
  BY <1>2, V1Accept, RecordsGood, SkipGood, WritesGood
     DEF V1Accepts, V1Records, V1Skips, V1Puts
<1>3. ASSUME NEW u \in Legacy, V1Commit(u) \/ V1Adjust(u) \/ V1Undone(u)
      PROVE  GoodStep(u)
  <2>1. faults \in 0 .. MaxFaults
    BY DEF LegacyInv, RowsInv, LegacyTypeInv, TypeInv, TypeOK
  <2>2. ASSUME V1Undone(u) PROVE V1Undo(u) /\ ledger' = ledger /\ faults' \in 0 .. MaxFaults
    BY <2>1, <2>2, ConstantsAssumption DEF V1Undone
  <2>3. QED
    BY <1>3, <2>2, V1CommitGood, V1AdjustGood, V1UndoGood
<1>4. QED
  BY <1>1, <1>2, <1>3, LegacyStepKinds, LegacyAssumption

LEMMA LegacyInitInv == LegacyInit => LegacyInv
<1> SUFFICES ASSUME LegacyInit PROVE LegacyInv
  OBVIOUS
<1>1. Init /\ v1 = [u \in Legacy |-> Idle] /\ turned = {}
  BY DEF LegacyInit
<1>2. LegacyTypeInv
  BY <1>1, InitType, IdleType DEF LegacyTypeInv
<1>3. \A o \in Orders : lock[o] = NoProc /\ draft[o] = row[o]
  BY <1>1 DEF Init
<1>4. StampsInv /\ VersionsInv /\ ChainedInv
  BY <1>1, StampsInit, ConsentInit DEF ConsentInv
<1>5. ForwardInv
  BY <1>3 DEF ForwardInv, Forward
<1>6. \A o \in Orders, q \in Procs : lock[o] # q
  BY <1>3, ConstantsAssumption
<1>7. V1Inv
  BY <1>1, <1>6, LegacyAssumption
     DEF V1Inv, V1OK, TodoOK, ItemsOK, LocksOK, DeniedOK, Idle
<1>8. ApprovalInv
  BY <1>6 DEF ApprovalInv, ApprovalOK
<1>9. QED
  BY <1>2, <1>4, <1>5, <1>7, <1>8 DEF LegacyInv, RowsInv

LEMMA LegacyStutter ==
    ASSUME LegacyInv, UNCHANGED allVars
    PROVE  LegacyInv'
<1> USE DEF allVars, vars
<1>1. LegacyTypeInv'
  BY DEF LegacyInv, RowsInv, LegacyTypeInv, TypeInv, TypeOK, BusyHasOrder
<1>2. RowsInv'
  BY <1>1, StillRows DEF LegacyInv
<1>3. V1Inv'
  BY DEF LegacyInv, V1Inv, V1OK, TodoOK, ItemsOK, LocksOK, DeniedOK
<1>4. ApprovalInv'
  BY DEF LegacyInv, ApprovalInv, ApprovalOK, Kept, Decided
<1>5. QED
  BY <1>2, <1>3, <1>4 DEF LegacyInv

LEMMA LegacyNextInv == LegacyInv /\ [LegacyNext]_allVars => LegacyInv'
  BY StepGood, GoodStepInv, LegacyStutter

LEMMA LegacyInvariant == LegacySpec => []LegacyInv
  BY LegacyInitInv, LegacyNextInv, PTL DEF LegacySpec

-----------------------------------------------------------------------------
(* What follows *)

\* Legacy endpoints, requests of the state machine and faults may meet on an
\* order in any way: no committed status ever goes back.
THEOREM OnlyForwardCorrect == LegacySpec => OnlyForward
<1> DEFINE Step == \A o \in Orders : \/ row'[o].status = row[o].status
                                     \/ Rank[row'[o].status] > Rank[row[o].status]
<1>1. LegacyInv /\ LegacyNext => Step
  BY StepGood DEF GoodStep, RowsForward, Forward
<1>2. LegacyInv /\ [LegacyNext]_allVars => [Step]_allVars
  BY <1>1
<1>3. QED
  BY <1>2, LegacyInvariant, PTL DEF LegacySpec, OnlyForward

LEMMA ApprovedStep ==
    ASSUME LegacyInv, LegacyNext, NEW o \in Orders, HasSource(o),
           row[o].status = "PENDING", row'[o].status \notin {"PENDING", "REJECTED"}
    PROVE  {"SOURCE", "TARGET"} \subseteq sides'[o]
<1>1. PICK p \in Procs : GoodStep(p)
  BY StepGood
<1>2. lock[o] = p /\ row'[o] = draft[o] /\ Kept(p, o) \subseteq sides'[o]
  BY <1>1 DEF GoodStep, Commits
<1>3. {"SOURCE", "TARGET"} \subseteq Kept(p, o)
  BY <1>2 DEF LegacyInv, ApprovalInv, ApprovalOK
<1>4. QED
  BY <1>2, <1>3

\* Whatever legacy rejections take back, an order between two locations leaves
\* PENDING, unless it is rejected, only with the approvals of both its sides.
THEOREM ApprovedByBothCorrect == LegacySpec => ApprovedByBoth
<1> DEFINE Step == \A o \in Orders :
                      /\ HasSource(o)
                      /\ row[o].status = "PENDING"
                      /\ row'[o].status \notin {"PENDING", "REJECTED"}
                      => {"SOURCE", "TARGET"} \subseteq sides'[o]
<1>1. LegacyInv /\ LegacyNext => Step
  BY ApprovedStep
<1>2. LegacyInv /\ [LegacyNext]_allVars => [Step]_allVars
  BY <1>1
<1>3. QED
  BY <1>2, LegacyInvariant, PTL DEF LegacySpec, ApprovedByBoth

LEMMA RejectStep ==
    ASSUME LegacyInv, LegacyNext, NEW u \in Legacy,
           v1[u].step = "commit", v1'[u].step = "idle"
    PROVE  \/ \A k \in v1[u].denied : row'[k[1]].status \in {"REJECTED", "EXECUTED"}
           \/ row' = row
<1>1. v1 \in [Legacy -> V1Request]
  BY DEF LegacyInv, RowsInv, LegacyTypeInv
<1>2. CASE \E p \in Procs \ Legacy : V2Requests(p) \/ V2Undone(p)
  BY <1>2 DEF V2Requests, V2Undone
<1>3. CASE \E w \in Legacy : V1Accepts(w) \/ V1Records(w) \/ V1Skips(w)
  BY <1>3 DEF V1Accepts, Accept, V1Records, Records, V1Skips, vars
<1>4. CASE \E w \in Legacy : V1Puts(w)
  BY <1>4 DEF V1Puts, V1Writes
<1>5. CASE \E w \in Legacy : V1Adjust(w)
  BY <1>5 DEF V1Adjust, dbVars
<1>6. CASE \E w \in Legacy : V1Undone(w)
  BY <1>6 DEF V1Undone, V1Undo, Rollback
<1>7. CASE \E w \in Legacy : V1Commit(w)
  <2>1. PICK w \in Legacy : V1Commit(w)
    BY <1>7
  <2>2. w = u
    BY <1>1, <2>1, V1CommitRequest
  <2>3. ASSUME NEW k \in v1[u].denied
        PROVE  row'[k[1]].status \in {"REJECTED", "EXECUTED"}
    <3>1. /\ k[1] \in Orders
          /\ \/ lock[k[1]] = u /\ draft[k[1]].status = "REJECTED"
             \/ row[k[1]].status \in {"REJECTED", "EXECUTED"}
      BY DeniedAtCommit
    <3>2. row'[k[1]] = IF lock[k[1]] = u THEN draft[k[1]] ELSE row[k[1]]
      BY <2>1, <2>2, <3>1 DEF V1Commit
    <3>3. lock[k[1]] = u => draft[k[1]].status = "REJECTED"
      <4>1. v1[u].op = "reject"
        BY DEF LegacyInv, V1Inv, V1OK, DeniedOK
      <4>2. QED
        BY <3>1, <4>1 DEF LegacyInv, V1Inv, V1OK, LocksOK
    <3>4. QED
      BY <3>1, <3>2, <3>3
  <2>4. QED
    BY <2>3
<1>8. QED
  BY <1>2, <1>3, <1>4, <1>5, <1>6, <1>7, LegacyStepKinds

\* A legacy rejection of one order or many that commits leaves all the orders
\* it has denied rejected or executed.
THEOREM RejectClosesAllCorrect == LegacySpec => RejectClosesAll
<1> DEFINE Step == \A u \in Legacy :
                      /\ v1[u].step = "commit" /\ v1[u].op = "reject" /\ v1'[u].step = "idle"
                      => \/ \A k \in v1[u].denied :
                               row'[k[1]].status \in {"REJECTED", "EXECUTED"}
                         \/ row' = row
<1>1. LegacyInv /\ LegacyNext => Step
  BY RejectStep
<1>2. LegacyInv /\ [LegacyNext]_allVars => [Step]_allVars
  BY <1>1
<1>3. QED
  BY <1>2, LegacyInvariant, PTL DEF LegacySpec, RejectClosesAll

-----------------------------------------------------------------------------
(* Stock does not move before an order leaves *)

Early == {"ABSENT", "PENDING", "APPROVED"}

Nothing == [src |-> 0, tgt |-> 0]

\* p has taken the stock of o and will commit it.
Shipping(p, o) ==
    /\ lock[o] = p
    /\ draft[o].status = "IN_TRANSIT"
    /\ req[p].op = "dispatch"
    /\ pc[p] = "commit" \/ req[p].batch

\* Stock moved for an order that has not left belongs to a dispatch at work.
LedgerInv ==
    \A o \in Orders :
        row[o].status \in Early /\ ledger[o] # Nothing =>
            \E p \in Procs \ Legacy : Shipping(p, o)

\* Only a batch goes on to another order after one that moves stock.
ListOK(p) ==
    ~req[p].batch =>
        \A i \in 1 .. Len(req[p].todo) - 1 : ~HasSource(req[p].todo[i])

\* Only a rejection cascades, and only an approval and a dispatch take an order
\* on its way in one transaction.
HoldsOK(p) ==
    /\ pc[p] = "cascade" => req[p].op = "reject"
    /\ \A o \in Orders : lock[o] = p =>
          /\ pc[p] \notin {"idle", "publish"}
          /\ row[o].status \in Early /\ draft[o].status \in {"IN_TRANSIT", "EXECUTED"}
                => req[p].op \in {"approve", "dispatch"}

\* c is the call of the dispatch that p is at.
Ships(p, c) ==
    /\ pc[p] = "adjust"
    /\ req[p].op = "dispatch"
    /\ calls[p] = {c}
    /\ c.ord = Current(p)
    /\ HasSource(c.ord)
    /\ lock[c.ord] = p
    /\ draft[c.ord].status = "IN_TRANSIT"

\* A call is about an order that has left, or about the one being dispatched.
CallsOK(p) ==
    pc[p] \in {"adjust", "restore"} =>
        \A c \in calls[p] : row[c.ord].status \notin Early \/ Ships(p, c)

\* A legacy receipt has taken its orders to EXECUTED when it adds to the stock.
ReceiptOK(u) ==
    /\ pc[u] = "idle"
    /\ v1[u].step = "adjust" => v1[u].op = "receive"
    /\ v1[u].op = "receive" =>
          \A o \in Orders :
              /\ lock[o] = u => draft[o].status = "EXECUTED"
              /\ v1[u].qty[o] > 0 => \/ o \in v1[u].todo
                                     \/ lock[o] = u
                                     \/ row[o].status = "EXECUTED"

RequestOK(p) ==
    IF p \in Legacy THEN ReceiptOK(p) ELSE ListOK(p) /\ HoldsOK(p) /\ CallsOK(p)

MoveInv ==
    /\ \A p \in Procs : RequestOK(p)
    /\ faults = 0 => LedgerInv

\* What p does to the stock: it moves some only for orders that have left, or
\* that it ships, and does not stop to ship one.
MovesRight(p) ==
    \A o \in Orders :
        row'[o].status \in Early /\ ledger'[o] # Nothing =>
            \/ p \notin Legacy /\ Shipping(p, o)'
            \/ /\ ledger'[o] = ledger[o]
               /\ ~(p \notin Legacy /\ Shipping(p, o))

\* A step of p, which keeps MoveInv if it keeps what concerns p.
GoodMove(p) ==
    /\ \A q \in Procs \ {p} : /\ pc'[q] = pc[q] /\ req'[q] = req[q]
                              /\ calls'[q] = calls[q]
    /\ RequestOK(p)'
    /\ faults' = 0 => faults = 0 /\ MovesRight(p)

\* A row does not come back from where it has left.
LEMMA LeftStays ==
    ASSUME NEW a \in Row, NEW b \in Row, Forward(a, b)
    PROVE  /\ a.status \notin Early => b.status \notin Early
           /\ a.status = "EXECUTED" => b.status = "EXECUTED"
  BY RankType DEF Forward, Row, Statuses, Live, Early

LEMMA OthersMove ==
    ASSUME LegacyInv, LegacyInv', NEW p \in Procs, GoodStep(p), GoodMove(p),
           NEW q \in Procs, q # p, RequestOK(q)
    PROVE  RequestOK(q)'
<1>1. /\ pc'[q] = pc[q] /\ req'[q] = req[q] /\ calls'[q] = calls[q]
      /\ q # NoProc /\ calls[q] \subseteq Call
  BY ConstantsAssumption
     DEF GoodMove, LegacyInv, RowsInv, LegacyTypeInv, TypeInv, TypeOK
<1>2. \A o \in Orders :
         /\ lock'[o] = q => lock[o] = q
         /\ lock[o] = q => lock'[o] = q /\ draft'[o] = draft[o] /\ row'[o] = row[o]
  BY <1>1 DEF GoodStep, Spares, Touches
<1>3. \A o \in Orders :
         /\ row[o].status \notin Early => row'[o].status \notin Early
         /\ row[o].status = "EXECUTED" => row'[o].status = "EXECUTED"
  <2>1. \A o \in Orders : row[o] \in Row /\ row'[o] \in Row /\ Forward(row[o], row'[o])
    BY DEF LegacyInv, RowsInv, LegacyTypeInv, TypeInv, TypeOK, GoodStep, RowsForward
  <2>2. QED
    BY <2>1, LeftStays
<1>4. CASE q \in Legacy
  <2>1. v1'[q] = v1[q]
    BY <1>4 DEF GoodStep, Spares
  <2>2. ReceiptOK(q)'
    BY <1>1, <1>2, <1>3, <1>4, <2>1 DEF RequestOK, ReceiptOK
  <2>3. QED
    BY <1>4, <2>2 DEF RequestOK
<1>5. CASE q \notin Legacy
  <2>1. ListOK(q)'
    BY <1>1, <1>5 DEF RequestOK, ListOK
  <2>2. HoldsOK(q)'
    BY <1>1, <1>2, <1>5 DEF RequestOK, HoldsOK
  <2>3. CallsOK(q)'
    <3>1. \A c \in calls[q] : c.ord \in Orders
      BY <1>1 DEF Call
    <3>2. \A c \in calls[q] : Ships(q, c) => Ships(q, c)'
      BY <1>1, <1>2, <3>1 DEF Ships, Current
    <3>3. QED
      BY <1>1, <1>3, <1>5, <3>1, <3>2 DEF RequestOK, CallsOK
  <2>4. QED
    BY <1>5, <2>1, <2>2, <2>3 DEF RequestOK
<1>6. QED
  BY <1>4, <1>5

LEMMA GoodMoveInv ==
    ASSUME LegacyInv, LegacyInv', MoveInv, NEW p \in Procs, GoodStep(p), GoodMove(p)
    PROVE  MoveInv'
<1>1. \A q \in Procs : RequestOK(q)'
  BY OthersMove DEF MoveInv, GoodMove
<1>2. ASSUME faults' = 0 PROVE LedgerInv'
  <2>1. LedgerInv /\ MovesRight(p)
    BY <1>2 DEF GoodMove, MoveInv
  <2> SUFFICES ASSUME NEW o \in Orders, row'[o].status \in Early, ledger'[o] # Nothing
               PROVE  \E q \in Procs \ Legacy : Shipping(q, o)'
    BY DEF LedgerInv
  <2>2. row[o].status \in Early
    <3>1. row[o] \in Row /\ row'[o] \in Row /\ Forward(row[o], row'[o])
      BY DEF LegacyInv, RowsInv, LegacyTypeInv, TypeInv, TypeOK, GoodStep, RowsForward
    <3>2. QED
      BY <3>1, LeftStays
  <2>3. CASE p \notin Legacy /\ Shipping(p, o)'
    BY <2>3
  <2>4. CASE ledger'[o] = ledger[o] /\ ~(p \notin Legacy /\ Shipping(p, o))
    <3>1. PICK q \in Procs \ Legacy : Shipping(q, o)
      BY <2>1, <2>2, <2>4 DEF LedgerInv
    <3>2. q # p /\ lock[o] = q /\ q # NoProc
      BY <2>4, <3>1, ConstantsAssumption DEF Shipping
    <3>3. lock'[o] = q /\ draft'[o] = draft[o]
      BY <3>2 DEF GoodStep, Spares, Touches
    <3>4. pc'[q] = pc[q] /\ req'[q] = req[q]
      BY <3>2 DEF GoodMove
    <3>5. Shipping(q, o)'
      BY <3>1, <3>3, <3>4 DEF Shipping
    <3>6. QED
      BY <3>5
  <2>5. QED
    BY <2>1, <2>3, <2>4 DEF MovesRight
<1>3. QED
  BY <1>1, <1>2 DEF MoveInv

\* The request goes on to its next order, if there is one.
LEMMA AdvanceMoves ==
    ASSUME TypeInv, NEW p \in Procs, pc[p] \in Busy, ListOK(p), NEW es, Advance(p, es)
    PROVE  /\ \A q \in Procs \ {p} : pc'[q] = pc[q] /\ req'[q] = req[q]
           /\ req'[p].op = req[p].op /\ req'[p].batch = req[p].batch
           /\ pc'[p] \in {"commit", "upsert", "update"}
           /\ ListOK(p)'
           /\ ~req[p].batch /\ HasSource(Current(p)) => pc'[p] = "commit"
<1> DEFINE s    == req[p].todo
           rest == Tail(s)
<1>1. s \in Seq(Orders) /\ s # <<>> /\ req[p] \in Request
  BY DEF TypeInv, TypeOK, BusyHasOrder, Request
<1>2. rest \in Seq(Orders) /\ Len(rest) = Len(s) - 1
      /\ \A i \in 1 .. Len(rest) : rest[i] = s[i + 1]
  BY <1>1
<1>3. Len(s) \in Nat \ {0}
  BY <1>1
<1>4. /\ req' = [req EXCEPT ![p].todo = rest]
      /\ pc' = [pc EXCEPT ![p] = IF rest = <<>> THEN "commit" ELSE StartOf(req[p].op)]
  BY DEF Advance
<1>5. /\ req'[p].todo = rest /\ req'[p].op = req[p].op /\ req'[p].batch = req[p].batch
      /\ \A q \in Procs \ {p} : req'[q] = req[q]
  <2> HIDE DEF rest
  <2>1. QED
    BY <1>1, <1>4 DEF TypeInv, TypeOK, Request
<1>6. /\ pc'[p] = IF rest = <<>> THEN "commit" ELSE StartOf(req[p].op)
      /\ \A q \in Procs \ {p} : pc'[q] = pc[q]
  BY <1>4 DEF TypeInv, TypeOK
<1>7. pc'[p] \in {"commit", "upsert", "update"}
  BY <1>6 DEF StartOf
<1>8. ASSUME ~req[p].batch
      PROVE  \A i \in 1 .. Len(s) - 1 : ~HasSource(s[i])
  BY <1>8 DEF ListOK
<1>9. ListOK(p)'
  <2> SUFFICES ASSUME ~req'[p].batch, NEW i \in 1 .. Len(rest) - 1
               PROVE  ~HasSource(rest[i])
    BY <1>5 DEF ListOK
  <2>1. i + 1 \in 1 .. Len(s) - 1 /\ rest[i] = s[i + 1]
    <3> HIDE DEF s, rest
    <3>1. QED
      BY <1>2, <1>3
  <2>2. QED
    BY <1>5, <1>8, <2>1
<1>10. ASSUME ~req[p].batch, HasSource(Current(p))
       PROVE  pc'[p] = "commit"
  <2>1. Current(p) = s[1]
    BY <1>1 DEF Current
  <2>2. ~(1 \in 1 .. Len(s) - 1)
    BY <1>8, <1>10, <2>1
  <2>3. Len(rest) = 0
    <3> HIDE DEF s, rest
    <3>1. QED
      BY <1>2, <1>3, <2>2
  <2>4. rest = <<>>
    <3> HIDE DEF s, rest
    <3>1. QED
      BY <1>2, <2>3, EmptySeq
  <2>5. QED
    BY <1>6, <2>4
<1>11. QED
  BY <1>5, <1>6, <1>7, <1>9, <1>10

\* What is known of a request of the state machine.
LEMMA OwnFacts ==
    ASSUME LegacyInv, MoveInv, NEW p \in Procs \ Legacy
    PROVE  /\ TypeInv /\ ListOK(p) /\ HoldsOK(p) /\ CallsOK(p)
           /\ p # NoProc /\ pc[p] \in PCs /\ req[p] \in Request /\ calls[p] \subseteq Call
           /\ faults \in 0 .. MaxFaults
  BY ConstantsAssumption
     DEF LegacyInv, RowsInv, LegacyTypeInv, MoveInv, RequestOK, TypeInv, TypeOK

\* Undone, a request has nothing at stake.
LEMMA UndoneOK ==
    ASSUME TypeInv, NEW p \in Procs, Rollback(p)
    PROVE  /\ \A q \in Procs \ {p} : /\ pc'[q] = pc[q] /\ req'[q] = req[q]
                                     /\ calls'[q] = calls[q]
           /\ pc'[p] = "idle"
           /\ \A o \in Orders : lock'[o] # p
           /\ p \notin Legacy => RequestOK(p)'
<1>1. /\ pc' = [pc EXCEPT ![p] = "idle"]
      /\ req' = [req EXCEPT ![p] = NoRequest]
      /\ calls' = [calls EXCEPT ![p] = {}]
  BY DEF Rollback
<1>2. pc'[p] = "idle" /\ req'[p] = NoRequest /\ calls'[p] = {}
      /\ \A q \in Procs \ {p} : pc'[q] = pc[q] /\ req'[q] = req[q] /\ calls'[q] = calls[q]
  BY <1>1 DEF TypeInv, TypeOK
<1>3. \A o \in Orders : lock'[o] # p
  BY ConstantsAssumption DEF Rollback
<1>4. req'[p].todo = <<>>
  BY <1>2 DEF NoRequest
<1>5. ListOK(p)'
  BY <1>4 DEF ListOK
<1>6. HoldsOK(p)' /\ CallsOK(p)'
  BY <1>2, <1>3 DEF HoldsOK, CallsOK
<1>7. QED
  BY <1>2, <1>3, <1>5, <1>6 DEF RequestOK

\* A request that is undone gives up no order that it was about to ship.
LEMMA UndoneMoves ==
    ASSUME LegacyInv, MoveInv, NEW p \in Procs \ Legacy, Rollback(p), ledger' = ledger,
           faults' = 0 => faults = 0,
           faults' = 0 => \A o \in Orders :
              row[o].status \in Early /\ ledger[o] # Nothing => ~Shipping(p, o)
    PROVE  GoodMove(p)
<1>1. TypeInv
  BY OwnFacts
<1>2. row' = row
  BY DEF Rollback
<1>3. faults' = 0 => MovesRight(p)
  BY <1>2 DEF MovesRight
<1>4. QED
  BY <1>1, <1>3, UndoneOK DEF GoodMove

\* A step that leaves the stock alone and keeps what p is about to ship.
LEMMA KeepsShipping ==
    ASSUME NEW p \in Procs \ Legacy, UNCHANGED <<ledger, faults>>,
           \A q \in Procs \ {p} : /\ pc'[q] = pc[q] /\ req'[q] = req[q]
                                  /\ calls'[q] = calls[q],
           ListOK(p)', HoldsOK(p)', CallsOK(p)',
           \A o \in Orders :
              row'[o].status \in Early /\ Shipping(p, o) => Shipping(p, o)'
    PROVE  GoodMove(p)
  BY DEF GoodMove, RequestOK, MovesRight

-----------------------------------------------------------------------------
(* The requests of the state machine and the stock they move *)

\* What is asked of the list of a request as it starts.
ShortList(r) ==
    ~r.batch => \A i \in 1 .. Len(r.todo) - 1 : ~HasSource(r.todo[i])

LEMMA StartMoves ==
    ASSUME LegacyInv, MoveInv, NEW p \in Procs \ Legacy, NEW r, ShortList(r), Start(p, r)
    PROVE  GoodMove(p)
<1>1. TypeInv /\ HoldsOK(p) /\ p # NoProc
  BY OwnFacts
<1>2. /\ \A q \in Procs \ {p} : /\ pc'[q] = pc[q] /\ req'[q] = req[q]
                                /\ calls'[q] = calls[q]
      /\ req'[p] = r /\ pc'[p] \in {"upsert", "update"}
      /\ UNCHANGED <<row, draft, lock, ledger, faults>>
  BY <1>1 DEF Start, StartOf, TypeInv, TypeOK, dbVars
<1>3. \A o \in Orders : lock[o] # p
  BY <1>1 DEF HoldsOK, Start
<1>4. ListOK(p)'
  BY <1>2 DEF ListOK, ShortList
<1>5. HoldsOK(p)' /\ CallsOK(p)'
  BY <1>2, <1>3 DEF HoldsOK, CallsOK
<1>6. \A o \in Orders : ~Shipping(p, o)
  BY <1>3 DEF Shipping
<1>7. QED
  BY <1>2, <1>4, <1>5, <1>6, KeepsShipping

LEMMA RequestsMove ==
    ASSUME LegacyInv, MoveInv, NEW p \in Procs \ Legacy,
           SingleRequest(p) \/ BatchRequest(p)
    PROVE  GoodMove(p)
<1>1. ASSUME SingleRequest(p)
      PROVE  \E r : ShortList(r) /\ Start(p, r)
  <2>1. PICK op \in Ops, who \in Clients, o \in Orders, ss \in SUBSET Sides, q \in Nat :
           Start(p, [op |-> op, who |-> who, todo |-> <<o>>,
                     batch |-> FALSE, sides |-> ss, qty |-> q])
    <3>1. \A op \in Ops, who \in Clients, o \in Orders :
             SideChoices(op, who, o) \subseteq SUBSET Sides /\ QtyChoices(op) \subseteq Nat
      BY ConstantsAssumption DEF SideChoices, QtyChoices, InferSide, Sides
    <3>2. QED
      BY <1>1, <3>1 DEF SingleRequest
  <2> DEFINE r == [op |-> op, who |-> who, todo |-> <<o>>,
                   batch |-> FALSE, sides |-> ss, qty |-> q]
  <2>2. r.todo = <<o>>
    OBVIOUS
  <2>3. Start(p, r)
    BY <2>1
  <2> HIDE DEF r
  <2>4. ShortList(r)
    BY <2>2 DEF ShortList
  <2>5. QED
    BY <2>3, <2>4
<1>2. ASSUME BatchRequest(p)
      PROVE  \E r : ShortList(r) /\ Start(p, r)
  <2>1. PICK op \in Ops, b \in Batches :
           Start(p, [op |-> op, who |-> "hq", todo |-> b, batch |-> TRUE,
                     sides |-> {}, qty |-> 0])
    BY <1>2 DEF BatchRequest
  <2> DEFINE r == [op |-> op, who |-> "hq", todo |-> b, batch |-> TRUE,
                   sides |-> {}, qty |-> 0]
  <2>2. r.todo = b /\ r.batch
    OBVIOUS
  <2>3. Start(p, r)
    BY <2>1
  <2> HIDE DEF r
  <2>4. ShortList(r)
    BY <2>2 DEF ShortList
  <2>5. QED
    BY <2>3, <2>4
<1>3. QED
  BY <1>1, <1>2, StartMoves

LEMMA UpsertMoves ==
    ASSUME LegacyInv, MoveInv, NEW p \in Procs \ Legacy, UpsertApprovals(p)
    PROVE  GoodMove(p)
<1>1. TypeInv /\ ListOK(p) /\ HoldsOK(p)
  BY OwnFacts
<1>2. /\ \A q \in Procs \ {p} : pc'[q] = pc[q]
      /\ pc[p] = "upsert" /\ pc'[p] = "update"
      /\ UNCHANGED <<row, draft, lock, ledger, req, calls, faults>>
  BY <1>1 DEF UpsertApprovals, TypeInv, TypeOK
<1>3. ListOK(p)' /\ HoldsOK(p)' /\ CallsOK(p)'
  BY <1>1, <1>2 DEF ListOK, HoldsOK, CallsOK
<1>4. \A o \in Orders : Shipping(p, o) => Shipping(p, o)'
  BY <1>2 DEF Shipping
<1>5. QED
  BY <1>2, <1>3, <1>4, KeepsShipping

\* What a request is after a step that ends its current order.
LEMMA EndsOK ==
    ASSUME LegacyInv, MoveInv, NEW p \in Procs \ Legacy, pc[p] \in Busy,
           NEW es, Advance(p, es), row' = row,
           \A o \in Orders : lock'[o] = p /\ row[o].status \in Early
                             /\ draft'[o].status \in {"IN_TRANSIT", "EXECUTED"} =>
               req[p].op \in {"approve", "dispatch"}
    PROVE  /\ \A q \in Procs \ {p} : pc'[q] = pc[q] /\ req'[q] = req[q]
           /\ RequestOK(p)'
           /\ \A o \in Orders :
                 Shipping(p, o) /\ lock'[o] = p /\ draft'[o].status = "IN_TRANSIT" =>
                    Shipping(p, o)'
<1>1. TypeInv /\ ListOK(p) /\ HoldsOK(p)
  BY OwnFacts
<1>2. /\ \A q \in Procs \ {p} : pc'[q] = pc[q] /\ req'[q] = req[q]
      /\ req'[p].op = req[p].op /\ req'[p].batch = req[p].batch
      /\ pc'[p] \in {"commit", "upsert", "update"}
      /\ ListOK(p)'
  BY <1>1, AdvanceMoves
<1>3. HoldsOK(p)'
  BY <1>2 DEF HoldsOK
<1>4. CallsOK(p)'
  BY <1>2 DEF CallsOK
<1>5. ASSUME NEW o \in Orders, Shipping(p, o), lock'[o] = p,
             draft'[o].status = "IN_TRANSIT"
      PROVE  Shipping(p, o)'
  <2>1. req[p].op = "dispatch" /\ req[p].batch
    BY <1>5 DEF Shipping, Busy
  <2>2. QED
    BY <1>2, <1>5, <2>1 DEF Shipping
<1>6. RequestOK(p)'
  BY <1>2, <1>3, <1>4 DEF RequestOK
<1>7. QED
  BY <1>2, <1>5, <1>6

\* A step that ends the current order and moves no stock.
LEMMA EndsOrder ==
    ASSUME LegacyInv, MoveInv, NEW p \in Procs \ Legacy, pc[p] \in Busy,
           NEW es, Advance(p, es), UNCHANGED <<row, ledger, faults>>,
           \A q \in Procs \ {p} : calls'[q] = calls[q],
           \A o \in Orders : lock'[o] = p /\ row[o].status \in Early
                             /\ draft'[o].status \in {"IN_TRANSIT", "EXECUTED"} =>
               req[p].op \in {"approve", "dispatch"},
           \A o \in Orders : Shipping(p, o) =>
               lock'[o] = p /\ draft'[o].status = "IN_TRANSIT"
    PROVE  GoodMove(p)
<1>1. /\ \A q \in Procs \ {p} : pc'[q] = pc[q] /\ req'[q] = req[q]
      /\ RequestOK(p)'
      /\ \A o \in Orders : Shipping(p, o) => Shipping(p, o)'
  BY EndsOK
<1>2. QED
  BY <1>1, KeepsShipping DEF RequestOK

LEMMA ApprovesMoves ==
    ASSUME LegacyInv, MoveInv, NEW p \in Procs \ Legacy,
           ToApproved(p) \/ ApprovedOneSide(p)
    PROVE  GoodMove(p)
<1>1. /\ pc[p] \in Busy /\ req[p].op = "approve"
      /\ UNCHANGED <<row, ledger, faults, calls>>
  BY DEF ToApproved, ApprovedOneSide, Updating, Busy, dbVars
<1>2. \E es : Advance(p, es)
  BY DEF ToApproved, ApprovedOneSide
<1>3. \A o \in Orders : ~Shipping(p, o)
  BY <1>1 DEF Shipping
<1>4. QED
  BY <1>1, <1>2, <1>3, EndsOrder

\* A version that p sees on its way is no early row's, unless p dispatches.
LEMMA SeesLeft ==
    ASSUME LegacyInv, MoveInv, NEW p \in Procs \ Legacy, NEW o \in Orders,
           Sees(p, o).status \in {"IN_TRANSIT", "EXECUTED"},
           req[p].op \notin {"approve", "dispatch"}
    PROVE  row[o].status \notin Early
<1>1. HoldsOK(p)
  BY OwnFacts
<1>2. QED
  BY <1>1 DEF HoldsOK, Sees, Early

LEMMA ToInTransitMoves ==
    ASSUME LegacyInv, MoveInv, NEW p \in Procs \ Legacy, ToInTransit(p)
    PROVE  GoodMove(p)
<1> DEFINE o == Current(p)
           r == Sees(p, o)
           w == [r EXCEPT !.status = "IN_TRANSIT", !.dispatched = TRUE]
           c == [ord |-> o, end |-> "src", delta |-> -r.qty]
<1>1. TypeInv /\ ListOK(p) /\ HoldsOK(p)
  BY OwnFacts
<1>2. pc[p] = "update" /\ req[p].op = "dispatch" /\ o \in Orders /\ r \in Row
  BY <1>1, CurrentType, VersionType DEF ToInTransit, Updating, Busy
<1>3. /\ Write(p, o, w)
      /\ UNCHANGED <<row, ledger, faults>>
      /\ IF HasSource(o)
         THEN /\ calls' = [calls EXCEPT ![p] = {c}]
              /\ pc' = [pc EXCEPT ![p] = "adjust"]
              /\ UNCHANGED <<req, outbox>>
         ELSE Advance(p, {<<o, "OrderDispatched">>}) /\ UNCHANGED calls
  BY DEF ToInTransit
<1>4. w.status = "IN_TRANSIT"
  BY <1>2 DEF Row
<1>5. PICK k : k = c /\ k.ord = o
  <2>1. c.ord = o
    OBVIOUS
  <2> HIDE DEF c
  <2>2. QED
    BY <2>1
<1> HIDE DEF w, c
<1>6. \A x \in Orders : /\ draft'[x] = IF x = o THEN w ELSE draft[x]
                        /\ lock'[x] = IF x = o THEN p ELSE lock[x]
  BY <1>1, <1>2, <1>3 DEF Write, TypeInv, TypeOK
<1> HIDE DEF r
<1>7. ASSUME NEW x \in Orders, Shipping(p, x)
      PROVE  lock'[x] = p /\ draft'[x].status = "IN_TRANSIT"
  BY <1>4, <1>6, <1>7 DEF Shipping
<1>8. CASE HasSource(o)
  <2>1. /\ \A q \in Procs \ {p} : pc'[q] = pc[q] /\ req'[q] = req[q]
                                  /\ calls'[q] = calls[q]
        /\ pc'[p] = "adjust" /\ req' = req /\ calls'[p] = {k}
    BY <1>1, <1>3, <1>5, <1>8 DEF TypeInv, TypeOK
  <2>2. ListOK(p)' /\ HoldsOK(p)'
    BY <1>1, <1>2, <2>1 DEF ListOK, HoldsOK
  <2>3. Ships(p, k)'
    <3>1. lock'[o] = p /\ draft'[o].status = "IN_TRANSIT"
      BY <1>2, <1>4, <1>6
    <3>2. Current(p)' = o
      BY <2>1 DEF Current
    <3>3. QED
      BY <1>2, <1>5, <1>8, <2>1, <3>1, <3>2 DEF Ships, HasSource
  <2>4. CallsOK(p)'
    BY <2>1, <2>3 DEF CallsOK
  <2>5. \A x \in Orders : Shipping(p, x) => Shipping(p, x)'
    BY <1>2, <1>7, <2>1 DEF Shipping
  <2>6. QED
    BY <1>3, <2>1, <2>2, <2>4, <2>5, KeepsShipping
<1>9. CASE ~HasSource(o)
  <2>1. Advance(p, {<<o, "OrderDispatched">>}) /\ UNCHANGED calls
    BY <1>3, <1>9
  <2>2. QED
    BY <1>2, <1>3, <1>7, <2>1, EndsOrder DEF Busy
<1>10. QED
  BY <1>8, <1>9

LEMMA ToExecutedMoves ==
    ASSUME LegacyInv, MoveInv, NEW p \in Procs \ Legacy, ToExecuted(p)
    PROVE  GoodMove(p)
<1> DEFINE o == Current(p)
           r == Sees(p, o)
           w == [r EXCEPT !.status = "EXECUTED", !.executed = TRUE]
           c == [ord |-> o, end |-> "tgt", delta |-> r.qty]
<1>1. TypeInv /\ ListOK(p) /\ HoldsOK(p)
  BY OwnFacts
<1>2. pc[p] = "update" /\ req[p].op = "receive" /\ o \in Orders /\ r \in Row
      /\ r.status = "IN_TRANSIT"
  BY <1>1, CurrentType, VersionType DEF ToExecuted, Updating, Busy, Matches, From
<1>3. row[o].status \notin Early
  BY <1>2, SeesLeft
<1>4. /\ Write(p, o, w)
      /\ UNCHANGED <<row, ledger, faults>>
      /\ calls' = [calls EXCEPT ![p] = {c}]
      /\ pc' = [pc EXCEPT ![p] = "adjust"]
      /\ UNCHANGED <<req, outbox>>
  BY DEF ToExecuted
<1>5. c.ord = o
  OBVIOUS
<1> HIDE DEF w, c, r
<1>6. \A x \in Orders : /\ draft'[x] = IF x = o THEN w ELSE draft[x]
                        /\ lock'[x] = IF x = o THEN p ELSE lock[x]
  BY <1>1, <1>2, <1>4 DEF Write, TypeInv, TypeOK
<1>7. /\ \A q \in Procs \ {p} : pc'[q] = pc[q] /\ req'[q] = req[q]
                                /\ calls'[q] = calls[q]
      /\ pc'[p] = "adjust" /\ req' = req /\ calls'[p] = {c}
  BY <1>1, <1>4 DEF TypeInv, TypeOK
<1>8. ListOK(p)'
  BY <1>1, <1>7 DEF ListOK
<1>9. HoldsOK(p)'
  BY <1>1, <1>2, <1>3, <1>4, <1>6, <1>7 DEF HoldsOK
<1>10. CallsOK(p)'
  BY <1>3, <1>4, <1>5, <1>7 DEF CallsOK
<1>11. \A x \in Orders : ~Shipping(p, x)
  BY <1>2 DEF Shipping
<1>12. QED
  BY <1>4, <1>7, <1>8, <1>9, <1>10, <1>11, KeepsShipping

\* What is put back is of orders that have left.
LEMMA RestoresLeft ==
    ASSUME LegacyInv, MoveInv, NEW p \in Procs \ Legacy, NEW o \in Orders,
           req[p].op = "reject", NEW c \in Restore(o, Sees(p, o))
    PROVE  c.ord = o /\ row[o].status \notin Early
<1>1. c.ord = o /\ Sees(p, o).status = "IN_TRANSIT"
  BY DEF Restore
<1>2. QED
  BY <1>1, SeesLeft

\* A rejection goes on to calls, to the chained orders, or to the end.
LEMMA RejectsMoves ==
    ASSUME LegacyInv, MoveInv, NEW p \in Procs \ Legacy, pc[p] \in Busy,
           req[p].op = "reject", UNCHANGED <<row, ledger, faults>>,
           NEW cs, calls' = [calls EXCEPT ![p] = cs],
           \A c \in cs : row[c.ord].status \notin Early,
           \A o \in Orders : lock'[o] = p =>
               draft'[o].status = "REJECTED" \/ (lock[o] = p /\ draft'[o] = draft[o]),
           \/ /\ pc'[p] \in {"adjust", "restore", "cascade"}
              /\ \A q \in Procs \ {p} : pc'[q] = pc[q]
              /\ UNCHANGED req
           \/ \E es : Advance(p, es)
    PROVE  GoodMove(p)
<1>1. TypeInv /\ ListOK(p) /\ HoldsOK(p)
  BY OwnFacts
<1>2. calls'[p] = cs /\ \A q \in Procs \ {p} : calls'[q] = calls[q]
  BY <1>1 DEF TypeInv, TypeOK
<1>3. \A o \in Orders : ~Shipping(p, o)
  BY DEF Shipping
<1>4. ASSUME NEW o \in Orders, lock'[o] = p, row[o].status \in Early
      PROVE  draft'[o].status \notin {"IN_TRANSIT", "EXECUTED"}
  BY <1>1, <1>4 DEF HoldsOK
<1>5. CASE \E es : Advance(p, es)
  BY <1>2, <1>3, <1>4, <1>5, EndsOrder
<1>6. CASE /\ pc'[p] \in {"adjust", "restore", "cascade"}
           /\ \A q \in Procs \ {p} : pc'[q] = pc[q]
           /\ UNCHANGED req
  <2>1. ListOK(p)' /\ HoldsOK(p)' /\ CallsOK(p)'
    BY <1>1, <1>2, <1>4, <1>6 DEF ListOK, HoldsOK, CallsOK
  <2>2. QED
    BY <1>2, <1>3, <1>6, <2>1, KeepsShipping
<1>7. QED
  BY <1>5, <1>6

LEMMA ToRejectedMoves ==
    ASSUME LegacyInv, MoveInv, NEW p \in Procs \ Legacy, ToRejected(p)
    PROVE  GoodMove(p)
<1> DEFINE o == Current(p)
           w == Rejected(Sees(p, o))
           cs == Restore(o, Sees(p, o))
<1>1. TypeInv
  BY OwnFacts
<1>2. pc[p] = "update" /\ req[p].op = "reject" /\ o \in Orders /\ Sees(p, o) \in Row
  BY <1>1, CurrentType, VersionType DEF ToRejected, Updating, Busy
<1>3. /\ Write(p, o, w)
      /\ UNCHANGED <<row, ledger, faults>>
      /\ calls' = [calls EXCEPT ![p] = cs]
      /\ \/ pc' = [pc EXCEPT ![p] = "adjust"] /\ UNCHANGED req
         \/ pc' = [pc EXCEPT ![p] = "cascade"] /\ UNCHANGED req
         \/ Advance(p, {<<o, "OrderRejected">>})
  BY DEF ToRejected
<1>4. w.status = "REJECTED"
  BY <1>2 DEF Rejected, Row
<1>5. \A c \in cs : row[c.ord].status \notin Early
  BY <1>2, RestoresLeft
<1> HIDE DEF w, cs
<1>6. \A x \in Orders : /\ draft'[x] = IF x = o THEN w ELSE draft[x]
                        /\ lock'[x] = IF x = o THEN p ELSE lock[x]
  BY <1>1, <1>2, <1>3 DEF Write, TypeInv, TypeOK
<1>7. \A x \in Orders : lock'[x] = p =>
         draft'[x].status = "REJECTED" \/ (lock[x] = p /\ draft'[x] = draft[x])
  BY <1>4, <1>6
<1>8. \/ /\ pc'[p] \in {"adjust", "restore", "cascade"}
         /\ \A q \in Procs \ {p} : pc'[q] = pc[q]
         /\ UNCHANGED req
      \/ \E es : Advance(p, es)
  BY <1>1, <1>3 DEF TypeInv, TypeOK
<1>9. pc[p] \in Busy
  BY <1>2 DEF Busy
<1>10. QED
  BY <1>2, <1>3, <1>5, <1>7, <1>8, <1>9, RejectsMoves

LEMMA CancelMoves ==
    ASSUME LegacyInv, MoveInv, NEW p \in Procs \ Legacy, CancelChained(p)
    PROVE  GoodMove(p)
<1> DEFINE o  == Current(p)
           ks == {c \in Children(o) : Sees(p, c).status \in Live}
           cs == UNION {Restore(c, Sees(p, c)) : c \in ks}
<1>1. TypeInv /\ HoldsOK(p)
  BY OwnFacts
<1>2. pc[p] = "cascade" /\ req[p].op = "reject"
  BY <1>1 DEF CancelChained, HoldsOK
<1>3. \A c \in ks : c \in Orders /\ Sees(p, c) \in Row /\ Rejected(Sees(p, c)).status = "REJECTED"
  <2>1. \A c \in ks : c \in Orders /\ Sees(p, c) \in Row
    BY <1>1, VersionType DEF Children
  <2>2. QED
    BY <2>1 DEF Rejected, Row
<1>4. /\ draft' = [c \in Orders |-> IF c \in ks THEN Rejected(Sees(p, c)) ELSE draft[c]]
      /\ lock' = [c \in Orders |-> IF c \in ks THEN p ELSE lock[c]]
      /\ calls' = [calls EXCEPT ![p] = cs]
      /\ UNCHANGED <<row, ledger, faults>>
      /\ \/ pc' = [pc EXCEPT ![p] = "restore"] /\ UNCHANGED req
         \/ Advance(p, {<<o, "OrderRejected">>})
  BY DEF CancelChained
<1>5. \A c \in cs : row[c.ord].status \notin Early
  BY <1>2, <1>3, RestoresLeft
<1>6. \A x \in Orders : lock'[x] = p =>
         draft'[x].status = "REJECTED" \/ (lock[x] = p /\ draft'[x] = draft[x])
  BY <1>3, <1>4
<1> HIDE DEF ks, cs
<1>7. \/ /\ pc'[p] \in {"adjust", "restore", "cascade"}
         /\ \A q \in Procs \ {p} : pc'[q] = pc[q]
         /\ UNCHANGED req
      \/ \E es : Advance(p, es)
  BY <1>1, <1>4 DEF TypeInv, TypeOK
<1>8. pc[p] \in Busy
  BY <1>2 DEF Busy
<1>9. QED
  BY <1>2, <1>4, <1>5, <1>6, <1>7, <1>8, RejectsMoves

LEMMA PatchMoves ==
    ASSUME LegacyInv, MoveInv, NEW p \in Procs \ Legacy, PatchOrder(p)
    PROVE  GoodMove(p)
<1> DEFINE o == Current(p)
           w == [Sees(p, o) EXCEPT !.qty = req[p].qty]
<1>1. TypeInv /\ HoldsOK(p)
  BY OwnFacts
<1>2. pc[p] = "update" /\ req[p].op = "patch" /\ o \in Orders /\ Sees(p, o) \in Row
      /\ Sees(p, o).status \in {"PENDING", "APPROVED"}
  BY <1>1, CurrentType, VersionType DEF PatchOrder, Updating, Busy, Matches, From
<1>3. w.status \in {"PENDING", "APPROVED"}
  BY <1>2 DEF Row
<1>4. /\ Write(p, o, w)
      /\ UNCHANGED <<row, ledger, faults, calls>>
      /\ Advance(p, {})
  BY DEF PatchOrder
<1> HIDE DEF w
<1>5. \A x \in Orders : /\ draft'[x] = IF x = o THEN w ELSE draft[x]
                        /\ lock'[x] = IF x = o THEN p ELSE lock[x]
  BY <1>1, <1>2, <1>4 DEF Write, TypeInv, TypeOK
<1>6. \A x \in Orders : lock'[x] = p /\ row[x].status \in Early
                        /\ draft'[x].status \in {"IN_TRANSIT", "EXECUTED"} =>
                            req[p].op \in {"approve", "dispatch"}
  BY <1>1, <1>3, <1>5 DEF HoldsOK
<1>7. \A x \in Orders : ~Shipping(p, x)
  BY <1>2 DEF Shipping
<1>8. QED
  BY <1>2, <1>4, <1>6, <1>7, EndsOrder DEF Busy

LEMMA ConflictMoves ==
    ASSUME LegacyInv, MoveInv, NEW p \in Procs \ Legacy, Conflict(p)
    PROVE  GoodMove(p)
<1>1. TypeInv /\ HoldsOK(p)
  BY OwnFacts
<1>2. pc[p] = "update" /\ Fail(p) /\ UNCHANGED <<ledger, faults>>
  BY DEF Conflict
<1>3. CASE ~req[p].batch /\ Rollback(p)
  <2>1. \A o \in Orders : ~Shipping(p, o)
    BY <1>2, <1>3 DEF Shipping
  <2>2. QED
    BY <1>2, <1>3, <2>1, UndoneMoves
<1>4. CASE /\ req[p].batch
           /\ Advance(p, {})
           /\ calls' = [calls EXCEPT ![p] = {}]
           /\ UNCHANGED <<row, draft, lock, sides, mine, published>>
  <2>1. \A q \in Procs \ {p} : calls'[q] = calls[q]
    BY <1>1, <1>4 DEF TypeInv, TypeOK
  <2>2. pc[p] \in Busy
    BY <1>2 DEF Busy
  <2>3. \A o \in Orders : lock'[o] = p /\ row[o].status \in Early
                          /\ draft'[o].status \in {"IN_TRANSIT", "EXECUTED"} =>
                              req[p].op \in {"approve", "dispatch"}
    BY <1>1, <1>4 DEF HoldsOK
  <2>4. \A o \in Orders : Shipping(p, o) => lock'[o] = p /\ draft'[o].status = "IN_TRANSIT"
    BY <1>4 DEF Shipping
  <2>5. QED
    BY <1>2, <1>4, <2>1, <2>2, <2>3, <2>4, EndsOrder
<1>5. QED
  BY <1>2, <1>3, <1>4 DEF Fail

\* The step of a call c that is answered a, and b if it is repeated.
Calls(p, c, a, b) ==
    LET res  == CallResult(a, b)
        rest == calls[p] \ {c}
    IN  /\ c \in calls[p]
        /\ pc[p] \in {"adjust", "restore"}
        /\ faults' = faults + Disturbed(a)
        /\ ledger' = [ledger EXCEPT ![c.ord][c.end] = @ + res.times * c.delta]
        /\ IF ~res.ok THEN Fail(p)
           ELSE /\ calls' = [calls EXCEPT ![p] = rest]
                /\ \/ rest # {} /\ UNCHANGED <<pc, req>>
                   \/ /\ rest = {} /\ req[p].op = "reject"
                      /\ pc' = [pc EXCEPT ![p] = "cascade"]
                      /\ UNCHANGED req
                   \/ rest = {} /\ \E es : Advance(p, es)
                /\ UNCHANGED dbVars

\* Without a disturbance, a call that fails was not applied.
LEMMA CallLedger ==
    ASSUME LegacyInv, MoveInv, NEW p \in Procs \ Legacy, NEW c, NEW a, NEW b, Calls(p, c, a, b)
    PROVE  /\ \A o \in Orders : o # c.ord => ledger'[o] = ledger[o]
           /\ faults' = 0 => faults = 0
           /\ faults' = 0 /\ ~CallResult(a, b).ok => ledger' = ledger
<1>1. /\ calls[p] \subseteq Call /\ faults \in 0 .. MaxFaults
      /\ ledger \in [Orders -> [src : Int, tgt : Int]]
  BY OwnFacts DEF TypeInv, TypeOK
<1>2. c \in Call
  BY <1>1 DEF Calls
<1>3. c.ord \in Orders /\ c.end \in {"src", "tgt"} /\ c.delta \in Int
  BY <1>2 DEF Call, Ends
<1> DEFINE t == CallResult(a, b).times
<1>4. ledger' = [ledger EXCEPT ![c.ord][c.end] = @ + t * c.delta]
      /\ faults' = faults + Disturbed(a)
  BY DEF Calls
<1>5. \A o \in Orders : o # c.ord => ledger'[o] = ledger[o]
  BY <1>1, <1>4
<1>6. faults' = 0 => faults = 0 /\ Disturbed(a) = 0
  <2>1. faults \in Nat /\ Disturbed(a) \in Nat
    BY <1>1, ConstantsAssumption DEF Disturbed
  <2>2. QED
    BY <1>4, <2>1
<1>7. ASSUME faults' = 0, ~CallResult(a, b).ok
      PROVE  ledger' = ledger
  <2>1. a \in {"ok", "refused"}
    BY <1>6, <1>7 DEF Disturbed
  <2>2. a # "ok"
    BY <1>7 DEF CallResult
  <2>3. t = 0
    BY <2>1, <2>2 DEF CallResult, Applied
  <2> HIDE DEF t
  <2>4. t * c.delta = 0
    BY <1>3, <2>3
  <2>5. ledger[c.ord] \in [src : Int, tgt : Int]
    BY <1>1, <1>3
  <2>6. ledger[c.ord][c.end] \in Int
    BY <1>3, <2>5
  <2>7. ledger[c.ord][c.end] + t * c.delta = ledger[c.ord][c.end]
    BY <2>4, <2>6
  <2>8. ledger' = [ledger EXCEPT ![c.ord] = [ledger[c.ord] EXCEPT ![c.end] = ledger[c.ord][c.end]]]
    BY <1>4, <2>7
  <2>9. [ledger[c.ord] EXCEPT ![c.end] = ledger[c.ord][c.end]] = ledger[c.ord]
    BY <2>5
  <2>10. QED
    BY <1>1, <2>8, <2>9
<1>8. QED
  BY <1>5, <1>6, <1>7

\* Once answered, a call goes on with the request in one of three ways.
LEMMA AnsweredOK ==
    ASSUME LegacyInv, MoveInv, NEW p \in Procs \ Legacy, NEW c, NEW a, NEW b,
           Calls(p, c, a, b), CallResult(a, b).ok
    PROVE  /\ \A q \in Procs \ {p} : /\ pc'[q] = pc[q] /\ req'[q] = req[q]
                                     /\ calls'[q] = calls[q]
           /\ RequestOK(p)'
           /\ UNCHANGED <<row, draft, lock>>
           /\ \A o \in Orders : Shipping(p, o) => Shipping(p, o)'
           /\ row[c.ord].status \in Early => Shipping(p, c.ord)'
<1> DEFINE rest == calls[p] \ {c}
<1>1. TypeInv /\ ListOK(p) /\ HoldsOK(p) /\ CallsOK(p) /\ calls[p] \subseteq Call
  BY OwnFacts
<1>2. /\ c \in calls[p]
      /\ pc[p] \in {"adjust", "restore"}
      /\ calls' = [calls EXCEPT ![p] = rest]
      /\ UNCHANGED <<row, draft, lock>>
      /\ \/ rest # {} /\ UNCHANGED <<pc, req>>
         \/ /\ rest = {} /\ req[p].op = "reject"
            /\ pc' = [pc EXCEPT ![p] = "cascade"]
            /\ UNCHANGED req
         \/ rest = {} /\ \E es : Advance(p, es)
  BY DEF Calls, dbVars
<1>3. calls'[p] = rest /\ \A q \in Procs \ {p} : calls'[q] = calls[q]
  BY <1>1, <1>2 DEF TypeInv, TypeOK
<1>4. row[c.ord].status \notin Early \/ Ships(p, c)
  BY <1>1, <1>2 DEF CallsOK
<1>5. \A d \in calls[p] : Ships(p, d) => rest = {}
  BY <1>2 DEF Ships
<1> HIDE DEF rest
<1>6. CASE rest # {} /\ UNCHANGED <<pc, req>>
  <2>1. \A d \in rest : row[d.ord].status \notin Early
    BY <1>1, <1>2, <1>5, <1>6 DEF CallsOK, rest
  <2>2. ListOK(p)' /\ HoldsOK(p)' /\ CallsOK(p)'
    BY <1>1, <1>2, <1>3, <1>6, <2>1 DEF ListOK, HoldsOK, CallsOK
  <2>3. \A o \in Orders : Shipping(p, o) => Shipping(p, o)'
    BY <1>2, <1>6 DEF Shipping
  <2>4. row[c.ord].status \notin Early
    BY <1>2, <1>4, <1>5, <1>6
  <2>5. QED
    BY <1>2, <1>3, <1>6, <2>2, <2>3, <2>4 DEF RequestOK
<1>7. CASE /\ rest = {} /\ req[p].op = "reject"
           /\ pc' = [pc EXCEPT ![p] = "cascade"]
           /\ UNCHANGED req
  <2>1. pc'[p] = "cascade" /\ \A q \in Procs \ {p} : pc'[q] = pc[q]
    BY <1>1, <1>7 DEF TypeInv, TypeOK
  <2>2. ListOK(p)' /\ HoldsOK(p)' /\ CallsOK(p)'
    BY <1>1, <1>2, <1>3, <1>7, <2>1 DEF ListOK, HoldsOK, CallsOK
  <2>3. \A o \in Orders : ~Shipping(p, o)
    BY <1>7 DEF Shipping
  <2>4. row[c.ord].status \notin Early
    BY <1>4, <1>7 DEF Ships
  <2>5. QED
    BY <1>2, <1>3, <1>7, <2>1, <2>2, <2>3, <2>4 DEF RequestOK
<1>8. CASE rest = {} /\ \E es : Advance(p, es)
  <2>1. pc[p] \in Busy
    BY <1>2 DEF Busy
  <2>2. \A o \in Orders : lock'[o] = p /\ row[o].status \in Early
                          /\ draft'[o].status \in {"IN_TRANSIT", "EXECUTED"} =>
                              req[p].op \in {"approve", "dispatch"}
    BY <1>1, <1>2 DEF HoldsOK
  <2>3. /\ \A q \in Procs \ {p} : pc'[q] = pc[q] /\ req'[q] = req[q]
        /\ RequestOK(p)'
        /\ \A o \in Orders :
              Shipping(p, o) /\ lock'[o] = p /\ draft'[o].status = "IN_TRANSIT" =>
                 Shipping(p, o)'
    BY <1>2, <1>8, <2>1, <2>2, EndsOK
  <2>4. \A o \in Orders : Shipping(p, o) => Shipping(p, o)'
    BY <1>2, <2>3 DEF Shipping
  <2>5. ASSUME Ships(p, c) PROVE Shipping(p, c.ord)'
    <3>1. /\ req'[p].op = req[p].op /\ req'[p].batch = req[p].batch
          /\ ~req[p].batch /\ HasSource(Current(p)) => pc'[p] = "commit"
      BY <1>1, <1>8, <2>1, AdvanceMoves
    <3>2. HasSource(Current(p)) /\ req[p].op = "dispatch"
          /\ lock'[c.ord] = p /\ draft'[c.ord].status = "IN_TRANSIT"
      BY <1>2, <2>5 DEF Ships
    <3>3. req[p].batch \in BOOLEAN
      BY OwnFacts DEF Request
    <3>4. pc'[p] = "commit" \/ (req'[p].batch)
      BY <3>1, <3>2, <3>3
    <3>5. QED
      BY <3>1, <3>2, <3>4 DEF Shipping
  <2>6. QED
    BY <1>2, <1>3, <1>4, <2>3, <2>4, <2>5
<1>9. QED
  BY <1>2, <1>6, <1>7, <1>8

\* A call that fails ends the request, or its current order in a batch.
LEMMA FailedOK ==
    ASSUME LegacyInv, MoveInv, NEW p \in Procs \ Legacy, pc[p] \in {"adjust", "restore"},
           Fail(p)
    PROVE  /\ \A q \in Procs \ {p} : /\ pc'[q] = pc[q] /\ req'[q] = req[q]
                                     /\ calls'[q] = calls[q]
           /\ RequestOK(p)'
           /\ row' = row
           /\ \A o \in Orders : Shipping(p, o) => Shipping(p, o)'
<1>1. TypeInv /\ HoldsOK(p)
  BY OwnFacts
<1>2. CASE ~req[p].batch /\ Rollback(p)
  <2>1. \A o \in Orders : ~Shipping(p, o)
    BY <1>2 DEF Shipping
  <2>2. row' = row
    BY <1>2 DEF Rollback
  <2>3. QED
    BY <1>1, <1>2, <2>1, <2>2, UndoneOK
<1>3. CASE /\ req[p].batch
           /\ Advance(p, {})
           /\ calls' = [calls EXCEPT ![p] = {}]
           /\ UNCHANGED <<row, draft, lock, sides, mine, published>>
  <2>1. \A q \in Procs \ {p} : calls'[q] = calls[q]
    BY <1>1, <1>3 DEF TypeInv, TypeOK
  <2>2. pc[p] \in Busy
    BY DEF Busy
  <2>3. \A o \in Orders : lock'[o] = p /\ row[o].status \in Early
                          /\ draft'[o].status \in {"IN_TRANSIT", "EXECUTED"} =>
                              req[p].op \in {"approve", "dispatch"}
    BY <1>1, <1>3 DEF HoldsOK
  <2>4. /\ \A q \in Procs \ {p} : pc'[q] = pc[q] /\ req'[q] = req[q]
        /\ RequestOK(p)'
        /\ \A o \in Orders :
              Shipping(p, o) /\ lock'[o] = p /\ draft'[o].status = "IN_TRANSIT" =>
                 Shipping(p, o)'
    BY <1>3, <2>2, <2>3, EndsOK
  <2>5. \A o \in Orders : Shipping(p, o) => Shipping(p, o)'
    BY <1>3, <2>4 DEF Shipping
  <2>6. QED
    BY <1>3, <2>1, <2>4, <2>5
<1>4. QED
  BY <1>2, <1>3 DEF Fail

LEMMA CallMoves ==
    ASSUME LegacyInv, MoveInv, NEW p \in Procs \ Legacy, CallInventoryAdjust(p)
    PROVE  GoodMove(p)
<1>1. PICK c \in calls[p] : \E a, b \in Answers(req[p].who, Current(p), c) :
         LET res  == CallResult(a, b)
             rest == calls[p] \ {c}
         IN  /\ pc[p] \in {"adjust", "restore"}
             /\ faults' = faults + Disturbed(a)
             /\ faults' <= MaxFaults
             /\ ledger' = [ledger EXCEPT ![c.ord][c.end] = @ + res.times * c.delta]
             /\ IF ~res.ok THEN Fail(p)
                ELSE /\ calls' = [calls EXCEPT ![p] = rest]
                     /\ IF rest # {} THEN UNCHANGED <<pc, req, outbox>>
                        ELSE IF pc[p] = "adjust" /\ req[p].op = "reject" /\ Chains(Current(p))
                        THEN pc' = [pc EXCEPT ![p] = "cascade"]
                             /\ UNCHANGED <<req, outbox>>
                        ELSE Advance(p, {<<Current(p), EventOf[req[p].op]>>})
                     /\ UNCHANGED <<dbVars, published>>
  BY DEF CallInventoryAdjust
<1>2. PICK a, b : Calls(p, c, a, b)
  BY <1>1 DEF Calls
<1>3. /\ \A o \in Orders : o # c.ord => ledger'[o] = ledger[o]
      /\ faults' = 0 => faults = 0
      /\ faults' = 0 /\ ~CallResult(a, b).ok => ledger' = ledger
  BY <1>2, CallLedger
<1>4. CASE CallResult(a, b).ok
  <2>1. /\ \A q \in Procs \ {p} : /\ pc'[q] = pc[q] /\ req'[q] = req[q]
                                  /\ calls'[q] = calls[q]
        /\ RequestOK(p)'
        /\ row' = row
        /\ \A o \in Orders : Shipping(p, o) => Shipping(p, o)'
        /\ row[c.ord].status \in Early => Shipping(p, c.ord)'
    BY <1>2, <1>4, AnsweredOK
  <2>2. MovesRight(p)
    BY <1>3, <2>1 DEF MovesRight
  <2>3. QED
    BY <1>3, <2>1, <2>2 DEF GoodMove
<1>5. CASE ~CallResult(a, b).ok
  <2>1. pc[p] \in {"adjust", "restore"} /\ Fail(p)
    BY <1>2, <1>5 DEF Calls
  <2>2. /\ \A q \in Procs \ {p} : /\ pc'[q] = pc[q] /\ req'[q] = req[q]
                                  /\ calls'[q] = calls[q]
        /\ RequestOK(p)'
        /\ row' = row
        /\ \A o \in Orders : Shipping(p, o) => Shipping(p, o)'
    BY <2>1, FailedOK
  <2>3. faults' = 0 => MovesRight(p)
    BY <1>3, <1>5, <2>2 DEF MovesRight
  <2>4. QED
    BY <1>3, <2>2, <2>3 DEF GoodMove
<1>6. QED
  BY <1>4, <1>5

LEMMA CommitMoves ==
    ASSUME LegacyInv, MoveInv, NEW p \in Procs \ Legacy, Commit(p)
    PROVE  GoodMove(p)
<1>1. TypeInv /\ ListOK(p)
  BY OwnFacts
<1>2. /\ \A q \in Procs \ {p} : pc'[q] = pc[q]
      /\ pc'[p] = "publish"
      /\ UNCHANGED <<req, calls, ledger, faults, draft>>
  BY <1>1 DEF Commit, TypeInv, TypeOK
<1>3. \A o \in Orders : /\ row'[o] = IF lock[o] = p THEN draft[o] ELSE row[o]
                        /\ lock'[o] # p
  BY ConstantsAssumption DEF Commit
<1>4. ListOK(p)' /\ HoldsOK(p)' /\ CallsOK(p)'
  BY <1>1, <1>2, <1>3 DEF ListOK, HoldsOK, CallsOK
<1>5. \A o \in Orders : Shipping(p, o) => row'[o].status \notin Early
  BY <1>3 DEF Shipping, Early
<1>6. QED
  BY <1>2, <1>4, <1>5, KeepsShipping

LEMMA PublishMoves ==
    ASSUME LegacyInv, MoveInv, NEW p \in Procs \ Legacy, PublishOrderEvent(p)
    PROVE  GoodMove(p)
<1>1. TypeInv /\ HoldsOK(p)
  BY OwnFacts
<1>2. /\ \A q \in Procs \ {p} : pc'[q] = pc[q] /\ req'[q] = req[q]
      /\ pc[p] = "publish" /\ pc'[p] = "idle" /\ req'[p] = NoRequest
      /\ UNCHANGED <<calls, row, draft, lock, ledger, faults>>
  BY <1>1 DEF PublishOrderEvent, TypeInv, TypeOK, dbVars
<1>3. \A o \in Orders : lock[o] # p
  BY <1>1, <1>2 DEF HoldsOK
<1>4. req'[p].todo = <<>>
  BY <1>2 DEF NoRequest
<1>5. ListOK(p)' /\ HoldsOK(p)' /\ CallsOK(p)'
  BY <1>2, <1>3, <1>4 DEF ListOK, HoldsOK, CallsOK
<1>6. \A o \in Orders : ~Shipping(p, o)
  BY <1>3 DEF Shipping
<1>7. QED
  BY <1>2, <1>5, <1>6, KeepsShipping

\* As long as no request is disturbed, no deadlock takes back an order whose
\* stock has moved already.
VictimsMovedNothing ==
    faults = 0 =>
        \A p \in Procs \ Legacy : DeadlockVictim(p) \/ V1Deadlock(p) =>
            \A o \in Orders :
                lock[o] = p /\ row[o].status \in Early => ledger[o] = Nothing

LEMMA VictimMoves ==
    ASSUME LegacyInv, MoveInv, VictimsMovedNothing, NEW p \in Procs \ Legacy,
           DeadlockVictim(p) \/ V1Deadlock(p)
    PROVE  GoodMove(p)
<1>1. Rollback(p) /\ UNCHANGED <<ledger, faults>>
  BY DEF DeadlockVictim, V1Deadlock
<1>2. faults' = 0 => \A o \in Orders :
         row[o].status \in Early /\ ledger[o] # Nothing => ~Shipping(p, o)
  BY <1>1 DEF VictimsMovedNothing, Shipping
<1>3. QED
  BY <1>1, <1>2, UndoneMoves

LEMMA CrashMoves ==
    ASSUME LegacyInv, MoveInv, NEW p \in Procs \ Legacy, Crash(p)
    PROVE  GoodMove(p)
<1>1. faults \in Nat
  BY OwnFacts, ConstantsAssumption
<1>2. Rollback(p) /\ ledger' = ledger /\ faults' = faults + 1
  BY DEF Crash
<1>3. faults' # 0
  BY <1>1, <1>2
<1>4. QED
  BY <1>2, <1>3, UndoneMoves

LEMMA V2Moves ==
    ASSUME LegacyInv, MoveInv, VictimsMovedNothing, NEW p \in Procs \ Legacy,
           V2Requests(p) \/ V2Undone(p)
    PROVE  GoodMove(p)
<1>1. CASE Work(p)
  BY <1>1, UpsertMoves, ApprovesMoves, ToInTransitMoves, ToExecutedMoves,
     ToRejectedMoves, PatchMoves, ConflictMoves, CancelMoves, CallMoves,
     CommitMoves, PublishMoves, VictimMoves DEF Work
<1>2. CASE SingleRequest(p) \/ BatchRequest(p) \/ Crash(p)
  BY <1>2, RequestsMove, CrashMoves
<1>3. CASE V2Undone(p)
  BY <1>3, VictimMoves DEF V2Undone
<1>4. QED
  BY <1>1, <1>2, <1>3 DEF V2Requests

-----------------------------------------------------------------------------
(* Legacy requests and the stock they move *)

LEMMA V1Facts ==
    ASSUME LegacyInv, MoveInv, NEW u \in Legacy
    PROVE  /\ u \in Procs /\ u # NoProc /\ TypeInv
           /\ V1OK(u) /\ ReceiptOK(u)
           /\ v1 \in [Legacy -> V1Request] /\ v1[u] \in V1Request
           /\ faults \in 0 .. MaxFaults
  BY LegacyAssumption, ConstantsAssumption
     DEF LegacyInv, RowsInv, LegacyTypeInv, V1Inv, MoveInv, RequestOK, TypeInv, TypeOK

\* A legacy step that leaves the requests of the state machine and the stock of
\* the orders that have not left alone.
LEMMA V1Moves ==
    ASSUME NEW u \in Legacy, UNCHANGED <<pc, req, calls>>, ReceiptOK(u)',
           faults' = 0 => faults = 0,
           faults' = 0 => \A o \in Orders :
               ledger'[o] = ledger[o] \/ row'[o].status \notin Early
    PROVE  GoodMove(u)
  BY DEF GoodMove, RequestOK, MovesRight

LEMMA AcceptMoves ==
    ASSUME LegacyInv, MoveInv, NEW u \in Legacy, V1Accepts(u)
    PROVE  GoodMove(u)
<1>1. PICK r : Fresh(r) /\ Accept(u, r)
  BY DEF V1Accepts
<1>2. V1OK(u) /\ ReceiptOK(u) /\ v1 \in [Legacy -> V1Request]
  BY V1Facts
<1>3. v1'[u] = r /\ v1[u].step = "idle"
      /\ UNCHANGED <<row, draft, lock, pc, req, calls, ledger, faults>>
  BY <1>1, <1>2 DEF Accept, vars
<1>4. \A o \in Orders : lock[o] # u
  BY <1>2, <1>3, NoRows
<1>5. ReceiptOK(u)'
  BY <1>1, <1>2, <1>3, <1>4 DEF ReceiptOK, Fresh
<1>6. QED
  BY <1>3, <1>5, V1Moves

LEMMA RecordMoves ==
    ASSUME LegacyInv, MoveInv, NEW u \in Legacy, V1Records(u)
    PROVE  GoodMove(u)
<1>1. PICK k \in v1[u].items : Records(u, k)
  BY DEF V1Records
<1>2. ReceiptOK(u) /\ v1 \in [Legacy -> V1Request] /\ v1[u] \in V1Request
  BY V1Facts
<1> DEFINE rest == v1[u].items \ {k}
           den  == IF v1[u].op = "reject" THEN v1[u].denied \cup {k} ELSE v1[u].denied
           st   == IF rest = {} THEN "status" ELSE v1[u].step
<1>3. v1' = [v1 EXCEPT ![u] = [v1[u] EXCEPT !.items = rest, !.denied = den, !.step = st]]
  BY <1>1, <1>2 DEF Records
<1>4. st # "adjust"
  BY <1>1 DEF Records
<1> HIDE DEF rest, den, st
<1>5. v1'[u].step # "adjust" /\ v1'[u].op = v1[u].op /\ v1'[u].qty = v1[u].qty
      /\ v1'[u].todo = v1[u].todo
  BY <1>2, <1>3, <1>4 DEF V1Request
<1>6. UNCHANGED <<row, draft, lock, pc, req, calls, ledger, faults>>
  BY <1>1 DEF Records
<1>7. ReceiptOK(u)'
  BY <1>2, <1>5, <1>6 DEF ReceiptOK
<1>8. QED
  BY <1>6, <1>7, V1Moves

LEMMA PassesQty ==
    ASSUME v1 \in [Legacy -> V1Request], NEW u \in Legacy, NEW o, Passes(u, o)
    PROVE  v1'[u].qty = v1[u].qty
<1> DEFINE rest == v1[u].todo \ {o}
           st   == IF rest = {} THEN "commit" ELSE v1[u].step
<1>1. v1' = [v1 EXCEPT ![u] = [v1[u] EXCEPT !.todo = rest, !.step = st]]
  BY DEF Passes
<1> HIDE DEF rest, st
<1>2. v1'[u] = [v1[u] EXCEPT !.todo = rest, !.step = st] /\ v1[u] \in V1Request
  BY <1>1
<1>3. QED
  BY <1>2 DEF V1Request

LEMMA SkipMoves ==
    ASSUME LegacyInv, MoveInv, NEW u \in Legacy, V1Skips(u)
    PROVE  GoodMove(u)
<1>1. PICK o \in v1[u].todo : Passes(u, o) /\ ~V1Admits(u, o) /\ UNCHANGED <<vars, turned>>
  BY DEF V1Skips
<1>2. ReceiptOK(u) /\ v1 \in [Legacy -> V1Request]
  BY V1Facts
<1>3. v1'[u].op = v1[u].op /\ v1'[u].step # "adjust"
  BY <1>1, <1>2, PassesRequest
<1>4. v1[u].op # "receive"
  BY <1>1 DEF V1Admits
<1>5. UNCHANGED <<pc, req, calls, ledger, faults>>
  BY <1>1 DEF vars
<1>6. ReceiptOK(u)'
  BY <1>2, <1>3, <1>4, <1>5 DEF ReceiptOK
<1>7. QED
  BY <1>5, <1>6, V1Moves

LEMMA PutMoves ==
    ASSUME LegacyInv, MoveInv, NEW u \in Legacy, V1Puts(u)
    PROVE  GoodMove(u)
<1>1. PICK o \in v1[u].todo :
         /\ Passes(u, o)
         /\ V1Writes(u, o)
         /\ UNCHANGED <<ledger, pc, req, calls, outbox, published, faults, turned>>
  BY DEF V1Puts
<1>2. /\ u \in Procs /\ TypeInv /\ ReceiptOK(u) /\ v1 \in [Legacy -> V1Request]
      /\ v1[u] \in V1Request
  BY V1Facts
<1>3. o \in Orders /\ Sees(u, o) \in Row
  BY <1>2, V1VersionType DEF LegacyInv, RowsInv, V1Request
<1>4. /\ v1'[u].op = v1[u].op /\ v1'[u].step # "adjust" /\ v1'[u].qty = v1[u].qty
      /\ v1'[u].todo = v1[u].todo \ {o}
  BY <1>1, <1>2, PassesRequest, PassesQty
<1> DEFINE w == V1Version(u, o)
<1>5. v1[u].op = "receive" => w.status = "EXECUTED"
  BY <1>3 DEF V1Version, Row
<1>6. row' = row /\ Write(u, o, w)
  BY <1>1 DEF V1Writes
<1> HIDE DEF w
<1>7. \A x \in Orders : /\ draft'[x] = IF x = o THEN w ELSE draft[x]
                        /\ lock'[x] = IF x = o THEN u ELSE lock[x]
  BY <1>2, <1>3, <1>6 DEF Write, TypeInv, TypeOK
<1>8. ReceiptOK(u)'
  BY <1>1, <1>2, <1>4, <1>5, <1>6, <1>7 DEF ReceiptOK
<1>9. QED
  BY <1>1, <1>8, V1Moves

\* What a receipt adds to the stock, when it commits or afterwards, is of orders
\* it has taken to EXECUTED, or that had got there.
LEMMA V1CommitMoves ==
    ASSUME LegacyInv, MoveInv, NEW u \in Legacy, V1Commit(u)
    PROVE  GoodMove(u)
<1>1. /\ u # NoProc /\ V1OK(u) /\ ReceiptOK(u) /\ v1 \in [Legacy -> V1Request]
      /\ v1[u] \in V1Request
  BY V1Facts
<1>2. v1[u].todo = {}
  BY <1>1 DEF V1OK, ItemsOK, V1Commit
<1>3. /\ \A o \in Orders : row'[o] = IF lock[o] = u THEN draft[o] ELSE row[o]
      /\ \A o \in Orders : lock'[o] # u
      /\ UNCHANGED <<draft, pc, req, calls, faults>>
  BY <1>1 DEF V1Commit
<1>4. \A o \in Orders :
         ledger'[o] = ledger[o] \/ (lock[o] = u /\ v1[u].op = "receive")
  BY DEF V1Commit
<1>5. \A o \in Orders : ledger'[o] = ledger[o] \/ row'[o].status \notin Early
  BY <1>1, <1>3, <1>4 DEF ReceiptOK, Early
<1>6. \/ v1'[u] = Idle
      \/ /\ v1[u].op = "receive"
         /\ v1'[u].op = "receive" /\ v1'[u].qty = v1[u].qty
  <2>1. CASE v1[u].op = "receive" /\ ~v1[u].bulk
    <3>1. v1' = [v1 EXCEPT ![u] = [v1[u] EXCEPT !.step = "adjust"]]
      BY <2>1 DEF V1Commit
    <3>2. QED
      BY <1>1, <2>1, <3>1 DEF V1Request
  <2>2. CASE ~(v1[u].op = "receive" /\ ~v1[u].bulk)
    <3>1. v1' = [v1 EXCEPT ![u] = Idle]
      BY <2>2 DEF V1Commit
    <3>2. QED
      BY <1>1, <3>1
  <2>3. QED
    BY <2>1, <2>2
<1>7. ReceiptOK(u)'
  <2>1. CASE v1'[u] = Idle
    BY <1>1, <1>3, <2>1 DEF ReceiptOK, Idle
  <2>2. CASE /\ v1[u].op = "receive"
             /\ v1'[u].op = "receive" /\ v1'[u].qty = v1[u].qty
    BY <1>1, <1>2, <1>3, <2>2 DEF ReceiptOK
  <2>3. QED
    BY <1>6, <2>1, <2>2
<1>8. QED
  BY <1>3, <1>5, <1>7, V1Moves

LEMMA V1AdjustMoves ==
    ASSUME LegacyInv, MoveInv, NEW u \in Legacy, V1Adjust(u)
    PROVE  GoodMove(u)
<1>1. /\ TypeInv /\ V1OK(u) /\ ReceiptOK(u) /\ v1 \in [Legacy -> V1Request]
      /\ faults \in Nat
  BY V1Facts, ConstantsAssumption
<1>2. PICK o \in {x \in Orders : v1[u].qty[x] > 0} :
         LET c == [ord |-> o, end |-> "tgt", delta |-> v1[u].qty[o]]
         IN  \E a \in Answers(v1[u].who, o, c) :
                /\ v1[u].step = "adjust"
                /\ faults' = faults + Disturbed(a)
                /\ faults' <= MaxFaults
                /\ ledger' = [ledger EXCEPT ![o].tgt = @ + Applied(a) * c.delta]
                /\ v1' = [v1 EXCEPT ![u] = Idle]
                /\ UNCHANGED <<dbVars, pc, req, calls, outbox, published, turned>>
  BY DEF V1Adjust
<1>3. PICK a : /\ faults' = faults + Disturbed(a)
               /\ ledger' = [ledger EXCEPT ![o].tgt = @ + Applied(a) * v1[u].qty[o]]
  BY <1>2
<1>4. /\ v1[u].step = "adjust" /\ v1'[u] = Idle
      /\ UNCHANGED <<row, draft, lock, pc, req, calls>>
  BY <1>1, <1>2 DEF dbVars
<1>5. \A x \in Orders : lock[x] # u
  BY <1>1, <1>4, NoRows
<1>6. row[o].status = "EXECUTED"
  <2>1. v1[u].todo = {} /\ v1[u].op = "receive"
    BY <1>1, <1>4 DEF V1OK, ItemsOK, ReceiptOK
  <2>2. QED
    BY <1>1, <1>5, <2>1 DEF ReceiptOK
<1>7. \A x \in Orders : ledger'[x] = ledger[x] \/ row'[x].status \notin Early
  BY <1>1, <1>3, <1>4, <1>6 DEF Early, TypeInv, TypeOK
<1>8. faults' = 0 => faults = 0
  BY <1>1, <1>3 DEF Disturbed
<1>9. ReceiptOK(u)'
  BY <1>1, <1>4, <1>5 DEF ReceiptOK, Idle
<1>10. QED
  BY <1>4, <1>7, <1>8, <1>9, V1Moves

LEMMA V1UndoneMoves ==
    ASSUME LegacyInv, MoveInv, NEW u \in Legacy, V1Undone(u)
    PROVE  GoodMove(u)
<1>1. /\ u \in Procs /\ TypeInv /\ v1 \in [Legacy -> V1Request] /\ faults \in Nat
  BY V1Facts, ConstantsAssumption
<1>2. Rollback(u) /\ v1' = [v1 EXCEPT ![u] = Idle] /\ ledger' = ledger
      /\ faults' \in faults .. MaxFaults
  BY DEF V1Undone, V1Undo
<1>3. /\ \A q \in Procs \ {u} : /\ pc'[q] = pc[q] /\ req'[q] = req[q]
                                /\ calls'[q] = calls[q]
      /\ pc'[u] = "idle"
      /\ \A o \in Orders : lock'[o] # u
  BY <1>1, <1>2, UndoneOK
<1>4. v1'[u] = Idle
  BY <1>1, <1>2
<1>5. ReceiptOK(u)'
  BY <1>3, <1>4 DEF ReceiptOK, Idle
<1>6. faults' = 0 => faults = 0
  BY <1>1, <1>2, ConstantsAssumption
<1>7. MovesRight(u)
  BY <1>2 DEF MovesRight
<1>8. QED
  BY <1>3, <1>5, <1>6, <1>7 DEF GoodMove, RequestOK

-----------------------------------------------------------------------------
(* Nothing moves before *)

LEMMA MoveInit == LegacyInit => MoveInv
<1> SUFFICES ASSUME LegacyInit PROVE MoveInv
  OBVIOUS
<1>1. /\ \A o \in Orders : lock[o] = NoProc /\ ledger[o] = Nothing
      /\ \A p \in Procs : pc[p] = "idle" /\ req[p] = NoRequest
      /\ \A u \in Legacy : v1[u] = Idle
  BY DEF LegacyInit, Init, Nothing
<1>2. NoRequest.todo = <<>>
  BY DEF NoRequest
<1>3. \A p \in Procs : ListOK(p) /\ HoldsOK(p) /\ CallsOK(p)
  BY <1>1, <1>2, ConstantsAssumption DEF ListOK, HoldsOK, CallsOK
<1>4. \A u \in Legacy : ReceiptOK(u)
  BY <1>1, ConstantsAssumption, LegacyAssumption DEF ReceiptOK, Idle
<1>5. QED
  BY <1>1, <1>3, <1>4 DEF MoveInv, RequestOK, LedgerInv

LEMMA MoveStep ==
    ASSUME LegacyInv, LegacyInv', MoveInv, LegacyNext, VictimsMovedNothing
    PROVE  MoveInv'
<1>1. \A p \in Procs \ Legacy : V2Requests(p) \/ V2Undone(p) => GoodStep(p) /\ GoodMove(p)
  <2>1. faults \in 0 .. MaxFaults
    BY DEF LegacyInv, RowsInv, LegacyTypeInv, TypeInv, TypeOK
  <2>2. QED
    BY <2>1, V2Request, V2Rollback, V2Moves DEF V2Requests, V2Undone
<1>2. ASSUME NEW u \in Legacy, V1Accepts(u) \/ V1Records(u) \/ V1Skips(u) \/ V1Puts(u)
      PROVE  GoodStep(u) /\ GoodMove(u)
  BY <1>2, V1Accept, RecordsGood, SkipGood, WritesGood, AcceptMoves, RecordMoves,
     SkipMoves, PutMoves DEF V1Accepts, V1Records, V1Skips, V1Puts
<1>3. ASSUME NEW u \in Legacy, V1Commit(u) \/ V1Adjust(u) \/ V1Undone(u)
      PROVE  GoodStep(u) /\ GoodMove(u)
  <2>1. V1Undone(u) => V1Undo(u) /\ ledger' = ledger /\ faults' \in 0 .. MaxFaults
    BY V1Facts, ConstantsAssumption DEF V1Undone
  <2>2. QED
    BY <1>3, <2>1, V1CommitGood, V1AdjustGood, V1UndoGood, V1CommitMoves,
       V1AdjustMoves, V1UndoneMoves
<1>4. \E p \in Procs : GoodStep(p) /\ GoodMove(p)
  BY <1>1, <1>2, <1>3, LegacyStepKinds, LegacyAssumption
<1>5. QED
  BY <1>4, GoodMoveInv

LEMMA MoveStutter ==
    ASSUME MoveInv, UNCHANGED allVars
    PROVE  MoveInv'
<1>1. UNCHANGED <<row, draft, lock, ledger, pc, req, calls, faults, v1>>
  BY DEF allVars, vars
<1>2. \A p \in Procs : RequestOK(p)'
  BY <1>1 DEF MoveInv, RequestOK, ListOK, HoldsOK, CallsOK, Ships, Current, ReceiptOK
<1>3. (faults = 0 => LedgerInv)'
  BY <1>1 DEF MoveInv, LedgerInv, Shipping
<1>4. QED
  BY <1>2, <1>3 DEF MoveInv

\* An order that nobody has open and that has not left has nothing moved.
LEMMA MoveMeans == MoveInv => NothingMovedBefore
  BY ConstantsAssumption DEF MoveInv, LedgerInv, Shipping, NothingMovedBefore, Early, Nothing

\* Without faults, the one way in which the state machine and the legacy
\* endpoints can leave stock moved for an order that has not left is a deadlock
\* that takes a batch back after it has shipped an order.
THEOREM NothingMovedButByVictims ==
    LegacySpec /\ [][VictimsMovedNothing]_allVars => []NothingMovedBefore
<1>1. LegacyInv /\ LegacyInv' /\ MoveInv /\ [LegacyNext]_allVars
         /\ [VictimsMovedNothing]_allVars => MoveInv'
  BY MoveStep, MoveStutter
<1>2. LegacySpec /\ [][VictimsMovedNothing]_allVars => []MoveInv
  BY <1>1, MoveInit, LegacyInvariant, PTL DEF LegacySpec
<1>3. QED
  BY <1>2, MoveMeans, PTL

=============================================================================

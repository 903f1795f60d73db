------------------------ MODULE StateMachine_proofs -------------------------
(***************************************************************************)
(* Proofs about StateMachine, for any orders, requests, attempts, batches  *)
(* and faults the constants allow.                                         *)
(***************************************************************************)
EXTENDS StateMachine, SequenceTheorems, TLAPS

-----------------------------------------------------------------------------
(* Types *)

Busy == {"upsert", "update", "adjust", "cascade", "restore"}

\* A request that still runs statements has an order to run them on.
BusyHasOrder == \A p \in Procs : pc[p] \in Busy => req[p].todo # <<>>

\* Which row, draft, request and call has which type; lock holds a writer for
\* each order, who need not be a request (AutoExecute adds another one).
IsLock(f) == f = [o \in Orders |-> f[o]]

ShapeInv ==
    /\ row \in [Orders -> Row]
    /\ draft \in [Orders -> Row]
    /\ IsLock(lock)
    /\ sides \in [Orders -> SUBSET Sides]
    /\ mine \in [Procs -> SUBSET (Orders \X Sides)]
    /\ ledger \in [Orders -> [src : Int, tgt : Int]]
    /\ pc \in [Procs -> PCs]
    /\ req \in [Procs -> Request]
    /\ calls \in [Procs -> SUBSET Call]
    /\ outbox \in [Procs -> SUBSET Watched]
    /\ published \in [Watched -> Nat]
    /\ faults \in 0 .. MaxFaults
    /\ BusyHasOrder

TypeInv == TypeOK /\ BusyHasOrder

LEMMA TypeShape ==
    TypeInv <=> ShapeInv /\ \A o \in Orders : lock[o] \in Procs \cup {NoProc}
  BY DEF TypeInv, TypeOK, ShapeInv, IsLock

\* The order a running request is at is an order, and the rest is a list again.
LEMMA CurrentShape ==
    ASSUME ShapeInv, NEW p \in Procs, pc[p] \in Busy
    PROVE  /\ Current(p) \in Orders
           /\ Tail(req[p].todo) \in Seq(Orders)
<1>1. req[p].todo \in Seq(Orders) /\ req[p].todo # <<>>
  BY DEF ShapeInv, IsLock, BusyHasOrder, Request
<1>2. QED
  BY <1>1, HeadTailProperties DEF Current

\* Advance leaves pc, req and outbox well typed.
LEMMA AdvanceType ==
    ASSUME ShapeInv, NEW p \in Procs, pc[p] \in Busy, NEW es, Advance(p, es)
    PROVE  /\ req' \in [Procs -> Request]
           /\ pc' \in [Procs -> PCs]
           /\ outbox' \in [Procs -> SUBSET Watched]
           /\ BusyHasOrder'
<1> DEFINE rest == Tail(req[p].todo)
<1>1. rest \in Seq(Orders)
  BY CurrentShape
<1>2. req' = [req EXCEPT ![p].todo = rest] /\ req' \in [Procs -> Request]
  BY <1>1 DEF Advance, ShapeInv, IsLock, Request
<1>3. pc' \in [Procs -> PCs]
  BY DEF Advance, ShapeInv, IsLock, PCs, StartOf
<1>4. outbox' \in [Procs -> SUBSET Watched]
  BY DEF Advance, ShapeInv, IsLock
<1>5. BusyHasOrder'
  BY <1>2 DEF Advance, ShapeInv, IsLock, BusyHasOrder, Busy, StartOf
<1>6. QED
  BY <1>2, <1>3, <1>4, <1>5

\* Rollback leaves every variable it writes well typed.
LEMMA RollbackType ==
    ASSUME ShapeInv, NEW p \in Procs, Rollback(p), faults' \in 0 .. MaxFaults,
           ledger' \in [Orders -> [src : Int, tgt : Int]]
    PROVE  ShapeInv'
<1> USE DEF ShapeInv, IsLock, Rollback
<1>1. draft' \in [Orders -> Row] /\ IsLock(lock')
  OBVIOUS
<1>2. req' \in [Procs -> Request]
  BY DEF Request, NoRequest, OpNames, Parties
<1>3. pc' \in [Procs -> PCs] /\ BusyHasOrder'
  BY DEF PCs, BusyHasOrder, Busy
<1>4. calls' \in [Procs -> SUBSET Call] /\ outbox' \in [Procs -> SUBSET Watched]
      /\ mine' \in [Procs -> SUBSET (Orders \X Sides)]
  OBVIOUS
<1>5. QED
  BY <1>1, <1>2, <1>3, <1>4

\* What the version a transaction sees and the versions it writes look like.
LEMMA VersionShape ==
    ASSUME ShapeInv, NEW p \in Procs, NEW o \in Orders
    PROVE  /\ Sees(p, o) \in Row
           /\ Rejected(Sees(p, o)) \in Row \/ Sees(p, o).status \notin Live
           /\ Restore(o, Sees(p, o)) \subseteq Call
<1>1. Sees(p, o) \in Row
  BY DEF Sees, ShapeInv, IsLock
<1>2. Sees(p, o).status \in Live => Rejected(Sees(p, o)) \in Row
  BY <1>1 DEF Rejected, Row, Statuses, Live
<1>3. Restore(o, Sees(p, o)) \subseteq Call
  BY <1>1 DEF Restore, Row, Call, Ends
<1>4. QED
  BY <1>1, <1>2, <1>3

LEMMA WriteType ==
    ASSUME ShapeInv, NEW p \in Procs, NEW o \in Orders, NEW r \in Row,
           Write(p, o, r)
    PROVE  /\ draft' \in [Orders -> Row]
           /\ IsLock(lock')
  BY DEF ShapeInv, IsLock, Write

\* Init and every action keep the shape.
LEMMA InitShape == Init => ShapeInv
<1> SUFFICES ASSUME Init PROVE ShapeInv
  OBVIOUS
<1> USE ConstantsAssumption DEF Init
<1>1. row \in [Orders -> Row] /\ draft \in [Orders -> Row]
  BY DEF NewRow, Absent, Row, Statuses, Live
<1>2. req \in [Procs -> Request]
  BY DEF Request, NoRequest, OpNames, Parties
<1>3. pc \in [Procs -> PCs] /\ BusyHasOrder
  BY DEF PCs, BusyHasOrder, Busy
<1>4. QED
  BY <1>1, <1>2, <1>3 DEF ShapeInv, IsLock

LEMMA StartType ==
    ASSUME ShapeInv, NEW p \in Procs, NEW r \in Request, r.todo # <<>>,
           Start(p, r)
    PROVE  ShapeInv'
<1> USE DEF ShapeInv, IsLock, Start, dbVars
<1>1. req' \in [Procs -> Request] /\ pc' \in [Procs -> PCs]
  BY DEF PCs, StartOf
<1>2. BusyHasOrder'
  BY DEF BusyHasOrder, Busy
<1>3. QED
  BY <1>1, <1>2

LEMMA SingleRequestType ==
    ASSUME ShapeInv, NEW p \in Procs, SingleRequest(p)
    PROVE  ShapeInv'
<1>0. PICK op \in Ops, who \in Clients, o \in Orders :
           \E ss \in SideChoices(op, who, o), q \in QtyChoices(op) :
              Start(p, [op |-> op, who |-> who, todo |-> <<o>>,
                        batch |-> FALSE, sides |-> ss, qty |-> q])
  BY DEF SingleRequest
<1>1. PICK ss \in SideChoices(op, who, o), q \in QtyChoices(op) :
              Start(p, [op |-> op, who |-> who, todo |-> <<o>>,
                        batch |-> FALSE, sides |-> ss, qty |-> q])
  BY <1>0
<1> DEFINE r == [op |-> op, who |-> who, todo |-> <<o>>,
                 batch |-> FALSE, sides |-> ss, qty |-> q]
<1>2. ss \in SUBSET Sides
  BY ConstantsAssumption DEF SideChoices, InferSide, Sides
<1>3. q \in Nat
  BY ConstantsAssumption DEF QtyChoices
<1>4. r \in Request /\ r.todo # <<>>
  BY <1>2, <1>3, ConstantsAssumption DEF Request
<1>5. QED
  BY <1>1, <1>4, StartType

LEMMA BatchRequestType ==
    ASSUME ShapeInv, NEW p \in Procs, BatchRequest(p)
    PROVE  ShapeInv'
<1>1. PICK op \in Ops \cap BatchOps, b \in Batches :
            /\ b # <<>>
            /\ Start(p, [op |-> op, who |-> "hq", todo |-> b, batch |-> TRUE,
                         sides |-> {}, qty |-> 0])
  BY DEF BatchRequest
<1> DEFINE r == [op |-> op, who |-> "hq", todo |-> b, batch |-> TRUE,
                 sides |-> {}, qty |-> 0]
<1>2. r \in Request /\ r.todo # <<>>
  BY <1>1, ConstantsAssumption DEF Request, Parties
<1>3. QED
  BY <1>1, <1>2, StartType

\* Fail either undoes the transaction or goes on with the batch.
LEMMA FailType ==
    ASSUME ShapeInv, NEW p \in Procs, pc[p] \in Busy, Fail(p),
           faults' \in 0 .. MaxFaults,
           ledger' \in [Orders -> [src : Int, tgt : Int]]
    PROVE  ShapeInv'
<1>1. CASE Rollback(p)
  BY <1>1, RollbackType
<1>2. CASE /\ Advance(p, {})
           /\ calls' = [calls EXCEPT ![p] = {}]
           /\ UNCHANGED <<row, draft, lock, sides, mine, published>>
  <2>1. /\ req' \in [Procs -> Request]
        /\ pc' \in [Procs -> PCs]
        /\ outbox' \in [Procs -> SUBSET Watched]
        /\ BusyHasOrder'
    BY <1>2, AdvanceType
  <2>2. calls' \in [Procs -> SUBSET Call]
    BY <1>2 DEF ShapeInv, IsLock
  <2>3. QED
    BY <1>2, <2>1, <2>2 DEF ShapeInv, IsLock
<1>3. QED
  BY <1>1, <1>2 DEF Fail

\* An action that writes versions and then advances.
LEMMA WriteAdvanceType ==
    ASSUME ShapeInv, NEW p \in Procs, pc[p] \in Busy, NEW es, Advance(p, es),
           draft' \in [Orders -> Row], IsLock(lock'),
           calls' \in [Procs -> SUBSET Call],
           UNCHANGED <<row, sides, mine, ledger, published, faults>>
    PROVE  ShapeInv'
<1>1. /\ req' \in [Procs -> Request]
      /\ pc' \in [Procs -> PCs]
      /\ outbox' \in [Procs -> SUBSET Watched]
      /\ BusyHasOrder'
  BY AdvanceType
<1>2. QED
  BY <1>1 DEF ShapeInv, IsLock

\* An action that writes versions and goes on to the calls, or to the cascade.
LEMMA WriteCallType ==
    ASSUME ShapeInv, NEW p \in Procs, pc[p] \in Busy,
           NEW next \in {"adjust", "cascade", "restore"},
           pc' = [pc EXCEPT ![p] = next],
           draft' \in [Orders -> Row], IsLock(lock'),
           calls' \in [Procs -> SUBSET Call],
           UNCHANGED <<row, sides, mine, ledger, req, outbox, published, faults>>
    PROVE  ShapeInv'
<1>1. pc' \in [Procs -> PCs]
  BY DEF ShapeInv, IsLock, PCs
<1>2. BusyHasOrder'
  BY DEF ShapeInv, IsLock, BusyHasOrder, Busy
<1>3. QED
  BY <1>1, <1>2 DEF ShapeInv, IsLock

LEMMA UpsertApprovalsType ==
    ASSUME ShapeInv, NEW p \in Procs, UpsertApprovals(p)
    PROVE  ShapeInv'
<1> DEFINE o  == Current(p)
           ss == IF req[p].batch THEN InferSide(req[p].who, o) ELSE req[p].sides
<1>1. o \in Orders
  BY CurrentShape DEF UpsertApprovals, Busy
<1>2. ss \subseteq Sides
  <2>1. req[p].sides \subseteq Sides
    BY DEF ShapeInv, IsLock, Request
  <2>2. InferSide(req[p].who, o) \subseteq Sides
    BY DEF InferSide, Sides
  <2>3. QED
    BY <2>1, <2>2
<1>3. {<<o, s>> : s \in ss} \subseteq Orders \X Sides
  BY <1>1, <1>2
<1>4. mine' \in [Procs -> SUBSET (Orders \X Sides)]
  BY <1>3 DEF UpsertApprovals, ShapeInv, IsLock
<1>5. pc' \in [Procs -> PCs] /\ BusyHasOrder'
  BY DEF UpsertApprovals, ShapeInv, IsLock, PCs, BusyHasOrder, Busy
<1>6. QED
  BY <1>4, <1>5 DEF UpsertApprovals, ShapeInv, IsLock

LEMMA ToApprovedType ==
    ASSUME ShapeInv, NEW p \in Procs, ToApproved(p)
    PROVE  ShapeInv'
<1> DEFINE o == Current(p)
           r == Sees(p, o)
           c == IF HasSource(o)
                THEN [r EXCEPT !.status = "APPROVED"]
                ELSE [r EXCEPT !.status = "IN_TRANSIT", !.dispatched = TRUE]
<1>1. o \in Orders /\ pc[p] \in Busy
  BY CurrentShape DEF ToApproved, Updating, Busy
<1>2. r \in Row
  BY <1>1, VersionShape
<1>3. c \in Row
  BY <1>2 DEF Row, Statuses, Live
<1>4. PICK f \in Splits(o, r.qty) :
         LET new == {k \in DOMAIN f : Chains(o) /\ f[k] > 0}
         IN  /\ draft' = [k \in Orders |->
                            IF k = o THEN c
                            ELSE IF k \in new THEN NewRow("APPROVED", f[k])
                            ELSE draft[k]]
             /\ lock' = [k \in Orders |->
                            IF k = o \/ k \in new THEN p ELSE lock[k]]
  BY DEF ToApproved
<1>5. \A k \in DOMAIN f : NewRow("APPROVED", f[k]) \in Row
  <2>1. r.qty \in Nat
    BY <1>2 DEF Row
  <2>2. \A k \in DOMAIN f : f[k] \in Nat
    BY <2>1 DEF Splits
  <2>3. QED
    BY <2>2 DEF NewRow, Row, Statuses, Live
<1>6. draft' \in [Orders -> Row] /\ IsLock(lock')
  BY <1>3, <1>4, <1>5 DEF ShapeInv, IsLock
<1>7. QED
  BY <1>1, <1>6, WriteAdvanceType DEF ToApproved, ShapeInv, IsLock

LEMMA ApprovedOneSideType ==
    ASSUME ShapeInv, NEW p \in Procs, ApprovedOneSide(p)
    PROVE  ShapeInv'
<1>1. pc[p] \in Busy
  BY DEF ApprovedOneSide, Updating, Busy
<1>2. QED
  BY <1>1, WriteAdvanceType DEF ApprovedOneSide, ShapeInv, IsLock, dbVars

LEMMA ToInTransitType ==
    ASSUME ShapeInv, NEW p \in Procs, ToInTransit(p)
    PROVE  ShapeInv'
<1> DEFINE o == Current(p)
           r == Sees(p, o)
<1>1. o \in Orders /\ pc[p] \in Busy /\ r \in Row
  BY CurrentShape, VersionShape DEF ToInTransit, Updating, Busy
<1>2. [r EXCEPT !.status = "IN_TRANSIT", !.dispatched = TRUE] \in Row
  BY <1>1 DEF Row, Statuses, Live
<1>3. draft' \in [Orders -> Row] /\ IsLock(lock')
  BY <1>1, <1>2, WriteType DEF ToInTransit
<1>4. CASE HasSource(o)
  <2>1. [ord |-> o, end |-> "src", delta |-> -r.qty] \in Call
    BY <1>1 DEF Call, Ends, Row
  <2>2. calls' \in [Procs -> SUBSET Call]
    BY <1>4, <2>1 DEF ToInTransit, ShapeInv, IsLock
  <2>3. QED
    BY <1>1, <1>3, <1>4, <2>2, WriteCallType DEF ToInTransit
<1>5. CASE ~HasSource(o)
  BY <1>1, <1>3, <1>5, WriteAdvanceType DEF ToInTransit, ShapeInv, IsLock
<1>6. QED
  BY <1>4, <1>5

LEMMA ToExecutedType ==
    ASSUME ShapeInv, NEW p \in Procs, ToExecuted(p)
    PROVE  ShapeInv'
<1> DEFINE o == Current(p)
           r == Sees(p, o)
<1>1. o \in Orders /\ pc[p] \in Busy /\ r \in Row
  BY CurrentShape, VersionShape DEF ToExecuted, Updating, Busy
<1>2. [r EXCEPT !.status = "EXECUTED", !.executed = TRUE] \in Row
  BY <1>1 DEF Row, Statuses
<1>3. draft' \in [Orders -> Row] /\ IsLock(lock')
  BY <1>1, <1>2, WriteType DEF ToExecuted
<1>4. [ord |-> o, end |-> "tgt", delta |-> r.qty] \in Call
  BY <1>1 DEF Call, Ends, Row
<1>5. calls' \in [Procs -> SUBSET Call]
  BY <1>4 DEF ToExecuted, ShapeInv, IsLock
<1>6. QED
  BY <1>1, <1>3, <1>5, WriteCallType DEF ToExecuted

LEMMA ToRejectedType ==
    ASSUME ShapeInv, NEW p \in Procs, ToRejected(p)
    PROVE  ShapeInv'
<1> DEFINE o == Current(p)
           r == Sees(p, o)
<1>1. o \in Orders /\ pc[p] \in Busy /\ r \in Row
  BY CurrentShape, VersionShape DEF ToRejected, Updating, Busy
<1>2. r.status \in Live
  BY DEF ToRejected, Updating, Matches, From, Live
<1>3. Rejected(r) \in Row /\ Restore(o, r) \subseteq Call
  BY <1>1, <1>2, VersionShape
<1>4. draft' \in [Orders -> Row] /\ IsLock(lock')
  BY <1>1, <1>3, WriteType DEF ToRejected
<1>5. calls' \in [Procs -> SUBSET Call]
  BY <1>3 DEF ToRejected, ShapeInv, IsLock
<1>6. CASE Restore(o, r) # {}
  BY <1>1, <1>4, <1>5, <1>6, WriteCallType DEF ToRejected
<1>7. CASE Restore(o, r) = {} /\ Chains(o)
  BY <1>1, <1>4, <1>5, <1>7, WriteCallType DEF ToRejected
<1>8. CASE Restore(o, r) = {} /\ ~Chains(o)
  BY <1>1, <1>4, <1>5, <1>8, WriteAdvanceType DEF ToRejected
<1>9. QED
  BY <1>6, <1>7, <1>8

LEMMA PatchOrderType ==
    ASSUME ShapeInv, NEW p \in Procs, PatchOrder(p)
    PROVE  ShapeInv'
<1> DEFINE o == Current(p)
           r == Sees(p, o)
<1>1. o \in Orders /\ pc[p] \in Busy /\ r \in Row
  BY CurrentShape, VersionShape DEF PatchOrder, Updating, Busy
<1>2. req[p].qty \in Nat
  BY DEF ShapeInv, IsLock, Request
<1>3. [r EXCEPT !.qty = req[p].qty] \in Row
  BY <1>1, <1>2 DEF Row
<1>4. draft' \in [Orders -> Row] /\ IsLock(lock')
  BY <1>1, <1>3, WriteType DEF PatchOrder
<1>5. QED
  BY <1>1, <1>4, WriteAdvanceType DEF PatchOrder, ShapeInv, IsLock

LEMMA CancelChainedType ==
    ASSUME ShapeInv, NEW p \in Procs, CancelChained(p)
    PROVE  ShapeInv'
<1> DEFINE o  == Current(p)
           cs == {c \in Children(o) : Sees(p, c).status \in Live}
           restores == UNION {Restore(c, Sees(p, c)) : c \in cs}
<1>1. pc[p] \in Busy
  BY DEF CancelChained, Busy
<1>2. \A c \in cs : Rejected(Sees(p, c)) \in Row /\ Restore(c, Sees(p, c)) \subseteq Call
  BY VersionShape DEF Children
<1>3. draft' \in [Orders -> Row] /\ IsLock(lock')
  BY <1>2 DEF CancelChained, ShapeInv, IsLock
<1>4. restores \subseteq Call
  BY <1>2
<1>5. calls' \in [Procs -> SUBSET Call]
  BY <1>4 DEF CancelChained, ShapeInv, IsLock
<1>6. CASE restores # {}
  BY <1>1, <1>3, <1>5, <1>6, WriteCallType DEF CancelChained
<1>7. CASE restores = {}
  BY <1>1, <1>3, <1>5, <1>7, WriteAdvanceType DEF CancelChained
<1>8. QED
  BY <1>6, <1>7

LEMMA CallInventoryAdjustType ==
    ASSUME ShapeInv, NEW p \in Procs, CallInventoryAdjust(p)
    PROVE  ShapeInv'
<1> DEFINE o == Current(p)
<1>0. PICK c \in calls[p] : \E a, b \in Answers(req[p].who, o, c) :
         LET res  == CallResult(a, b)
             rest == calls[p] \ {c}
         IN  /\ pc[p] \in {"adjust", "restore"}
             /\ faults' = faults + Disturbed(a)
             /\ faults' <= MaxFaults
             /\ ledger' = [ledger EXCEPT ![c.ord][c.end] =
                             @ + res.times * c.delta]
             /\ IF ~res.ok THEN Fail(p)
                ELSE /\ calls' = [calls EXCEPT ![p] = rest]
                     /\ IF rest # {} THEN UNCHANGED <<pc, req, outbox>>
                        ELSE IF pc[p] = "adjust" /\ req[p].op = "reject" /\ Chains(o)
                        THEN pc' = [pc EXCEPT ![p] = "cascade"]
                             /\ UNCHANGED <<req, outbox>>
                        ELSE Advance(p, {<<o, EventOf[req[p].op]>>})
                     /\ UNCHANGED <<dbVars, published>>
  BY DEF CallInventoryAdjust
<1>1. PICK a, b \in Answers(req[p].who, o, c) :
         LET res  == CallResult(a, b)
             rest == calls[p] \ {c}
         IN  /\ pc[p] \in {"adjust", "restore"}
             /\ faults' = faults + Disturbed(a)
             /\ faults' <= MaxFaults
             /\ ledger' = [ledger EXCEPT ![c.ord][c.end] =
                             @ + res.times * c.delta]
             /\ IF ~res.ok THEN Fail(p)
                ELSE /\ calls' = [calls EXCEPT ![p] = rest]
                     /\ IF rest # {} THEN UNCHANGED <<pc, req, outbox>>
                        ELSE IF pc[p] = "adjust" /\ req[p].op = "reject" /\ Chains(o)
                        THEN pc' = [pc EXCEPT ![p] = "cascade"]
                             /\ UNCHANGED <<req, outbox>>
                        ELSE Advance(p, {<<o, EventOf[req[p].op]>>})
                     /\ UNCHANGED <<dbVars, published>>
  BY <1>0
<1> DEFINE res  == CallResult(a, b)
           rest == calls[p] \ {c}
<1>2. pc[p] \in Busy /\ c \in Call
  BY <1>1 DEF Busy, ShapeInv, IsLock
<1>3. res.times \in Nat
  BY DEF CallResult, Applied
<1>4. ledger' \in [Orders -> [src : Int, tgt : Int]]
  <2>1. res.times * c.delta \in Int
    BY <1>2, <1>3 DEF Call
  <2>2. ledger[c.ord][c.end] + res.times * c.delta \in Int
    BY <1>2, <2>1 DEF Call, Ends, ShapeInv, IsLock
  <2>3. QED
    BY <1>1, <1>2, <2>2 DEF Call, Ends, ShapeInv, IsLock
<1>5. faults' \in 0 .. MaxFaults
  BY <1>1, ConstantsAssumption DEF Disturbed, ShapeInv, IsLock
<1>6. CASE ~res.ok
  BY <1>1, <1>2, <1>4, <1>5, <1>6, FailType
<1>7. CASE res.ok
  <2>1. calls' \in [Procs -> SUBSET Call]
    BY <1>1, <1>7 DEF ShapeInv, IsLock
  <2>2. CASE rest # {}
    BY <1>1, <1>4, <1>5, <1>7, <2>1, <2>2 DEF ShapeInv, IsLock, BusyHasOrder, dbVars
  <2>3. CASE rest = {} /\ pc[p] = "adjust" /\ req[p].op = "reject" /\ Chains(o)
    <3>1. pc' = [pc EXCEPT ![p] = "cascade"] /\ UNCHANGED <<req, outbox, dbVars, published>>
      BY <1>1, <1>7, <2>3
    <3>2. pc' \in [Procs -> PCs] /\ BusyHasOrder'
      BY <1>2, <3>1 DEF ShapeInv, IsLock, PCs, BusyHasOrder, Busy
    <3>3. QED
      BY <1>4, <1>5, <2>1, <3>1, <3>2 DEF ShapeInv, IsLock, dbVars
  <2>4. CASE rest = {} /\ ~(pc[p] = "adjust" /\ req[p].op = "reject" /\ Chains(o))
    <3>1. /\ Advance(p, {<<o, EventOf[req[p].op]>>})
          /\ UNCHANGED <<dbVars, published>>
      BY <1>1, <1>7, <2>4
    <3>2. /\ req' \in [Procs -> Request]
          /\ pc' \in [Procs -> PCs]
          /\ outbox' \in [Procs -> SUBSET Watched]
          /\ BusyHasOrder'
      BY <1>2, <3>1, AdvanceType
    <3>3. QED
      BY <1>4, <1>5, <2>1, <3>1, <3>2 DEF ShapeInv, IsLock, dbVars
  <2>5. QED
    BY <2>2, <2>3, <2>4
<1>8. QED
  BY <1>6, <1>7

LEMMA CommitType ==
    ASSUME ShapeInv, NEW p \in Procs, Commit(p)
    PROVE  ShapeInv'
<1> USE DEF Commit, ShapeInv, IsLock
<1>1. row' \in [Orders -> Row] /\ IsLock(lock')
  OBVIOUS
<1>2. sides' \in [Orders -> SUBSET Sides] /\ mine' \in [Procs -> SUBSET (Orders \X Sides)]
  BY DEF Decided
<1>3. pc' \in [Procs -> PCs] /\ BusyHasOrder'
  BY DEF PCs, BusyHasOrder, Busy
<1>4. QED
  BY <1>1, <1>2, <1>3

LEMMA PublishType ==
    ASSUME ShapeInv, NEW p \in Procs, PublishOrderEvent(p)
    PROVE  ShapeInv'
<1> USE DEF PublishOrderEvent, ShapeInv, IsLock, dbVars
<1>1. published' \in [Watched -> Nat]
  OBVIOUS
<1>2. req' \in [Procs -> Request]
  BY DEF Request, NoRequest, OpNames, Parties
<1>3. pc' \in [Procs -> PCs] /\ BusyHasOrder' /\ outbox' \in [Procs -> SUBSET Watched]
  BY DEF PCs, BusyHasOrder, Busy
<1>4. QED
  BY <1>1, <1>2, <1>3

LEMMA CrashType ==
    ASSUME ShapeInv, NEW p \in Procs, Crash(p)
    PROVE  ShapeInv'
<1>1. faults' \in 0 .. MaxFaults
  BY ConstantsAssumption DEF Crash, ShapeInv, IsLock
<1>2. QED
  BY <1>1, RollbackType DEF Crash, ShapeInv, IsLock

LEMMA NextShape == ShapeInv /\ [Next]_vars => ShapeInv'
<1> SUFFICES ASSUME ShapeInv, [Next]_vars PROVE ShapeInv'
  OBVIOUS
<1>1. ASSUME NEW p \in Procs, SingleRequest(p) PROVE ShapeInv'
  BY <1>1, SingleRequestType
<1>2. ASSUME NEW p \in Procs, BatchRequest(p) PROVE ShapeInv'
  BY <1>2, BatchRequestType
<1>3. ASSUME NEW p \in Procs, UpsertApprovals(p) PROVE ShapeInv'
  BY <1>3, UpsertApprovalsType
<1>4. ASSUME NEW p \in Procs, ToApproved(p) PROVE ShapeInv'
  BY <1>4, ToApprovedType
<1>5. ASSUME NEW p \in Procs, ApprovedOneSide(p) PROVE ShapeInv'
  BY <1>5, ApprovedOneSideType
<1>6. ASSUME NEW p \in Procs, ToInTransit(p) PROVE ShapeInv'
  BY <1>6, ToInTransitType
<1>7. ASSUME NEW p \in Procs, ToExecuted(p) PROVE ShapeInv'
  BY <1>7, ToExecutedType
<1>8. ASSUME NEW p \in Procs, ToRejected(p) PROVE ShapeInv'
  BY <1>8, ToRejectedType
<1>9. ASSUME NEW p \in Procs, PatchOrder(p) PROVE ShapeInv'
  BY <1>9, PatchOrderType
<1>10. ASSUME NEW p \in Procs, Conflict(p) PROVE ShapeInv'
  BY <1>10, FailType DEF Conflict, Busy, ShapeInv, IsLock
<1>11. ASSUME NEW p \in Procs, CancelChained(p) PROVE ShapeInv'
  BY <1>11, CancelChainedType
<1>12. ASSUME NEW p \in Procs, CallInventoryAdjust(p) PROVE ShapeInv'
  BY <1>12, CallInventoryAdjustType
<1>13. ASSUME NEW p \in Procs, Commit(p) PROVE ShapeInv'
  BY <1>13, CommitType
<1>14. ASSUME NEW p \in Procs, PublishOrderEvent(p) PROVE ShapeInv'
  BY <1>14, PublishType
<1>15. ASSUME NEW p \in Procs, DeadlockVictim(p) PROVE ShapeInv'
  BY <1>15, RollbackType DEF DeadlockVictim, ShapeInv, IsLock
<1>16. ASSUME NEW p \in Procs, Crash(p) PROVE ShapeInv'
  BY <1>16, CrashType
<1>17. CASE UNCHANGED vars
  BY <1>17 DEF vars, ShapeInv, IsLock, BusyHasOrder
<1>18. QED
  BY <1>1, <1>2, <1>3, <1>4, <1>5, <1>6, <1>7, <1>8, <1>9, <1>10, <1>11, <1>12,
     <1>13, <1>14, <1>15, <1>16, <1>17 DEF Next, Work

-----------------------------------------------------------------------------
(* Versions of a row *)

\* w is what one UPDATE makes of version v.
Successor(v, w) ==
    \/ v.status = "PENDING" /\ w = [v EXCEPT !.status = "APPROVED"]
    \/ /\ v.status \in {"PENDING", "APPROVED"}
       /\ w = [v EXCEPT !.status = "IN_TRANSIT", !.dispatched = TRUE]
    \/ /\ v.status = "IN_TRANSIT"
       /\ w = [v EXCEPT !.status = "EXECUTED", !.executed = TRUE]
    \/ v.status \in Live /\ w = Rejected(v)
    \/ /\ v.status \in {"PENDING", "APPROVED"}
       /\ \E q \in Nat : w = [v EXCEPT !.qty = q]

\* o is chained to an order that somebody sees PENDING.
Insertable(o) == Parent[o] # NoOrder /\ \E p \in Procs : Sees(p, Parent[o]).status = "PENDING"

\* The newest version of a row after a step: kept, undone, inserted as a
\* chained order, or the successor of the newest or of the committed version.
NextVersion(o, w) ==
    \/ w \in {draft[o], row[o]}
    \/ Insertable(o) /\ \E k \in Nat : w = NewRow("APPROVED", k)
    \/ Successor(draft[o], w)
    \/ Successor(row[o], w)

\* What a step of a request makes of a row: a next version, which another step
\* commits.  A row that a writer other than a request has written stays as it
\* is, but for the insertion of a chained order.
RowMoves(o) ==
    /\ NextVersion(o, draft'[o])
    /\ row'[o] = row[o] \/ (row'[o] = draft[o] /\ draft'[o] = draft[o])
    /\ \/ lock'[o] \in Procs \cup {NoProc}
       \/ row'[o] = row[o] /\ draft'[o] = draft[o] /\ lock'[o] = lock[o]
    /\ \/ lock[o] \in Procs \cup {NoProc}
       \/ Parent[o] # NoOrder
       \/ lock'[o] = lock[o]

LEMMA SeesVersion ==
    ASSUME NEW p \in Procs, NEW o \in Orders, NEW w, Successor(Sees(p, o), w)
    PROVE  NextVersion(o, w)
  BY DEF Sees, NextVersion

LEMMA RowKept ==
    ASSUME NEW o \in Orders, row'[o] = row[o], draft'[o] = draft[o], lock'[o] = lock[o]
    PROVE  RowMoves(o)
  BY DEF RowMoves, NextVersion

\* Write changes one row, and no other.
LEMMA WriteVersion ==
    ASSUME ShapeInv, NEW p \in Procs, NEW o \in Orders, NEW w, Free(p, o),
           Successor(Sees(p, o), w), Write(p, o, w), row' = row
    PROVE  \A x \in Orders : RowMoves(x)
<1>1. NextVersion(o, w)
  BY SeesVersion
<1>2. \A x \in Orders : draft'[x] = IF x = o THEN w ELSE draft[x]
  BY DEF Write, ShapeInv
<1>3. \A x \in Orders : lock'[x] = IF x = o THEN p ELSE lock[x]
  BY DEF Write, ShapeInv, IsLock
<1>4. RowMoves(o)
  <2>1. draft'[o] = w /\ lock'[o] = p
    BY <1>2, <1>3
  <2>2. NextVersion(o, draft'[o])
    BY <1>1, <2>1
  <2>3. QED
    BY <2>1, <2>2 DEF RowMoves, Free
<1>5. QED
  BY <1>2, <1>3, <1>4, RowKept

LEMMA RollbackVersion ==
    ASSUME ShapeInv, NEW p \in Procs, Rollback(p)
    PROVE  \A x \in Orders : RowMoves(x)
<1> SUFFICES ASSUME NEW x \in Orders PROVE RowMoves(x)
  OBVIOUS
<1>1. CASE lock[x] = p
  BY <1>1 DEF Rollback, RowMoves, NextVersion
<1>2. CASE lock[x] # p
  BY <1>2, RowKept DEF Rollback
<1>3. QED
  BY <1>1, <1>2

LEMMA FailVersion ==
    ASSUME ShapeInv, NEW p \in Procs, Fail(p)
    PROVE  \A x \in Orders : RowMoves(x)
  BY RollbackVersion, RowKept DEF Fail

\* Each step of a request is one of these on every row.
LEMMA VersionStep ==
    ASSUME ShapeInv, [Next]_vars
    PROVE  \A x \in Orders : RowMoves(x)
<1> DEFINE Step == \A x \in Orders : RowMoves(x)
<1> SUFFICES Step
  OBVIOUS
<1>0. UNCHANGED <<row, draft, lock>> => Step
  BY RowKept
<1>1. ASSUME NEW p \in Procs, SingleRequest(p) PROVE Step
  BY <1>0, <1>1 DEF SingleRequest, Start, dbVars
<1>2. ASSUME NEW p \in Procs, BatchRequest(p) PROVE Step
  BY <1>0, <1>2 DEF BatchRequest, Start, dbVars
<1>3. ASSUME NEW p \in Procs, UpsertApprovals(p) PROVE Step
  BY <1>0, <1>3 DEF UpsertApprovals
<1>4. ASSUME NEW p \in Procs, ToApproved(p) PROVE Step
  <2> DEFINE o == Current(p)
             r == Sees(p, o)
             v == IF HasSource(o)
                  THEN [r EXCEPT !.status = "APPROVED"]
                  ELSE [r EXCEPT !.status = "IN_TRANSIT", !.dispatched = TRUE]
  <2>1. o \in Orders /\ r \in Row /\ r.status = "PENDING"
    BY <1>4, CurrentShape, VersionShape
       DEF ToApproved, Updating, Busy, Matches, From
  <2>2. Successor(r, v)
    BY <2>1 DEF Successor
  <2>3. NextVersion(o, v)
    BY <2>1, <2>2, SeesVersion
  <2>4. PICK f \in Splits(o, r.qty) :
           LET new == {k \in DOMAIN f : Chains(o) /\ f[k] > 0}
           IN  /\ draft' = [k \in Orders |->
                              IF k = o THEN v
                              ELSE IF k \in new THEN NewRow("APPROVED", f[k])
                              ELSE draft[k]]
               /\ lock' = [k \in Orders |->
                              IF k = o \/ k \in new THEN p ELSE lock[k]]
    BY <1>4 DEF ToApproved
  <2>5. \A k \in DOMAIN f : f[k] \in Nat
    BY <2>1 DEF Splits, Row
  <2> DEFINE new == {k \in DOMAIN f : Chains(o) /\ f[k] > 0}
  <2>6. \A k \in new : Parent[k] = o
    BY DEF Splits, Children
  <2>7. \A x \in Orders :
           /\ draft'[x] = IF x = o THEN v
                          ELSE IF x \in new THEN NewRow("APPROVED", f[x]) ELSE draft[x]
           /\ lock'[x] = IF x = o \/ x \in new THEN p ELSE lock[x]
           /\ row'[x] = row[x]
    BY <1>4, <2>4 DEF ToApproved
  <2>8. lock[o] \in {p, NoProc}
    BY <1>4 DEF ToApproved, Free
  <2> SUFFICES ASSUME NEW x \in Orders PROVE RowMoves(x)
    OBVIOUS
  <2> HIDE DEF new, v, r
  <2>9. CASE x = o
    BY <2>3, <2>7, <2>8, <2>9 DEF RowMoves
  <2>10. CASE x # o /\ x \in new
    <3>1. Insertable(x)
      BY <2>1, <2>6, <2>10, ConstantsAssumption DEF Insertable, r
    <3>2. f[x] \in Nat
      BY <2>5, <2>10 DEF new
    <3>3. NextVersion(x, draft'[x])
      BY <2>7, <2>10, <3>1, <3>2 DEF NextVersion
    <3>4. Parent[x] # NoOrder
      BY <3>1 DEF Insertable
    <3>5. QED
      BY <2>7, <2>10, <3>3, <3>4 DEF RowMoves
  <2>11. CASE x # o /\ x \notin new
    BY <2>7, <2>11, RowKept
  <2>12. QED
    BY <2>9, <2>10, <2>11
<1>5. ASSUME NEW p \in Procs, ApprovedOneSide(p) PROVE Step
  BY <1>0, <1>5 DEF ApprovedOneSide, dbVars
<1>6. ASSUME NEW p \in Procs, ToInTransit(p) PROVE Step
  <2>1. Current(p) \in Orders
    BY <1>6, CurrentShape DEF ToInTransit, Updating, Busy
  <2> DEFINE w == [Sees(p, Current(p)) EXCEPT !.status = "IN_TRANSIT", !.dispatched = TRUE]
  <2>2. Successor(Sees(p, Current(p)), w)
    BY <1>6 DEF ToInTransit, Updating, Matches, From, Successor
  <2>3. Free(p, Current(p)) /\ Write(p, Current(p), w) /\ row' = row
    BY <1>6 DEF ToInTransit
  <2> HIDE DEF w
  <2>4. QED
    BY <2>1, <2>2, <2>3, WriteVersion
<1>7. ASSUME NEW p \in Procs, ToExecuted(p) PROVE Step
  <2>1. Current(p) \in Orders
    BY <1>7, CurrentShape DEF ToExecuted, Updating, Busy
  <2> DEFINE w == [Sees(p, Current(p)) EXCEPT !.status = "EXECUTED", !.executed = TRUE]
  <2>2. Successor(Sees(p, Current(p)), w)
    BY <1>7 DEF ToExecuted, Updating, Matches, From, Successor
  <2>3. Free(p, Current(p)) /\ Write(p, Current(p), w) /\ row' = row
    BY <1>7 DEF ToExecuted
  <2> HIDE DEF w
  <2>4. QED
    BY <2>1, <2>2, <2>3, WriteVersion
<1>8. ASSUME NEW p \in Procs, ToRejected(p) PROVE Step
  <2>1. Current(p) \in Orders
    BY <1>8, CurrentShape DEF ToRejected, Updating, Busy
  <2> DEFINE w == Rejected(Sees(p, Current(p)))
  <2>2. Successor(Sees(p, Current(p)), w)
    BY <1>8 DEF ToRejected, Updating, Matches, From, Successor, Live
  <2>3. Free(p, Current(p)) /\ Write(p, Current(p), w) /\ row' = row
    BY <1>8 DEF ToRejected
  <2> HIDE DEF w
  <2>4. QED
    BY <2>1, <2>2, <2>3, WriteVersion
<1>9. ASSUME NEW p \in Procs, PatchOrder(p) PROVE Step
  <2>1. Current(p) \in Orders /\ req[p].qty \in Nat
    BY <1>9, CurrentShape DEF PatchOrder, Updating, Busy, ShapeInv, IsLock, Request
  <2> DEFINE w == [Sees(p, Current(p)) EXCEPT !.qty = req[p].qty]
  <2>2. Successor(Sees(p, Current(p)), w)
    BY <1>9, <2>1 DEF PatchOrder, Updating, Matches, From, Successor
  <2>3. Free(p, Current(p)) /\ Write(p, Current(p), w) /\ row' = row
    BY <1>9 DEF PatchOrder
  <2> HIDE DEF w
  <2>4. QED
    BY <2>1, <2>2, <2>3, WriteVersion
<1>10. ASSUME NEW p \in Procs, Conflict(p) PROVE Step
  BY <1>10, FailVersion DEF Conflict
<1>11. ASSUME NEW p \in Procs, CancelChained(p) PROVE Step
  <2> DEFINE cs == {c \in Children(Current(p)) : Sees(p, c).status \in Live}
  <2>1. \A x \in Orders :
           /\ draft'[x] = IF x \in cs THEN Rejected(Sees(p, x)) ELSE draft[x]
           /\ lock'[x] = IF x \in cs THEN p ELSE lock[x]
           /\ row'[x] = row[x]
           /\ x \in cs => lock[x] \in {p, NoProc}
    BY <1>11 DEF CancelChained, Free
  <2>2. \A x \in cs : x \in Orders /\ Successor(Sees(p, x), Rejected(Sees(p, x)))
    BY DEF Children, Successor
  <2>3. \A x \in cs : NextVersion(x, Rejected(Sees(p, x)))
    BY <2>2, SeesVersion
  <2> HIDE DEF cs
  <2>4. \A x \in cs : x \in Orders => RowMoves(x)
    BY <2>1, <2>3 DEF RowMoves
  <2>5. \A x \in Orders \ cs : RowMoves(x)
    BY <2>1, RowKept
  <2>6. QED
    BY <2>4, <2>5
<1>12. ASSUME NEW p \in Procs, CallInventoryAdjust(p) PROVE Step
  BY <1>0, <1>12, FailVersion DEF CallInventoryAdjust, dbVars
<1>13. ASSUME NEW p \in Procs, Commit(p) PROVE Step
  <2> SUFFICES ASSUME NEW x \in Orders PROVE RowMoves(x)
    OBVIOUS
  <2>1. CASE lock[x] = p
    BY <1>13, <2>1 DEF Commit, RowMoves, NextVersion
  <2>2. CASE lock[x] # p
    BY <1>13, <2>2, RowKept DEF Commit
  <2>3. QED
    BY <2>1, <2>2
<1>14. ASSUME NEW p \in Procs, PublishOrderEvent(p) PROVE Step
  BY <1>0, <1>14 DEF PublishOrderEvent, dbVars
<1>15. ASSUME NEW p \in Procs, DeadlockVictim(p) PROVE Step
  BY <1>15, RollbackVersion DEF DeadlockVictim
<1>16. ASSUME NEW p \in Procs, Crash(p) PROVE Step
  BY <1>16, RollbackVersion DEF Crash
<1>17. CASE UNCHANGED vars
  BY <1>0, <1>17 DEF vars
<1>18. QED
  BY <1>1, <1>2, <1>3, <1>4, <1>5, <1>6, <1>7, <1>8, <1>9, <1>10, <1>11, <1>12,
     <1>13, <1>14, <1>15, <1>16, <1>17 DEF Next, Work

-----------------------------------------------------------------------------
(* Types, when every writer of a row is a request *)

LEMMA CurrentType ==
    ASSUME TypeInv, NEW p \in Procs, pc[p] \in Busy
    PROVE  /\ Current(p) \in Orders
           /\ Tail(req[p].todo) \in Seq(Orders)
  BY TypeShape, CurrentShape

LEMMA VersionType ==
    ASSUME TypeInv, NEW p \in Procs, NEW o \in Orders
    PROVE  /\ Sees(p, o) \in Row
           /\ Rejected(Sees(p, o)) \in Row \/ Sees(p, o).status \notin Live
           /\ Restore(o, Sees(p, o)) \subseteq Call
  BY TypeShape, VersionShape

LEMMA InitType == Init => TypeInv
  BY InitShape, TypeShape DEF Init

LEMMA NextType == TypeInv /\ [Next]_vars => TypeInv'
<1> SUFFICES ASSUME TypeInv, [Next]_vars PROVE TypeInv'
  OBVIOUS
<1>1. ShapeInv /\ ShapeInv'
  BY TypeShape, NextShape
<1>2. \A o \in Orders : lock'[o] \in Procs \cup {NoProc}
  BY <1>1, TypeShape, VersionStep DEF RowMoves
<1>3. (ShapeInv /\ \A o \in Orders : lock[o] \in Procs \cup {NoProc})'
  BY <1>1, <1>2
<1>4. QED
  BY <1>3 DEF TypeInv, TypeOK, ShapeInv, IsLock

LEMMA TypeInvariant == Spec => []TypeInv
  BY InitType, NextType, PTL DEF Spec

\* Whatever requests, batches and faults meet, every variable keeps its type.
THEOREM TypeCorrect == Spec => []TypeOK
  BY TypeInvariant, PTL DEF TypeInv

-----------------------------------------------------------------------------
(* The CHECK constraints *)

\* The stamps agree with the status in every version, committed or not.
StampsInv == \A o \in Orders : StampsOK(row[o]) /\ StampsOK(draft[o])

LEMMA SuccessorStamps ==
    ASSUME NEW v \in Row, StampsOK(v), NEW w, Successor(v, w)
    PROVE  StampsOK(w)
<1> USE DEF StampsOK, Row, Statuses, Live
<1>1. CASE v.status = "PENDING" /\ w = [v EXCEPT !.status = "APPROVED"]
  BY <1>1
<1>2. CASE /\ v.status \in {"PENDING", "APPROVED"}
           /\ w = [v EXCEPT !.status = "IN_TRANSIT", !.dispatched = TRUE]
  BY <1>2
<1>3. CASE /\ v.status = "IN_TRANSIT"
           /\ w = [v EXCEPT !.status = "EXECUTED", !.executed = TRUE]
  BY <1>3
<1>4. CASE v.status \in Live /\ w = Rejected(v)
  BY <1>4 DEF Rejected
<1>5. CASE /\ v.status \in {"PENDING", "APPROVED"}
           /\ \E q \in Nat : w = [v EXCEPT !.qty = q]
  BY <1>5
<1>6. QED
  BY <1>1, <1>2, <1>3, <1>4, <1>5 DEF Successor

LEMMA MovesStamps ==
    ASSUME ShapeInv, StampsInv, \A o \in Orders : RowMoves(o)
    PROVE  StampsInv'
<1> SUFFICES ASSUME NEW o \in Orders PROVE StampsOK(row'[o]) /\ StampsOK(draft'[o])
  BY DEF StampsInv
<1>1. NextVersion(o, draft'[o]) /\ row'[o] \in {row[o], draft[o]}
  BY DEF RowMoves
<1>2. /\ row[o] \in Row /\ StampsOK(row[o])
      /\ draft[o] \in Row /\ StampsOK(draft[o])
  BY DEF ShapeInv, StampsInv
<1>3. \A k \in Nat : StampsOK(NewRow("APPROVED", k))
  BY DEF StampsOK, NewRow
<1>4. QED
  BY <1>1, <1>2, <1>3, SuccessorStamps DEF NextVersion

LEMMA StampsNext == ShapeInv /\ StampsInv /\ [Next]_vars => StampsInv'
  BY VersionStep, MovesStamps

LEMMA StampsInit == Init => StampsInv
  BY DEF Init, StampsInv, StampsOK, NewRow, Absent

\* The three CHECKs of pending_orders hold of every committed row whichever
\* requests meet on it, even with faults and in batches.
THEOREM StampsCorrect == Spec => []StampsMatchStatus
<1>1. StampsInv => StampsMatchStatus
  BY DEF StampsInv, StampsMatchStatus
<1>2. QED
  BY <1>1, StampsInit, StampsNext, TypeShape, TypeInvariant, PTL DEF Spec

-----------------------------------------------------------------------------
(* Consent *)

Open     == {"ABSENT", "PENDING"}
Approved == {"APPROVED", "IN_TRANSIT", "EXECUTED"}

NeedsBoth(o) == Parent[o] = NoOrder /\ HasSource(o)

\* A row nobody has open has one version, and a decision is not taken back.
VersionsInv ==
    \A o \in Orders :
        /\ lock[o] = NoProc => draft[o] = row[o]
        /\ row[o].status \notin Open => draft[o].status \notin Open

\* The approvals behind a version are visible to whoever sees that version.
SidesInv ==
    \A o \in Orders : NeedsBoth(o) =>
        /\ row[o].status \in Approved => {"SOURCE", "TARGET"} \subseteq sides[o]
        /\ draft[o].status \in Approved =>
              \A p \in Procs : lock[o] = p =>
                  {"SOURCE", "TARGET"} \subseteq Decided(p, o)

\* A chained order comes with the decision on its parent: in the same
\* transaction before the commit, and after it.
ChainedInv ==
    \A c \in Orders : Parent[c] # NoOrder =>
        /\ row[c].status # "ABSENT" => row[Parent[c]].status \notin Open
        /\ \A p \in Procs : lock[c] = p /\ row[c].status = "ABSENT" =>
              /\ lock[Parent[c]] = p
              /\ draft[Parent[c]].status \notin Open

ConsentInv == VersionsInv /\ SidesInv /\ ChainedInv

\* A version that exists is overwritten by one that is not PENDING again.
GoesOn(v, w) ==
    /\ v.status # "ABSENT"
    /\ w.status # "ABSENT"
    /\ w.status = "PENDING" => v.status = "PENDING"

\* p overwrites the versions it sees of the orders in W.
Overwrites(p, W) ==
    \A x \in Orders :
        IF x \in W
        THEN /\ Free(p, x)
             /\ GoesOn(Sees(p, x), draft'[x])
             /\ lock'[x] = p
        ELSE draft'[x] = draft[x] /\ lock'[x] = lock[x]

\* p writes successors of the versions it sees of the orders in W.
Writes(p, W) ==
    \A x \in Orders :
        IF x \in W
        THEN /\ Free(p, x)
             /\ Successor(Sees(p, x), draft'[x])
             /\ lock'[x] = p
        ELSE draft'[x] = draft[x] /\ lock'[x] = lock[x]

LEMMA SuccessorStatus ==
    ASSUME NEW v \in Row, NEW w, Successor(v, w)
    PROVE  /\ v.status \in Live
           /\ w.status \in Statuses
           /\ w.status # "ABSENT"
           /\ w.status = "PENDING" => v.status = "PENDING"
           /\ w.status \in Approved /\ v.status # "PENDING" => v.status \in Approved
<1> USE DEF Successor, Row, Statuses, Live, Approved
<1>1. CASE v.status = "PENDING" /\ w = [v EXCEPT !.status = "APPROVED"]
  BY <1>1
<1>2. CASE /\ v.status \in {"PENDING", "APPROVED"}
           /\ w = [v EXCEPT !.status = "IN_TRANSIT", !.dispatched = TRUE]
  BY <1>2
<1>3. CASE /\ v.status = "IN_TRANSIT"
           /\ w = [v EXCEPT !.status = "EXECUTED", !.executed = TRUE]
  BY <1>3
<1>4. CASE v.status \in Live /\ w = Rejected(v)
  BY <1>4 DEF Rejected
<1>5. CASE /\ v.status \in {"PENDING", "APPROVED"}
           /\ \E q \in Nat : w = [v EXCEPT !.qty = q]
  BY <1>5
<1>6. QED
  BY <1>1, <1>2, <1>3, <1>4, <1>5

\* What a chained order and its parent are.
LEMMA ParentIsRoot ==
    ASSUME NEW c \in Orders, Parent[c] # NoOrder
    PROVE  Parent[c] \in Orders /\ Parent[Parent[c]] = NoOrder
<1>1. Parent[c] \in Orders
  BY ConstantsAssumption
<1>2. QED
  BY <1>1, ConstantsAssumption

-----------------------------------------------------------------------------
(* Versions and families: what holds whoever may take approvals back *)

LEMMA WritesOverwrites ==
    ASSUME TypeInv, NEW p \in Procs, NEW W \in SUBSET Orders, Writes(p, W)
    PROVE  Overwrites(p, W)
<1>1. \A x \in W : Sees(p, x) \in Row
  BY VersionType
<1>2. \A x \in W : GoesOn(Sees(p, x), draft'[x])
  BY <1>1, SuccessorStatus DEF Writes, GoesOn, Live
<1>3. QED
  BY <1>2 DEF Writes, Overwrites

LEMMA FamilyWrites ==
    ASSUME TypeInv, VersionsInv, ChainedInv, NEW p \in Procs, NEW W \in SUBSET Orders,
           Overwrites(p, W), row' = row
    PROVE  VersionsInv' /\ ChainedInv'
<1>1. \A x \in W : Sees(p, x) = draft[x]
  BY DEF Overwrites, Sees, Free, VersionsInv
<1>2. \A x \in W : GoesOn(draft[x], draft'[x])
  BY <1>1 DEF Overwrites
<1>3. p # NoProc
  BY ConstantsAssumption
<1>4. VersionsInv'
  <2> SUFFICES ASSUME NEW o \in Orders
               PROVE  /\ lock'[o] = NoProc => draft'[o] = row'[o]
                      /\ row'[o].status \notin Open => draft'[o].status \notin Open
    BY DEF VersionsInv
  <2>1. CASE o \in W
    BY <1>2, <1>3, <2>1 DEF Overwrites, GoesOn, VersionsInv, Open
  <2>2. CASE o \notin W
    BY <2>2 DEF Overwrites, VersionsInv
  <2>3. QED
    BY <2>1, <2>2
<1>5. ChainedInv'
  <2> SUFFICES ASSUME NEW c \in Orders, Parent[c] # NoOrder,
                      NEW q \in Procs, lock'[c] = q, row[c].status = "ABSENT"
               PROVE  lock'[Parent[c]] = q /\ draft'[Parent[c]].status \notin Open
    BY DEF ChainedInv
  <2>1. Parent[c] \in Orders
    BY ParentIsRoot
  <2>2. lock[c] = q
    <3>1. CASE c \in W
      <4>1. lock[c] # NoProc
        BY <1>2, <3>1 DEF VersionsInv, GoesOn
      <4>2. QED
        BY <3>1, <4>1 DEF Overwrites, Free
    <3>2. CASE c \notin W
      BY <3>2 DEF Overwrites
    <3>3. QED
      BY <3>1, <3>2
  <2>3. lock[Parent[c]] = q /\ draft[Parent[c]].status \notin Open
    BY <2>2 DEF ChainedInv
  <2>4. CASE Parent[c] \in W
    <3>1. q = p
      BY <1>3, <2>3, <2>4, ConstantsAssumption DEF Overwrites, Free
    <3>2. QED
      BY <1>2, <2>1, <2>3, <2>4, <3>1 DEF Overwrites, GoesOn, Open
  <2>5. CASE Parent[c] \notin W
    BY <2>1, <2>3, <2>5 DEF Overwrites
  <2>6. QED
    BY <2>4, <2>5
<1>6. QED
  BY <1>4, <1>5

LEMMA FamilyKept ==
    ASSUME VersionsInv, ChainedInv, UNCHANGED <<row, draft, lock>>
    PROVE  VersionsInv' /\ ChainedInv'
  BY DEF VersionsInv, ChainedInv

LEMMA FamilyRollback ==
    ASSUME VersionsInv, ChainedInv, NEW p \in Procs, Rollback(p)
    PROVE  VersionsInv' /\ ChainedInv'
<1>1. \A o \in Orders :
         /\ draft'[o] = IF lock[o] = p THEN row[o] ELSE draft[o]
         /\ lock'[o] = IF lock[o] = p THEN NoProc ELSE lock[o]
         /\ row' = row
  BY DEF Rollback
<1>2. p # NoProc
  BY ConstantsAssumption
<1>3. VersionsInv'
  BY <1>1 DEF VersionsInv
<1>4. ChainedInv'
  <2> SUFFICES ASSUME NEW c \in Orders, Parent[c] # NoOrder,
                      NEW q \in Procs, lock'[c] = q, row[c].status = "ABSENT"
               PROVE  lock'[Parent[c]] = q /\ draft'[Parent[c]].status \notin Open
    BY <1>1, ParentIsRoot DEF ChainedInv
  <2>1. q # p /\ lock[c] = q
    BY <1>1, <1>2, ConstantsAssumption
  <2>2. Parent[c] \in Orders
    BY ParentIsRoot
  <2>3. QED
    BY <1>1, <2>1, <2>2 DEF ChainedInv
<1>5. QED
  BY <1>3, <1>4

\* p makes its drafts the committed versions and lets go of them.
Keeps(p) ==
    /\ row' = [o \in Orders |-> IF lock[o] = p THEN draft[o] ELSE row[o]]
    /\ lock' = [o \in Orders |-> IF lock[o] = p THEN NoProc ELSE lock[o]]
    /\ draft' = draft

LEMMA FamilyCommit ==
    ASSUME VersionsInv, ChainedInv, NEW p \in Procs, Keeps(p)
    PROVE  VersionsInv' /\ ChainedInv'
<1>1. \A o \in Orders :
         /\ row'[o] = IF lock[o] = p THEN draft[o] ELSE row[o]
         /\ lock'[o] = IF lock[o] = p THEN NoProc ELSE lock[o]
         /\ draft' = draft
  BY DEF Keeps
<1>2. p # NoProc
  BY ConstantsAssumption
<1>3. VersionsInv'
  BY <1>1 DEF VersionsInv
<1>4. ChainedInv'
  <2> SUFFICES ASSUME NEW c \in Orders, Parent[c] # NoOrder
               PROVE  /\ row'[c].status # "ABSENT" =>
                            row'[Parent[c]].status \notin Open
                      /\ \A q \in Procs :
                            lock'[c] = q /\ row'[c].status = "ABSENT" =>
                               /\ lock'[Parent[c]] = q
                               /\ draft'[Parent[c]].status \notin Open
    BY DEF ChainedInv
  <2>1. Parent[c] \in Orders
    BY ParentIsRoot
  <2>2. ASSUME row'[c].status # "ABSENT"
        PROVE  row'[Parent[c]].status \notin Open
    <3>1. CASE row[c].status # "ABSENT"
      BY <1>1, <2>1, <3>1 DEF ChainedInv, VersionsInv
    <3>2. CASE row[c].status = "ABSENT"
      <4>1. lock[c] = p
        BY <1>1, <2>2, <3>2
      <4>2. lock[Parent[c]] = p /\ draft[Parent[c]].status \notin Open
        BY <3>2, <4>1 DEF ChainedInv
      <4>3. QED
        BY <1>1, <2>1, <4>2
    <3>3. QED
      BY <3>1, <3>2
  <2>3. ASSUME NEW q \in Procs, lock'[c] = q, row'[c].status = "ABSENT"
        PROVE  lock'[Parent[c]] = q /\ draft'[Parent[c]].status \notin Open
    <3>1. q # p /\ lock[c] = q /\ row[c].status = "ABSENT"
      BY <1>1, <1>2, <2>3, ConstantsAssumption
    <3>2. QED
      BY <1>1, <2>1, <3>1 DEF ChainedInv
  <2>4. QED
    BY <2>2, <2>3
<1>5. QED
  BY <1>3, <1>4

-----------------------------------------------------------------------------
(* Consent, step by step *)

LEMMA ConsentWrites ==
    ASSUME TypeInv, ConsentInv, NEW p \in Procs, NEW W \in SUBSET Orders,
           Writes(p, W), UNCHANGED <<row, sides, mine>>,
           \A x \in W : /\ NeedsBoth(x)
                        /\ Sees(p, x).status = "PENDING"
                        /\ draft'[x].status \in Approved
                        => {"SOURCE", "TARGET"} \subseteq Decided(p, x)
    PROVE  ConsentInv'
<1>1. \A x \in W : Sees(p, x) \in Row
  BY VersionType
<1>2. \A x \in W : draft'[x].status \in Approved /\ Sees(p, x).status # "PENDING"
                      => Sees(p, x).status \in Approved
  BY <1>1, SuccessorStatus DEF Writes
<1>3. \A x \in W : Sees(p, x) = draft[x]
  BY DEF Writes, Sees, Free, ConsentInv, VersionsInv
<1>4. VersionsInv' /\ ChainedInv'
  BY WritesOverwrites, FamilyWrites DEF ConsentInv
<1>5. SidesInv'
  <2> SUFFICES ASSUME NEW o \in Orders, NeedsBoth(o), draft'[o].status \in Approved,
                      NEW q \in Procs, lock'[o] = q
               PROVE  {"SOURCE", "TARGET"} \subseteq Decided(q, o)
    BY DEF SidesInv, ConsentInv, Decided, NeedsBoth
  <2>1. CASE o \in W
    <3>1. q = p
      BY <2>1 DEF Writes
    <3>2. CASE Sees(p, o).status = "PENDING"
      BY <2>1, <3>1, <3>2
    <3>3. CASE Sees(p, o).status # "PENDING"
      <4>1. draft[o].status \in Approved
        BY <1>2, <1>3, <2>1, <3>3
      <4>2. lock[o] = p \/ (lock[o] = NoProc /\ row[o].status \in Approved)
        BY <2>1, <4>1 DEF Writes, Free, ConsentInv, VersionsInv
      <4>3. QED
        BY <3>1, <4>1, <4>2 DEF ConsentInv, SidesInv, Decided
    <3>4. QED
      BY <3>2, <3>3
  <2>2. CASE o \notin W
    BY <2>2 DEF Writes, ConsentInv, SidesInv
  <2>3. QED
    BY <2>1, <2>2
<1>6. QED
  BY <1>4, <1>5 DEF ConsentInv

\* Steps that leave the rows and their locks alone and take no approval back.
LEMMA ConsentKept ==
    ASSUME ConsentInv, UNCHANGED <<row, draft, lock, sides>>,
           \A q \in Procs : mine[q] \subseteq mine'[q]
    PROVE  ConsentInv'
<1>1. VersionsInv' /\ ChainedInv'
  BY FamilyKept DEF ConsentInv
<1>2. \A q \in Procs, o \in Orders : Decided(q, o) \subseteq Decided(q, o)'
  BY DEF Decided
<1>3. SidesInv'
  BY <1>2 DEF ConsentInv, SidesInv
<1>4. QED
  BY <1>1, <1>3 DEF ConsentInv

LEMMA ConsentRollback ==
    ASSUME TypeInv, ConsentInv, NEW p \in Procs, Rollback(p)
    PROVE  ConsentInv'
<1>1. \A o \in Orders :
         /\ draft'[o] = IF lock[o] = p THEN row[o] ELSE draft[o]
         /\ lock'[o] = IF lock[o] = p THEN NoProc ELSE lock[o]
         /\ row' = row /\ sides' = sides
  BY DEF Rollback
<1>2. \A q \in Procs \ {p} : mine'[q] = mine[q]
  BY DEF Rollback, TypeInv, TypeOK
<1>3. p # NoProc
  BY ConstantsAssumption
<1>4. VersionsInv' /\ ChainedInv'
  BY FamilyRollback DEF ConsentInv
<1>5. SidesInv'
  <2> SUFFICES ASSUME NEW o \in Orders, NeedsBoth(o), draft'[o].status \in Approved,
                      NEW q \in Procs, lock'[o] = q
               PROVE  {"SOURCE", "TARGET"} \subseteq Decided(q, o)'
    BY <1>1 DEF ConsentInv, SidesInv, NeedsBoth
  <2>1. q # p /\ lock[o] = q /\ draft'[o] = draft[o]
    BY <1>1, <1>3, ConstantsAssumption
  <2>2. Decided(q, o)' = Decided(q, o)
    BY <1>1, <1>2, <2>1 DEF Decided
  <2>3. QED
    BY <2>1, <2>2 DEF ConsentInv, SidesInv
<1>6. QED
  BY <1>4, <1>5 DEF ConsentInv

LEMMA ConsentCommit ==
    ASSUME TypeInv, ConsentInv, NEW p \in Procs, Commit(p)
    PROVE  ConsentInv'
<1>1. \A o \in Orders :
         /\ row'[o] = IF lock[o] = p THEN draft[o] ELSE row[o]
         /\ lock'[o] = IF lock[o] = p THEN NoProc ELSE lock[o]
         /\ sides'[o] = Decided(p, o)
         /\ draft' = draft
  BY DEF Commit
<1>2. \A q \in Procs \ {p} : mine'[q] = mine[q]
  BY DEF Commit, TypeInv, TypeOK
<1>3. p # NoProc
  BY ConstantsAssumption
<1>4. VersionsInv' /\ ChainedInv'
  BY FamilyCommit DEF ConsentInv, Commit, Keeps
<1>5. SidesInv'
  <2> SUFFICES ASSUME NEW o \in Orders, NeedsBoth(o)
               PROVE  /\ row'[o].status \in Approved =>
                            {"SOURCE", "TARGET"} \subseteq sides'[o]
                      /\ draft'[o].status \in Approved =>
                            \A q \in Procs : lock'[o] = q =>
                               {"SOURCE", "TARGET"} \subseteq Decided(q, o)'
    BY DEF SidesInv, NeedsBoth
  <2>1. ASSUME row'[o].status \in Approved
        PROVE  {"SOURCE", "TARGET"} \subseteq sides'[o]
    <3>1. CASE lock[o] = p
      BY <1>1, <2>1, <3>1 DEF ConsentInv, SidesInv
    <3>2. CASE lock[o] # p
      BY <1>1, <2>1, <3>2 DEF ConsentInv, SidesInv, Decided
    <3>3. QED
      BY <3>1, <3>2
  <2>2. ASSUME draft'[o].status \in Approved, NEW q \in Procs, lock'[o] = q
        PROVE  {"SOURCE", "TARGET"} \subseteq Decided(q, o)'
    <3>1. q # p /\ lock[o] = q
      BY <1>1, <1>3, <2>2, ConstantsAssumption
    <3>2. Decided(q, o) \subseteq Decided(q, o)'
      BY <1>1, <1>2, <3>1 DEF Decided
    <3>3. QED
      BY <1>1, <2>2, <3>1, <3>2 DEF ConsentInv, SidesInv
  <2>3. QED
    BY <2>1, <2>2
<1>6. QED
  BY <1>4, <1>5 DEF ConsentInv

\* What ToApproved makes of its order o, and of the chained orders in new.
ApprovesNew(p, o, v, new) ==
    \A x \in Orders :
        /\ draft'[x] = IF x = o THEN v
                       ELSE IF x \in new THEN draft'[x] ELSE draft[x]
        /\ x \in new => x = o \/ draft'[x].status = "APPROVED"
        /\ lock'[x] = IF x = o \/ x \in new THEN p ELSE lock[x]

ApprovedVersion(o, r) ==
    IF HasSource(o)
    THEN [r EXCEPT !.status = "APPROVED"]
    ELSE [r EXCEPT !.status = "IN_TRANSIT", !.dispatched = TRUE]

LEMMA ToApprovedWrites ==
    ASSUME TypeInv, NEW p \in Procs, ToApproved(p)
    PROVE  /\ Current(p) \in Orders
           /\ Sees(p, Current(p)).status = "PENDING"
           /\ ApprovedVersion(Current(p), Sees(p, Current(p))).status \in Approved
           /\ \E new \in SUBSET Children(Current(p)) :
                 /\ Current(p) \notin new
                 /\ ApprovesNew(p, Current(p),
                       ApprovedVersion(Current(p), Sees(p, Current(p))), new)
<1> DEFINE o == Current(p)
           r == Sees(p, o)
           v == ApprovedVersion(o, r)
<1>1. o \in Orders /\ r \in Row /\ r.status = "PENDING"
  BY CurrentType, VersionType DEF ToApproved, Updating, Busy, Matches, From
<1>2. v.status \in Approved
  BY <1>1 DEF Row, Approved, ApprovedVersion
<1>3. PICK f \in Splits(o, r.qty) :
     LET n == {k \in DOMAIN f : Chains(o) /\ f[k] > 0}
     IN  /\ draft' = [k \in Orders |->
                        IF k = o THEN v
                        ELSE IF k \in n THEN NewRow("APPROVED", f[k])
                        ELSE draft[k]]
         /\ lock' = [k \in Orders |->
                        IF k = o \/ k \in n THEN p ELSE lock[k]]
  BY DEF ToApproved, ApprovedVersion
<1> DEFINE n == {k \in DOMAIN f : Chains(o) /\ f[k] > 0}
<1>4. n \in SUBSET Children(o)
  BY DEF Splits
<1>5. o \notin n
  BY <1>4, <1>1, ParentIsRoot, ConstantsAssumption DEF Children
<1>6. ApprovesNew(p, o, v, n)
  BY <1>3 DEF NewRow, ApprovesNew
<1>7. QED
  BY <1>1, <1>2, <1>4, <1>5, <1>6

LEMMA FamilyToApproved ==
    ASSUME TypeInv, VersionsInv, ChainedInv, NEW p \in Procs, ToApproved(p)
    PROVE  VersionsInv' /\ ChainedInv'
<1> DEFINE o == Current(p)
           r == Sees(p, o)
           v == ApprovedVersion(o, r)
<1>1. o \in Orders /\ r.status = "PENDING"
  BY ToApprovedWrites
<1>2. v.status \notin Open
  BY ToApprovedWrites DEF Approved, Open
<1>3. PICK new \in SUBSET Children(o) : o \notin new /\ ApprovesNew(p, o, v, new)
  BY ToApprovedWrites
<1>4. \A x \in new : x \in Orders /\ Parent[x] = o
  BY DEF Children
<1>5. \A x \in Orders :
         /\ draft'[x] = IF x = o THEN v
                        ELSE IF x \in new THEN draft'[x] ELSE draft[x]
         /\ x \in new => x = o \/ draft'[x].status = "APPROVED"
         /\ lock'[x] = IF x = o \/ x \in new THEN p ELSE lock[x]
  BY <1>3 DEF ApprovesNew
<1>6. row' = row /\ p # NoProc
  BY ConstantsAssumption DEF ToApproved
<1> HIDE DEF v
<1>7. VersionsInv'
  BY <1>1, <1>2, <1>5, <1>6 DEF VersionsInv, Open
<1>8. \A x \in Orders : draft[x].status \notin Open => draft'[x].status \notin Open
  BY <1>2, <1>5 DEF Open
<1>9. ChainedInv'
  <2> SUFFICES ASSUME NEW c \in Orders, Parent[c] # NoOrder,
                      NEW q \in Procs, lock'[c] = q, row[c].status = "ABSENT"
               PROVE  lock'[Parent[c]] = q /\ draft'[Parent[c]].status \notin Open
    BY <1>6 DEF ChainedInv
  <2>1. Parent[c] \in Orders /\ Parent[Parent[c]] = NoOrder
    BY ParentIsRoot
  <2>2. CASE c \in new
    BY <1>1, <1>2, <1>5, <1>4, <2>2
  <2>3. CASE c = o
    <3>1. row[o].status = "PENDING" \/ lock[o] = p
      BY <1>1 DEF Sees
    <3>2. lock[o] = p /\ q = p
      BY <1>1, <1>5, <2>3, <3>1
    <3>3. lock[Parent[o]] = p /\ draft[Parent[o]].status \notin Open
      BY <2>3, <3>2 DEF ChainedInv
    <3>4. Parent[o] # o /\ Parent[o] \notin new
      BY <1>1, <1>4, <2>1, <2>3, ConstantsAssumption
    <3>5. QED
      BY <1>5, <2>1, <2>3, <3>2, <3>3, <3>4
  <2>4. CASE c # o /\ c \notin new
    <3>1. lock[c] = q
      BY <1>5, <2>4
    <3>2. lock[Parent[c]] = q /\ draft[Parent[c]].status \notin Open
      BY <3>1 DEF ChainedInv
    <3>3. CASE Parent[c] = o
      <4>1. Free(p, o)
        BY DEF ToApproved
      <4>2. q = p
        BY <3>2, <3>3, <4>1, ConstantsAssumption DEF Free
      <4>3. QED
        BY <1>1, <1>2, <1>5, <3>3, <4>2
    <3>4. CASE Parent[c] # o
      <4>1. Parent[c] \notin new
        BY <1>1, <1>4, <2>1, ConstantsAssumption
      <4>2. QED
        BY <1>5, <2>1, <3>2, <3>4, <4>1
    <3>5. QED
      BY <3>3, <3>4
  <2>5. QED
    BY <2>2, <2>3, <2>4
<1>10. QED
  BY <1>7, <1>9

\* p writes successors of versions that it does not approve.
Amends(p) ==
    \E W \in SUBSET Orders :
        /\ Writes(p, W)
        /\ \A x \in W : \/ Sees(p, x).status # "PENDING"
                        \/ draft'[x].status \notin Approved
        /\ UNCHANGED <<row, sides, mine>>

LEMMA AmendsOne ==
    ASSUME TypeInv, NEW p \in Procs, NEW o \in Orders, NEW w,
           Free(p, o), Successor(Sees(p, o), w), Write(p, o, w),
           Sees(p, o).status # "PENDING" \/ w.status \notin Approved,
           UNCHANGED <<row, sides, mine>>
    PROVE  Amends(p)
<1>1. draft'[o] = w
  BY DEF Write, TypeInv, TypeOK
<1>2. Writes(p, {o})
  BY <1>1 DEF Writes, Write, TypeInv, TypeOK
<1>3. QED
  BY <1>1, <1>2 DEF Amends

LEMMA WorkAmends ==
    ASSUME TypeInv, NEW p \in Procs,
           \/ ToInTransit(p) \/ ToExecuted(p) \/ ToRejected(p)
           \/ PatchOrder(p) \/ CancelChained(p)
    PROVE  Amends(p)
<1>1. CASE ToInTransit(p)
  <2> DEFINE o == Current(p)
             w == [Sees(p, o) EXCEPT !.status = "IN_TRANSIT", !.dispatched = TRUE]
  <2>1. o \in Orders
    BY <1>1, CurrentType DEF ToInTransit, Updating, Busy
  <2>2. Sees(p, o).status = "APPROVED"
    BY <1>1 DEF ToInTransit, Updating, Matches, From
  <2>3. Successor(Sees(p, o), w)
    BY <2>2 DEF Successor
  <2>4. Free(p, o) /\ Write(p, o, w) /\ UNCHANGED <<row, sides, mine>>
    BY <1>1 DEF ToInTransit
  <2> HIDE DEF o, w
  <2>5. QED
    BY <2>1, <2>2, <2>3, <2>4, AmendsOne
<1>2. CASE ToExecuted(p)
  <2> DEFINE o == Current(p)
             w == [Sees(p, o) EXCEPT !.status = "EXECUTED", !.executed = TRUE]
  <2>1. o \in Orders
    BY <1>2, CurrentType DEF ToExecuted, Updating, Busy
  <2>2. Sees(p, o).status = "IN_TRANSIT"
    BY <1>2 DEF ToExecuted, Updating, Matches, From
  <2>3. Successor(Sees(p, o), w)
    BY <2>2 DEF Successor
  <2>4. Free(p, o) /\ Write(p, o, w) /\ UNCHANGED <<row, sides, mine>>
    BY <1>2 DEF ToExecuted
  <2> HIDE DEF o, w
  <2>5. QED
    BY <2>1, <2>2, <2>3, <2>4, AmendsOne
<1>3. CASE ToRejected(p)
  <2> DEFINE o == Current(p)
             w == Rejected(Sees(p, o))
  <2>1. o \in Orders /\ Sees(p, o) \in Row
    BY <1>3, CurrentType, VersionType DEF ToRejected, Updating, Busy
  <2>2. Sees(p, o).status \in Live
    BY <1>3 DEF ToRejected, Updating, Matches, From, Live
  <2>3. Successor(Sees(p, o), w) /\ w.status = "REJECTED"
    BY <2>1, <2>2 DEF Successor, Rejected, Row
  <2>4. Free(p, o) /\ Write(p, o, w) /\ UNCHANGED <<row, sides, mine>>
    BY <1>3 DEF ToRejected
  <2> HIDE DEF o, w
  <2>5. QED
    BY <2>1, <2>3, <2>4, AmendsOne DEF Approved
<1>4. CASE PatchOrder(p)
  <2> DEFINE o == Current(p)
             w == [Sees(p, o) EXCEPT !.qty = req[p].qty]
  <2>1. o \in Orders /\ Sees(p, o) \in Row /\ req[p].qty \in Nat
    BY <1>4, CurrentType, VersionType
       DEF PatchOrder, Updating, Busy, TypeInv, TypeOK, Request
  <2>2. Sees(p, o).status \in {"PENDING", "APPROVED"}
    BY <1>4 DEF PatchOrder, Updating, Matches, From
  <2>3. Successor(Sees(p, o), w) /\ w.status = Sees(p, o).status
    BY <2>1, <2>2 DEF Successor, Row
  <2>4. Free(p, o) /\ Write(p, o, w) /\ UNCHANGED <<row, sides, mine>>
    BY <1>4 DEF PatchOrder
  <2> HIDE DEF o, w
  <2>5. QED
    BY <2>1, <2>3, <2>4, AmendsOne DEF Approved
<1>5. CASE CancelChained(p)
  <2> DEFINE cs == {c \in Children(Current(p)) : Sees(p, c).status \in Live}
  <2>1. cs \in SUBSET Orders /\ \A x \in cs : Sees(p, x) \in Row
    BY VersionType DEF Children
  <2>2. \A x \in cs : /\ Successor(Sees(p, x), Rejected(Sees(p, x)))
                      /\ Rejected(Sees(p, x)).status = "REJECTED"
    BY <2>1 DEF Successor, Rejected, Row
  <2>3. \A x \in cs : draft'[x] = Rejected(Sees(p, x))
    BY <1>5, <2>1 DEF CancelChained
  <2>4. Writes(p, cs)
    BY <1>5, <2>1, <2>2 DEF CancelChained, Writes
  <2>5. UNCHANGED <<row, sides, mine>>
    BY <1>5 DEF CancelChained
  <2>6. \A x \in cs : draft'[x].status \notin Approved
    BY <2>2, <2>3 DEF Approved
  <2> HIDE DEF cs
  <2>7. QED
    BY <2>1, <2>4, <2>5, <2>6 DEF Amends
<1>6. QED
  BY <1>1, <1>2, <1>3, <1>4, <1>5

\* Nothing is written, and no approval is taken back.
Still ==
    /\ UNCHANGED <<row, draft, lock, sides>>
    /\ \A q \in Procs : mine[q] \subseteq mine'[q]

\* What a request does to rows and approvals in a step: one of five things.
LEMMA RequestCases ==
    ASSUME TypeInv, NEW p \in Procs,
           SingleRequest(p) \/ BatchRequest(p) \/ Work(p) \/ Crash(p)
    PROVE  Still \/ ToApproved(p) \/ Amends(p) \/ Rollback(p) \/ Commit(p)
<1>0. UNCHANGED dbVars => Still
  BY DEF dbVars, Still
<1>1. ASSUME SingleRequest(p) \/ BatchRequest(p) PROVE Still
  BY <1>0, <1>1 DEF SingleRequest, BatchRequest, Start
<1>2. ASSUME UpsertApprovals(p) PROVE Still
  BY <1>2 DEF UpsertApprovals, TypeInv, TypeOK, Still
<1>3. ASSUME ApprovedOneSide(p) \/ PublishOrderEvent(p) PROVE Still
  BY <1>0, <1>3 DEF ApprovedOneSide, PublishOrderEvent
<1>4. ASSUME Fail(p) PROVE Still \/ Rollback(p)
  BY <1>4 DEF Fail, Still
<1>5. ASSUME Conflict(p) \/ CallInventoryAdjust(p) PROVE Still \/ Rollback(p)
  <2>1. Fail(p) \/ UNCHANGED dbVars
    BY <1>5 DEF Conflict, CallInventoryAdjust
  <2>2. QED
    BY <1>0, <1>4, <2>1
<1>6. ASSUME Crash(p) \/ DeadlockVictim(p) PROVE Rollback(p)
  BY <1>6 DEF Crash, DeadlockVictim
<1>7. ASSUME Work(p)
      PROVE  Still \/ ToApproved(p) \/ Amends(p) \/ Rollback(p) \/ Commit(p)
  BY <1>2, <1>3, <1>5, <1>6, <1>7, WorkAmends DEF Work
<1>8. QED
  BY <1>1, <1>6, <1>7

LEMMA StepCases ==
    ASSUME TypeInv, [Next]_vars
    PROVE  \/ Still
           \/ \E p \in Procs : ToApproved(p) \/ Amends(p) \/ Rollback(p) \/ Commit(p)
<1>1. CASE UNCHANGED vars
  BY <1>1 DEF vars, Still
<1>2. CASE Next
  BY <1>2, RequestCases DEF Next
<1>3. QED
  BY <1>1, <1>2

LEMMA FamilyNext == TypeInv /\ VersionsInv /\ ChainedInv /\ [Next]_vars
                       => VersionsInv' /\ ChainedInv'
<1> SUFFICES ASSUME TypeInv, VersionsInv, ChainedInv, [Next]_vars
             PROVE  VersionsInv' /\ ChainedInv'
  OBVIOUS
<1>1. ASSUME NEW p \in Procs, Amends(p) PROVE VersionsInv' /\ ChainedInv'
  BY <1>1, WritesOverwrites, FamilyWrites DEF Amends
<1>2. ASSUME NEW p \in Procs, Commit(p) PROVE VersionsInv' /\ ChainedInv'
  BY <1>2, FamilyCommit DEF Commit, Keeps
<1>3. QED
  BY <1>1, <1>2, StepCases, FamilyKept, FamilyRollback, FamilyToApproved DEF Still

LEMMA ConsentToApproved ==
    ASSUME TypeInv, ConsentInv, NEW p \in Procs, ToApproved(p)
    PROVE  ConsentInv'
<1> DEFINE o == Current(p)
           v == ApprovedVersion(o, Sees(p, o))
<1>1. o \in Orders
  BY ToApprovedWrites
<1>2. PICK new \in SUBSET Children(o) : o \notin new /\ ApprovesNew(p, o, v, new)
  BY ToApprovedWrites
<1>3. \A x \in Orders : lock'[x] = IF x = o \/ x \in new THEN p ELSE lock[x]
  BY <1>2 DEF ApprovesNew
<1>4. \A x \in new : x \in Orders /\ Parent[x] = o
  BY DEF Children
<1>6. UNCHANGED <<row, sides, mine>>
  BY DEF ToApproved
<1>7. VersionsInv' /\ ChainedInv'
  BY FamilyToApproved DEF ConsentInv
<1>8. SidesInv'
  <2> SUFFICES ASSUME NEW x \in Orders, NeedsBoth(x), draft'[x].status \in Approved,
                      NEW q \in Procs, lock'[x] = q
               PROVE  {"SOURCE", "TARGET"} \subseteq Decided(q, x)
    BY <1>6 DEF ConsentInv, SidesInv, Decided, NeedsBoth
  <2>1. CASE x = o
    <3>1. q = p
      BY <1>1, <1>3, <2>1
    <3>2. Agreed(p, o)
      BY DEF ToApproved, Matches, Updating
    <3>3. QED
      BY <2>1, <3>1, <3>2 DEF Agreed, NeedsBoth, HasSource
  <2>2. CASE x \in new
    BY <1>1, <1>4, <2>2, ConstantsAssumption DEF NeedsBoth
  <2>3. CASE x # o /\ x \notin new
    BY <1>2, <1>3, <2>3 DEF ConsentInv, SidesInv, ApprovesNew
  <2>4. QED
    BY <2>1, <2>2, <2>3
<1>9. QED
  BY <1>7, <1>8 DEF ConsentInv

LEMMA ConsentInit == Init => ConsentInv
<1> SUFFICES ASSUME Init PROVE ConsentInv
  OBVIOUS
<1>1. \A o \in Orders : lock[o] = NoProc /\ draft[o] = row[o]
  BY DEF Init
<1>2. \A o \in Orders : row[o].status \notin Approved
  BY DEF Init, Approved, NewRow, Absent
<1>3. \A c \in Orders : Parent[c] # NoOrder => row[c].status = "ABSENT"
  BY DEF Init, NewRow, Absent
<1>4. QED
  BY <1>1, <1>2, <1>3, ConstantsAssumption
     DEF ConsentInv, VersionsInv, SidesInv, ChainedInv

LEMMA ConsentNext == TypeInv /\ ConsentInv /\ [Next]_vars => ConsentInv'
<1> SUFFICES ASSUME TypeInv, ConsentInv, [Next]_vars PROVE ConsentInv'
  OBVIOUS
<1>1. ASSUME NEW p \in Procs, Amends(p) PROVE ConsentInv'
  BY <1>1, ConsentWrites DEF Amends
<1>2. QED
  BY <1>1, StepCases, ConsentKept, ConsentToApproved, ConsentRollback, ConsentCommit
     DEF Still

\* Nothing moves without consent: a transfer that is approved, shipped or
\* delivered has the approvals of both its sides, and a chained order exists
\* only under a decided parent, whatever requests, batches and faults meet.
THEOREM ConsentCorrect == Spec => []NoneWithoutConsent
<1>1. TypeInv /\ ConsentInv => NoneWithoutConsent
  <2> SUFFICES ASSUME TypeInv, ConsentInv, NEW o \in Orders,
                      row[o].status \in Approved
               PROVE  IF Parent[o] # NoOrder
                      THEN row[Parent[o]].status \notin Open
                      ELSE HasSource(o) => {"SOURCE", "TARGET"} \subseteq sides[o]
    BY DEF NoneWithoutConsent, Approved, Open
  <2>1. CASE Parent[o] # NoOrder
    BY <2>1 DEF ConsentInv, ChainedInv, Approved
  <2>2. CASE Parent[o] = NoOrder
    BY <2>2 DEF ConsentInv, SidesInv, NeedsBoth
  <2>3. QED
    BY <2>1, <2>2
<1>2. QED
  BY <1>1, ConsentInit, ConsentNext, TypeInvariant, PTL DEF Spec

=============================================================================

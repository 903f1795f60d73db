---------------------------- MODULE WorkflowProofs ----------------------------
(***************************************************************************)
(* What the requests of StateMachine and the 08:00 batch keep.             *)
(*                                                                         *)
(* 1. Stock and status agree, and the workflow implements OrderLifecycle.  *)
(*    StockMatchesStatus fails with faults, batches and cascades that      *)
(*    inventory-svc stops half-way; it is proved for every instance that   *)
(*    has none of these.                                                   *)
(* 2. No chained order is live under a rejected parent, and every event is *)
(*    true and published once: for every instance, faults and batches      *)
(*    included.                                                            *)
(* 3. A finished 08:00 batch has closed all it began with, and moves no    *)
(*    stock, next to any requests.  The batch writes rows without a guard  *)
(*    on what they have become; what keeps it from doing harm is the CHECK *)
(*    on the stamps, its own order of steps, and that no order is ever     *)
(*    PENDING again.                                                       *)
(***************************************************************************)
EXTENDS AutoExecute, StateMachine_proofs

-----------------------------------------------------------------------------
(* 1. Stock and status *)

\* No fault and no batch; inventory-svc refuses a call only where a request
\* makes a single one.
Undisturbed ==
    /\ Batches = {}
    /\ MaxFaults = 0
    /\ Attempts \subseteq {"ok", "refused"}
    /\ \/ \A o \in Orders : Parent[o] = NoOrder
       \/ Attempts \subseteq {"ok"} /\ Clients \subseteq {"hq"}

\* What a call makes of the stock moved for an order.
Moved(stock, c) == [stock EXCEPT ![c.end] = @ + c.delta]

\* Every request is for one order, by a client.
RequestsInv ==
    \A p \in Procs :
        /\ ~req[p].batch
        /\ pc[p] \in Busy => Tail(req[p].todo) = <<>>
        /\ pc[p] # "idle" => req[p].who \in Clients

\* Which rows a request has written when it stands where; one that restores
\* chained orders is never refused.
LocksInv ==
    \A p \in Procs :
        /\ \A o \in Orders : lock[o] = p =>
              /\ pc[p] \in {"adjust", "cascade", "restore", "commit"}
              /\ pc[p] \in {"adjust", "cascade"} => o = Current(p)
        /\ pc[p] \in {"adjust", "cascade"} => lock[Current(p)] = p
        /\ pc[p] = "restore" => Attempts \subseteq {"ok"} /\ req[p].who = "hq"

\* Calls are to be made for rows the request has written, one for each.
CallsInv ==
    \A p \in Procs :
        /\ pc[p] \notin {"adjust", "restore"} => calls[p] = {}
        /\ \A c \in calls[p] : lock[c.ord] = p
        /\ \A c, d \in calls[p] : c.ord = d.ord => c = d

\* The stock moved is that of the committed version while the call is still to
\* be made, and then that of the newest.
LedgerInv ==
    \A o \in Orders :
        /\ lock[o] = NoProc => ledger[o] = Effect(o, row[o])
        /\ \A p \in Procs : lock[o] = p =>
              /\ \A c \in calls[p] : c.ord = o =>
                    /\ ledger[o] = Effect(o, row[o])
                    /\ Effect(o, draft[o]) = Moved(ledger[o], c)
              /\ (\A c \in calls[p] : c.ord # o) => ledger[o] = Effect(o, draft[o])

StockInv == RequestsInv /\ LocksInv /\ CallsInv /\ LedgerInv

-----------------------------------------------------------------------------

LEMMA StockInit == Init => StockInv
<1> SUFFICES ASSUME Init PROVE StockInv
  OBVIOUS
<1> USE ConstantsAssumption DEF Init
<1>1. \A o \in Orders : ledger[o] = Effect(o, row[o])
  BY DEF Effect, NewRow, Absent
<1>2. QED
  BY <1>1 DEF StockInv, RequestsInv, LocksInv, CallsInv, LedgerInv, NoRequest, Busy

\* A request at its UPDATE has written nothing.
LEMMA NothingWritten ==
    ASSUME StockInv, NEW p \in Procs, pc[p] \in {"idle", "upsert", "update", "publish"}
    PROVE  /\ \A o \in Orders : lock[o] # p
           /\ calls[p] = {}
  BY DEF StockInv, LocksInv, CallsInv

\* Where a request goes once its one order is done.
LEMMA AdvanceToCommit ==
    ASSUME TypeInv, StockInv, NEW p \in Procs, pc[p] \in Busy, NEW es, Advance(p, es)
    PROVE  /\ pc' = [pc EXCEPT ![p] = "commit"]
           /\ \A q \in Procs : /\ req'[q].who = req[q].who
                               /\ req'[q].batch = req[q].batch
                               /\ q # p => req'[q] = req[q]
<1>1. Tail(req[p].todo) = <<>>
  BY DEF StockInv, RequestsInv
<1>2. pc' = [pc EXCEPT ![p] = "commit"]
  BY <1>1 DEF Advance
<1>3. req' = [req EXCEPT ![p].todo = Tail(req[p].todo)]
  BY DEF Advance
<1>4. QED
  BY <1>2, <1>3 DEF TypeInv, TypeOK, Request

\* A request undone before inventory-svc has moved any stock for it.
LEMMA StockRollback ==
    ASSUME TypeInv, StockInv, NEW p \in Procs, Rollback(p), ledger' = ledger,
           \A o \in Orders : lock[o] = p => ledger[o] = Effect(o, row[o])
    PROVE  StockInv'
<1>1. \A o \in Orders :
         /\ draft'[o] = IF lock[o] = p THEN row[o] ELSE draft[o]
         /\ lock'[o] = IF lock[o] = p THEN NoProc ELSE lock[o]
         /\ row' = row
  BY DEF Rollback
<1>2. \A q \in Procs : IF q = p
                       THEN pc'[q] = "idle" /\ req'[q] = NoRequest /\ calls'[q] = {}
                       ELSE pc'[q] = pc[q] /\ req'[q] = req[q] /\ calls'[q] = calls[q]
  BY DEF Rollback, TypeInv, TypeOK
<1>3. p # NoProc /\ NoProc \notin Procs
  BY ConstantsAssumption
<1>4. \A q \in Procs \ {p} : Current(q)' = Current(q)
  BY <1>2 DEF Current
<1>5. RequestsInv'
  BY <1>2 DEF StockInv, RequestsInv, NoRequest, Busy
<1>6. \A q \in Procs : \A c \in calls[q] : c.ord \in Orders
  BY DEF TypeInv, TypeOK, Call
<1>7. LocksInv'
  <2> SUFFICES ASSUME NEW q \in Procs
      PROVE  /\ \A o \in Orders : lock'[o] = q =>
                   /\ pc'[q] \in {"adjust", "cascade", "restore", "commit"}
                   /\ pc'[q] \in {"adjust", "cascade"} => o = Current(q)'
             /\ pc'[q] \in {"adjust", "cascade"} => lock'[Current(q)'] = q
             /\ pc'[q] = "restore" => Attempts \subseteq {"ok"} /\ req'[q].who = "hq"
    BY DEF LocksInv
  <2>1. CASE q = p
    BY <1>1, <1>2, <1>3, <2>1
  <2>2. CASE q # p
    <3>1. pc[q] \in {"adjust", "cascade"} => Current(q) \in Orders
      BY CurrentType DEF Busy
    <3>2. QED
      BY <1>1, <1>2, <1>3, <1>4, <2>2, <3>1 DEF StockInv, LocksInv
  <2>3. QED
    BY <2>1, <2>2
<1>8. CallsInv'
  BY <1>1, <1>2, <1>6 DEF StockInv, CallsInv
<1>9. LedgerInv'
  <2> SUFFICES ASSUME NEW o \in Orders
      PROVE  /\ lock'[o] = NoProc => ledger[o] = Effect(o, row[o])
             /\ \A q \in Procs : lock'[o] = q =>
                   /\ \A c \in calls'[q] : c.ord = o =>
                         /\ ledger[o] = Effect(o, row[o])
                         /\ Effect(o, draft'[o]) = Moved(ledger[o], c)
                   /\ (\A c \in calls'[q] : c.ord # o) => ledger[o] = Effect(o, draft'[o])
    BY <1>1 DEF LedgerInv, Effect, Moved
  <2>1. CASE lock[o] = p
    BY <1>1, <1>3, <2>1
  <2>2. CASE lock[o] # p
    BY <1>1, <1>2, <2>2 DEF StockInv, LedgerInv
  <2>3. QED
    BY <2>1, <2>2
<1>10. QED
  BY <1>5, <1>7, <1>8, <1>9 DEF StockInv

\* Steps that only move a request on, before or after it has written.
LEMMA StockMove ==
    ASSUME TypeInv, StockInv, NEW p \in Procs, NEW next \in PCs,
           pc' = [pc EXCEPT ![p] = next],
           UNCHANGED <<row, draft, lock, ledger, calls>>,
           RequestsInv',
           \A q \in Procs : q # p => req'[q] = req[q],
           \A o \in Orders : lock[o] # p,
           next \in {"idle", "upsert", "update", "commit", "publish"}
    PROVE  StockInv'
<1>1. \A q \in Procs : pc'[q] = IF q = p THEN next ELSE pc[q]
  BY DEF TypeInv, TypeOK
<1>2. \A q \in Procs \ {p} : Current(q)' = Current(q)
  BY DEF Current
<1>3. LocksInv'
  BY <1>1, <1>2 DEF StockInv, LocksInv
<1>4. calls[p] = {}
  <2>1. \A c \in calls[p] : c.ord \in Orders /\ lock[c.ord] = p
    BY DEF StockInv, CallsInv, TypeInv, TypeOK, Call
  <2>2. QED
    BY <2>1
<1>5. CallsInv'
  BY <1>1, <1>4 DEF StockInv, CallsInv
<1>6. LedgerInv'
  BY DEF StockInv, LedgerInv, Effect, Moved
<1>7. QED
  BY <1>3, <1>5, <1>6 DEF StockInv

\* The UPDATE of a request on its order, which nobody has open, with the calls
\* C that make the stock follow.
LEMMA StockWriteOne ==
    ASSUME TypeInv, ConsentInv, StockInv, NEW p \in Procs,
           pc[p] = "update", NEW w, Write(p, Current(p), w), Free(p, Current(p)),
           NEW next \in {"adjust", "cascade", "commit"},
           pc' = [pc EXCEPT ![p] = next],
           UNCHANGED <<row, ledger>>,
           NEW C, calls' = [calls EXCEPT ![p] = C],
           \A q \in Procs : q # p => req'[q] = req[q],
           RequestsInv',
           next # "commit" => req' = req,
           \/ C = {} /\ Effect(Current(p), w) = Effect(Current(p), row[Current(p)])
           \/ \E c : /\ C = {c} /\ c.ord = Current(p) /\ next = "adjust"
                     /\ Effect(Current(p), w) =
                          Moved(Effect(Current(p), row[Current(p)]), c)
    PROVE  StockInv'
<1> DEFINE o == Current(p)
<1>1. o \in Orders
  BY CurrentType DEF Busy
<1>2. p # NoProc /\ NoProc \notin Procs
  BY ConstantsAssumption
<1>3. lock[o] = NoProc /\ \A x \in Orders : lock[x] # p
  BY <1>1, NothingWritten DEF Free
<1>4. ledger[o] = Effect(o, row[o])
  BY <1>1, <1>3 DEF StockInv, LedgerInv
<1>5. \A x \in Orders : /\ lock'[x] = IF x = o THEN p ELSE lock[x]
                        /\ draft'[x] = IF x = o THEN w ELSE draft[x]
  BY <1>1 DEF Write, TypeInv, TypeOK
<1>6. \A q \in Procs : /\ pc'[q] = IF q = p THEN next ELSE pc[q]
                       /\ calls'[q] = IF q = p THEN C ELSE calls[q]
  BY DEF TypeInv, TypeOK
<1>7. \A q \in Procs : (q # p \/ next # "commit") => Current(q)' = Current(q)
  BY DEF Current
<1>8. \A q \in Procs : \A c \in calls[q] : c.ord \in Orders /\ lock[c.ord] = q
  BY DEF StockInv, CallsInv, TypeInv, TypeOK, Call
<1>9. LocksInv'
  <2> SUFFICES ASSUME NEW q \in Procs
      PROVE  /\ \A x \in Orders : lock'[x] = q =>
                   /\ pc'[q] \in {"adjust", "cascade", "restore", "commit"}
                   /\ pc'[q] \in {"adjust", "cascade"} => x = Current(q)'
             /\ pc'[q] \in {"adjust", "cascade"} => lock'[Current(q)'] = q
             /\ pc'[q] = "restore" => Attempts \subseteq {"ok"} /\ req'[q].who = "hq"
    BY DEF LocksInv
  <2>1. CASE q = p
    <3>1. pc'[q] = next /\ (next # "commit" => Current(q)' = o)
      BY <1>6, <1>7, <2>1
    <3>2. \A x \in Orders : lock'[x] = q => x = o
      BY <1>3, <1>5, <2>1
    <3>3. lock'[o] = q
      BY <1>1, <1>5, <2>1
    <3> HIDE DEF o
    <3>4. QED
      BY <3>1, <3>2, <3>3
  <2>2. CASE q # p
    <3>1. pc[q] \in {"adjust", "cascade"} => Current(q) \in Orders
      BY CurrentType DEF Busy
    <3>2. QED
      BY <1>2, <1>3, <1>5, <1>6, <1>7, <2>2, <3>1 DEF StockInv, LocksInv
  <2>3. QED
    BY <2>1, <2>2
<1>10. CallsInv'
  <2> SUFFICES ASSUME NEW q \in Procs
      PROVE  /\ pc'[q] \notin {"adjust", "restore"} => calls'[q] = {}
             /\ \A c \in calls'[q] : lock'[c.ord] = q
             /\ \A c, d \in calls'[q] : c.ord = d.ord => c = d
    BY DEF CallsInv
  <2>1. CASE q = p
    BY <1>1, <1>5, <1>6, <2>1
  <2>2. CASE q # p
    BY <1>2, <1>3, <1>5, <1>6, <1>8, <2>2 DEF StockInv, CallsInv
  <2>3. QED
    BY <2>1, <2>2
<1>11. LedgerInv'
  <2> SUFFICES ASSUME NEW x \in Orders
      PROVE  /\ lock'[x] = NoProc => ledger'[x] = Effect(x, row'[x])
             /\ \A q \in Procs : lock'[x] = q =>
                   /\ \A c \in calls'[q] : c.ord = x =>
                         /\ ledger'[x] = Effect(x, row'[x])
                         /\ Effect(x, draft'[x]) = Moved(ledger'[x], c)
                   /\ (\A c \in calls'[q] : c.ord # x) => ledger'[x] = Effect(x, draft'[x])
    BY DEF LedgerInv, Effect, Moved
  <2>1. CASE x = o
    <3>1. lock'[x] = p /\ draft'[x] = w /\ calls'[p] = C
      BY <1>1, <1>5, <1>6, <2>1
    <3>2. ledger[x] = Effect(x, row[x])
      BY <1>4, <2>1
    <3>3. CASE C = {} /\ Effect(x, w) = Effect(x, row[x])
      BY <1>2, <3>1, <3>2, <3>3
    <3>4. CASE \E c : /\ C = {c} /\ c.ord = x
                     /\ Effect(x, w) = Moved(Effect(x, row[x]), c)
      <4>1. PICK c : /\ C = {c} /\ c.ord = x
                     /\ Effect(x, w) = Moved(Effect(x, row[x]), c)
        BY <3>4
      <4> HIDE DEF o
      <4>2. QED
        BY <1>2, <3>1, <3>2, <4>1
    <3>5. QED
      BY <2>1, <3>3, <3>4
  <2>2. CASE x # o
    <3>1. lock'[x] = lock[x] /\ draft'[x] = draft[x] /\ lock[x] # p
      BY <1>3, <1>5, <2>2
    <3>2. QED
      BY <1>6, <3>1 DEF StockInv, LedgerInv
  <2>3. QED
    BY <2>1, <2>2
<1>12. QED
  BY <1>9, <1>10, <1>11 DEF StockInv

\* The requests of an undisturbed instance: no batch, and who asks is a client.
LEMMA RequestsStart ==
    ASSUME Undisturbed, TypeInv, StockInv, NEW p \in Procs, SingleRequest(p)
    PROVE  RequestsInv' /\ UNCHANGED <<row, draft, lock, ledger, calls>>
           /\ (\A q \in Procs : q # p => req'[q] = req[q])
           /\ \E next \in {"upsert", "update"} : pc' = [pc EXCEPT ![p] = next]
<1>0. PICK op \in Ops, who \in Clients, o \in Orders :
           \E ss \in SideChoices(op, who, o), q \in QtyChoices(op) :
              Start(p, [op |-> op, who |-> who, todo |-> <<o>>,
                        batch |-> FALSE, sides |-> ss, qty |-> q])
  BY DEF SingleRequest
<1>1. PICK ss \in SideChoices(op, who, o), n \in QtyChoices(op) :
              Start(p, [op |-> op, who |-> who, todo |-> <<o>>,
                        batch |-> FALSE, sides |-> ss, qty |-> n])
  BY <1>0
<1> DEFINE r == [op |-> op, who |-> who, todo |-> <<o>>,
                 batch |-> FALSE, sides |-> ss, qty |-> n]
<1>2. Tail(r.todo) = <<>>
  OBVIOUS
<1>3. r.who \in Clients /\ ~r.batch
  OBVIOUS
<1> HIDE DEF r
<1>4. /\ req' = [req EXCEPT ![p] = r]
      /\ pc' = [pc EXCEPT ![p] = StartOf(r.op)]
      /\ UNCHANGED <<row, draft, lock, ledger, calls>>
  BY <1>1 DEF r, Start, dbVars
<1>5. RequestsInv'
  BY <1>2, <1>3, <1>4 DEF StockInv, RequestsInv, TypeInv, TypeOK, StartOf
<1>6. QED
  BY <1>4, <1>5 DEF StartOf, TypeInv, TypeOK

\* A request that is done with its order goes to its commit.
LEMMA RequestsAdvance ==
    ASSUME TypeInv, StockInv, NEW p \in Procs, pc[p] \in Busy, NEW es, Advance(p, es)
    PROVE  RequestsInv'
<1>1. /\ pc' = [pc EXCEPT ![p] = "commit"]
      /\ \A q \in Procs : /\ req'[q].who = req[q].who
                          /\ req'[q].batch = req[q].batch
                          /\ q # p => req'[q] = req[q]
  BY AdvanceToCommit
<1>2. \A q \in Procs : pc'[q] = IF q = p THEN "commit" ELSE pc[q]
  BY <1>1 DEF TypeInv, TypeOK
<1>3. pc[p] # "idle"
  BY DEF Busy
<1>4. QED
  BY <1>1, <1>2, <1>3 DEF StockInv, RequestsInv, Busy

\* A request that goes on to another statement of its order stays the same.
LEMMA RequestsGoOn ==
    ASSUME TypeInv, StockInv, NEW p \in Procs, pc[p] \in Busy, req' = req,
           NEW next \in Busy, pc' = [pc EXCEPT ![p] = next]
    PROVE  RequestsInv'
<1>1. \A q \in Procs : pc'[q] = IF q = p THEN next ELSE pc[q]
  BY DEF TypeInv, TypeOK
<1>2. pc[p] # "idle"
  BY DEF Busy
<1>3. QED
  BY <1>1, <1>2 DEF StockInv, RequestsInv

\* What each transition does to the stock a row stands for.
LEMMA EffectOfDispatch ==
    ASSUME NEW o \in Orders, NEW r \in Row, r.status = "APPROVED", NEW w,
           w = [r EXCEPT !.status = "IN_TRANSIT", !.dispatched = TRUE],
           NEW c, c = [ord |-> o, end |-> "src", delta |-> -r.qty]
    PROVE  Effect(o, w) = IF HasSource(o) THEN Moved(Effect(o, r), c)
                          ELSE Effect(o, r)
<1>1. r.qty \in Nat /\ 0 + (-r.qty) = -r.qty
  BY DEF Row
<1>2. QED
  BY <1>1 DEF Effect, Row, Moved

LEMMA EffectOfReceive ==
    ASSUME NEW o \in Orders, NEW r \in Row, r.status = "IN_TRANSIT", NEW w,
           w = [r EXCEPT !.status = "EXECUTED", !.executed = TRUE],
           NEW c, c = [ord |-> o, end |-> "tgt", delta |-> r.qty]
    PROVE  Effect(o, w) = Moved(Effect(o, r), c)
<1>1. r.qty \in Nat /\ 0 + r.qty = r.qty
  BY DEF Row
<1>2. QED
  BY <1>1 DEF Effect, Row, Moved

LEMMA EffectOfReturn ==
    ASSUME NEW o \in Orders, NEW r \in Row, r.status = "IN_TRANSIT", HasSource(o),
           NEW w, w = Rejected(r),
           NEW c, c = [ord |-> o, end |-> "src", delta |-> r.qty]
    PROVE  Effect(o, w) = Moved(Effect(o, r), c)
<1>1. r.qty \in Nat /\ -r.qty + r.qty = 0
  BY DEF Row
<1>2. QED
  BY <1>1 DEF Effect, Row, Rejected, Moved

LEMMA EffectOfRejection ==
    ASSUME NEW o \in Orders, NEW r \in Row, r.status \in Live,
           ~(r.status = "IN_TRANSIT" /\ HasSource(o))
    PROVE  Effect(o, Rejected(r)) = Effect(o, r)
  BY DEF Effect, Row, Rejected, Live

LEMMA EffectOfPatch ==
    ASSUME NEW o \in Orders, NEW r \in Row, NEW q \in Nat,
           r.status \in {"PENDING", "APPROVED"}
    PROVE  Effect(o, [r EXCEPT !.qty = q]) = Effect(o, r)
  BY DEF Effect, Row

LEMMA EffectOfApproval ==
    ASSUME NEW o \in Orders, NEW r \in Row, r.status = "PENDING", NEW w,
           w = IF HasSource(o) THEN [r EXCEPT !.status = "APPROVED"]
               ELSE [r EXCEPT !.status = "IN_TRANSIT", !.dispatched = TRUE]
    PROVE  Effect(o, w) = Effect(o, r)
  BY DEF Effect, Row

\* The version a request at its UPDATE sees is the committed one.
LEMMA SeesCommitted ==
    ASSUME TypeInv, StockInv, NEW p \in Procs, pc[p] = "update"
    PROVE  /\ Current(p) \in Orders
           /\ Sees(p, Current(p)) = row[Current(p)]
           /\ row[Current(p)] \in Row
           /\ calls[p] = {}
<1>1. Current(p) \in Orders
  BY CurrentType DEF Busy
<1>2. QED
  BY <1>1, NothingWritten DEF Sees, TypeInv, TypeOK

LEMMA StockToInTransit ==
    ASSUME TypeInv, ConsentInv, StockInv, NEW p \in Procs, ToInTransit(p)
    PROVE  StockInv'
<1> DEFINE o == Current(p)
           w == [Sees(p, o) EXCEPT !.status = "IN_TRANSIT", !.dispatched = TRUE]
           c == [ord |-> o, end |-> "src", delta |-> -Sees(p, o).qty]
<1>1. pc[p] = "update" /\ pc[p] \in Busy /\ Sees(p, o).status = "APPROVED"
  BY DEF ToInTransit, Updating, Matches, From, Busy
<1>2. o \in Orders /\ Sees(p, o) = row[o] /\ row[o] \in Row /\ calls[p] = {}
  BY <1>1, SeesCommitted
<1>3. Write(p, o, w) /\ Free(p, o) /\ UNCHANGED <<row, ledger>>
  BY DEF ToInTransit
<1>4. Effect(o, w) = IF HasSource(o) THEN Moved(Effect(o, row[o]), c)
                     ELSE Effect(o, row[o])
  <2>1. w = [row[o] EXCEPT !.status = "IN_TRANSIT", !.dispatched = TRUE]
    BY <1>2
  <2>2. row[o].status = "APPROVED"
    BY <1>1, <1>2
  <2>3. c = [ord |-> o, end |-> "src", delta |-> -row[o].qty]
    BY <1>2
  <2> HIDE DEF w, o, c
  <2>4. QED
    BY <1>2, <2>1, <2>2, <2>3, EffectOfDispatch
<1>5. CASE HasSource(o)
  <2>1. pc' = [pc EXCEPT ![p] = "adjust"] /\ req' = req
        /\ calls' = [calls EXCEPT ![p] = {c}]
    BY <1>5 DEF ToInTransit
  <2>2. RequestsInv'
    BY <1>1, <2>1, RequestsGoOn DEF Busy
  <2>3. /\ c.ord = o
        /\ Effect(o, w) = Moved(Effect(o, row[o]), c)
    BY <1>2, <1>4, <1>5
  <2> HIDE DEF c, w
  <2>4. QED
    BY <1>1, <1>3, <2>1, <2>2, <2>3, StockWriteOne
<1>6. CASE ~HasSource(o)
  <2>1. Advance(p, {<<o, "OrderDispatched">>}) /\ calls' = calls
    BY <1>6 DEF ToInTransit
  <2>2. RequestsInv'
    BY <1>1, <2>1, RequestsAdvance
  <2>3. /\ pc' = [pc EXCEPT ![p] = "commit"]
        /\ \A q \in Procs : q # p => req'[q] = req[q]
    BY <1>1, <2>1, AdvanceToCommit
  <2>4. calls' = [calls EXCEPT ![p] = {}]
    BY <1>2, <2>1 DEF TypeInv, TypeOK
  <2>5. Effect(o, w) = Effect(o, row[o])
    BY <1>4, <1>6
  <2> HIDE DEF w
  <2>6. QED
    BY <1>1, <1>3, <2>2, <2>3, <2>4, <2>5, StockWriteOne
<1>7. QED
  BY <1>5, <1>6

LEMMA StockToExecuted ==
    ASSUME TypeInv, ConsentInv, StockInv, NEW p \in Procs, ToExecuted(p)
    PROVE  StockInv'
<1> DEFINE o == Current(p)
           w == [Sees(p, o) EXCEPT !.status = "EXECUTED", !.executed = TRUE]
           c == [ord |-> o, end |-> "tgt", delta |-> Sees(p, o).qty]
<1>1. pc[p] = "update" /\ pc[p] \in Busy /\ Sees(p, o).status = "IN_TRANSIT"
  BY DEF ToExecuted, Updating, Matches, From, Busy
<1>2. o \in Orders /\ Sees(p, o) = row[o] /\ row[o] \in Row
  BY <1>1, SeesCommitted
<1>3. Write(p, o, w) /\ Free(p, o) /\ UNCHANGED <<row, ledger>>
      /\ pc' = [pc EXCEPT ![p] = "adjust"] /\ req' = req
      /\ calls' = [calls EXCEPT ![p] = {c}]
  BY DEF ToExecuted
<1>4. /\ c.ord = o
      /\ Effect(o, w) = Moved(Effect(o, row[o]), c)
  <2>1. w = [row[o] EXCEPT !.status = "EXECUTED", !.executed = TRUE]
    BY <1>2
  <2>2. row[o].status = "IN_TRANSIT"
    BY <1>1, <1>2
  <2>3. c = [ord |-> o, end |-> "tgt", delta |-> row[o].qty]
    BY <1>2
  <2>4. c.ord = o
    OBVIOUS
  <2> HIDE DEF w, o, c
  <2>5. QED
    BY <1>2, <2>1, <2>2, <2>3, <2>4, EffectOfReceive
<1>5. RequestsInv'
  BY <1>1, <1>3, RequestsGoOn DEF Busy
<1> HIDE DEF c, w
<1>6. QED
  BY <1>1, <1>3, <1>4, <1>5, StockWriteOne

LEMMA StockToRejected ==
    ASSUME TypeInv, ConsentInv, StockInv, NEW p \in Procs, ToRejected(p)
    PROVE  StockInv'
<1> DEFINE o == Current(p)
           w == Rejected(Sees(p, o))
           C == Restore(o, Sees(p, o))
           c == [ord |-> o, end |-> "src", delta |-> Sees(p, o).qty]
<1>1. pc[p] = "update" /\ pc[p] \in Busy /\ Sees(p, o).status \in Live
  BY DEF ToRejected, Updating, Matches, From, Busy, Live
<1>2. o \in Orders /\ Sees(p, o) = row[o] /\ row[o] \in Row
  BY <1>1, SeesCommitted
<1>3. Write(p, o, w) /\ Free(p, o) /\ UNCHANGED <<row, ledger>>
      /\ calls' = [calls EXCEPT ![p] = C]
  BY DEF ToRejected
<1>4. CASE C # {}
  <2>1. C = {c} /\ row[o].status = "IN_TRANSIT" /\ HasSource(o)
    BY <1>2, <1>4 DEF Restore
  <2>2. /\ c.ord = o
        /\ Effect(o, w) = Moved(Effect(o, row[o]), c)
    <3>1. w = Rejected(row[o])
      BY <1>2
    <3>2. c = [ord |-> o, end |-> "src", delta |-> row[o].qty]
      BY <1>2
    <3>3. c.ord = o
      OBVIOUS
    <3> HIDE DEF w, o, c, C
    <3>4. QED
      BY <1>2, <2>1, <3>1, <3>2, <3>3, EffectOfReturn
  <2>3. pc' = [pc EXCEPT ![p] = "adjust"] /\ req' = req
    BY <1>4 DEF ToRejected
  <2>4. RequestsInv'
    BY <1>1, <2>3, RequestsGoOn DEF Busy
  <2> HIDE DEF c, w, C
  <2>5. QED
    BY <1>1, <1>3, <2>1, <2>2, <2>3, <2>4, StockWriteOne
<1>5. CASE C = {}
  <2>1. Effect(o, w) = Effect(o, row[o])
    <3>1. w = Rejected(row[o])
      BY <1>2
    <3>2. row[o].status \in Live /\ ~(row[o].status = "IN_TRANSIT" /\ HasSource(o))
      BY <1>1, <1>2, <1>5 DEF Restore
    <3> HIDE DEF w, o, C
    <3>3. QED
      BY <1>2, <3>1, <3>2, EffectOfRejection
  <2>2. CASE Chains(o)
    <3>1. pc' = [pc EXCEPT ![p] = "cascade"] /\ req' = req
      BY <1>5, <2>2 DEF ToRejected
    <3>2. RequestsInv'
      BY <1>1, <3>1, RequestsGoOn DEF Busy
    <3> HIDE DEF w, C
    <3>3. QED
      BY <1>1, <1>3, <1>5, <2>1, <3>1, <3>2, StockWriteOne
  <2>3. CASE ~Chains(o)
    <3>1. Advance(p, {<<o, "OrderRejected">>})
      BY <1>5, <2>3 DEF ToRejected
    <3>2. RequestsInv'
      BY <1>1, <3>1, RequestsAdvance
    <3>3. /\ pc' = [pc EXCEPT ![p] = "commit"]
          /\ \A q \in Procs : q # p => req'[q] = req[q]
      BY <1>1, <3>1, AdvanceToCommit
    <3> HIDE DEF w, C
    <3>4. QED
      BY <1>1, <1>3, <1>5, <2>1, <3>2, <3>3, StockWriteOne
  <2>4. QED
    BY <2>2, <2>3
<1>6. QED
  BY <1>4, <1>5

LEMMA StockPatchOrder ==
    ASSUME TypeInv, ConsentInv, StockInv, NEW p \in Procs, PatchOrder(p)
    PROVE  StockInv'
<1> DEFINE o == Current(p)
           w == [Sees(p, o) EXCEPT !.qty = req[p].qty]
<1>1. pc[p] = "update" /\ pc[p] \in Busy /\ Sees(p, o).status \in {"PENDING", "APPROVED"}
  BY DEF PatchOrder, Updating, Matches, From, Busy
<1>2. o \in Orders /\ Sees(p, o) = row[o] /\ row[o] \in Row /\ calls[p] = {}
  BY <1>1, SeesCommitted
<1>3. Write(p, o, w) /\ Free(p, o) /\ UNCHANGED <<row, ledger, calls>>
      /\ Advance(p, {})
  BY DEF PatchOrder
<1>4. req[p].qty \in Nat
  BY DEF TypeInv, TypeOK, Request
<1>5. Effect(o, w) = Effect(o, row[o])
  <2>1. w = [row[o] EXCEPT !.qty = req[p].qty]
    BY <1>2
  <2>2. row[o].status \in {"PENDING", "APPROVED"}
    BY <1>1, <1>2
  <2> HIDE DEF w, o
  <2>3. QED
    BY <1>2, <1>4, <2>1, <2>2, EffectOfPatch
<1>6. RequestsInv'
  BY <1>1, <1>3, RequestsAdvance
<1>7. /\ pc' = [pc EXCEPT ![p] = "commit"]
      /\ \A q \in Procs : q # p => req'[q] = req[q]
  BY <1>1, <1>3, AdvanceToCommit
<1>8. calls' = [calls EXCEPT ![p] = {}]
  BY <1>2, <1>3 DEF TypeInv, TypeOK
<1> HIDE DEF w
<1>9. QED
  BY <1>1, <1>3, <1>5, <1>6, <1>7, <1>8, StockWriteOne
\* p writes the orders W, which nobody has open.
WritesFree(p, W) ==
    /\ \A x \in W : lock[x] = NoProc
    /\ \A x \in Orders : IF x \in W THEN lock'[x] = p
                         ELSE lock'[x] = lock[x] /\ draft'[x] = draft[x]

\* The calls C make the stock follow the new versions of W, one call an order.
StockFollows(W, C) ==
    /\ \A c \in C : /\ c.ord \in W
                    /\ Effect(c.ord, draft'[c.ord])
                         = Moved(Effect(c.ord, row[c.ord]), c)
    /\ \A c, d \in C : c.ord = d.ord => c = d
    /\ \A x \in W : (\A c \in C : c.ord # x) =>
                       Effect(x, draft'[x]) = Effect(x, row[x])

\* A request that writes orders nobody has open, with the calls that make their
\* stock follow, and is done or restores stock next.
LEMMA StockWriteMany ==
    ASSUME TypeInv, StockInv, NEW p \in Procs, NEW W \in SUBSET Orders, NEW C,
           NEW next \in {"commit", "restore"},
           WritesFree(p, W),
           pc' = [pc EXCEPT ![p] = next],
           calls' = [calls EXCEPT ![p] = C],
           calls[p] = {},
           UNCHANGED <<row, ledger>>,
           \A q \in Procs : q # p => req'[q] = req[q],
           RequestsInv',
           next = "restore" => Attempts \subseteq {"ok"} /\ req'[p].who = "hq",
           next = "commit" => C = {},
           StockFollows(W, C)
    PROVE  StockInv'
<1> USE DEF WritesFree, StockFollows
<1>1. p # NoProc /\ NoProc \notin Procs
  BY ConstantsAssumption
<1>2. \A q \in Procs : /\ pc'[q] = IF q = p THEN next ELSE pc[q]
                       /\ calls'[q] = IF q = p THEN C ELSE calls[q]
  BY DEF TypeInv, TypeOK
<1>3. \A q \in Procs \ {p} : Current(q)' = Current(q)
  BY DEF Current
<1>4. \A q \in Procs : \A c \in calls[q] : c.ord \in Orders /\ lock[c.ord] = q
  BY DEF StockInv, CallsInv, TypeInv, TypeOK, Call
<1>5. LocksInv'
  <2> SUFFICES ASSUME NEW q \in Procs
      PROVE  /\ \A x \in Orders : lock'[x] = q =>
                   /\ pc'[q] \in {"adjust", "cascade", "restore", "commit"}
                   /\ pc'[q] \in {"adjust", "cascade"} => x = Current(q)'
             /\ pc'[q] \in {"adjust", "cascade"} => lock'[Current(q)'] = q
             /\ pc'[q] = "restore" => Attempts \subseteq {"ok"} /\ req'[q].who = "hq"
    BY DEF LocksInv
  <2>1. CASE q = p
    BY <1>2, <2>1
  <2>2. CASE q # p
    <3>1. pc[q] \in {"adjust", "cascade"} => Current(q) \in Orders
      BY CurrentType DEF Busy
    <3>2. \A x \in Orders : lock'[x] = q <=> lock[x] = q
      BY <1>1, <2>2
    <3>3. QED
      BY <1>2, <1>3, <2>2, <3>1, <3>2 DEF StockInv, LocksInv
  <2>3. QED
    BY <2>1, <2>2
<1>6. CallsInv'
  <2> SUFFICES ASSUME NEW q \in Procs
      PROVE  /\ pc'[q] \notin {"adjust", "restore"} => calls'[q] = {}
             /\ \A c \in calls'[q] : lock'[c.ord] = q
             /\ \A c, d \in calls'[q] : c.ord = d.ord => c = d
    BY DEF CallsInv
  <2>1. CASE q = p
    BY <1>2, <2>1
  <2>2. CASE q # p
    <3>1. \A c \in calls[q] : lock'[c.ord] = q
      BY <1>1, <1>4
    <3>2. QED
      BY <1>2, <2>2, <3>1 DEF StockInv, CallsInv
  <2>3. QED
    BY <2>1, <2>2
<1>7. LedgerInv'
  <2> SUFFICES ASSUME NEW x \in Orders
      PROVE  /\ lock'[x] = NoProc => ledger'[x] = Effect(x, row'[x])
             /\ \A q \in Procs : lock'[x] = q =>
                   /\ \A c \in calls'[q] : c.ord = x =>
                         /\ ledger'[x] = Effect(x, row'[x])
                         /\ Effect(x, draft'[x]) = Moved(ledger'[x], c)
                   /\ (\A c \in calls'[q] : c.ord # x) => ledger'[x] = Effect(x, draft'[x])
    BY DEF LedgerInv, Effect, Moved
  <2>1. CASE x \in W
    <3>1. ledger[x] = Effect(x, row[x]) /\ lock'[x] = p
      BY <2>1 DEF StockInv, LedgerInv
    <3>2. QED
      BY <1>1, <1>2, <2>1, <3>1
  <2>2. CASE x \notin W
    <3>1. lock'[x] = lock[x] /\ draft'[x] = draft[x] /\ \A c \in C : c.ord # x
      BY <2>2
    <3>2. QED
      BY <1>2, <3>1 DEF StockInv, LedgerInv
  <2>3. QED
    BY <2>1, <2>2
<1>8. QED
  BY <1>5, <1>6, <1>7 DEF StockInv

LEMMA StockToApproved ==
    ASSUME TypeInv, ConsentInv, StockInv, NEW p \in Procs, ToApproved(p)
    PROVE  StockInv'
<1> DEFINE o == Current(p)
           r == Sees(p, o)
           w == IF HasSource(o)
                THEN [r EXCEPT !.status = "APPROVED"]
                ELSE [r EXCEPT !.status = "IN_TRANSIT", !.dispatched = TRUE]
<1>1. pc[p] = "update" /\ pc[p] \in Busy /\ r.status = "PENDING" /\ Free(p, o)
  BY DEF ToApproved, Updating, Matches, From, Busy
<1>2. o \in Orders /\ r = row[o] /\ row[o] \in Row /\ calls[p] = {}
  BY <1>1, SeesCommitted
<1>3. PICK f \in Splits(o, r.qty) :
           LET new == {k \in DOMAIN f : Chains(o) /\ f[k] > 0}
           IN  /\ draft' = [k \in Orders |->
                              IF k = o THEN w
                              ELSE IF k \in new THEN NewRow("APPROVED", f[k])
                              ELSE draft[k]]
               /\ lock' = [k \in Orders |->
                              IF k = o \/ k \in new THEN p ELSE lock[k]]
  BY DEF ToApproved
<1> DEFINE new == {k \in DOMAIN f : Chains(o) /\ f[k] > 0}
           W == new \cup {o}
<1>4. DOMAIN f = Children(o)
  BY DEF Splits
<1>5. \A k \in new : k \in Orders /\ Parent[k] = o
  BY <1>4 DEF Children
<1>6. lock[o] = NoProc
  BY <1>1, <1>2, NothingWritten DEF Free
<1>7. \A k \in new : lock[k] = NoProc /\ row[k].status = "ABSENT"
  <2> SUFFICES ASSUME NEW k \in new PROVE lock[k] = NoProc /\ row[k].status = "ABSENT"
    OBVIOUS
  <2>1. k \in Orders /\ Parent[k] = o /\ Parent[k] # NoOrder
    BY <1>2, <1>5, ConstantsAssumption
  <2>2. row[k].status = "ABSENT"
    BY <1>1, <1>2, <2>1 DEF ConsentInv, ChainedInv, Open
  <2>3. ASSUME NEW q \in Procs, lock[k] = q PROVE FALSE
    BY <1>6, <2>1, <2>2, <2>3, ConstantsAssumption DEF ConsentInv, ChainedInv
  <2>4. QED
    BY <2>1, <2>2, <2>3 DEF TypeInv, TypeOK
<1>8. /\ pc' = [pc EXCEPT ![p] = "commit"]
      /\ \A q \in Procs : q # p => req'[q] = req[q]
      /\ RequestsInv'
  BY <1>1, AdvanceToCommit, RequestsAdvance DEF ToApproved
<1>9. calls' = [calls EXCEPT ![p] = {}] /\ UNCHANGED <<row, ledger>>
  BY <1>2 DEF ToApproved, TypeInv, TypeOK
<1>10. StockFollows(W, {})
  <2>1. Effect(o, draft'[o]) = Effect(o, row[o])
    <3>1. draft'[o] = w
      BY <1>2, <1>3
    <3>2. w = IF HasSource(o) THEN [row[o] EXCEPT !.status = "APPROVED"]
              ELSE [row[o] EXCEPT !.status = "IN_TRANSIT", !.dispatched = TRUE]
      BY <1>2
    <3>3. row[o].status = "PENDING"
      BY <1>1, <1>2
    <3>4. o \in Orders /\ row[o] \in Row
      BY <1>2
    <3> HIDE DEF w, o
    <3>5. Effect(o, w) = Effect(o, row[o])
      BY <3>2, <3>3, <3>4, EffectOfApproval
    <3>6. QED
      BY <3>1, <3>5
  <2>2. \A k \in new : Effect(k, draft'[k]) = Effect(k, row[k])
    <3> SUFFICES ASSUME NEW k \in new PROVE Effect(k, draft'[k]) = Effect(k, row[k])
      OBVIOUS
    <3>1. row[k].status = "ABSENT" /\ k \in Orders /\ k # o
      BY <1>1, <1>2, <1>5, <1>7
    <3>2. draft'[k] = NewRow("APPROVED", f[k])
      BY <1>3, <3>1
    <3>3. draft'[k].status = "APPROVED"
      BY <3>2 DEF NewRow
    <3> HIDE DEF new
    <3>4. Effect(k, draft'[k]) = [src |-> 0, tgt |-> 0]
      BY <3>3 DEF Effect
    <3>5. Effect(k, row[k]) = [src |-> 0, tgt |-> 0]
      BY <3>1 DEF Effect
    <3>6. QED
      BY <3>4, <3>5
  <2>3. QED
    BY <2>1, <2>2 DEF StockFollows
<1>11. W \in SUBSET Orders /\ WritesFree(p, W)
  BY <1>2, <1>3, <1>5, <1>6, <1>7 DEF WritesFree
<1> HIDE DEF W, w, new, o
<1>12. QED
  BY <1>2, <1>8, <1>9, <1>10, <1>11, StockWriteMany

\* Steps of a request that has written no order.
LEMMA StockUpsertApprovals ==
    ASSUME TypeInv, StockInv, NEW p \in Procs, UpsertApprovals(p)
    PROVE  StockInv'
<1>1. /\ pc[p] = "upsert" /\ pc[p] \in Busy
      /\ pc' = [pc EXCEPT ![p] = "update"] /\ "update" \in PCs
      /\ UNCHANGED <<row, draft, lock, ledger, calls>>
      /\ req' = req
  BY DEF UpsertApprovals, Busy, PCs
<1>2. RequestsInv'
  BY <1>1, RequestsGoOn DEF Busy
<1>3. \A o \in Orders : lock[o] # p
  BY <1>1, NothingWritten
<1>4. QED
  BY <1>1, <1>2, <1>3, StockMove

LEMMA StockSingleRequest ==
    ASSUME Undisturbed, TypeInv, StockInv, NEW p \in Procs, SingleRequest(p)
    PROVE  StockInv'
<1>1. PICK next \in {"upsert", "update"} : pc' = [pc EXCEPT ![p] = next]
  BY RequestsStart
<1>2. RequestsInv' /\ UNCHANGED <<row, draft, lock, ledger, calls>>
      /\ \A q \in Procs : q # p => req'[q] = req[q]
  BY RequestsStart
<1>3. pc[p] = "idle"
  BY DEF SingleRequest, Start
<1>4. \A o \in Orders : lock[o] # p
  BY <1>3, NothingWritten
<1>5. QED
  BY <1>1, <1>2, <1>4, StockMove DEF PCs

LEMMA StockApprovedOneSide ==
    ASSUME TypeInv, StockInv, NEW p \in Procs, ApprovedOneSide(p)
    PROVE  StockInv'
<1>1. /\ pc[p] = "update" /\ pc[p] \in Busy /\ "commit" \in PCs
      /\ Advance(p, {})
      /\ UNCHANGED <<row, draft, lock, ledger, calls>>
  BY DEF ApprovedOneSide, Updating, Busy, PCs, dbVars
<1>2. RequestsInv' /\ pc' = [pc EXCEPT ![p] = "commit"]
      /\ \A q \in Procs : q # p => req'[q] = req[q]
  BY <1>1, AdvanceToCommit, RequestsAdvance
<1>3. \A o \in Orders : lock[o] # p
  BY <1>1, NothingWritten
<1>4. QED
  BY <1>1, <1>2, <1>3, StockMove

LEMMA StockPublish ==
    ASSUME TypeInv, StockInv, NEW p \in Procs, PublishOrderEvent(p)
    PROVE  StockInv'
<1>1. /\ pc[p] = "publish" /\ "idle" \in PCs
      /\ pc' = [pc EXCEPT ![p] = "idle"]
      /\ req' = [req EXCEPT ![p] = NoRequest]
      /\ UNCHANGED <<row, draft, lock, ledger, calls>>
  BY DEF PublishOrderEvent, dbVars, PCs
<1>2. \A q \in Procs : /\ q # p => req'[q] = req[q] /\ pc'[q] = pc[q]
                       /\ q = p => req'[q] = NoRequest /\ pc'[q] = "idle"
  BY <1>1 DEF TypeInv, TypeOK
<1>3. RequestsInv'
  BY <1>2 DEF StockInv, RequestsInv, NoRequest, Busy
<1>4. \A o \in Orders : lock[o] # p
  BY <1>1, NothingWritten
<1>5. QED
  BY <1>1, <1>2, <1>3, <1>4, StockMove

LEMMA StockConflict ==
    ASSUME TypeInv, StockInv, NEW p \in Procs, Conflict(p)
    PROVE  StockInv'
<1>1. pc[p] = "update" /\ ledger' = ledger /\ Rollback(p)
  BY DEF Conflict, Fail, StockInv, RequestsInv
<1>2. \A o \in Orders : lock[o] # p
  BY <1>1, NothingWritten
<1>3. QED
  BY <1>1, <1>2, StockRollback

LEMMA StockCommit ==
    ASSUME TypeInv, StockInv, NEW p \in Procs, Commit(p)
    PROVE  StockInv'
<1>1. p # NoProc /\ NoProc \notin Procs
  BY ConstantsAssumption
<1>2. \A o \in Orders :
         /\ lock'[o] = IF lock[o] = p THEN NoProc ELSE lock[o]
         /\ row'[o] = IF lock[o] = p THEN draft[o] ELSE row[o]
         /\ UNCHANGED <<draft, ledger, req, calls>>
  BY DEF Commit
<1>3. \A q \in Procs : pc'[q] = IF q = p THEN "publish" ELSE pc[q]
  BY DEF Commit, TypeInv, TypeOK
<1>4. pc[p] = "commit" /\ UNCHANGED <<draft, ledger, req, calls>>
  BY DEF Commit
<1>5. \A q \in Procs : Current(q)' = Current(q)
  BY <1>4 DEF Current
<1>6. RequestsInv'
  BY <1>3, <1>4 DEF StockInv, RequestsInv, Busy
<1>7. LocksInv'
  <2> SUFFICES ASSUME NEW q \in Procs
      PROVE  /\ \A x \in Orders : lock'[x] = q =>
                   /\ pc'[q] \in {"adjust", "cascade", "restore", "commit"}
                   /\ pc'[q] \in {"adjust", "cascade"} => x = Current(q)'
             /\ pc'[q] \in {"adjust", "cascade"} => lock'[Current(q)'] = q
             /\ pc'[q] = "restore" => Attempts \subseteq {"ok"} /\ req'[q].who = "hq"
    BY DEF LocksInv
  <2>1. pc[q] \in {"adjust", "cascade"} => Current(q) \in Orders
    BY CurrentType DEF Busy
  <2>2. QED
    BY <1>1, <1>2, <1>3, <1>4, <1>5, <2>1 DEF StockInv, LocksInv
<1>8. calls[p] = {}
  BY <1>4 DEF StockInv, CallsInv
<1>9. CallsInv'
  <2>1. \A q \in Procs : \A c \in calls[q] : c.ord \in Orders /\ q # p
    BY <1>8 DEF TypeInv, TypeOK, Call
  <2>2. QED
    BY <1>2, <1>3, <1>4, <1>8, <2>1 DEF StockInv, CallsInv
<1>10. LedgerInv'
  <2> SUFFICES ASSUME NEW x \in Orders
      PROVE  /\ lock'[x] = NoProc => ledger[x] = Effect(x, row'[x])
             /\ \A q \in Procs : lock'[x] = q =>
                   /\ \A c \in calls[q] : c.ord = x =>
                         /\ ledger[x] = Effect(x, row'[x])
                         /\ Effect(x, draft[x]) = Moved(ledger[x], c)
                   /\ (\A c \in calls[q] : c.ord # x) => ledger[x] = Effect(x, draft[x])
    BY <1>4 DEF LedgerInv, Effect, Moved
  <2>1. CASE lock[x] = p
    BY <1>1, <1>2, <1>8, <2>1 DEF StockInv, LedgerInv
  <2>2. CASE lock[x] # p
    BY <1>2, <2>2 DEF StockInv, LedgerInv
  <2>3. QED
    BY <2>1, <2>2
<1>11. QED
  BY <1>6, <1>7, <1>9, <1>10 DEF StockInv

\* A chained order has no chained orders of its own, so a request that waits
\* for one to cancel it waits for nobody who waits in turn: whoever is aborted
\* has moved no stock.
LEMMA StockDeadlockVictim ==
    ASSUME TypeInv, StockInv, NEW p \in Procs, DeadlockVictim(p)
    PROVE  StockInv'
<1>1. Rollback(p) /\ ledger' = ledger
  BY DEF DeadlockVictim
<1>2. PICK S \in SUBSET Procs :
         /\ p \in S
         /\ \A q \in S : \E r \in S : Waits(q, r)
  BY DEF DeadlockVictim
<1>3. PICK r \in S : Waits(p, r)
  BY <1>2
<1>4. PICK s \in S : Waits(r, s)
  BY <1>2
<1>5. pc[p] # "cascade"
  <2> SUFFICES ASSUME pc[p] = "cascade" PROVE FALSE
    OBVIOUS
  <2>1. PICK c \in Children(Current(p)) : lock[c] = r
    BY <1>3 DEF Waits
  <2>2. c \in Orders /\ Parent[c] = Current(p) /\ Current(p) \in Orders
    BY <2>1, CurrentType DEF Children, Busy
  <2>3. Type[c] = "WH_TO_STORE"
    BY <2>2, ConstantsAssumption
  <2>4. pc[r] = "cascade" /\ c = Current(r)
    BY <1>2, <1>4, <2>1, <2>2 DEF Waits, StockInv, LocksInv
  <2>5. PICK k \in Children(c) : k \in Orders /\ Parent[k] = c
    BY <1>4, <2>4 DEF Waits, Children
  <2>6. Type[Parent[k]] # "WH_TO_STORE"
    BY <2>2, <2>5, ConstantsAssumption
  <2>7. QED
    BY <2>3, <2>5, <2>6
<1>6. \A o \in Orders : lock[o] # p
  BY <1>3, <1>5, NothingWritten DEF Waits
<1>7. QED
  BY <1>1, <1>6, StockRollback

LEMMA StockCancelChained ==
    ASSUME Undisturbed, TypeInv, StockInv, NEW p \in Procs, CancelChained(p)
    PROVE  StockInv'
<1> DEFINE o == Current(p)
           cs == {c \in Children(o) : Sees(p, c).status \in Live}
           restores == UNION {Restore(c, Sees(p, c)) : c \in cs}
<1>1. /\ pc[p] = "cascade" /\ pc[p] \in Busy
      /\ \A c \in cs : Free(p, c)
      /\ draft' = [c \in Orders |-> IF c \in cs THEN Rejected(Sees(p, c))
                                    ELSE draft[c]]
      /\ lock' = [c \in Orders |-> IF c \in cs THEN p ELSE lock[c]]
      /\ calls' = [calls EXCEPT ![p] = restores]
      /\ UNCHANGED <<row, ledger>>
  BY DEF CancelChained, Busy
<1>2. calls[p] = {} /\ o \in Orders
  BY <1>1, CurrentType DEF StockInv, CallsInv
<1>3. \A c \in cs : c \in Orders /\ Parent[c] = o /\ Parent[c] # NoOrder
  BY <1>2, ConstantsAssumption DEF Children
<1>4. \A c \in cs : c # o
  BY <1>3, ParentIsRoot
<1>5. \A c \in cs : lock[c] = NoProc
  BY <1>1, <1>3, <1>4 DEF Free, StockInv, LocksInv
<1>6. \A c \in cs : Sees(p, c) = row[c] /\ row[c] \in Row /\ row[c].status \in Live
  BY <1>3, <1>5, ConstantsAssumption DEF Sees, TypeInv, TypeOK
<1>7. \A c \in cs : draft'[c] = Rejected(row[c])
  BY <1>1, <1>3, <1>6
<1>8. ASSUME NEW c \in restores
      PROVE  \E k \in cs : /\ row[k].status = "IN_TRANSIT" /\ HasSource(k)
                           /\ c = [ord |-> k, end |-> "src", delta |-> row[k].qty]
  <2>1. PICK k \in cs : c \in Restore(k, Sees(p, k))
    BY <1>8
  <2>2. c \in Restore(k, row[k])
    BY <1>6, <2>1
  <2> HIDE DEF cs
  <2>3. QED
    BY <2>2 DEF Restore
<1>9. StockFollows(cs, restores)
  <2>1. ASSUME NEW c \in restores
        PROVE  /\ c.ord \in cs
               /\ Effect(c.ord, draft'[c.ord]) = Moved(Effect(c.ord, row[c.ord]), c)
    <3>1. PICK k \in cs : /\ row[k].status = "IN_TRANSIT" /\ HasSource(k)
                          /\ c = [ord |-> k, end |-> "src", delta |-> row[k].qty]
      BY <1>8, <2>1
    <3>2. k \in Orders /\ row[k] \in Row /\ draft'[k] = Rejected(row[k])
      BY <1>3, <1>6, <1>7
    <3> HIDE DEF cs, restores
    <3>3. Effect(k, draft'[k]) = Moved(Effect(k, row[k]), c)
      BY <3>1, <3>2, EffectOfReturn
    <3>4. c.ord = k
      BY <3>1
    <3>5. QED
      BY <3>3, <3>4
  <2>2. \A c, d \in restores : c.ord = d.ord => c = d
    <3> SUFFICES ASSUME NEW c \in restores, NEW d \in restores, c.ord = d.ord PROVE c = d
      OBVIOUS
    <3>1. PICK k \in cs : c = [ord |-> k, end |-> "src", delta |-> row[k].qty]
      BY <1>8
    <3>2. PICK l \in cs : d = [ord |-> l, end |-> "src", delta |-> row[l].qty]
      BY <1>8
    <3> HIDE DEF cs, restores
    <3>3. QED
      BY <3>1, <3>2
  <2>3. ASSUME NEW x \in cs, \A c \in restores : c.ord # x
        PROVE  Effect(x, draft'[x]) = Effect(x, row[x])
    <3>1. ~(row[x].status = "IN_TRANSIT" /\ HasSource(x))
      <4> SUFFICES ASSUME row[x].status = "IN_TRANSIT" /\ HasSource(x) PROVE FALSE
        OBVIOUS
      <4> DEFINE c == [ord |-> x, end |-> "src", delta |-> row[x].qty]
      <4>1. c \in Restore(x, Sees(p, x))
        BY <1>6 DEF Restore
      <4>2. c \in restores
        BY <4>1
      <4>3. c.ord = x
        OBVIOUS
      <4>4. QED
        BY <2>3, <4>2, <4>3
    <3>2. x \in Orders /\ row[x] \in Row /\ row[x].status \in Live
          /\ draft'[x] = Rejected(row[x])
      BY <1>3, <1>6, <1>7
    <3> HIDE DEF cs, restores
    <3>3. QED
      BY <3>1, <3>2, EffectOfRejection
  <2>4. QED
    BY <2>1, <2>2, <2>3 DEF StockFollows
<1>10. cs \in SUBSET Orders /\ WritesFree(p, cs)
  BY <1>1, <1>3, <1>5 DEF WritesFree
<1>11. CASE restores # {}
  <2>1. pc' = [pc EXCEPT ![p] = "restore"] /\ req' = req
    BY <1>11 DEF CancelChained
  <2>2. RequestsInv'
    BY <1>1, <2>1, RequestsGoOn DEF Busy
  <2>3. cs # {}
    BY <1>11
  <2>4. Attempts \subseteq {"ok"} /\ Clients \subseteq {"hq"}
    BY <1>3, <2>3 DEF Undisturbed
  <2>5. req'[p].who = "hq"
    BY <1>1, <2>1, <2>4 DEF StockInv, RequestsInv
  <2> HIDE DEF cs, restores, o
  <2>6. QED
    BY <1>1, <1>2, <1>9, <1>10, <2>1, <2>2, <2>4, <2>5, StockWriteMany
<1>12. CASE restores = {}
  <2>1. Advance(p, {<<o, "OrderRejected">>})
    BY <1>12 DEF CancelChained
  <2>2. /\ pc' = [pc EXCEPT ![p] = "commit"]
        /\ \A q \in Procs : q # p => req'[q] = req[q]
        /\ RequestsInv'
    BY <1>1, <2>1, AdvanceToCommit, RequestsAdvance
  <2> HIDE DEF cs, restores, o
  <2>3. QED
    BY <1>1, <1>2, <1>9, <1>10, <1>12, <2>2, StockWriteMany
<1>13. QED
  BY <1>11, <1>12

\* What an answer of inventory-svc means where nothing is lost.
LEMMA AnswerUndisturbed ==
    ASSUME Undisturbed, TypeInv, NEW a, a \in Attempts \/ a \in {"refused", "lost"},
           NEW b, faults + Disturbed(a) <= MaxFaults
    PROVE  \/ a = "ok" /\ CallResult(a, b).ok /\ CallResult(a, b).times = 1
           \/ a = "refused" /\ ~CallResult(a, b).ok /\ CallResult(a, b).times = 0
<1>1. faults = 0
  BY DEF Undisturbed, TypeInv, TypeOK
<1>2. a \in {"ok", "refused"}
  BY <1>1 DEF Undisturbed, Disturbed
<1>3. QED
  BY <1>2 DEF CallResult, Applied

\* The call that moves the stock of an order, or is refused.
LEMMA StockCallInventoryAdjust ==
    ASSUME Undisturbed, TypeInv, StockInv, NEW p \in Procs, CallInventoryAdjust(p)
    PROVE  StockInv'
<1> DEFINE o == Current(p)
<1>1. PICK c \in calls[p] : \E a, b \in Answers(req[p].who, o, c) :
        LET res  == CallResult(a, b)
            rest == calls[p] \ {c}
        IN  /\ pc[p] \in {"adjust", "restore"}
            /\ faults' = faults + Disturbed(a)
            /\ faults' <= MaxFaults
            /\ ledger' = [ledger EXCEPT ![c.ord][c.end] =
                            @ + res.times * c.delta]
            /\ IF ~res.ok THEN Fail(p)
               ELSE /\ calls' = [calls EXCEPT ![p] = rest]
                    /\ IF rest # {} THEN UNCHANGED <<pc, req, outbox>>
                       ELSE IF pc[p] = "adjust" /\ req[p].op = "reject" /\ Chains(o)
                       THEN pc' = [pc EXCEPT ![p] = "cascade"]
                            /\ UNCHANGED <<req, outbox>>
                       ELSE Advance(p, {<<o, EventOf[req[p].op]>>})
                    /\ UNCHANGED <<dbVars, published>>
  BY DEF CallInventoryAdjust
<1> DEFINE rest == calls[p] \ {c}
<1>2. PICK a \in Answers(req[p].who, o, c), b \in Answers(req[p].who, o, c) :
        LET res == CallResult(a, b)
        IN  /\ pc[p] \in {"adjust", "restore"}
            /\ faults' = faults + Disturbed(a)
            /\ faults' <= MaxFaults
            /\ ledger' = [ledger EXCEPT ![c.ord][c.end] =
                            @ + res.times * c.delta]
            /\ IF ~res.ok THEN Fail(p)
               ELSE /\ calls' = [calls EXCEPT ![p] = rest]
                    /\ IF rest # {} THEN UNCHANGED <<pc, req, outbox>>
                       ELSE IF pc[p] = "adjust" /\ req[p].op = "reject" /\ Chains(o)
                       THEN pc' = [pc EXCEPT ![p] = "cascade"]
                            /\ UNCHANGED <<req, outbox>>
                       ELSE Advance(p, {<<o, EventOf[req[p].op]>>})
                    /\ UNCHANGED <<dbVars, published>>
  BY <1>1
<1> DEFINE res == CallResult(a, b)
<1>3. a \in Attempts \/ a \in {"refused", "lost"}
  BY DEF Answers
<1>4. \/ a = "ok" /\ res.ok /\ res.times = 1
      \/ a = "refused" /\ ~res.ok /\ res.times = 0
  BY <1>2, <1>3, AnswerUndisturbed
<1>5. /\ c.ord \in Orders /\ c.end \in Ends /\ c.delta \in Int
      /\ lock[c.ord] = p
      /\ ledger[c.ord] = Effect(c.ord, row[c.ord])
      /\ Effect(c.ord, draft[c.ord]) = Moved(ledger[c.ord], c)
  BY DEF TypeInv, TypeOK, Call, StockInv, CallsInv, LedgerInv
<1>6. ledger[c.ord] \in [src : Int, tgt : Int]
  BY <1>5 DEF TypeInv, TypeOK
<1>7. CASE a = "refused"
  <2>1. res.times = 0 /\ ~res.ok
    BY <1>4, <1>7
  <2>2. pc[p] = "adjust"
    <3>1. CASE pc[p] = "restore"
      <4>1. Attempts \subseteq {"ok"} /\ req[p].who = "hq"
        BY <3>1 DEF StockInv, LocksInv
      <4>2. a \in {"ok"}
        BY <1>2, <4>1 DEF Answers, MayAdjust
      <4>3. QED
        BY <1>7, <4>2
    <3>2. QED
      BY <1>2, <3>1
  <2>3. \A x \in Orders : lock[x] = p => x = c.ord
    BY <1>5, <2>2 DEF StockInv, LocksInv
  <2>4. ledger' = ledger
    <3> HIDE DEF res
    <3>1. ledger' = [ledger EXCEPT ![c.ord][c.end] = @ + 0 * c.delta]
      BY <1>2, <2>1 DEF res
    <3>2. ledger[c.ord][c.end] + 0 * c.delta = ledger[c.ord][c.end]
      BY <1>5, <1>6 DEF Ends
    <3>3. QED
      BY <3>1, <3>2, <1>5, <1>6 DEF TypeInv, TypeOK, Ends
  <2>5. Rollback(p)
    BY <1>2, <2>1 DEF Fail, StockInv, RequestsInv
  <2>6. QED
    BY <1>5, <2>3, <2>4, <2>5, StockRollback
<1>8. CASE a = "ok"
  <2>1. res.times = 1 /\ res.ok
    BY <1>4, <1>8
  <2>2. /\ calls' = [calls EXCEPT ![p] = rest]
        /\ UNCHANGED <<row, draft, lock>>
    BY <1>2, <2>1 DEF dbVars
  <2>3. \A x \in Orders : ledger'[x] = IF x = c.ord THEN Moved(ledger[x], c)
                                       ELSE ledger[x]
    <3> HIDE DEF res
    <3>1. ledger' = [ledger EXCEPT ![c.ord][c.end] = @ + 1 * c.delta]
      BY <1>2, <2>1 DEF res
    <3>2. ledger[c.ord][c.end] + 1 * c.delta = ledger[c.ord][c.end] + c.delta
      BY <1>5, <1>6 DEF Ends
    <3>3. QED
      BY <3>1, <3>2, <1>5, <1>6 DEF TypeInv, TypeOK, Moved
  <2>4. PICK next \in {pc[p], "cascade", "commit"} :
          /\ pc' = [pc EXCEPT ![p] = next]
          /\ next = pc[p] \/ rest = {}
          /\ next = "cascade" => pc[p] = "adjust"
          /\ next # "commit" => req' = req
          /\ \A q \in Procs : req'[q].who = req[q].who /\ (q # p => req'[q] = req[q])
          /\ RequestsInv'
    <3>1. pc[p] \in {"adjust", "restore"} /\ pc[p] \in Busy
      BY <1>2 DEF Busy
    <3>2. CASE rest # {}
      <4>1. pc' = pc /\ req' = req
        BY <1>2, <2>1, <3>2
      <4>2. pc' = [pc EXCEPT ![p] = pc[p]]
        BY <4>1 DEF TypeInv, TypeOK
      <4>3. RequestsInv'
        BY <4>1, <4>2, <3>1, RequestsGoOn
      <4>4. QED
        BY <3>1, <4>1, <4>2, <4>3
    <3>3. CASE rest = {} /\ pc[p] = "adjust" /\ req[p].op = "reject" /\ Chains(o)
      <4>1. pc' = [pc EXCEPT ![p] = "cascade"] /\ req' = req
        BY <1>2, <2>1, <3>3
      <4>2. RequestsInv'
        BY <3>1, <4>1, RequestsGoOn DEF Busy
      <4>3. QED
        BY <3>3, <4>1, <4>2
    <3>4. CASE rest = {} /\ ~(pc[p] = "adjust" /\ req[p].op = "reject" /\ Chains(o))
      <4>1. Advance(p, {<<o, EventOf[req[p].op]>>})
        BY <1>2, <2>1, <3>4
      <4>2. /\ pc' = [pc EXCEPT ![p] = "commit"]
            /\ \A q \in Procs : req'[q].who = req[q].who /\ (q # p => req'[q] = req[q])
            /\ RequestsInv'
        BY <3>1, <4>1, AdvanceToCommit, RequestsAdvance
      <4>3. QED
        BY <3>4, <4>2
    <3>5. QED
      BY <3>2, <3>3, <3>4
  <2>5. \A q \in Procs : /\ pc'[q] = IF q = p THEN next ELSE pc[q]
                         /\ calls'[q] = IF q = p THEN rest ELSE calls[q]
    BY <2>2, <2>4 DEF TypeInv, TypeOK
  <2>6. \A q \in Procs : q # p \/ next # "commit" => Current(q)' = Current(q)
    BY <2>4 DEF Current
  <2>7. LocksInv'
    <3> SUFFICES ASSUME NEW q \in Procs
        PROVE  /\ \A x \in Orders : lock'[x] = q =>
                     /\ pc'[q] \in {"adjust", "cascade", "restore", "commit"}
                     /\ pc'[q] \in {"adjust", "cascade"} => x = Current(q)'
               /\ pc'[q] \in {"adjust", "cascade"} => lock'[Current(q)'] = q
               /\ pc'[q] = "restore" => Attempts \subseteq {"ok"} /\ req'[q].who = "hq"
      BY DEF LocksInv
    <3>1. CASE q = p
      BY <1>2, <2>2, <2>4, <2>5, <2>6, <3>1 DEF StockInv, LocksInv
    <3>2. CASE q # p
      BY <2>2, <2>4, <2>5, <2>6, <3>2 DEF StockInv, LocksInv
    <3>3. QED
      BY <3>1, <3>2
  <2>8. CallsInv'
    BY <1>2, <2>2, <2>4, <2>5 DEF StockInv, CallsInv
  <2>9. LedgerInv'
    <3> SUFFICES ASSUME NEW x \in Orders
        PROVE  /\ lock[x] = NoProc => ledger'[x] = Effect(x, row[x])
               /\ \A q \in Procs : lock[x] = q =>
                     /\ \A d \in calls'[q] : d.ord = x =>
                           /\ ledger'[x] = Effect(x, row[x])
                           /\ Effect(x, draft[x]) = Moved(ledger'[x], d)
                     /\ (\A d \in calls'[q] : d.ord # x) => ledger'[x] = Effect(x, draft[x])
      BY <2>2 DEF LedgerInv, Effect, Moved
    <3>1. CASE x = c.ord
      <4>1. \A d \in rest : d.ord # c.ord
        BY DEF StockInv, CallsInv
      <4>2. lock[x] = p /\ p # NoProc /\ ledger'[x] = Effect(x, draft[x])
        BY <1>5, <2>3, <3>1, ConstantsAssumption
      <4>3. QED
        BY <2>5, <3>1, <4>1, <4>2
    <3>2. CASE x # c.ord
      BY <2>3, <2>5, <3>2 DEF StockInv, LedgerInv
    <3>3. QED
      BY <3>1, <3>2
  <2>10. QED
    BY <2>4, <2>7, <2>8, <2>9 DEF StockInv
<1>9. QED
  BY <1>4, <1>7, <1>8

LEMMA StockNext ==
    ASSUME Undisturbed
    PROVE  TypeInv /\ ConsentInv /\ StockInv /\ [Next]_vars => StockInv'
<1> SUFFICES ASSUME TypeInv, ConsentInv, StockInv, [Next]_vars PROVE StockInv'
  OBVIOUS
<1>1. ASSUME NEW p \in Procs, SingleRequest(p) PROVE StockInv'
  BY <1>1, StockSingleRequest
<1>2. ASSUME NEW p \in Procs, BatchRequest(p) PROVE StockInv'
  BY <1>2 DEF BatchRequest, Undisturbed
<1>3. ASSUME NEW p \in Procs, UpsertApprovals(p) PROVE StockInv'
  BY <1>3, StockUpsertApprovals
<1>4. ASSUME NEW p \in Procs, ToApproved(p) PROVE StockInv'
  BY <1>4, StockToApproved
<1>5. ASSUME NEW p \in Procs, ApprovedOneSide(p) PROVE StockInv'
  BY <1>5, StockApprovedOneSide
<1>6. ASSUME NEW p \in Procs, ToInTransit(p) PROVE StockInv'
  BY <1>6, StockToInTransit
<1>7. ASSUME NEW p \in Procs, ToExecuted(p) PROVE StockInv'
  BY <1>7, StockToExecuted
<1>8. ASSUME NEW p \in Procs, ToRejected(p) PROVE StockInv'
  BY <1>8, StockToRejected
<1>9. ASSUME NEW p \in Procs, PatchOrder(p) PROVE StockInv'
  BY <1>9, StockPatchOrder
<1>10. ASSUME NEW p \in Procs, Conflict(p) PROVE StockInv'
  BY <1>10, StockConflict
<1>11. ASSUME NEW p \in Procs, CancelChained(p) PROVE StockInv'
  BY <1>11, StockCancelChained
<1>12. ASSUME NEW p \in Procs, CallInventoryAdjust(p) PROVE StockInv'
  BY <1>12, StockCallInventoryAdjust
<1>13. ASSUME NEW p \in Procs, Commit(p) PROVE StockInv'
  BY <1>13, StockCommit
<1>14. ASSUME NEW p \in Procs, PublishOrderEvent(p) PROVE StockInv'
  BY <1>14, StockPublish
<1>15. ASSUME NEW p \in Procs, DeadlockVictim(p) PROVE StockInv'
  BY <1>15, StockDeadlockVictim
<1>16. ASSUME NEW p \in Procs, Crash(p) PROVE StockInv'
  BY <1>16 DEF Crash, Undisturbed, TypeInv, TypeOK
<1>17. CASE UNCHANGED vars
  <2>1. UNCHANGED <<row, draft, lock, ledger, pc, req, calls>>
    BY <1>17 DEF vars
  <2>2. \A q \in Procs : Current(q)' = Current(q)
    BY <2>1 DEF Current
  <2>3. RequestsInv' /\ LocksInv' /\ CallsInv'
    BY <2>1, <2>2 DEF StockInv, RequestsInv, LocksInv, CallsInv
  <2>4. LedgerInv'
    BY <2>1 DEF StockInv, LedgerInv, Effect, Moved
  <2>5. QED
    BY <2>3, <2>4 DEF StockInv
<1>18. QED
  BY <1>1, <1>2, <1>3, <1>4, <1>5, <1>6, <1>7, <1>8, <1>9, <1>10, <1>11, <1>12,
     <1>13, <1>14, <1>15, <1>16, <1>17 DEF Next, Work

\* Stock follows status: with no fault, no batch and no cascade that
\* inventory-svc can stop half-way, the stock moved for an order nobody has
\* open is what its status says, however the requests interleave.
THEOREM StockCorrect ==
    ASSUME Undisturbed
    PROVE  Spec => []StockMatchesStatus
<1>1. StockInv => StockMatchesStatus
  BY DEF StockInv, LedgerInv, StockMatchesStatus
<1>2. QED
  BY <1>1, StockInit, StockNext, ConsentInit, ConsentNext, TypeInvariant, PTL
     DEF Spec

-----------------------------------------------------------------------------
(* The transactions and calls of StateMachine implement OrderLifecycle, in *)
(* every instance without the disturbances that break StockMatchesStatus.  *)
(* A step leaves an order alone, opens its row with the next edge of the   *)
(* lifecycle in the draft, moves its stock while the row is open, or       *)
(* closes the row; only the last two can change what is settled.           *)

\* One step of the lifecycle of o, from version v to version w.
Edge(o, v, w) ==
    \/ v.status = "ABSENT" /\ w.status = "APPROVED"
    \/ /\ v.status \in {"PENDING", "APPROVED"}
       /\ w.status = v.status
    \/ /\ w.qty = v.qty
       /\ \/ HasSource(o) /\ v.status = "PENDING" /\ w.status = "APPROVED"
          \/ ~HasSource(o) /\ v.status = "PENDING" /\ w.status = "IN_TRANSIT"
          \/ v.status = "APPROVED" /\ w.status = "IN_TRANSIT"
          \/ v.status = "IN_TRANSIT" /\ w.status = "EXECUTED"
          \/ v.status \in Live /\ w.status = "REJECTED"

\* The newest version of an open row is one step from the committed one.
EdgeInv == \A o \in Orders : lock[o] # NoProc => Edge(o, row[o], draft[o])

\* What a step does to an order.
Kept(o) == /\ row'[o] = row[o] /\ draft'[o] = draft[o]
           /\ lock'[o] = lock[o] /\ ledger'[o] = ledger[o]

Opened(o) == /\ lock[o] = NoProc /\ lock'[o] # NoProc
             /\ row'[o] = row[o] /\ ledger'[o] = ledger[o]
             /\ Edge(o, row[o], draft'[o])

Moving(o) == /\ lock[o] # NoProc /\ lock'[o] = lock[o]
             /\ row'[o] = row[o] /\ draft'[o] = draft[o]
             /\ ledger[o] = Effect(o, row[o])

Closed(o) == /\ lock[o] # NoProc /\ lock'[o] = NoProc
             /\ row'[o] \in {row[o], draft[o]}
             /\ ledger'[o] = ledger[o]

Touched(o) == Kept(o) \/ Opened(o) \/ Moving(o) \/ Closed(o)

AllTouched == \A o \in Orders : Touched(o)

-----------------------------------------------------------------------------
(* What each action does to the orders *)

LEMMA TouchedByNone ==
    ASSUME UNCHANGED <<row, draft, lock, ledger>>
    PROVE  AllTouched
  BY DEF AllTouched, Touched, Kept

LEMMA TouchedByRollback ==
    ASSUME NEW p \in Procs, Rollback(p), ledger' = ledger
    PROVE  AllTouched
<1>1. p # NoProc
  BY ConstantsAssumption
<1>2. \A o \in Orders : lock'[o] = (IF lock[o] = p THEN NoProc ELSE lock[o])
                        /\ draft'[o] = (IF lock[o] = p THEN row[o] ELSE draft[o])
  BY DEF Rollback
<1>3. row' = row
  BY DEF Rollback
<1>4. QED
  BY <1>1, <1>2, <1>3 DEF AllTouched, Touched, Kept, Closed

\* An UPDATE of the order a request is at.
LEMMA TouchedByWrite ==
    ASSUME TypeInv, StockInv, NEW p \in Procs, pc[p] = "update", NEW w,
           Free(p, Current(p)), Write(p, Current(p), w),
           Edge(Current(p), row[Current(p)], w), UNCHANGED <<row, ledger>>
    PROVE  AllTouched
<1> DEFINE o == Current(p)
<1>1. o \in Orders
  BY SeesCommitted
<1>2. lock[o] = NoProc
  BY <1>1, NothingWritten DEF Free
<1>3. \A x \in Orders : /\ lock'[x] = IF x = o THEN p ELSE lock[x]
                        /\ draft'[x] = IF x = o THEN w ELSE draft[x]
  BY <1>1 DEF Write, TypeInv, TypeOK
<1>4. p # NoProc
  BY ConstantsAssumption
<1>5. ASSUME NEW x \in Orders PROVE Touched(x)
  <2>1. CASE x = o
    BY <1>2, <1>3, <1>4, <2>1 DEF Touched, Opened
  <2>2. CASE x # o
    BY <1>3, <2>2 DEF Touched, Kept
  <2>3. QED
    BY <2>1, <2>2
<1>6. QED
  BY <1>5 DEF AllTouched

LEMMA TouchedByToInTransit ==
    ASSUME TypeInv, StockInv, NEW p \in Procs, ToInTransit(p)
    PROVE  AllTouched
<1> DEFINE o == Current(p)
           w == [Sees(p, o) EXCEPT !.status = "IN_TRANSIT", !.dispatched = TRUE]
<1>1. pc[p] = "update" /\ Sees(p, o).status = "APPROVED"
  BY DEF ToInTransit, Updating, Matches, From
<1>2. Sees(p, o) = row[o] /\ row[o] \in Row
  BY <1>1, SeesCommitted
<1>3. Edge(o, row[o], w)
  BY <1>1, <1>2 DEF Edge, Row
<1>4. Write(p, o, w) /\ Free(p, o) /\ UNCHANGED <<row, ledger>>
  BY DEF ToInTransit
<1> HIDE DEF w
<1>5. QED
  BY <1>1, <1>3, <1>4, TouchedByWrite

LEMMA TouchedByToExecuted ==
    ASSUME TypeInv, StockInv, NEW p \in Procs, ToExecuted(p)
    PROVE  AllTouched
<1> DEFINE o == Current(p)
           w == [Sees(p, o) EXCEPT !.status = "EXECUTED", !.executed = TRUE]
<1>1. pc[p] = "update" /\ Sees(p, o).status = "IN_TRANSIT"
  BY DEF ToExecuted, Updating, Matches, From
<1>2. Sees(p, o) = row[o] /\ row[o] \in Row
  BY <1>1, SeesCommitted
<1>3. Edge(o, row[o], w)
  BY <1>1, <1>2 DEF Edge, Row
<1>4. Write(p, o, w) /\ Free(p, o) /\ UNCHANGED <<row, ledger>>
  BY DEF ToExecuted
<1> HIDE DEF w
<1>5. QED
  BY <1>1, <1>3, <1>4, TouchedByWrite

LEMMA TouchedByToRejected ==
    ASSUME TypeInv, StockInv, NEW p \in Procs, ToRejected(p)
    PROVE  AllTouched
<1> DEFINE o == Current(p)
           w == Rejected(Sees(p, o))
<1>1. pc[p] = "update" /\ Sees(p, o).status \in Live
  BY DEF ToRejected, Updating, Matches, From, Live
<1>2. Sees(p, o) = row[o] /\ row[o] \in Row
  BY <1>1, SeesCommitted
<1>3. Edge(o, row[o], w)
  BY <1>1, <1>2 DEF Edge, Row, Rejected
<1>4. Write(p, o, w) /\ Free(p, o) /\ UNCHANGED <<row, ledger>>
  BY DEF ToRejected
<1> HIDE DEF w
<1>5. QED
  BY <1>1, <1>3, <1>4, TouchedByWrite

LEMMA TouchedByPatchOrder ==
    ASSUME TypeInv, StockInv, NEW p \in Procs, PatchOrder(p)
    PROVE  AllTouched
<1> DEFINE o == Current(p)
           w == [Sees(p, o) EXCEPT !.qty = req[p].qty]
<1>1. pc[p] = "update" /\ Sees(p, o).status \in {"PENDING", "APPROVED"}
  BY DEF PatchOrder, Updating, Matches, From
<1>2. Sees(p, o) = row[o] /\ row[o] \in Row
  BY <1>1, SeesCommitted
<1>3. Edge(o, row[o], w)
  BY <1>1, <1>2 DEF Edge, Row
<1>4. Write(p, o, w) /\ Free(p, o) /\ UNCHANGED <<row, ledger>>
  BY DEF PatchOrder
<1> HIDE DEF w
<1>5. QED
  BY <1>1, <1>3, <1>4, TouchedByWrite

\* The approval of an order inserts its chained orders, none of which exists.
LEMMA TouchedByToApproved ==
    ASSUME TypeInv, ConsentInv, StockInv, NEW p \in Procs, ToApproved(p)
    PROVE  AllTouched
<1> DEFINE o == Current(p)
           r == Sees(p, o)
           c == IF HasSource(o)
                THEN [r EXCEPT !.status = "APPROVED"]
                ELSE [r EXCEPT !.status = "IN_TRANSIT", !.dispatched = TRUE]
<1>1. pc[p] = "update" /\ r.status = "PENDING" /\ Free(p, o)
  BY DEF ToApproved, Updating, Matches, From
<1>2. o \in Orders /\ r = row[o] /\ row[o] \in Row
  BY <1>1, SeesCommitted
<1>3. lock[o] = NoProc
  BY <1>1, <1>2, NothingWritten DEF Free
<1>4. Edge(o, row[o], c)
  BY <1>1, <1>2 DEF Edge, Row
<1>5. \A k \in Children(o) : /\ k \in Orders /\ k # o
                             /\ row[k].status = "ABSENT" /\ lock[k] = NoProc
  <2> SUFFICES ASSUME NEW k \in Children(o)
               PROVE  /\ k \in Orders /\ k # o
                      /\ row[k].status = "ABSENT" /\ lock[k] = NoProc
    OBVIOUS
  <2>1. k \in Orders /\ Parent[k] = o /\ Parent[k] # NoOrder
    BY <1>2, ConstantsAssumption DEF Children
  <2>2. k # o
    BY <2>1, ParentIsRoot
  <2>3. row[k].status = "ABSENT"
    BY <1>1, <1>2, <2>1 DEF ConsentInv, ChainedInv, Open
  <2>4. lock[k] = NoProc
    BY <1>3, <2>1, <2>3, ConstantsAssumption
       DEF ConsentInv, ChainedInv, TypeInv, TypeOK
  <2>5. QED
    BY <2>1, <2>2, <2>3, <2>4
<1>6. PICK f \in Splits(o, r.qty) :
         LET new == {k \in DOMAIN f : Chains(o) /\ f[k] > 0}
         IN  /\ draft' = [k \in Orders |->
                            IF k = o THEN c
                            ELSE IF k \in new THEN NewRow("APPROVED", f[k])
                            ELSE draft[k]]
             /\ lock' = [k \in Orders |->
                            IF k = o \/ k \in new THEN p ELSE lock[k]]
  BY DEF ToApproved
<1> DEFINE new == {k \in DOMAIN f : Chains(o) /\ f[k] > 0}
<1>7. new \subseteq Children(o)
  BY DEF Splits
<1>8. /\ \A k \in Orders : /\ draft'[k] = IF k = o THEN c
                              ELSE IF k \in new THEN NewRow("APPROVED", f[k])
                              ELSE draft[k]
                           /\ lock'[k] = IF k = o \/ k \in new THEN p ELSE lock[k]
      /\ UNCHANGED <<row, ledger>>
  BY <1>6 DEF ToApproved
<1>9. p # NoProc
  BY ConstantsAssumption
<1>10. ASSUME NEW k \in Orders PROVE Touched(k)
  <2> HIDE DEF c, new, o
  <2>1. CASE k = o
    BY <1>3, <1>4, <1>8, <1>9, <2>1 DEF Touched, Opened
  <2>2. CASE k # o /\ k \in new
    <3>1. row[k].status = "ABSENT" /\ lock[k] = NoProc
      BY <1>5, <1>7, <2>2
    <3>2. draft'[k] = NewRow("APPROVED", f[k]) /\ lock'[k] = p
      BY <1>8, <2>2
    <3>3. Edge(k, row[k], draft'[k])
      BY <3>1, <3>2 DEF Edge, NewRow
    <3>4. QED
      BY <1>8, <1>9, <3>1, <3>2, <3>3 DEF Touched, Opened
  <2>3. CASE k # o /\ k \notin new
    BY <1>8, <2>3 DEF Touched, Kept
  <2>4. QED
    BY <2>1, <2>2, <2>3
<1>11. QED
  BY <1>10 DEF AllTouched

LEMMA TouchedByCancelChained ==
    ASSUME TypeInv, StockInv, NEW p \in Procs, CancelChained(p)
    PROVE  AllTouched
<1> DEFINE o == Current(p)
           cs == {c \in Children(o) : Sees(p, c).status \in Live}
<1>1. /\ pc[p] = "cascade" /\ pc[p] \in Busy
      /\ \A c \in cs : Free(p, c)
      /\ draft' = [c \in Orders |-> IF c \in cs THEN Rejected(Sees(p, c))
                                    ELSE draft[c]]
      /\ lock' = [c \in Orders |-> IF c \in cs THEN p ELSE lock[c]]
      /\ UNCHANGED <<row, ledger>>
  BY DEF CancelChained, Busy
<1>2. o \in Orders
  BY <1>1, CurrentType
<1>3. \A c \in cs : c \in Orders /\ c # o
  BY <1>2, ParentIsRoot, ConstantsAssumption DEF Children
<1>4. \A c \in cs : lock[c] = NoProc
  BY <1>1, <1>3 DEF Free, StockInv, LocksInv
<1>5. p # NoProc
  BY ConstantsAssumption
<1>6. \A c \in cs : Sees(p, c) = row[c] /\ row[c] \in Row /\ row[c].status \in Live
  BY <1>3, <1>4, <1>5 DEF Sees, TypeInv, TypeOK
<1>7. \A c \in cs : Edge(c, row[c], Rejected(row[c]))
  BY <1>6 DEF Edge, Rejected, Row
<1>8. ASSUME NEW x \in Orders PROVE Touched(x)
  <2> HIDE DEF cs
  <2>1. CASE x \in cs
    BY <1>1, <1>4, <1>5, <1>6, <1>7, <2>1 DEF Touched, Opened
  <2>2. CASE x \notin cs
    BY <1>1, <2>2 DEF Touched, Kept
  <2>3. QED
    BY <2>1, <2>2
<1>9. QED
  BY <1>8 DEF AllTouched

LEMMA TouchedByCommit ==
    ASSUME NEW p \in Procs, Commit(p)
    PROVE  AllTouched
<1>1. p # NoProc
  BY ConstantsAssumption
<1>2. \A o \in Orders : /\ row'[o] = IF lock[o] = p THEN draft[o] ELSE row[o]
                        /\ lock'[o] = IF lock[o] = p THEN NoProc ELSE lock[o]
  BY DEF Commit
<1>3. UNCHANGED <<draft, ledger>>
  BY DEF Commit
<1>4. QED
  BY <1>1, <1>2, <1>3 DEF AllTouched, Touched, Kept, Closed

\* A call that is answered moves stock for a row its request has open; one that
\* is refused moves none.
LEMMA TouchedByCall ==
    ASSUME Undisturbed, TypeInv, StockInv, NEW p \in Procs,
           CallInventoryAdjust(p)
    PROVE  AllTouched
<1> DEFINE o == Current(p)
<1>1. PICK c \in calls[p] : \E a, b \in Answers(req[p].who, o, c) :
        /\ faults' = faults + Disturbed(a)
        /\ faults' <= MaxFaults
        /\ ledger' = [ledger EXCEPT ![c.ord][c.end] =
                        @ + CallResult(a, b).times * c.delta]
        /\ IF ~CallResult(a, b).ok THEN Fail(p) ELSE UNCHANGED dbVars
  BY DEF CallInventoryAdjust
<1>2. PICK a \in Answers(req[p].who, o, c), b \in Answers(req[p].who, o, c) :
        /\ faults' = faults + Disturbed(a)
        /\ faults' <= MaxFaults
        /\ ledger' = [ledger EXCEPT ![c.ord][c.end] =
                        @ + CallResult(a, b).times * c.delta]
        /\ IF ~CallResult(a, b).ok THEN Fail(p) ELSE UNCHANGED dbVars
  BY <1>1
<1>3. a \in Attempts \/ a \in {"refused", "lost"}
  BY DEF Answers
<1>4. \/ CallResult(a, b).ok
      \/ ~CallResult(a, b).ok /\ CallResult(a, b).times = 0
  BY <1>2, <1>3, AnswerUndisturbed
<1>5. /\ c.ord \in Orders /\ c.end \in Ends /\ c.delta \in Int
      /\ lock[c.ord] = p
      /\ ledger[c.ord] = Effect(c.ord, row[c.ord])
  BY DEF TypeInv, TypeOK, Call, StockInv, CallsInv, LedgerInv
<1>6. ledger \in [Orders -> [src : Int, tgt : Int]]
  BY DEF TypeInv, TypeOK
<1>7. CASE CallResult(a, b).ok
  <2>1. UNCHANGED <<row, draft, lock>>
    BY <1>2, <1>7 DEF dbVars
  <2>2. \A x \in Orders : x # c.ord => ledger'[x] = ledger[x]
    BY <1>2, <1>6
  <2>3. p # NoProc
    BY ConstantsAssumption
  <2>4. QED
    BY <1>5, <2>1, <2>2, <2>3 DEF AllTouched, Touched, Kept, Moving
<1>8. CASE ~CallResult(a, b).ok
  <2>1. ledger' = [ledger EXCEPT ![c.ord][c.end] = @ + 0 * c.delta]
    BY <1>2, <1>4, <1>8
  <2>2. ledger[c.ord][c.end] + 0 * c.delta = ledger[c.ord][c.end]
    BY <1>5, <1>6 DEF Ends
  <2>3. ledger' = ledger
    BY <1>5, <1>6, <2>1, <2>2 DEF Ends
  <2>4. Rollback(p)
    BY <1>2, <1>8 DEF Fail, StockInv, RequestsInv
  <2>5. QED
    BY <2>3, <2>4, TouchedByRollback
<1>9. QED
  BY <1>7, <1>8

LEMMA TouchedNext ==
    ASSUME Undisturbed, TypeInv, ConsentInv, StockInv, [Next]_vars
    PROVE  AllTouched
<1>1. ASSUME NEW p \in Procs, SingleRequest(p) PROVE AllTouched
  BY <1>1, TouchedByNone DEF SingleRequest, Start, dbVars
<1>2. ASSUME NEW p \in Procs, BatchRequest(p) PROVE AllTouched
  BY <1>2, TouchedByNone DEF BatchRequest, Start, dbVars
<1>3. ASSUME NEW p \in Procs, UpsertApprovals(p) PROVE AllTouched
  BY <1>3, TouchedByNone DEF UpsertApprovals
<1>4. ASSUME NEW p \in Procs, ToApproved(p) PROVE AllTouched
  BY <1>4, TouchedByToApproved
<1>5. ASSUME NEW p \in Procs, ApprovedOneSide(p) PROVE AllTouched
  BY <1>5, TouchedByNone DEF ApprovedOneSide, dbVars
<1>6. ASSUME NEW p \in Procs, ToInTransit(p) PROVE AllTouched
  BY <1>6, TouchedByToInTransit
<1>7. ASSUME NEW p \in Procs, ToExecuted(p) PROVE AllTouched
  BY <1>7, TouchedByToExecuted
<1>8. ASSUME NEW p \in Procs, ToRejected(p) PROVE AllTouched
  BY <1>8, TouchedByToRejected
<1>9. ASSUME NEW p \in Procs, PatchOrder(p) PROVE AllTouched
  BY <1>9, TouchedByPatchOrder
<1>10. ASSUME NEW p \in Procs, Conflict(p) PROVE AllTouched
  BY <1>10, TouchedByRollback DEF Conflict, Fail, StockInv, RequestsInv
<1>11. ASSUME NEW p \in Procs, CancelChained(p) PROVE AllTouched
  BY <1>11, TouchedByCancelChained
<1>12. ASSUME NEW p \in Procs, CallInventoryAdjust(p) PROVE AllTouched
  BY <1>12, TouchedByCall
<1>13. ASSUME NEW p \in Procs, Commit(p) PROVE AllTouched
  BY <1>13, TouchedByCommit
<1>14. ASSUME NEW p \in Procs, PublishOrderEvent(p) PROVE AllTouched
  BY <1>14, TouchedByNone DEF PublishOrderEvent, dbVars
<1>15. ASSUME NEW p \in Procs, DeadlockVictim(p) PROVE AllTouched
  BY <1>15, TouchedByRollback DEF DeadlockVictim
<1>16. ASSUME NEW p \in Procs, Crash(p) PROVE AllTouched
  BY <1>16, TouchedByRollback DEF Crash
<1>17. CASE UNCHANGED vars
  BY <1>17, TouchedByNone DEF vars
<1>18. QED
  BY <1>1, <1>2, <1>3, <1>4, <1>5, <1>6, <1>7, <1>8, <1>9, <1>10, <1>11, <1>12,
     <1>13, <1>14, <1>15, <1>16, <1>17 DEF Next, Work

-----------------------------------------------------------------------------
(* The refinement *)

LEMMA EdgeInit == Init => EdgeInv
  BY DEF Init, EdgeInv

LEMMA EdgeNext == EdgeInv /\ AllTouched => EdgeInv'
<1> SUFFICES ASSUME EdgeInv, AllTouched, NEW o \in Orders, lock'[o] # NoProc
             PROVE  Edge(o, row'[o], draft'[o])
  BY DEF EdgeInv, Edge, HasSource
<1>1. Kept(o) \/ Opened(o) \/ Moving(o)
  BY DEF AllTouched, Touched, Closed
<1>2. QED
  BY <1>1 DEF EdgeInv, Kept, Opened, Moving

\* The stock moved for an order is that of its settled version.
SettledInv == \A o \in Orders : ledger[o] = Effect(o, Settled(o))

LEMMA SettledStock == TypeInv /\ StockInv => SettledInv
<1> SUFFICES ASSUME TypeInv, StockInv, NEW o \in Orders
             PROVE  ledger[o] = Effect(o, Settled(o))
  BY DEF SettledInv
<1>1. CASE lock[o] = NoProc
  BY <1>1 DEF StockInv, LedgerInv, Settled
<1>2. CASE lock[o] # NoProc
  <2>1. lock[o] \in Procs
    BY <1>2 DEF TypeInv, TypeOK
  <2>2. ledger[o] = Effect(o, row[o]) \/ ledger[o] = Effect(o, draft[o])
    BY <2>1 DEF StockInv, LedgerInv
  <2>3. QED
    BY <1>2, <2>2 DEF Settled
<1>3. QED
  BY <1>1, <1>2

\* A step settles at most one edge of the lifecycle of each order.
LEMMA SettledStep ==
    ASSUME StockInv, EdgeInv, AllTouched, StockInv', NEW o \in Orders
    PROVE  Settled(o)' = Settled(o) \/ Edge(o, Settled(o), Settled(o)')
<1>1. CASE Kept(o)
  BY <1>1 DEF Kept, Settled, Effect
<1>2. CASE Opened(o)
  <2>1. ledger[o] = Effect(o, row[o]) /\ Settled(o) = row[o]
    BY <1>2 DEF Opened, StockInv, LedgerInv, Settled
  <2>2. Settled(o)' = row[o]
    BY <1>2, <2>1 DEF Opened, Settled, Effect
  <2>3. QED
    BY <2>1, <2>2
<1>3. CASE Moving(o)
  <2>1. Settled(o) = row[o] /\ Edge(o, row[o], draft[o])
    BY <1>3 DEF Moving, Settled, EdgeInv
  <2>2. Settled(o)' \in {row[o], draft[o]}
    BY <1>3 DEF Moving, Settled
  <2>3. QED
    BY <2>1, <2>2
<1>4. CASE Closed(o)
  <2>1. Settled(o)' = row'[o] /\ Edge(o, row[o], draft[o])
    BY <1>4 DEF Closed, Settled, EdgeInv
  <2>2. CASE row'[o] = draft[o]
    BY <2>1, <2>2 DEF Settled
  <2>3. CASE row'[o] = row[o]
    <3>1. ledger'[o] = Effect(o, row'[o])
      BY <1>4 DEF Closed, StockInv, LedgerInv, Effect
    <3>2. ledger[o] = Effect(o, row[o])
      BY <1>4, <2>3, <3>1 DEF Closed
    <3>3. Settled(o) = row[o]
      BY <3>2 DEF Settled
    <3>4. QED
      BY <2>1, <2>3, <3>3
  <2>4. QED
    BY <1>4, <2>2, <2>3 DEF Closed
<1>5. QED
  BY <1>1, <1>2, <1>3, <1>4 DEF AllTouched, Touched

LEMMA LifecycleInit == Init /\ StockInv => Lifecycle!Init
<1> SUFFICES ASSUME Init, StockInv PROVE Lifecycle!Init
  OBVIOUS
<1> DEFINE Abs(o) == [status |-> Settled(o).status, qty |-> Settled(o).qty]
<1>1. \A o \in Orders : /\ Settled(o) = row[o]
                        /\ row[o].status \in {"ABSENT", "PENDING"}
                        /\ ledger[o] = Effect(o, row[o])
  BY DEF Init, Settled, StockInv, LedgerInv, NewRow, Absent
<1>2. ledger = [o \in Orders |-> ledger[o]]
  BY DEF Init
<1>3. \A o \in Orders : Lifecycle!Effect(o, Abs(o)) = Effect(o, Settled(o))
  BY DEF Lifecycle!Effect, Effect
<1>4. ledger = [o \in Orders |-> Lifecycle!Effect(o, Abs(o))]
  BY <1>1, <1>2, <1>3
<1>5. QED
  BY <1>1, <1>4 DEF Lifecycle!Init

\* An edge is a step of the lifecycle.
LEMMA EdgeIsStep ==
    ASSUME NEW o \in Orders, Edge(o, Settled(o), Settled(o)')
    PROVE  Lifecycle!Step(o)
<1> DEFINE Abs(x) == [status |-> Settled(x).status, qty |-> Settled(x).qty]
           before == [x \in Orders |-> Abs(x)]
           v == Settled(o)
           w == Settled(o)'
<1>1. before[o].status = v.status /\ before[o].qty = v.qty
  OBVIOUS
<1>2. before'[o].status = w.status /\ before'[o].qty = w.qty
  OBVIOUS
<1>3. o \in {x \in Orders : HasSource(x)} <=> HasSource(o)
  OBVIOUS
<1>4. Edge(o, v, w)
  OBVIOUS
<1> USE DEF Lifecycle!Become
<1>5. CASE v.status = "ABSENT" /\ w.status = "APPROVED"
  BY <1>1, <1>2, <1>5 DEF Lifecycle!Step, Lifecycle!Chain
<1>6. CASE v.status \in {"PENDING", "APPROVED"} /\ w.status = v.status
  BY <1>1, <1>2, <1>6 DEF Lifecycle!Step, Lifecycle!Amend
<1>7. CASE w.qty = v.qty /\ HasSource(o) /\ v.status = "PENDING" /\ w.status = "APPROVED"
  BY <1>1, <1>2, <1>3, <1>7 DEF Lifecycle!Step, Lifecycle!Approve
<1>8. CASE w.qty = v.qty /\ ~HasSource(o) /\ v.status = "PENDING" /\ w.status = "IN_TRANSIT"
  BY <1>1, <1>2, <1>3, <1>8 DEF Lifecycle!Step, Lifecycle!Order
<1>9. CASE w.qty = v.qty /\ v.status = "APPROVED" /\ w.status = "IN_TRANSIT"
  BY <1>1, <1>2, <1>9 DEF Lifecycle!Step, Lifecycle!Ship
<1>10. CASE w.qty = v.qty /\ v.status = "IN_TRANSIT" /\ w.status = "EXECUTED"
  BY <1>1, <1>2, <1>10 DEF Lifecycle!Step, Lifecycle!Deliver
<1>11. CASE w.qty = v.qty /\ v.status \in Live /\ w.status = "REJECTED"
  BY <1>1, <1>2, <1>11 DEF Lifecycle!Step, Lifecycle!Cancel, Live
<1>12. QED
  BY <1>4, <1>5, <1>6, <1>7, <1>8, <1>9, <1>10, <1>11 DEF Edge

LEMMA LifecycleStep ==
    ASSUME StockInv, EdgeInv, AllTouched, TypeInv', StockInv', SettledInv'
    PROVE  Lifecycle!Next
<1> DEFINE Abs(x) == [status |-> Settled(x).status, qty |-> Settled(x).qty]
           before == [x \in Orders |-> Abs(x)]
<1>1. ASSUME NEW o \in Orders
      PROVE  before'[o] = before[o] \/ Lifecycle!Step(o)
  <2>1. CASE Settled(o)' = Settled(o)
    BY <2>1
  <2>2. CASE Edge(o, Settled(o), Settled(o)')
    BY <2>2, EdgeIsStep
  <2>3. QED
    BY <2>1, <2>2, SettledStep
<1>2. \A o \in Orders : ledger'[o] = Effect(o, Settled(o)')
  BY DEF SettledInv, Effect
<1>3. ledger' = [o \in Orders |-> ledger'[o]]
  BY DEF TypeInv, TypeOK
<1>4. \A o \in Orders : Lifecycle!Effect(o, before'[o]) = Effect(o, Settled(o)')
  BY DEF Lifecycle!Effect, Effect
<1>5. ledger' = [o \in Orders |-> Lifecycle!Effect(o, before'[o])]
  BY <1>2, <1>3, <1>4
<1>6. QED
  BY <1>1, <1>5 DEF Lifecycle!Next

\* The workflow implements its lifecycle: where inventory-svc loses no call and
\* leaves no cascade half-way, every interleaving of requests moves each order
\* along the edges PENDING -> APPROVED -> IN_TRANSIT -> EXECUTED or to REJECTED,
\* and its stock in the very step that settles its status.
THEOREM LifecycleCorrect ==
    ASSUME Undisturbed
    PROVE  Spec => ImplementsLifecycle
<1>1. Init => Lifecycle!Init
  BY StockInit, LifecycleInit
<1>2. TypeInv /\ ConsentInv /\ StockInv /\ EdgeInv
        /\ TypeInv' /\ StockInv' /\ SettledInv' /\ [Next]_vars => [Lifecycle!Next]_(Lifecycle!vars)
  BY TouchedNext, LifecycleStep
<1>3. TypeInv /\ ConsentInv /\ StockInv /\ EdgeInv /\ [Next]_vars => EdgeInv'
  BY TouchedNext, EdgeNext
<1>4. QED
  BY <1>1, <1>2, <1>3, EdgeInit, StockInit, StockNext, SettledStock, ConsentInit,
     ConsentNext, TypeInvariant, PTL DEF Spec, ImplementsLifecycle, Lifecycle!Spec

-----------------------------------------------------------------------------
(* 2. Chained orders and events *)

-----------------------------------------------------------------------------
(* What a rejection does to the chained orders *)

\* p has rejected o, and its cascade to the chained orders is still to come.
Cascading(p, o) ==
    /\ pc[p] \in {"adjust", "cascade"}
    /\ req[p].op = "reject"
    /\ Current(p) = o

\* There is no endpoint that rejects a batch.
BatchesInv == \A p \in Procs : req[p].batch => req[p].op \in BatchOps

\* Nobody writes a row again once it is executed or rejected.
TerminalInv ==
    \A o \in Orders : row[o].status \in {"EXECUTED", "REJECTED"} => lock[o] = NoProc

\* Nobody has c open but p, and its newest version is not to be shipped.
Cancelled(p, c) == lock[c] \in {p, NoProc} /\ draft[c].status \notin Live

\* The chained orders follow their parent: in the transaction that rejects it
\* once the cascade is done, and in every version after its commit.
CascadeInv ==
    \A c \in Orders : Parent[c] # NoOrder =>
        /\ row[Parent[c]].status = "REJECTED" =>
              lock[c] = NoProc /\ row[c].status \notin Live
        /\ \A p \in Procs :
              lock[Parent[c]] = p /\ draft[Parent[c]].status = "REJECTED" =>
                 Cascading(p, Parent[c]) \/ Cancelled(p, c)

ChainInv == BatchesInv /\ TerminalInv /\ CascadeInv

LEMMA ChainInit == Init => ChainInv
<1> SUFFICES ASSUME Init PROVE ChainInv
  OBVIOUS
<1>1. \A o \in Orders : lock[o] = NoProc /\ row[o].status \in {"PENDING", "ABSENT"}
  BY DEF Init, NewRow, Absent
<1>2. \A p \in Procs : ~req[p].batch /\ p # NoProc
  BY ConstantsAssumption DEF Init, NoRequest
<1>3. QED
  BY <1>1, <1>2, ParentIsRoot DEF ChainInv, BatchesInv, TerminalInv, CascadeInv

-----------------------------------------------------------------------------
(* Kinds of steps *)

\* p writes the rows of W, inserting none: the cascades go on, are done in this
\* very step, or start with the rejection of a row of W.
LEMMA ChainWrites ==
    ASSUME TypeInv, ConsentInv, ChainInv, NEW p \in Procs, NEW W \in SUBSET Orders,
           Writes(p, W), row' = row, BatchesInv',
           \A q \in Procs, c \in Orders :
              /\ Parent[c] # NoOrder
              /\ Cascading(q, Parent[c])
              /\ lock[Parent[c]] = q
              => Cascading(q, Parent[c])' \/ Cancelled(q, c)',
           \A c \in Orders :
              /\ Parent[c] \in W
              /\ draft'[Parent[c]].status = "REJECTED"
              => Cascading(p, Parent[c])'
    PROVE  ChainInv'
<1>1. p # NoProc /\ NoProc \notin Procs
  BY ConstantsAssumption
<1>2. \A x \in W : /\ Sees(p, x).status \in Live
                   /\ Sees(p, x) = draft[x]
                   /\ lock[x] = NoProc => row[x].status \in Live
  <2> SUFFICES ASSUME NEW x \in W
      PROVE  /\ Sees(p, x).status \in Live
             /\ Sees(p, x) = draft[x]
             /\ lock[x] = NoProc => row[x].status \in Live
    OBVIOUS
  <2>1. x \in Orders /\ Sees(p, x) \in Row
    BY VersionType
  <2>2. Sees(p, x).status \in Live
    BY <2>1, SuccessorStatus DEF Writes
  <2>3. Sees(p, x) = draft[x]
    BY <2>1 DEF Writes, Sees, Free, ConsentInv, VersionsInv
  <2>4. QED
    BY <1>1, <2>2, <2>3 DEF Sees
<1>3. TerminalInv'
  <2> SUFFICES ASSUME NEW x \in Orders, row[x].status \in {"EXECUTED", "REJECTED"}
               PROVE  lock'[x] = NoProc
    BY DEF TerminalInv
  <2>1. lock[x] = NoProc
    BY DEF ChainInv, TerminalInv
  <2>2. x \notin W
    BY <1>2, <2>1 DEF Live
  <2>3. QED
    BY <2>1, <2>2 DEF Writes
<1>4. CascadeInv'
  <2> SUFFICES ASSUME NEW c \in Orders, Parent[c] # NoOrder
      PROVE  /\ row[Parent[c]].status = "REJECTED" =>
                   lock'[c] = NoProc /\ row[c].status \notin Live
             /\ \A q \in Procs :
                   lock'[Parent[c]] = q /\ draft'[Parent[c]].status = "REJECTED" =>
                      Cascading(q, Parent[c])' \/ Cancelled(q, c)'
    BY DEF CascadeInv
  <2>1. Parent[c] \in Orders
    BY ParentIsRoot
  <2>2. ASSUME row[Parent[c]].status = "REJECTED"
        PROVE  lock'[c] = NoProc /\ row[c].status \notin Live
    <3>1. lock[c] = NoProc /\ row[c].status \notin Live
      BY <2>2 DEF ChainInv, CascadeInv
    <3>2. c \notin W
      BY <1>2, <3>1
    <3>3. QED
      BY <3>1, <3>2 DEF Writes
  <2>3. ASSUME NEW q \in Procs, lock'[Parent[c]] = q,
               draft'[Parent[c]].status = "REJECTED"
        PROVE  Cascading(q, Parent[c])' \/ Cancelled(q, c)'
    <3>1. CASE Parent[c] \in W
      BY <2>3, <3>1 DEF Writes
    <3>2. CASE Parent[c] \notin W
      <4>1. lock[Parent[c]] = q /\ draft[Parent[c]].status = "REJECTED"
        BY <2>1, <2>3, <3>2 DEF Writes
      <4>2. CASE Cascading(q, Parent[c])
        BY <4>1, <4>2
      <4>3. CASE Cancelled(q, c)
        <5>1. c \notin W
          BY <1>2, <4>3 DEF Cancelled
        <5>2. QED
          BY <4>3, <5>1 DEF Writes, Cancelled
      <4>4. QED
        BY <4>1, <4>2, <4>3 DEF ChainInv, CascadeInv
    <3>3. QED
      BY <3>1, <3>2
  <2>4. QED
    BY <2>2, <2>3
<1>5. QED
  BY <1>3, <1>4 DEF ChainInv

\* Steps that leave the rows alone and no cascade undone.
LEMMA ChainKept ==
    ASSUME TypeInv, ConsentInv, ChainInv, NEW p \in Procs,
           UNCHANGED <<row, draft, lock>>, BatchesInv',
           \A q \in Procs, o \in Orders : Cascading(q, o) => Cascading(q, o)'
    PROVE  ChainInv'
<1>1. Writes(p, {})
  BY DEF Writes
<1>2. \A c \in Orders : Parent[c] # NoOrder => Parent[c] \in Orders
  BY ParentIsRoot
<1>3. QED
  BY <1>1, <1>2, ChainWrites

\* A request that is undone gives up the parent with the chained orders.
LEMMA ChainRollback ==
    ASSUME TypeInv, ConsentInv, ChainInv, NEW p \in Procs, Rollback(p)
    PROVE  ChainInv'
<1>1. \A o \in Orders :
         /\ draft'[o] = IF lock[o] = p THEN row[o] ELSE draft[o]
         /\ lock'[o] = IF lock[o] = p THEN NoProc ELSE lock[o]
         /\ row' = row
  BY DEF Rollback
<1>2. \A q \in Procs : /\ req'[q] = IF q = p THEN NoRequest ELSE req[q]
                       /\ q # p => pc'[q] = pc[q]
  BY DEF Rollback, TypeInv, TypeOK
<1>3. p # NoProc /\ NoProc \notin Procs
  BY ConstantsAssumption
<1>4. BatchesInv'
  BY <1>2 DEF ChainInv, BatchesInv, NoRequest
<1>5. TerminalInv'
  BY <1>1 DEF ChainInv, TerminalInv
<1>6. \A q \in Procs \ {p}, o \in Orders : Cascading(q, o) => Cascading(q, o)'
  BY <1>2 DEF Cascading, Current
<1>7. CascadeInv'
  <2> SUFFICES ASSUME NEW c \in Orders, Parent[c] # NoOrder
      PROVE  /\ row[Parent[c]].status = "REJECTED" =>
                   lock'[c] = NoProc /\ row[c].status \notin Live
             /\ \A q \in Procs :
                   lock'[Parent[c]] = q /\ draft'[Parent[c]].status = "REJECTED" =>
                      Cascading(q, Parent[c])' \/ Cancelled(q, c)'
    BY <1>1 DEF CascadeInv
  <2>1. Parent[c] \in Orders
    BY ParentIsRoot
  <2>2. row[Parent[c]].status = "REJECTED" =>
           lock'[c] = NoProc /\ row[c].status \notin Live
    BY <1>1 DEF ChainInv, CascadeInv
  <2>3. ASSUME NEW q \in Procs, lock'[Parent[c]] = q,
               draft'[Parent[c]].status = "REJECTED"
        PROVE  Cascading(q, Parent[c])' \/ Cancelled(q, c)'
    <3>1. q # p /\ lock[Parent[c]] = q /\ draft[Parent[c]].status = "REJECTED"
      BY <1>1, <1>3, <2>1, <2>3
    <3>2. Cancelled(q, c) => Cancelled(q, c)'
      BY <1>1, <1>3, <3>1 DEF Cancelled
    <3>3. QED
      BY <1>6, <2>1, <3>1, <3>2 DEF ChainInv, CascadeInv
  <2>4. QED
    BY <2>2, <2>3
<1>8. QED
  BY <1>4, <1>5, <1>7 DEF ChainInv

\* A rejection is committed with its cascade.
LEMMA ChainCommit ==
    ASSUME TypeInv, ConsentInv, ChainInv, NEW p \in Procs, Commit(p)
    PROVE  ChainInv'
<1>1. \A o \in Orders :
         /\ row'[o] = IF lock[o] = p THEN draft[o] ELSE row[o]
         /\ lock'[o] = IF lock[o] = p THEN NoProc ELSE lock[o]
         /\ draft' = draft
  BY DEF Commit
<1>2. pc[p] = "commit" /\ req' = req /\ \A q \in Procs \ {p} : pc'[q] = pc[q]
  BY DEF Commit, TypeInv, TypeOK
<1>3. p # NoProc /\ NoProc \notin Procs
  BY ConstantsAssumption
<1>4. BatchesInv'
  BY <1>2 DEF ChainInv, BatchesInv
<1>5. TerminalInv'
  BY <1>1 DEF ChainInv, TerminalInv
<1>6. \A q \in Procs \ {p}, o \in Orders : Cascading(q, o) => Cascading(q, o)'
  BY <1>2 DEF Cascading, Current
<1>7. CascadeInv'
  <2> SUFFICES ASSUME NEW c \in Orders, Parent[c] # NoOrder
      PROVE  /\ row'[Parent[c]].status = "REJECTED" =>
                   lock'[c] = NoProc /\ row'[c].status \notin Live
             /\ \A q \in Procs :
                   lock'[Parent[c]] = q /\ draft'[Parent[c]].status = "REJECTED" =>
                      Cascading(q, Parent[c])' \/ Cancelled(q, c)'
    BY DEF CascadeInv
  <2>1. Parent[c] \in Orders
    BY ParentIsRoot
  <2>2. ASSUME row'[Parent[c]].status = "REJECTED"
        PROVE  lock'[c] = NoProc /\ row'[c].status \notin Live
    <3>1. CASE lock[Parent[c]] = p
      <4>1. ~Cascading(p, Parent[c]) /\ draft[Parent[c]].status = "REJECTED"
        BY <1>1, <1>2, <2>1, <2>2, <3>1 DEF Cascading
      <4>2. Cancelled(p, c)
        BY <3>1, <4>1 DEF ChainInv, CascadeInv
      <4>3. QED
        BY <1>1, <1>3, <4>2 DEF Cancelled, ConsentInv, VersionsInv
    <3>2. CASE lock[Parent[c]] # p
      <4>1. row[Parent[c]].status = "REJECTED"
        BY <1>1, <2>1, <2>2, <3>2
      <4>2. QED
        BY <1>1, <1>3, <4>1 DEF ChainInv, CascadeInv
    <3>3. QED
      BY <3>1, <3>2
  <2>3. ASSUME NEW q \in Procs, lock'[Parent[c]] = q,
               draft'[Parent[c]].status = "REJECTED"
        PROVE  Cascading(q, Parent[c])' \/ Cancelled(q, c)'
    <3>1. q # p /\ lock[Parent[c]] = q /\ draft[Parent[c]].status = "REJECTED"
      BY <1>1, <1>3, <2>1, <2>3
    <3>2. Cancelled(q, c) => Cancelled(q, c)'
      BY <1>1, <1>3, <3>1 DEF Cancelled
    <3>3. QED
      BY <1>6, <2>1, <3>1, <3>2 DEF ChainInv, CascadeInv
  <2>4. QED
    BY <2>2, <2>3
<1>8. QED
  BY <1>4, <1>5, <1>7 DEF ChainInv

-----------------------------------------------------------------------------
(* The actions *)

\* Steps of p outside a cascade leave the cascades of the others alone.
LEMMA OthersCascade ==
    ASSUME NEW p \in Procs, \A q \in Procs \ {p} : pc'[q] = pc[q] /\ req'[q] = req[q],
           ~(pc[p] \in {"adjust", "cascade"} /\ req[p].op = "reject")
    PROVE  \A q \in Procs, o \in Orders : Cascading(q, o) => Cascading(q, o)'
  BY DEF Cascading, Current

LEMMA AdvanceKeeps ==
    ASSUME TypeInv, NEW p \in Procs, NEW es, Advance(p, es)
    PROVE  /\ \A q \in Procs \ {p} : pc'[q] = pc[q] /\ req'[q] = req[q]
           /\ \A q \in Procs : req'[q].op = req[q].op /\ req'[q].batch = req[q].batch
<1>1. req' = [req EXCEPT ![p].todo = Tail(req[p].todo)]
  BY DEF Advance
<1>2. \A q \in Procs \ {p} : pc'[q] = pc[q]
  BY DEF Advance, TypeInv, TypeOK
<1>3. QED
  BY <1>1, <1>2 DEF TypeInv, TypeOK, Request

\* An UPDATE of one row that does not reject it.
LEMMA ChainWriteOne ==
    ASSUME TypeInv, ConsentInv, ChainInv, NEW p \in Procs, pc[p] = "update",
           NEW w, Free(p, Current(p)), Successor(Sees(p, Current(p)), w),
           Write(p, Current(p), w), w.status # "REJECTED", row' = row,
           \/ \E next \in PCs : pc' = [pc EXCEPT ![p] = next] /\ req' = req
           \/ \E es : Advance(p, es)
    PROVE  ChainInv'
<1> DEFINE o == Current(p)
<1>1. o \in Orders
  BY CurrentType DEF Busy
<1>2. \A q \in Procs \ {p} : pc'[q] = pc[q] /\ req'[q] = req[q]
  BY AdvanceKeeps DEF TypeInv, TypeOK
<1>3. BatchesInv'
  BY AdvanceKeeps DEF ChainInv, BatchesInv
<1>4. draft'[o] = w /\ Writes(p, {o})
  BY <1>1 DEF Writes, Write, TypeInv, TypeOK
<1>5. \A q \in Procs, x \in Orders : Cascading(q, x) => Cascading(q, x)'
  BY <1>2, OthersCascade
<1>6. \A c \in Orders : Parent[c] # NoOrder => Parent[c] \in Orders
  BY ParentIsRoot
<1> HIDE DEF o
<1>7. QED
  BY <1>1, <1>3, <1>4, <1>5, <1>6, ChainWrites

LEMMA ChainToInTransit ==
    ASSUME TypeInv, ConsentInv, ChainInv, NEW p \in Procs, ToInTransit(p)
    PROVE  ChainInv'
<1> DEFINE o == Current(p)
           w == [Sees(p, o) EXCEPT !.status = "IN_TRANSIT", !.dispatched = TRUE]
<1>1. pc[p] = "update" /\ Sees(p, o).status = "APPROVED"
  BY DEF ToInTransit, Updating, Matches, From
<1>2. o \in Orders /\ Sees(p, o) \in Row
  BY <1>1, CurrentType, VersionType DEF Busy
<1>3. Successor(Sees(p, o), w) /\ w.status # "REJECTED"
  BY <1>1, <1>2 DEF Successor, Row
<1>4. Free(p, o) /\ Write(p, o, w) /\ row' = row
  BY DEF ToInTransit
<1>5. \/ \E next \in PCs : pc' = [pc EXCEPT ![p] = next] /\ req' = req
      \/ \E es : Advance(p, es)
  BY DEF ToInTransit, PCs
<1> HIDE DEF w
<1>6. QED
  BY <1>1, <1>3, <1>4, <1>5, ChainWriteOne

LEMMA ChainToExecuted ==
    ASSUME TypeInv, ConsentInv, ChainInv, NEW p \in Procs, ToExecuted(p)
    PROVE  ChainInv'
<1> DEFINE o == Current(p)
           w == [Sees(p, o) EXCEPT !.status = "EXECUTED", !.executed = TRUE]
<1>1. pc[p] = "update" /\ Sees(p, o).status = "IN_TRANSIT"
  BY DEF ToExecuted, Updating, Matches, From
<1>2. o \in Orders /\ Sees(p, o) \in Row
  BY <1>1, CurrentType, VersionType DEF Busy
<1>3. Successor(Sees(p, o), w) /\ w.status # "REJECTED"
  BY <1>1, <1>2 DEF Successor, Row
<1>4. Free(p, o) /\ Write(p, o, w) /\ row' = row
  BY DEF ToExecuted
<1>5. \E next \in PCs : pc' = [pc EXCEPT ![p] = next] /\ req' = req
  BY DEF ToExecuted, PCs
<1> HIDE DEF w
<1>6. QED
  BY <1>1, <1>3, <1>4, <1>5, ChainWriteOne

LEMMA ChainPatchOrder ==
    ASSUME TypeInv, ConsentInv, ChainInv, NEW p \in Procs, PatchOrder(p)
    PROVE  ChainInv'
<1> DEFINE o == Current(p)
           w == [Sees(p, o) EXCEPT !.qty = req[p].qty]
<1>1. pc[p] = "update" /\ Sees(p, o).status \in {"PENDING", "APPROVED"}
  BY DEF PatchOrder, Updating, Matches, From
<1>2. o \in Orders /\ Sees(p, o) \in Row /\ req[p].qty \in Nat
  BY <1>1, CurrentType, VersionType DEF Busy, TypeInv, TypeOK, Request
<1>3. Successor(Sees(p, o), w) /\ w.status # "REJECTED"
  BY <1>1, <1>2 DEF Successor, Row
<1>4. Free(p, o) /\ Write(p, o, w) /\ row' = row
  BY DEF PatchOrder
<1>5. \E es : Advance(p, es)
  BY DEF PatchOrder
<1> HIDE DEF w
<1>6. QED
  BY <1>1, <1>3, <1>4, <1>5, ChainWriteOne

\* The rejection of an order with chained orders goes on to its cascade.
LEMMA ChainToRejected ==
    ASSUME TypeInv, ConsentInv, ChainInv, NEW p \in Procs, ToRejected(p)
    PROVE  ChainInv'
<1> DEFINE o == Current(p)
           w == Rejected(Sees(p, o))
<1>1. pc[p] = "update" /\ req[p].op = "reject" /\ Sees(p, o).status \in Live
  BY DEF ToRejected, Updating, Matches, From, Live
<1>2. o \in Orders
  BY <1>1, CurrentType DEF Busy
<1>3. Free(p, o) /\ Write(p, o, w) /\ row' = row /\ Successor(Sees(p, o), w)
  BY <1>1 DEF ToRejected, Successor
<1>4. \/ pc' = [pc EXCEPT ![p] = "adjust"] /\ req' = req
      \/ Chains(o) /\ pc' = [pc EXCEPT ![p] = "cascade"] /\ req' = req
      \/ ~Chains(o) /\ \E es : Advance(p, es)
  BY DEF ToRejected
<1>5. \A q \in Procs \ {p} : pc'[q] = pc[q] /\ req'[q] = req[q]
  BY <1>4, AdvanceKeeps DEF TypeInv, TypeOK
<1>6. BatchesInv'
  BY <1>4, AdvanceKeeps DEF ChainInv, BatchesInv
<1>7. Writes(p, {o})
  BY <1>2, <1>3 DEF Writes, Write, TypeInv, TypeOK
<1>8. \A q \in Procs, x \in Orders : Cascading(q, x) => Cascading(q, x)'
  BY <1>1, <1>5, OthersCascade
<1>9. \A c \in Orders : Parent[c] # NoOrder => Parent[c] \in Orders
  BY ParentIsRoot
<1>10. ASSUME NEW c \in Orders, Parent[c] = o
       PROVE  Cascading(p, Parent[c])'
  <2>1. Chains(o)
    BY <1>2, <1>10, ConstantsAssumption DEF Chains
  <2>2. pc'[p] \in {"adjust", "cascade"} /\ req' = req
    BY <1>4, <2>1 DEF TypeInv, TypeOK
  <2>3. Current(p)' = o
    BY <2>2 DEF Current
  <2>4. QED
    BY <1>1, <1>10, <2>2, <2>3 DEF Cascading
<1> HIDE DEF o, w
<1>11. QED
  BY <1>2, <1>3, <1>6, <1>7, <1>8, <1>9, <1>10, ChainWrites

\* The cascade: the chained orders it does not match are not to be shipped, and
\* nobody else has one open.
LEMMA ChainCancelChained ==
    ASSUME TypeInv, ConsentInv, ChainInv, NEW p \in Procs, CancelChained(p)
    PROVE  ChainInv'
<1> DEFINE o == Current(p)
           cs == {c \in Children(o) : Sees(p, c).status \in Live}
<1>1. /\ pc[p] = "cascade"
      /\ \A c \in cs : Free(p, c)
      /\ \A c \in Orders :
            /\ draft'[c] = IF c \in cs THEN Rejected(Sees(p, c)) ELSE draft[c]
            /\ lock'[c] = IF c \in cs THEN p ELSE lock[c]
      /\ row' = row
  BY DEF CancelChained
<1>2. o \in Orders
  BY <1>1, CurrentType DEF Busy
<1>3. \/ \E es : Advance(p, es)
      \/ pc' = [pc EXCEPT ![p] = "restore"] /\ req' = req
  BY DEF CancelChained
<1>4. \A q \in Procs \ {p} : pc'[q] = pc[q] /\ req'[q] = req[q]
  BY <1>3, AdvanceKeeps DEF TypeInv, TypeOK
<1>5. BatchesInv'
  BY <1>3, AdvanceKeeps DEF ChainInv, BatchesInv
<1>6. \A c \in cs : c \in Orders /\ Parent[c] = o /\ Parent[c] # NoOrder
  BY <1>2, ConstantsAssumption DEF Children
<1>7. Writes(p, cs)
  BY <1>1, <1>6 DEF Writes, Successor
<1>8. \A c \in Orders : Parent[c] # NoOrder => Parent[c] \in Orders /\ Parent[c] \notin cs
  BY <1>6, ParentIsRoot
<1>9. ASSUME NEW q \in Procs, NEW c \in Orders, Parent[c] # NoOrder,
             Cascading(q, Parent[c]), lock[Parent[c]] = q
      PROVE  Cascading(q, Parent[c])' \/ Cancelled(q, c)'
  <2>1. CASE q # p
    BY <1>4, <1>9, <2>1 DEF Cascading, Current
  <2>2. CASE q = p
    <3>1. Parent[c] = o /\ c \in Children(o)
      BY <1>9, <2>2 DEF Cascading, Children
    <3>2. CASE c \in cs
      <4>1. Sees(p, c) \in Row
        BY VersionType
      <4>2. draft'[c].status = "REJECTED" /\ lock'[c] = p
        BY <1>1, <3>2, <4>1 DEF Rejected, Row
      <4>3. QED
        BY <2>2, <4>2 DEF Cancelled, Live
    <3>3. CASE c \notin cs
      <4>1. Sees(p, c).status \notin Live
        BY <3>1, <3>3
      <4>2. draft'[c] = draft[c] /\ lock'[c] = lock[c]
        BY <1>1, <3>3
      <4>3. CASE lock[c] = p
        BY <2>2, <4>1, <4>2, <4>3 DEF Sees, Cancelled
      <4>4. CASE lock[c] = NoProc
        BY <2>2, <4>1, <4>2, <4>4 DEF Sees, Cancelled, ConsentInv, VersionsInv
      <4>5. CASE lock[c] \notin {p, NoProc}
        <5>1. row[c].status \notin Live
          BY <4>1, <4>5 DEF Sees
        <5>2. row[c].status \in Statuses /\ lock[c] \in Procs
          BY <4>5 DEF TypeInv, TypeOK, Row
        <5>3. row[c].status = "ABSENT"
          BY <4>5, <5>1, <5>2 DEF ChainInv, TerminalInv, Statuses
        <5>4. lock[Parent[c]] = lock[c]
          BY <1>9, <5>2, <5>3 DEF ConsentInv, ChainedInv
        <5>5. QED
          BY <1>9, <2>2, <4>5, <5>4
      <4>6. QED
        BY <4>3, <4>4, <4>5
    <3>4. QED
      BY <3>2, <3>3
  <2>3. QED
    BY <2>1, <2>2
<1>10. cs \in SUBSET Orders
  BY <1>6
<1> HIDE DEF cs, o
<1>11. \A c \in Orders : Parent[c] \in cs => Parent[c] # NoOrder
  BY <1>10, ConstantsAssumption
<1>12. QED
  BY <1>1, <1>5, <1>7, <1>8, <1>9, <1>10, <1>11, ChainWrites

\* An approval: the chained orders it inserts did not exist, so their parent was
\* not rejected.
LEMMA ChainToApproved ==
    ASSUME TypeInv, ConsentInv, ChainInv, NEW p \in Procs, ToApproved(p)
    PROVE  ChainInv'
<1> DEFINE o == Current(p)
           r == Sees(p, o)
           v == IF HasSource(o)
                THEN [r EXCEPT !.status = "APPROVED"]
                ELSE [r EXCEPT !.status = "IN_TRANSIT", !.dispatched = TRUE]
<1>1. /\ pc[p] = "update" /\ o \in Orders /\ r \in Row /\ r.status = "PENDING"
      /\ Free(p, o)
  BY CurrentType, VersionType DEF ToApproved, Updating, Busy, Matches, From
<1>2. v.status # "REJECTED"
  BY <1>1 DEF Row
<1>3. PICK new \in SUBSET Children(o) : \A x \in Orders :
         /\ x = o => draft'[x] = v
         /\ x # o /\ x \in new => draft'[x].status = "APPROVED"
         /\ x # o /\ x \notin new => draft'[x] = draft[x]
         /\ lock'[x] = IF x = o \/ x \in new THEN p ELSE lock[x]
  <2>1. PICK f \in Splits(o, r.qty) :
         LET n == {k \in DOMAIN f : Chains(o) /\ f[k] > 0}
         IN  /\ draft' = [k \in Orders |->
                            IF k = o THEN v
                            ELSE IF k \in n THEN NewRow("APPROVED", f[k])
                            ELSE draft[k]]
             /\ lock' = [k \in Orders |->
                            IF k = o \/ k \in n THEN p ELSE lock[k]]
    BY DEF ToApproved
  <2> DEFINE n == {k \in DOMAIN f : Chains(o) /\ f[k] > 0}
  <2>2. n \in SUBSET Children(o)
    BY DEF Splits
  <2>3. QED
    BY <2>1, <2>2 DEF NewRow
<1>4. p # NoProc /\ NoProc \notin Procs /\ row' = row
  BY ConstantsAssumption DEF ToApproved
<1>5. /\ draft[o].status = "PENDING" /\ lock[o] \in {p, NoProc}
      /\ row[o].status \in Open
  BY <1>1 DEF Sees, Free, ConsentInv, VersionsInv, Open
<1>6. \A x \in new : x \in Orders /\ Parent[x] = o /\ Parent[x] # NoOrder
  BY <1>1, ConstantsAssumption DEF Children
<1>7. \A x \in new : row[x].status = "ABSENT"
  BY <1>5, <1>6 DEF ConsentInv, ChainedInv
<1>8. \E es : Advance(p, es)
  BY DEF ToApproved
<1>9. \A q \in Procs, x \in Orders : Cascading(q, x) => Cascading(q, x)'
  BY <1>1, <1>8, AdvanceKeeps, OthersCascade
<1>10. BatchesInv'
  BY <1>8, AdvanceKeeps DEF ChainInv, BatchesInv
<1> HIDE DEF o, r, v
<1>11. TerminalInv'
  BY <1>3, <1>4, <1>5, <1>7 DEF ChainInv, TerminalInv, Open
<1>12. CascadeInv'
  <2> SUFFICES ASSUME NEW c \in Orders, Parent[c] # NoOrder
      PROVE  /\ row[Parent[c]].status = "REJECTED" =>
                   lock'[c] = NoProc /\ row[c].status \notin Live
             /\ \A q \in Procs :
                   lock'[Parent[c]] = q /\ draft'[Parent[c]].status = "REJECTED" =>
                      Cascading(q, Parent[c])' \/ Cancelled(q, c)'
    BY <1>4 DEF CascadeInv
  <2>1. Parent[c] \in Orders /\ Parent[c] \notin new
    BY <1>6, ParentIsRoot
  <2>2. ASSUME row[Parent[c]].status = "REJECTED"
        PROVE  lock'[c] = NoProc /\ row[c].status \notin Live
    <3>1. lock[c] = NoProc /\ row[c].status \notin Live
      BY <2>2 DEF ChainInv, CascadeInv
    <3>2. c # o
      BY <1>5, <3>1 DEF ConsentInv, VersionsInv, Live
    <3>3. c \notin new
      BY <1>5, <1>6, <2>2 DEF Open
    <3>4. QED
      BY <1>3, <3>1, <3>2, <3>3
  <2>3. ASSUME NEW q \in Procs, lock'[Parent[c]] = q,
               draft'[Parent[c]].status = "REJECTED"
        PROVE  Cascading(q, Parent[c])' \/ Cancelled(q, c)'
    <3>1. Parent[c] # o
      BY <1>1, <1>2, <1>3, <2>3
    <3>2. lock[Parent[c]] = q /\ draft[Parent[c]].status = "REJECTED"
      BY <1>3, <2>1, <2>3, <3>1
    <3>3. Cancelled(q, c) => Cancelled(q, c)'
      <4> SUFFICES ASSUME Cancelled(q, c) PROVE Cancelled(q, c)'
        OBVIOUS
      <4>1. c # o
        BY <1>5 DEF Cancelled, Live
      <4>2. c \notin new
        BY <1>6, <3>1
      <4>3. QED
        BY <1>3, <4>1, <4>2 DEF Cancelled
    <3>4. QED
      BY <1>9, <2>1, <3>2, <3>3 DEF ChainInv, CascadeInv
  <2>4. QED
    BY <2>2, <2>3
<1>13. QED
  BY <1>10, <1>11, <1>12 DEF ChainInv

\* A rejection is never part of a batch, so one that fails is undone.
LEMMA ChainFail ==
    ASSUME TypeInv, ConsentInv, ChainInv, NEW p \in Procs, Fail(p)
    PROVE  ChainInv'
<1>1. CASE Rollback(p)
  BY <1>1, ChainRollback
<1>2. CASE /\ req[p].batch
           /\ Advance(p, {})
           /\ UNCHANGED <<row, draft, lock>>
  <2>1. req[p].op # "reject"
    BY <1>2 DEF ChainInv, BatchesInv, BatchOps
  <2>2. \A q \in Procs, x \in Orders : Cascading(q, x) => Cascading(q, x)'
    BY <1>2, <2>1, AdvanceKeeps, OthersCascade
  <2>3. BatchesInv'
    BY <1>2, AdvanceKeeps DEF ChainInv, BatchesInv
  <2>4. QED
    BY <1>2, <2>2, <2>3, ChainKept
<1>3. QED
  BY <1>1, <1>2 DEF Fail

\* The stock of a rejected order is put back before its cascade, which an answer
\* of inventory-svc cannot skip.
LEMMA ChainCallInventoryAdjust ==
    ASSUME TypeInv, ConsentInv, ChainInv, NEW p \in Procs, CallInventoryAdjust(p)
    PROVE  ChainInv'
<1>1. CASE Fail(p)
  BY <1>1, ChainFail
<1>2. CASE ~Fail(p)
  <2>1. UNCHANGED <<row, draft, lock>>
    BY <1>2 DEF CallInventoryAdjust, dbVars
  <2>2. \/ UNCHANGED <<pc, req>>
        \/ /\ pc[p] = "adjust"
           /\ pc' = [pc EXCEPT ![p] = "cascade"]
           /\ req' = req
        \/ /\ ~(pc[p] = "adjust" /\ req[p].op = "reject" /\ Chains(Current(p)))
           /\ pc[p] \in {"adjust", "restore"}
           /\ \E es : Advance(p, es)
    BY <1>2 DEF CallInventoryAdjust
  <2>3. BatchesInv'
    BY <2>2, AdvanceKeeps DEF ChainInv, BatchesInv
  <2>4. \A q \in Procs \ {p} : pc'[q] = pc[q] /\ req'[q] = req[q]
    BY <2>2, AdvanceKeeps DEF TypeInv, TypeOK
  <2>5. ASSUME NEW q \in Procs, NEW c \in Orders, Parent[c] # NoOrder,
               Cascading(q, Parent[c])
        PROVE  Cascading(q, Parent[c])'
    <3>1. CASE q # p
      BY <2>4, <2>5, <3>1 DEF Cascading, Current
    <3>2. CASE q = p
      <4>1. Chains(Current(p))
        BY <2>5, <3>2, ConstantsAssumption DEF Cascading, Chains
      <4>2. pc[p] \in {"adjust", "restore"}
        BY DEF CallInventoryAdjust
      <4>3. pc'[p] \in {"adjust", "cascade"} /\ req' = req
        BY <2>2, <2>5, <3>2, <4>1, <4>2 DEF Cascading, TypeInv, TypeOK
      <4>4. QED
        BY <2>5, <3>2, <4>3 DEF Cascading, Current
    <3>3. QED
      BY <3>1, <3>2
  <2>6. Writes(p, {})
    BY <2>1 DEF Writes
  <2>7. QED
    BY <2>1, <2>3, <2>5, <2>6, ChainWrites
<1>3. QED
  BY <1>1, <1>2

\* Steps of a request that is not at its cascade and write no row.
LEMMA ChainMove ==
    ASSUME TypeInv, ConsentInv, ChainInv, NEW p \in Procs,
           UNCHANGED <<row, draft, lock>>, BatchesInv',
           \A q \in Procs \ {p} : pc'[q] = pc[q] /\ req'[q] = req[q],
           pc[p] \notin {"adjust", "cascade"}
    PROVE  ChainInv'
  BY OthersCascade, ChainKept

LEMMA ChainNext == TypeInv /\ ConsentInv /\ ChainInv /\ [Next]_vars => ChainInv'
<1> SUFFICES ASSUME TypeInv, ConsentInv, ChainInv, [Next]_vars PROVE ChainInv'
  OBVIOUS
<1>1. ASSUME NEW p \in Procs, SingleRequest(p) PROVE ChainInv'
  <2>1. PICK op \in Ops, who \in Clients, o \in Orders :
           \E ss \in SideChoices(op, who, o), n \in QtyChoices(op) :
              Start(p, [op |-> op, who |-> who, todo |-> <<o>>,
                        batch |-> FALSE, sides |-> ss, qty |-> n])
    BY <1>1 DEF SingleRequest
  <2>2. PICK r : Start(p, r) /\ ~r.batch
    BY <2>1
  <2>3. BatchesInv'
    BY <2>2 DEF Start, ChainInv, BatchesInv, TypeInv, TypeOK
  <2>4. QED
    BY <2>2, <2>3, ChainMove DEF Start, dbVars, TypeInv, TypeOK
<1>2. ASSUME NEW p \in Procs, BatchRequest(p) PROVE ChainInv'
  <2>1. PICK op \in Ops \cap BatchOps, b \in Batches :
           Start(p, [op |-> op, who |-> "hq", todo |-> b, batch |-> TRUE,
                     sides |-> {}, qty |-> 0])
    BY <1>2 DEF BatchRequest
  <2>2. PICK r : Start(p, r) /\ r.op \in BatchOps
    BY <2>1
  <2>3. BatchesInv'
    BY <2>2 DEF Start, ChainInv, BatchesInv, TypeInv, TypeOK
  <2>4. QED
    BY <2>2, <2>3, ChainMove DEF Start, dbVars, TypeInv, TypeOK
<1>3. ASSUME NEW p \in Procs, UpsertApprovals(p) PROVE ChainInv'
  <2>1. pc[p] = "upsert" /\ pc' = [pc EXCEPT ![p] = "update"]
        /\ UNCHANGED <<row, draft, lock, req>>
    BY <1>3 DEF UpsertApprovals
  <2>2. QED
    BY <2>1, ChainMove DEF ChainInv, BatchesInv, TypeInv, TypeOK
<1>4. ASSUME NEW p \in Procs, ToApproved(p) PROVE ChainInv'
  BY <1>4, ChainToApproved
<1>5. ASSUME NEW p \in Procs, ApprovedOneSide(p) PROVE ChainInv'
  <2>1. pc[p] = "update" /\ Advance(p, {}) /\ UNCHANGED <<row, draft, lock>>
    BY <1>5 DEF ApprovedOneSide, Updating, dbVars
  <2>2. BatchesInv'
    BY <2>1, AdvanceKeeps DEF ChainInv, BatchesInv
  <2>3. QED
    BY <2>1, <2>2, AdvanceKeeps, ChainMove
<1>6. ASSUME NEW p \in Procs, ToInTransit(p) PROVE ChainInv'
  BY <1>6, ChainToInTransit
<1>7. ASSUME NEW p \in Procs, ToExecuted(p) PROVE ChainInv'
  BY <1>7, ChainToExecuted
<1>8. ASSUME NEW p \in Procs, ToRejected(p) PROVE ChainInv'
  BY <1>8, ChainToRejected
<1>9. ASSUME NEW p \in Procs, PatchOrder(p) PROVE ChainInv'
  BY <1>9, ChainPatchOrder
<1>10. ASSUME NEW p \in Procs, Conflict(p) PROVE ChainInv'
  BY <1>10, ChainFail DEF Conflict
<1>11. ASSUME NEW p \in Procs, CancelChained(p) PROVE ChainInv'
  BY <1>11, ChainCancelChained
<1>12. ASSUME NEW p \in Procs, CallInventoryAdjust(p) PROVE ChainInv'
  BY <1>12, ChainCallInventoryAdjust
<1>13. ASSUME NEW p \in Procs, Commit(p) PROVE ChainInv'
  BY <1>13, ChainCommit
<1>14. ASSUME NEW p \in Procs, PublishOrderEvent(p) PROVE ChainInv'
  <2>1. /\ pc[p] = "publish" /\ pc' = [pc EXCEPT ![p] = "idle"]
        /\ req' = [req EXCEPT ![p] = NoRequest]
        /\ UNCHANGED <<row, draft, lock>>
    BY <1>14 DEF PublishOrderEvent, dbVars
  <2>2. BatchesInv'
    BY <2>1 DEF ChainInv, BatchesInv, NoRequest, TypeInv, TypeOK
  <2>3. QED
    BY <2>1, <2>2, ChainMove DEF TypeInv, TypeOK
<1>15. ASSUME NEW p \in Procs, DeadlockVictim(p) PROVE ChainInv'
  BY <1>15, ChainRollback DEF DeadlockVictim
<1>16. ASSUME NEW p \in Procs, Crash(p) PROVE ChainInv'
  BY <1>16, ChainRollback DEF Crash
<1>17. CASE UNCHANGED vars
  BY <1>17 DEF vars, ChainInv, BatchesInv, TerminalInv, CascadeInv, Cascading,
               Cancelled, Current
<1>18. QED
  BY <1>1, <1>2, <1>3, <1>4, <1>5, <1>6, <1>7, <1>8, <1>9, <1>10, <1>11, <1>12,
     <1>13, <1>14, <1>15, <1>16, <1>17 DEF Next, Work

\* No chained order of a rejected order can still be approved, shipped or
\* received, whatever requests, batches and faults meet: the cascade is
\* committed with the rejection or not at all.
THEOREM ChainCorrect == Spec => []NoChainUnderRejected
<1>1. ChainInv => NoChainUnderRejected
  BY DEF ChainInv, CascadeInv, NoChainUnderRejected
<1>2. QED
  BY <1>1, ChainInit, ChainNext, ConsentInit, ConsentNext, TypeInvariant, PTL
     DEF Spec

-----------------------------------------------------------------------------
(* What the events say.  An event is collected by the transaction that     *)
(* makes it true and has not committed yet; once it is true of the         *)
(* committed row no other transaction can collect it again.                *)

\* Event e is true of version r.
Tells(e, r) ==
    /\ e = "OrderApprovedFinal" => r.status \notin Open
    /\ e = "OrderDispatched"    => r.dispatched
    /\ e = "OrderExecuted"      => r.status = "EXECUTED"
    /\ e = "OrderRejected"      => r.status = "REJECTED"

\* The transaction p makes event k true.
Telling(p, k) ==
    /\ lock[k[1]] = p
    /\ Tells(k[2], draft[k[1]])
    /\ ~Tells(k[2], row[k[1]])

\* The event of the transition p has yet to finish.
Due(p) == <<Current(p), EventOf[req[p].op]>>

\* A draft takes back nothing that is true of the committed row.
LastingInv == \A o \in Orders, e \in Events : Tells(e, row[o]) => Tells(e, draft[o])

\* A published event is true, and published once.
PublishedInv ==
    \A k \in Watched : /\ published[k] \in {0, 1}
                       /\ published[k] = 1 => Tells(k[2], row[k[1]])

\* A collected event is in one outbox, not yet published, and true as soon as
\* its transaction has committed.
OutboxInv ==
    \A p \in Procs : \A k \in outbox[p] :
        /\ published[k] = 0
        /\ \A q \in Procs \ {p} : k \notin outbox[q]
        /\ IF pc[p] = "publish" THEN Tells(k[2], row[k[1]]) ELSE Telling(p, k)

\* A transition under way is about to make its event true.
DueInv ==
    \A p \in Procs : pc[p] \in {"adjust", "cascade", "restore"} =>
        /\ req[p].op \in {"dispatch", "receive", "reject"}
        /\ pc[p] # "adjust" => req[p].op = "reject"
        /\ Telling(p, Due(p))

EventInv == LastingInv /\ PublishedInv /\ OutboxInv /\ DueInv

\* What everything below starts from.
BaseInv == TypeInv /\ StampsInv /\ ConsentInv

LEMMA EventInit == Init => EventInv
<1> SUFFICES ASSUME Init PROVE EventInv
  OBVIOUS
<1>1. \A k \in Watched : published[k] = 0
  BY DEF Init
<1>2. \A p \in Procs : outbox[p] = {} /\ pc[p] = "idle"
  BY DEF Init
<1>3. draft = row
  BY DEF Init
<1>4. QED
  BY <1>1, <1>2, <1>3 DEF EventInv, LastingInv, PublishedInv, OutboxInv, DueInv

-----------------------------------------------------------------------------
(* What a step of p does to a row *)

Same(o) == row'[o] = row[o] /\ draft'[o] = draft[o] /\ lock'[o] = lock[o]

Wrote(p, o) == /\ Free(p, o) /\ lock'[o] = p
               /\ row'[o] = row[o]
               /\ Successor(draft[o], draft'[o])

Inserted(p, o) == /\ lock[o] = NoProc /\ lock'[o] = p
                  /\ row[o].status = "ABSENT" /\ row'[o] = row[o]

Ended(p, o) == /\ lock[o] = p /\ lock'[o] = NoProc
               /\ row'[o] \in {row[o], draft[o]}
               /\ draft'[o] = row'[o]

RowStep(p) ==
    \A o \in Orders : Same(o) \/ Wrote(p, o) \/ Inserted(p, o) \/ Ended(p, o)

\* p gives up no row.
Holds(p) == \A o \in Orders : lock[o] = p => lock'[o] = p

LEMMA RowsKept ==
    ASSUME NEW p \in Procs, UNCHANGED <<row, draft, lock>>
    PROVE  RowStep(p) /\ Holds(p)
  BY DEF RowStep, Same, Holds

LEMMA RowsWritten ==
    ASSUME BaseInv, NEW p \in Procs, NEW o \in Orders, NEW w, Free(p, o),
           Successor(Sees(p, o), w), Write(p, o, w), row' = row
    PROVE  RowStep(p) /\ Holds(p) /\ lock'[o] = p /\ draft'[o] = w
<1>1. Sees(p, o) = draft[o]
  BY DEF Sees, Free, BaseInv, ConsentInv, VersionsInv
<1>2. \A x \in Orders : /\ lock'[x] = IF x = o THEN p ELSE lock[x]
                        /\ draft'[x] = IF x = o THEN w ELSE draft[x]
  BY DEF Write, BaseInv, TypeInv, TypeOK
<1>3. Wrote(p, o)
  BY <1>1, <1>2 DEF Wrote
<1>4. \A x \in Orders \ {o} : Same(x)
  BY <1>2 DEF Same
<1>5. QED
  BY <1>2, <1>3, <1>4 DEF RowStep, Holds

LEMMA RowsUndone ==
    ASSUME NEW p \in Procs, Rollback(p)
    PROVE  RowStep(p) /\ row' = row
<1>1. \A o \in Orders :
         /\ draft'[o] = IF lock[o] = p THEN row[o] ELSE draft[o]
         /\ lock'[o] = IF lock[o] = p THEN NoProc ELSE lock[o]
         /\ row' = row
  BY DEF Rollback
<1>2. QED
  BY <1>1 DEF RowStep, Same, Ended, Rollback

-----------------------------------------------------------------------------
(* What lasts *)

LEMMA SuccessorTells ==
    ASSUME NEW v \in Row, StampsOK(v), NEW w, Successor(v, w),
           NEW e \in Events, Tells(e, v)
    PROVE  Tells(e, w)
<1> USE DEF Successor, Row, Live, Open, Tells, Events
<1>1. CASE v.status = "PENDING" /\ w = [v EXCEPT !.status = "APPROVED"]
  BY <1>1
<1>2. CASE /\ v.status \in {"PENDING", "APPROVED"}
           /\ w = [v EXCEPT !.status = "IN_TRANSIT", !.dispatched = TRUE]
  BY <1>2
<1>3. CASE /\ v.status = "IN_TRANSIT"
           /\ w = [v EXCEPT !.status = "EXECUTED", !.executed = TRUE]
  BY <1>3
<1>4. CASE v.status \in Live /\ w = Rejected(v)
  BY <1>4 DEF Rejected
<1>5. CASE /\ v.status \in {"PENDING", "APPROVED"}
           /\ \E q \in Nat : w = [v EXCEPT !.qty = q]
  BY <1>5
<1>6. QED
  BY <1>1, <1>2, <1>3, <1>4, <1>5

\* Nothing is true of a row that is not there.
LEMMA AbsentTellsNothing ==
    ASSUME NEW r \in Row, StampsOK(r), r.status = "ABSENT", NEW e \in Events
    PROVE  ~Tells(e, r)
  BY DEF StampsOK, Tells, Events, Open

LEMMA LastingNext ==
    ASSUME BaseInv, LastingInv, NEW p \in Procs, RowStep(p)
    PROVE  /\ LastingInv'
           /\ \A o \in Orders, e \in Events : Tells(e, row[o]) => Tells(e, row'[o])
<1> SUFFICES ASSUME NEW o \in Orders, NEW e \in Events
             PROVE  /\ Tells(e, row'[o]) => Tells(e, draft'[o])
                    /\ Tells(e, row[o]) => Tells(e, row'[o])
  BY DEF LastingInv, Tells
<1>1. /\ row[o] \in Row /\ StampsOK(row[o])
      /\ draft[o] \in Row /\ StampsOK(draft[o])
      /\ Tells(e, row[o]) => Tells(e, draft[o])
  BY DEF BaseInv, TypeInv, TypeOK, StampsInv, LastingInv
<1>2. CASE Same(o)
  BY <1>1, <1>2 DEF Same
<1>3. CASE Wrote(p, o)
  BY <1>1, <1>3, SuccessorTells DEF Wrote
<1>4. CASE Inserted(p, o)
  BY <1>1, <1>4, AbsentTellsNothing DEF Inserted
<1>5. CASE Ended(p, o)
  BY <1>1, <1>5 DEF Ended
<1>6. QED
  BY <1>2, <1>3, <1>4, <1>5 DEF RowStep

\* A transaction goes on telling what it tells until it ends.
LEMMA TellingKept ==
    ASSUME BaseInv, NEW p \in Procs, RowStep(p), NEW q \in Procs, NEW k,
           k[1] \in Orders, k[2] \in Events, Telling(q, k), lock'[k[1]] # NoProc
    PROVE  Telling(q, k)'
<1> DEFINE o == k[1]
<1>1. q # NoProc /\ p # NoProc
  BY ConstantsAssumption
<1>2. draft[o] \in Row /\ StampsOK(draft[o])
  BY DEF BaseInv, TypeInv, TypeOK, StampsInv
<1>3. CASE Same(o)
  BY <1>3 DEF Same, Telling, Tells
<1>4. CASE Wrote(p, o)
  <2>1. q = p /\ lock'[o] = p /\ row'[o] = row[o]
    BY <1>1, <1>4 DEF Wrote, Free, Telling
  <2>2. Tells(k[2], draft'[o])
    BY <1>2, <1>4, SuccessorTells DEF Wrote, Telling
  <2>3. QED
    BY <2>1, <2>2 DEF Telling, Tells
<1>5. CASE Inserted(p, o)
  BY <1>1, <1>5 DEF Inserted, Telling
<1>6. CASE Ended(p, o)
  BY <1>6 DEF Ended
<1>7. QED
  BY <1>3, <1>4, <1>5, <1>6 DEF RowStep

\* Nobody else's row is given up by a step of p.
LEMMA OthersKeepTelling ==
    ASSUME BaseInv, NEW p \in Procs, RowStep(p), NEW q \in Procs, q # p, NEW k,
           k[1] \in Orders, k[2] \in Events, Telling(q, k)
    PROVE  Telling(q, k)'
<1>1. lock'[k[1]] # NoProc
  BY ConstantsAssumption DEF RowStep, Same, Wrote, Inserted, Ended, Telling
<1>2. QED
  BY <1>1, TellingKept

LEMMA EventTypes ==
    ASSUME BaseInv
    PROVE  /\ \A k \in Watched : k[1] \in Orders /\ k[2] \in Events
           /\ \A p \in Procs : outbox[p] \subseteq Watched
           /\ \A p \in Procs : pc[p] \in {"adjust", "cascade", "restore"} =>
                                  Due(p)[1] \in Orders
           /\ \A p \in Procs : req[p].op \in {"dispatch", "receive", "reject"} =>
                                  Due(p)[2] \in Events
<1>1. \A k \in Watched : k[1] \in Orders /\ k[2] \in Events
  BY ConstantsAssumption
<1>2. QED
  BY <1>1, CurrentType DEF BaseInv, TypeInv, TypeOK, Due, EventOf, Events, Busy

-----------------------------------------------------------------------------
(* Kinds of steps *)

\* The requests of the others stand where they stood.
OthersStay(p) ==
    \A q \in Procs \ {p} : pc'[q] = pc[q] /\ req'[q] = req[q] /\ outbox'[q] = outbox[q]

LEMMA OthersDue ==
    ASSUME BaseInv, EventInv, NEW p \in Procs, RowStep(p), OthersStay(p),
           NEW q \in Procs, q # p, pc[q] \in {"adjust", "cascade", "restore"}
    PROVE  /\ req'[q].op \in {"dispatch", "receive", "reject"}
           /\ pc'[q] # "adjust" => req'[q].op = "reject"
           /\ Telling(q, Due(q))'
<1>1. Due(q)' = Due(q) /\ pc'[q] = pc[q] /\ req'[q] = req[q]
  BY DEF OthersStay, Due, Current
<1>2. Telling(q, Due(q))
  BY DEF EventInv, DueInv
<1>3. Due(q)[1] \in Orders /\ Due(q)[2] \in Events
  BY EventTypes DEF EventInv, DueInv
<1> DEFINE k == Due(q)
<1>4. k[1] \in Orders /\ k[2] \in Events /\ Telling(q, k)
  BY <1>2, <1>3
<1> HIDE DEF k
<1>5. lock'[k[1]] = q /\ Tells(k[2], draft'[k[1]]) /\ ~Tells(k[2], row'[k[1]])
  BY <1>4, OthersKeepTelling DEF Telling, Tells
<1>6. QED
  BY <1>1, <1>5 DEF k, EventInv, DueInv, Telling, Tells

\* p goes on in its transaction and collects the events es, which it tells.
LEMMA EventsCollected ==
    ASSUME BaseInv, EventInv, NEW p \in Procs, RowStep(p), OthersStay(p),
           row' = row, published' = published,
           NEW es \in SUBSET Watched, outbox'[p] = outbox[p] \cup es,
           \A k \in es : Telling(p, k)',
           pc[p] # "publish", pc'[p] # "publish", Holds(p),
           pc'[p] \in {"adjust", "cascade", "restore"} =>
              /\ req'[p].op \in {"dispatch", "receive", "reject"}
              /\ pc'[p] # "adjust" => req'[p].op = "reject"
              /\ Telling(p, Due(p))'
    PROVE  EventInv'
<1>1. LastingInv'
  BY LastingNext DEF EventInv
<1>2. PublishedInv'
  BY DEF EventInv, PublishedInv, Tells
<1>3. \A k \in es : /\ k \in Watched /\ ~Tells(k[2], row[k[1]])
                    /\ lock[k[1]] \in {p, NoProc}
  <2> SUFFICES ASSUME NEW k \in es
               PROVE  ~Tells(k[2], row[k[1]]) /\ lock[k[1]] \in {p, NoProc}
    OBVIOUS
  <2>1. lock'[k[1]] = p /\ ~Tells(k[2], row[k[1]])
    BY DEF Telling, Tells
  <2>2. k[1] \in Orders
    BY EventTypes
  <2>3. QED
    BY <2>1, <2>2, ConstantsAssumption DEF RowStep, Same, Wrote, Inserted, Ended, Free
<1>4. \A k \in es : published[k] = 0
  BY <1>3 DEF EventInv, PublishedInv
<1>5. \A k \in es, q \in Procs \ {p} : k \notin outbox[q]
  BY <1>3, ConstantsAssumption DEF EventInv, OutboxInv, Telling
<1>6. OutboxInv'
  <2> SUFFICES ASSUME NEW q \in Procs, NEW k \in outbox'[q]
      PROVE  /\ published[k] = 0
             /\ \A r \in Procs \ {q} : k \notin outbox'[r]
             /\ IF pc'[q] = "publish" THEN Tells(k[2], row'[k[1]]) ELSE Telling(q, k)'
    BY DEF OutboxInv, Tells
  <2>1. CASE q = p /\ k \in es
    BY <1>4, <1>5, <2>1 DEF OthersStay
  <2>2. CASE q = p /\ k \in outbox[p]
    <3>1. /\ published[k] = 0 /\ Telling(p, k)
          /\ \A r \in Procs \ {q} : k \notin outbox'[r]
      BY <2>2 DEF EventInv, OutboxInv, OthersStay
    <3>2. k[1] \in Orders /\ k[2] \in Events
      BY <2>2, EventTypes
    <3>3. Telling(p, k)'
      BY <3>1, <3>2, TellingKept, ConstantsAssumption DEF Telling, Holds
    <3>4. QED
      BY <2>2, <3>1, <3>3
  <2>3. CASE q # p
    <3>1. k \in outbox[q] /\ pc'[q] = pc[q]
      BY <2>3 DEF OthersStay
    <3>2. published[k] = 0 /\ \A r \in Procs \ {q} : k \notin outbox[r]
      BY <3>1 DEF EventInv, OutboxInv
    <3>3. \A r \in Procs \ {q} : k \notin outbox'[r]
      BY <1>5, <2>3, <3>1, <3>2 DEF OthersStay
    <3>4. k[1] \in Orders /\ k[2] \in Events
      BY <3>1, EventTypes
    <3>5. CASE pc[q] = "publish"
      BY <3>1, <3>2, <3>3, <3>5 DEF EventInv, OutboxInv
    <3>6. CASE pc[q] # "publish"
      <4>1. Telling(q, k)
        BY <3>1, <3>6 DEF EventInv, OutboxInv
      <4>2. Telling(q, k)'
        BY <2>3, <3>4, <4>1, OthersKeepTelling
      <4>3. QED
        BY <3>1, <3>2, <3>3, <3>6, <4>2
    <3>7. QED
      BY <3>5, <3>6
  <2>4. QED
    BY <2>1, <2>2, <2>3
<1>7. DueInv'
  BY OthersDue DEF DueInv, OthersStay
<1>8. QED
  BY <1>1, <1>2, <1>6, <1>7 DEF EventInv

\* p goes on and collects nothing.
LEMMA EventsGoOn ==
    ASSUME BaseInv, EventInv, NEW p \in Procs, RowStep(p), OthersStay(p),
           row' = row, published' = published, outbox'[p] = outbox[p],
           pc[p] # "publish", pc'[p] # "publish", Holds(p),
           pc'[p] \in {"adjust", "cascade", "restore"} =>
              /\ req'[p].op \in {"dispatch", "receive", "reject"}
              /\ pc'[p] # "adjust" => req'[p].op = "reject"
              /\ Telling(p, Due(p))'
    PROVE  EventInv'
<1> DEFINE none == {}
<1>1. /\ none \in SUBSET Watched
      /\ \A k \in none : Telling(p, k)'
      /\ outbox'[p] = outbox[p] \cup none
  OBVIOUS
<1> HIDE DEF none
<1>2. QED
  BY <1>1, EventsCollected

\* p loses what it has collected, or has nothing left to send.
LEMMA EventsDropped ==
    ASSUME BaseInv, EventInv, NEW p \in Procs, RowStep(p), OthersStay(p),
           row' = row, published' = published, outbox'[p] = {},
           pc'[p] \notin {"adjust", "cascade", "restore"}
    PROVE  EventInv'
<1>1. LastingInv'
  BY LastingNext DEF EventInv
<1>2. PublishedInv'
  BY DEF EventInv, PublishedInv, Tells
<1>3. OutboxInv'
  <2> SUFFICES ASSUME NEW q \in Procs, NEW k \in outbox'[q]
      PROVE  /\ published[k] = 0
             /\ \A r \in Procs \ {q} : k \notin outbox'[r]
             /\ IF pc'[q] = "publish" THEN Tells(k[2], row'[k[1]]) ELSE Telling(q, k)'
    BY DEF OutboxInv, Tells
  <2>1. q # p /\ k \in outbox[q] /\ pc'[q] = pc[q]
    BY DEF OthersStay
  <2>2. /\ published[k] = 0
        /\ \A r \in Procs \ {q} : k \notin outbox'[r]
    BY <2>1 DEF EventInv, OutboxInv, OthersStay
  <2>3. k[1] \in Orders /\ k[2] \in Events
    BY <2>1, EventTypes
  <2>4. CASE pc[q] = "publish"
    BY <2>1, <2>2, <2>4 DEF EventInv, OutboxInv
  <2>5. CASE pc[q] # "publish"
    <3>1. Telling(q, k)
      BY <2>1, <2>5 DEF EventInv, OutboxInv
    <3>2. Telling(q, k)'
      BY <2>1, <2>3, <3>1, OthersKeepTelling
    <3>3. QED
      BY <2>1, <2>2, <2>5, <3>2
  <2>6. QED
    BY <2>4, <2>5
<1>4. DueInv'
  BY OthersDue DEF DueInv, OthersStay
<1>5. QED
  BY <1>1, <1>2, <1>3, <1>4 DEF EventInv

-----------------------------------------------------------------------------
(* The actions *)

LEMMA AdvanceCollects ==
    ASSUME BaseInv, NEW p \in Procs, NEW es, Advance(p, es)
    PROVE  /\ OthersStay(p)
           /\ outbox'[p] = outbox[p] \cup (es \cap Watched)
           /\ pc'[p] \in {"commit", "upsert", "update"}
<1>1. /\ req' = [req EXCEPT ![p].todo = Tail(req[p].todo)]
      /\ outbox' = [outbox EXCEPT ![p] = @ \cup (es \cap Watched)]
  BY DEF Advance
<1>2. pc' = [pc EXCEPT ![p] = IF Tail(req[p].todo) = <<>> THEN "commit"
                              ELSE StartOf(req[p].op)]
  BY DEF Advance
<1>3. StartOf(req[p].op) \in {"upsert", "update"}
  BY DEF StartOf
<1>4. QED
  BY <1>1, <1>2, <1>3 DEF BaseInv, TypeInv, TypeOK, OthersStay

\* Steps of p that change no row and collect nothing.
LEMMA EventsMove ==
    ASSUME BaseInv, EventInv, NEW p \in Procs, UNCHANGED <<row, draft, lock>>,
           OthersStay(p), published' = published, outbox'[p] = outbox[p],
           pc[p] # "publish", pc'[p] \in {"commit", "upsert", "update"}
    PROVE  EventInv'
<1>1. RowStep(p) /\ Holds(p)
  BY RowsKept
<1>2. QED
  BY <1>1, EventsGoOn

LEMMA EventsRollback ==
    ASSUME BaseInv, EventInv, NEW p \in Procs, Rollback(p)
    PROVE  EventInv'
<1>1. OthersStay(p) /\ outbox'[p] = {} /\ pc'[p] = "idle" /\ published' = published
  BY DEF Rollback, OthersStay, BaseInv, TypeInv, TypeOK
<1>2. QED
  BY <1>1, RowsUndone, EventsDropped

\* A transition of the current order, which makes e true: p goes on to the call
\* or the cascade it takes, or collects e.
LEMMA EventsOfTransition ==
    ASSUME BaseInv, EventInv, NEW p \in Procs, pc[p] = "update", NEW w,
           Free(p, Current(p)), Successor(Sees(p, Current(p)), w),
           Write(p, Current(p), w), row' = row, published' = published,
           NEW e \in Events, ~Tells(e, Sees(p, Current(p))), Tells(e, w),
           \/ Advance(p, {<<Current(p), e>>})
           \/ \E next \in {"adjust", "cascade"} :
                 /\ pc' = [pc EXCEPT ![p] = next]
                 /\ UNCHANGED <<req, outbox>>
                 /\ req[p].op \in {"dispatch", "receive", "reject"}
                 /\ next # "adjust" => req[p].op = "reject"
                 /\ e = EventOf[req[p].op]
    PROVE  EventInv'
<1> DEFINE o == Current(p)
           k == <<o, e>>
<1>1. o \in Orders
  BY CurrentType DEF Busy, BaseInv
<1>2. RowStep(p) /\ Holds(p) /\ lock'[o] = p /\ draft'[o] = w
  BY <1>1, RowsWritten
<1>3. ~Tells(e, row[o])
  <2>1. Sees(p, o) \in {draft[o], row[o]}
    BY DEF Sees
  <2>2. QED
    BY <1>1, <2>1 DEF EventInv, LastingInv
<1>4. lock'[o] = p /\ Tells(e, draft'[o]) /\ ~Tells(e, row'[o])
  BY <1>2, <1>3
<1>5. CASE Advance(p, {k})
  <2>1. /\ OthersStay(p) /\ outbox'[p] = outbox[p] \cup ({k} \cap Watched)
        /\ pc'[p] \in {"commit", "upsert", "update"}
    BY <1>5, AdvanceCollects
  <2> DEFINE es == {k} \cap Watched
  <2>2. ASSUME NEW x \in es PROVE Telling(p, x)'
    <3>1. x[1] = o /\ x[2] = e
      OBVIOUS
    <3> HIDE DEF o, es
    <3>2. QED
      BY <1>4, <3>1 DEF Telling, Tells
  <2> HIDE DEF o, es
  <2>3. QED
    BY <1>2, <2>1, <2>2, EventsCollected DEF es
<1>6. ASSUME NEW next \in {"adjust", "cascade"},
             pc' = [pc EXCEPT ![p] = next], UNCHANGED <<req, outbox>>,
             req[p].op \in {"dispatch", "receive", "reject"},
             next # "adjust" => req[p].op = "reject",
             e = EventOf[req[p].op]
      PROVE  EventInv'
  <2>1. OthersStay(p) /\ pc'[p] = next /\ outbox'[p] = outbox[p]
    BY <1>6 DEF OthersStay, BaseInv, TypeInv, TypeOK
  <2>2. Due(p)'[1] = o /\ Due(p)'[2] = e
    BY <1>6 DEF Due, Current
  <2> HIDE DEF o
  <2>3. Telling(p, Due(p))'
    BY <1>4, <2>2 DEF Telling, Tells
  <2>4. QED
    BY <1>2, <1>6, <2>1, <2>3, EventsGoOn
<1>7. QED
  BY <1>5, <1>6

LEMMA EventsToInTransit ==
    ASSUME BaseInv, EventInv, NEW p \in Procs, ToInTransit(p)
    PROVE  EventInv'
<1> DEFINE o == Current(p)
           w == [Sees(p, o) EXCEPT !.status = "IN_TRANSIT", !.dispatched = TRUE]
           e == "OrderDispatched"
<1>1. pc[p] = "update" /\ req[p].op = "dispatch" /\ Sees(p, o).status = "APPROVED"
  BY DEF ToInTransit, Updating, Matches, From
<1>2. o \in Orders /\ Sees(p, o) \in Row /\ StampsOK(Sees(p, o))
  BY <1>1, CurrentType, VersionType DEF Busy, BaseInv, StampsInv, Sees
<1>3. Successor(Sees(p, o), w) /\ Tells(e, w) /\ ~Tells(e, Sees(p, o)) /\ e \in Events
  BY <1>1, <1>2 DEF Successor, Row, Tells, StampsOK, Events
<1>4. Free(p, o) /\ Write(p, o, w) /\ row' = row /\ published' = published
  BY DEF ToInTransit
<1>5. \/ Advance(p, {<<o, e>>})
      \/ pc' = [pc EXCEPT ![p] = "adjust"] /\ UNCHANGED <<req, outbox>>
  BY DEF ToInTransit
<1>6. EventOf[req[p].op] = e
  BY <1>1 DEF EventOf
<1> HIDE DEF w, e
<1>7. QED
  BY <1>1, <1>3, <1>4, <1>5, <1>6, EventsOfTransition

LEMMA EventsToExecuted ==
    ASSUME BaseInv, EventInv, NEW p \in Procs, ToExecuted(p)
    PROVE  EventInv'
<1> DEFINE o == Current(p)
           w == [Sees(p, o) EXCEPT !.status = "EXECUTED", !.executed = TRUE]
           e == "OrderExecuted"
<1>1. pc[p] = "update" /\ req[p].op = "receive" /\ Sees(p, o).status = "IN_TRANSIT"
  BY DEF ToExecuted, Updating, Matches, From
<1>2. o \in Orders /\ Sees(p, o) \in Row
  BY <1>1, CurrentType, VersionType DEF Busy, BaseInv
<1>3. Successor(Sees(p, o), w) /\ Tells(e, w) /\ ~Tells(e, Sees(p, o)) /\ e \in Events
  BY <1>1, <1>2 DEF Successor, Row, Tells, Events
<1>4. Free(p, o) /\ Write(p, o, w) /\ row' = row /\ published' = published
  BY DEF ToExecuted
<1>5. pc' = [pc EXCEPT ![p] = "adjust"] /\ UNCHANGED <<req, outbox>>
  BY DEF ToExecuted
<1>6. EventOf[req[p].op] = e
  BY <1>1 DEF EventOf
<1> HIDE DEF w, e
<1>7. QED
  BY <1>1, <1>3, <1>4, <1>5, <1>6, EventsOfTransition

LEMMA EventsToRejected ==
    ASSUME BaseInv, EventInv, NEW p \in Procs, ToRejected(p)
    PROVE  EventInv'
<1> DEFINE o == Current(p)
           w == Rejected(Sees(p, o))
           e == "OrderRejected"
<1>1. pc[p] = "update" /\ req[p].op = "reject" /\ Sees(p, o).status \in Live
  BY DEF ToRejected, Updating, Matches, From, Live
<1>2. o \in Orders /\ Sees(p, o) \in Row
  BY <1>1, CurrentType, VersionType DEF Busy, BaseInv
<1>3. Successor(Sees(p, o), w) /\ Tells(e, w) /\ ~Tells(e, Sees(p, o)) /\ e \in Events
  BY <1>1, <1>2 DEF Successor, Row, Tells, Events, Rejected, Live
<1>4. Free(p, o) /\ Write(p, o, w) /\ row' = row /\ published' = published
  BY DEF ToRejected
<1>5. \/ Advance(p, {<<o, e>>})
      \/ \E next \in {"adjust", "cascade"} :
            pc' = [pc EXCEPT ![p] = next] /\ UNCHANGED <<req, outbox>>
  BY DEF ToRejected
<1>6. EventOf[req[p].op] = e
  BY <1>1 DEF EventOf
<1> HIDE DEF w, e
<1>7. QED
  BY <1>1, <1>3, <1>4, <1>5, <1>6, EventsOfTransition

LEMMA EventsPatchOrder ==
    ASSUME BaseInv, EventInv, NEW p \in Procs, PatchOrder(p)
    PROVE  EventInv'
<1> DEFINE o == Current(p)
           w == [Sees(p, o) EXCEPT !.qty = req[p].qty]
<1>1. pc[p] = "update" /\ Sees(p, o).status \in {"PENDING", "APPROVED"}
  BY DEF PatchOrder, Updating, Matches, From
<1>2. o \in Orders /\ req[p].qty \in Nat
  BY <1>1, CurrentType DEF Busy, BaseInv, TypeInv, TypeOK, Request
<1>3. Successor(Sees(p, o), w)
  BY <1>1, <1>2 DEF Successor
<1>4. Free(p, o) /\ Write(p, o, w) /\ row' = row /\ published' = published
      /\ Advance(p, {})
  BY DEF PatchOrder
<1> HIDE DEF w
<1>5. RowStep(p) /\ Holds(p)
  BY <1>2, <1>3, <1>4, RowsWritten
<1>6. /\ OthersStay(p) /\ outbox'[p] = outbox[p]
      /\ pc'[p] \in {"commit", "upsert", "update"}
  BY <1>4, AdvanceCollects
<1>7. QED
  BY <1>1, <1>4, <1>5, <1>6, EventsGoOn

\* The final approval of an order; its chained orders tell of nothing yet.
LEMMA EventsToApproved ==
    ASSUME BaseInv, EventInv, NEW p \in Procs, ToApproved(p)
    PROVE  EventInv'
<1> DEFINE o == Current(p)
           r == Sees(p, o)
           v == IF HasSource(o)
                THEN [r EXCEPT !.status = "APPROVED"]
                ELSE [r EXCEPT !.status = "IN_TRANSIT", !.dispatched = TRUE]
           e == "OrderApprovedFinal"
           k == <<o, e>>
<1>1. /\ pc[p] = "update" /\ o \in Orders /\ r \in Row /\ r.status = "PENDING"
      /\ Free(p, o) /\ Advance(p, {k}) /\ row' = row /\ published' = published
  BY CurrentType, VersionType
     DEF ToApproved, Updating, Busy, Matches, From, BaseInv
<1>2. Successor(r, v) /\ v.status \notin Open
  BY <1>1 DEF Successor, Row, Open
<1>3. PICK new \in SUBSET Children(o) : \A x \in Orders :
         /\ x = o => draft'[x] = v
         /\ x # o /\ x \notin new => draft'[x] = draft[x]
         /\ lock'[x] = IF x = o \/ x \in new THEN p ELSE lock[x]
  <2>1. PICK f \in Splits(o, r.qty) :
         LET n == {c \in DOMAIN f : Chains(o) /\ f[c] > 0}
         IN  /\ draft' = [c \in Orders |->
                            IF c = o THEN v
                            ELSE IF c \in n THEN NewRow("APPROVED", f[c])
                            ELSE draft[c]]
             /\ lock' = [c \in Orders |->
                            IF c = o \/ c \in n THEN p ELSE lock[c]]
    BY DEF ToApproved
  <2> DEFINE n == {c \in DOMAIN f : Chains(o) /\ f[c] > 0}
  <2>2. n \in SUBSET Children(o)
    BY DEF Splits
  <2>3. QED
    BY <2>1, <2>2
<1>4. draft[o] = r /\ row[o].status \in Open /\ lock[o] \in {p, NoProc}
  BY <1>1 DEF Sees, Free, BaseInv, ConsentInv, VersionsInv, Open
<1>5. \A x \in new : /\ x \in Orders /\ Parent[x] = o /\ x # o
                     /\ row[x].status = "ABSENT" /\ lock[x] = NoProc
  <2> SUFFICES ASSUME NEW x \in new
      PROVE  /\ x \in Orders /\ Parent[x] = o /\ x # o
             /\ row[x].status = "ABSENT" /\ lock[x] = NoProc
    OBVIOUS
  <2>1. x \in Orders /\ Parent[x] = o /\ Parent[x] # NoOrder
    BY <1>1, ConstantsAssumption DEF Children
  <2>2. x # o
    BY <2>1, ParentIsRoot
  <2>3. row[x].status = "ABSENT"
    BY <1>4, <2>1 DEF BaseInv, ConsentInv, ChainedInv
  <2>4. lock[x] = NoProc
    <3> SUFFICES ASSUME lock[x] # NoProc PROVE FALSE
      OBVIOUS
    <3>1. lock[x] \in Procs
      BY <2>1 DEF BaseInv, TypeInv, TypeOK
    <3>2. draft[o].status \notin Open
      BY <2>1, <2>3, <3>1 DEF BaseInv, ConsentInv, ChainedInv
    <3>3. QED
      BY <1>1, <1>4, <3>2 DEF Open
  <2>5. QED
    BY <2>1, <2>2, <2>3, <2>4
<1>6. RowStep(p) /\ Holds(p)
  <2>1. Wrote(p, o)
    BY <1>1, <1>2, <1>3, <1>4 DEF Wrote
  <2>2. \A x \in new : Inserted(p, x)
    BY <1>1, <1>3, <1>5 DEF Inserted
  <2>3. \A x \in Orders : x # o /\ x \notin new => Same(x)
    BY <1>1, <1>3 DEF Same
  <2> HIDE DEF o, r, v
  <2>4. QED
    BY <1>3, <2>1, <2>2, <2>3 DEF RowStep, Holds
<1>7. /\ OthersStay(p) /\ outbox'[p] = outbox[p] \cup ({k} \cap Watched)
      /\ pc'[p] \in {"commit", "upsert", "update"}
  BY <1>1, AdvanceCollects
<1>8. lock'[o] = p /\ Tells(e, draft'[o]) /\ ~Tells(e, row'[o])
  BY <1>1, <1>2, <1>3, <1>4 DEF Tells
<1> DEFINE es == {k} \cap Watched
<1>9. ASSUME NEW x \in es PROVE Telling(p, x)'
  <2>1. x[1] = o /\ x[2] = e
    OBVIOUS
  <2> HIDE DEF o, es, e
  <2>2. QED
    BY <1>8, <2>1 DEF Telling, Tells
<1> HIDE DEF o, r, v, es
<1>10. QED
  BY <1>1, <1>6, <1>7, <1>9, EventsCollected DEF es

\* The end of a transition that was under way: its event is collected.
LEMMA EventsOfDue ==
    ASSUME BaseInv, EventInv, NEW p \in Procs, RowStep(p), Holds(p), row' = row,
           pc[p] \in {"adjust", "cascade", "restore"}, published' = published,
           \/ Advance(p, {Due(p)})
           \/ \E next \in {pc[p], "cascade", "restore"} :
                 /\ pc' = [pc EXCEPT ![p] = next]
                 /\ UNCHANGED <<req, outbox>>
                 /\ next # "adjust" => req[p].op = "reject"
    PROVE  EventInv'
<1> DEFINE k == Due(p)
<1>1. k[1] \in Orders /\ k[2] \in Events /\ Telling(p, k)
  BY EventTypes DEF EventInv, DueInv
<1> HIDE DEF k
<1>2. lock'[k[1]] # NoProc
  BY <1>1, ConstantsAssumption DEF Telling, Holds
<1>3. lock'[k[1]] = p /\ Tells(k[2], draft'[k[1]]) /\ ~Tells(k[2], row'[k[1]])
  BY <1>1, <1>2, TellingKept DEF Telling, Tells
<1>4. CASE Advance(p, {k})
  <2>1. /\ OthersStay(p) /\ outbox'[p] = outbox[p] \cup ({k} \cap Watched)
        /\ pc'[p] \in {"commit", "upsert", "update"}
    BY <1>4, AdvanceCollects
  <2> DEFINE es == {k} \cap Watched
  <2>2. ASSUME NEW x \in es PROVE Telling(p, x)'
    <3>1. x = k
      OBVIOUS
    <3> HIDE DEF es
    <3>2. QED
      BY <1>3, <3>1 DEF Telling, Tells
  <2> HIDE DEF es
  <2>3. QED
    BY <2>1, <2>2, EventsCollected DEF es
<1>5. ASSUME NEW next \in {pc[p], "cascade", "restore"},
             pc' = [pc EXCEPT ![p] = next], UNCHANGED <<req, outbox>>,
             next # "adjust" => req[p].op = "reject"
      PROVE  EventInv'
  <2>1. OthersStay(p) /\ pc'[p] = next /\ outbox'[p] = outbox[p]
    BY <1>5 DEF OthersStay, BaseInv, TypeInv, TypeOK
  <2>2. Due(p)' = k
    BY <1>5 DEF Due, Current, k
  <2>3. Telling(p, Due(p))'
    BY <1>3, <2>2 DEF Telling, Tells
  <2>4. req[p].op \in {"dispatch", "receive", "reject"}
    BY DEF EventInv, DueInv
  <2>5. QED
    BY <1>5, <2>1, <2>3, <2>4, EventsGoOn
<1>6. QED
  BY <1>4, <1>5 DEF k

LEMMA EventsFail ==
    ASSUME BaseInv, EventInv, NEW p \in Procs, Fail(p), pc[p] # "publish"
    PROVE  EventInv'
<1>1. CASE Rollback(p)
  BY <1>1, EventsRollback
<1>2. CASE Advance(p, {}) /\ UNCHANGED <<row, draft, lock, published>>
  <2>1. /\ OthersStay(p) /\ outbox'[p] = outbox[p]
        /\ pc'[p] \in {"commit", "upsert", "update"}
    BY <1>2, AdvanceCollects
  <2>2. QED
    BY <1>2, <2>1, EventsMove
<1>3. QED
  BY <1>1, <1>2 DEF Fail

LEMMA EventsCancelChained ==
    ASSUME BaseInv, EventInv, NEW p \in Procs, CancelChained(p)
    PROVE  EventInv'
<1> DEFINE o == Current(p)
           cs == {c \in Children(o) : Sees(p, c).status \in Live}
<1>1. /\ pc[p] = "cascade"
      /\ \A c \in cs : Free(p, c)
      /\ \A c \in Orders :
            /\ draft'[c] = IF c \in cs THEN Rejected(Sees(p, c)) ELSE draft[c]
            /\ lock'[c] = IF c \in cs THEN p ELSE lock[c]
      /\ row' = row /\ published' = published
  BY DEF CancelChained
<1>2. \/ Advance(p, {<<o, "OrderRejected">>})
      \/ pc' = [pc EXCEPT ![p] = "restore"] /\ UNCHANGED <<req, outbox>>
  BY DEF CancelChained
<1>3. req[p].op = "reject" /\ Due(p) = <<o, "OrderRejected">>
  <2>1. req[p].op = "reject"
    BY <1>1 DEF EventInv, DueInv
  <2>2. EventOf[req[p].op] = "OrderRejected"
    BY <2>1 DEF EventOf
  <2>3. QED
    BY <2>1, <2>2 DEF Due
<1>4. \A c \in cs : c \in Orders /\ Wrote(p, c)
  <2> SUFFICES ASSUME NEW c \in cs PROVE c \in Orders /\ Wrote(p, c)
    OBVIOUS
  <2>1. c \in Orders /\ Free(p, c) /\ lock'[c] = p /\ row'[c] = row[c]
        /\ draft'[c] = Rejected(Sees(p, c)) /\ Sees(p, c).status \in Live
    BY <1>1 DEF Children
  <2>2. Sees(p, c) = draft[c]
    BY <2>1 DEF Sees, Free, BaseInv, ConsentInv, VersionsInv
  <2>3. QED
    BY <2>1, <2>2 DEF Wrote, Successor
<1>5. \A c \in Orders : c \notin cs => Same(c)
  BY <1>1 DEF Same
<1> HIDE DEF o, cs
<1>6. RowStep(p) /\ Holds(p)
  BY <1>1, <1>4, <1>5 DEF RowStep, Holds
<1>7. QED
  BY <1>1, <1>2, <1>3, <1>6, EventsOfDue

LEMMA EventsCallInventoryAdjust ==
    ASSUME BaseInv, EventInv, NEW p \in Procs, CallInventoryAdjust(p)
    PROVE  EventInv'
<1>1. pc[p] \in {"adjust", "restore"}
  BY DEF CallInventoryAdjust
<1>2. CASE Fail(p)
  BY <1>1, <1>2, EventsFail
<1>3. CASE ~Fail(p)
  <2>1. UNCHANGED <<row, draft, lock, published>>
    BY <1>3 DEF CallInventoryAdjust, dbVars
  <2>2. \/ UNCHANGED <<pc, req, outbox>>
        \/ /\ req[p].op = "reject"
           /\ pc' = [pc EXCEPT ![p] = "cascade"]
           /\ UNCHANGED <<req, outbox>>
        \/ Advance(p, {Due(p)})
    BY <1>3 DEF CallInventoryAdjust, Due
  <2>3. pc[p] # "adjust" => req[p].op = "reject"
    BY <1>1 DEF EventInv, DueInv
  <2>4. pc' = pc => pc' = [pc EXCEPT ![p] = pc[p]]
    BY DEF BaseInv, TypeInv, TypeOK
  <2>5. RowStep(p) /\ Holds(p)
    BY <2>1, RowsKept
  <2>6. QED
    BY <1>1, <2>1, <2>2, <2>3, <2>4, <2>5, EventsOfDue
<1>4. QED
  BY <1>2, <1>3

\* What a transaction tells is true once it is committed.
LEMMA EventsCommit ==
    ASSUME BaseInv, EventInv, NEW p \in Procs, Commit(p)
    PROVE  EventInv'
<1>1. \A o \in Orders :
         /\ row'[o] = IF lock[o] = p THEN draft[o] ELSE row[o]
         /\ lock'[o] = IF lock[o] = p THEN NoProc ELSE lock[o]
         /\ draft'[o] = draft[o]
  BY DEF Commit
<1>2. /\ pc[p] = "commit" /\ pc'[p] = "publish" /\ OthersStay(p)
      /\ UNCHANGED <<outbox, published, req>>
  BY DEF Commit, OthersStay, BaseInv, TypeInv, TypeOK
<1>3. RowStep(p)
  BY <1>1 DEF RowStep, Same, Ended
<1>4. LastingInv'
  BY <1>3, LastingNext DEF EventInv
<1>5. \A o \in Orders, e \in Events : Tells(e, row[o]) => Tells(e, row'[o])
  BY <1>3, LastingNext DEF EventInv
<1>6. PublishedInv'
  <2> SUFFICES ASSUME NEW k \in Watched
      PROVE  /\ published[k] \in {0, 1}
             /\ published[k] = 1 => Tells(k[2], row'[k[1]])
    BY <1>2 DEF PublishedInv, Tells
  <2>1. k[1] \in Orders /\ k[2] \in Events
    BY EventTypes
  <2>2. QED
    BY <1>5, <2>1 DEF EventInv, PublishedInv
<1>7. OutboxInv'
  <2> SUFFICES ASSUME NEW q \in Procs, NEW k \in outbox[q]
      PROVE  /\ published[k] = 0
             /\ \A r \in Procs \ {q} : k \notin outbox[r]
             /\ IF pc'[q] = "publish" THEN Tells(k[2], row'[k[1]]) ELSE Telling(q, k)'
    BY <1>2 DEF OutboxInv, Tells
  <2>1. k[1] \in Orders /\ k[2] \in Events
    BY EventTypes
  <2>2. /\ published[k] = 0
        /\ \A r \in Procs \ {q} : k \notin outbox[r]
    BY DEF EventInv, OutboxInv
  <2>3. CASE q = p
    <3>1. lock[k[1]] = p /\ Tells(k[2], draft[k[1]])
      BY <1>2, <2>3 DEF EventInv, OutboxInv, Telling
    <3>2. row'[k[1]] = draft[k[1]]
      BY <1>1, <2>1, <3>1
    <3>3. QED
      BY <1>2, <2>2, <2>3, <3>1, <3>2
  <2>4. CASE q # p /\ pc[q] = "publish"
    <3>1. Tells(k[2], row[k[1]]) /\ pc'[q] = "publish"
      BY <1>2, <2>4 DEF EventInv, OutboxInv, OthersStay
    <3>2. QED
      BY <1>5, <2>1, <2>2, <3>1
  <2>5. CASE q # p /\ pc[q] # "publish"
    <3>1. Telling(q, k) /\ pc'[q] # "publish"
      BY <1>2, <2>5 DEF EventInv, OutboxInv, OthersStay
    <3>2. Telling(q, k)'
      BY <1>3, <2>1, <2>5, <3>1, OthersKeepTelling
    <3>3. QED
      BY <2>2, <3>1, <3>2
  <2>6. QED
    BY <2>3, <2>4, <2>5
<1>8. DueInv'
  BY <1>2, <1>3, OthersDue DEF DueInv, OthersStay
<1>9. QED
  BY <1>4, <1>6, <1>7, <1>8 DEF EventInv

\* What is published was collected, true and not yet published.
LEMMA EventsPublish ==
    ASSUME BaseInv, EventInv, NEW p \in Procs, PublishOrderEvent(p)
    PROVE  EventInv'
<1>1. PICK sent \in SUBSET outbox[p] :
         published' = [k \in Watched |-> published[k] + IF k \in sent THEN 1 ELSE 0]
  BY DEF PublishOrderEvent
<1>2. /\ pc[p] = "publish" /\ pc'[p] = "idle" /\ OthersStay(p) /\ outbox'[p] = {}
      /\ UNCHANGED <<row, draft, lock>>
  BY DEF PublishOrderEvent, OthersStay, BaseInv, TypeInv, TypeOK, dbVars
<1>3. RowStep(p)
  BY <1>2, RowsKept
<1>4. LastingInv'
  BY <1>2 DEF EventInv, LastingInv, Tells
<1>5. \A k \in Watched : published[k] \in {0, 1}
  BY DEF EventInv, PublishedInv
<1>6. \A k \in Watched : k \notin sent => published'[k] = published[k]
  BY <1>1, <1>5
<1>7. \A k \in sent : published'[k] = 1 /\ Tells(k[2], row[k[1]])
  <2> SUFFICES ASSUME NEW k \in sent
               PROVE  published'[k] = 1 /\ Tells(k[2], row[k[1]])
    OBVIOUS
  <2>1. k \in outbox[p] /\ k \in Watched
    BY EventTypes
  <2>2. published[k] = 0 /\ Tells(k[2], row[k[1]])
    BY <1>2, <2>1 DEF EventInv, OutboxInv
  <2>3. QED
    BY <1>1, <2>1, <2>2
<1>8. PublishedInv'
  BY <1>2, <1>5, <1>6, <1>7 DEF EventInv, PublishedInv, Tells
<1>9. OutboxInv'
  <2> SUFFICES ASSUME NEW q \in Procs, NEW k \in outbox'[q]
      PROVE  /\ published'[k] = 0
             /\ \A r \in Procs \ {q} : k \notin outbox'[r]
             /\ IF pc'[q] = "publish" THEN Tells(k[2], row'[k[1]]) ELSE Telling(q, k)'
    BY DEF OutboxInv, Tells
  <2>1. q # p /\ k \in outbox[q] /\ k \in Watched
    BY <1>2, EventTypes DEF OthersStay
  <2>2. /\ published[k] = 0 /\ k \notin outbox[p]
        /\ \A r \in Procs \ {q} : k \notin outbox'[r]
    BY <1>2, <2>1 DEF EventInv, OutboxInv, OthersStay
  <2>3. published'[k] = 0
    BY <1>6, <2>1, <2>2
  <2>4. k[1] \in Orders /\ k[2] \in Events
    BY <2>1, EventTypes
  <2>5. CASE pc[q] = "publish"
    BY <1>2, <2>1, <2>2, <2>3, <2>5 DEF EventInv, OutboxInv, OthersStay
  <2>6. CASE pc[q] # "publish"
    <3>1. Telling(q, k) /\ pc'[q] # "publish"
      BY <1>2, <2>1, <2>6 DEF EventInv, OutboxInv, OthersStay
    <3>2. Telling(q, k)'
      BY <1>3, <2>1, <2>4, <3>1, OthersKeepTelling
    <3>3. QED
      BY <2>2, <2>3, <3>1, <3>2
  <2>7. QED
    BY <2>5, <2>6
<1>10. DueInv'
  BY <1>2, <1>3, OthersDue DEF DueInv, OthersStay
<1>11. QED
  BY <1>4, <1>8, <1>9, <1>10 DEF EventInv

LEMMA EventsStart ==
    ASSUME BaseInv, EventInv, NEW p \in Procs, NEW r, Start(p, r)
    PROVE  EventInv'
<1>1. StartOf(r.op) \in {"upsert", "update"}
  BY DEF StartOf
<1>2. /\ pc[p] # "publish" /\ pc'[p] \in {"upsert", "update"} /\ OthersStay(p)
      /\ outbox'[p] = outbox[p] /\ UNCHANGED <<row, draft, lock, published>>
  BY <1>1 DEF Start, OthersStay, BaseInv, TypeInv, TypeOK, dbVars
<1>3. QED
  BY <1>2, EventsMove

LEMMA EventNext == BaseInv /\ EventInv /\ [Next]_vars => EventInv'
<1> SUFFICES ASSUME BaseInv, EventInv, [Next]_vars PROVE EventInv'
  OBVIOUS
<1>1. ASSUME NEW p \in Procs, SingleRequest(p) PROVE EventInv'
  BY <1>1, EventsStart DEF SingleRequest
<1>2. ASSUME NEW p \in Procs, BatchRequest(p) PROVE EventInv'
  BY <1>2, EventsStart DEF BatchRequest
<1>3. ASSUME NEW p \in Procs, UpsertApprovals(p) PROVE EventInv'
  <2>1. /\ pc[p] # "publish" /\ pc'[p] = "update" /\ OthersStay(p)
        /\ outbox'[p] = outbox[p] /\ UNCHANGED <<row, draft, lock, published>>
    BY <1>3 DEF UpsertApprovals, OthersStay, BaseInv, TypeInv, TypeOK
  <2>2. QED
    BY <2>1, EventsMove
<1>4. ASSUME NEW p \in Procs, ToApproved(p) PROVE EventInv'
  BY <1>4, EventsToApproved
<1>5. ASSUME NEW p \in Procs, ApprovedOneSide(p) PROVE EventInv'
  <2>1. pc[p] # "publish" /\ Advance(p, {}) /\ UNCHANGED <<row, draft, lock, published>>
    BY <1>5 DEF ApprovedOneSide, Updating, dbVars
  <2>2. /\ OthersStay(p) /\ outbox'[p] = outbox[p]
        /\ pc'[p] \in {"commit", "upsert", "update"}
    BY <2>1, AdvanceCollects
  <2>3. QED
    BY <2>1, <2>2, EventsMove
<1>6. ASSUME NEW p \in Procs, ToInTransit(p) PROVE EventInv'
  BY <1>6, EventsToInTransit
<1>7. ASSUME NEW p \in Procs, ToExecuted(p) PROVE EventInv'
  BY <1>7, EventsToExecuted
<1>8. ASSUME NEW p \in Procs, ToRejected(p) PROVE EventInv'
  BY <1>8, EventsToRejected
<1>9. ASSUME NEW p \in Procs, PatchOrder(p) PROVE EventInv'
  BY <1>9, EventsPatchOrder
<1>10. ASSUME NEW p \in Procs, Conflict(p) PROVE EventInv'
  BY <1>10, EventsFail DEF Conflict
<1>11. ASSUME NEW p \in Procs, CancelChained(p) PROVE EventInv'
  BY <1>11, EventsCancelChained
<1>12. ASSUME NEW p \in Procs, CallInventoryAdjust(p) PROVE EventInv'
  BY <1>12, EventsCallInventoryAdjust
<1>13. ASSUME NEW p \in Procs, Commit(p) PROVE EventInv'
  BY <1>13, EventsCommit
<1>14. ASSUME NEW p \in Procs, PublishOrderEvent(p) PROVE EventInv'
  BY <1>14, EventsPublish
<1>15. ASSUME NEW p \in Procs, DeadlockVictim(p) PROVE EventInv'
  BY <1>15, EventsRollback DEF DeadlockVictim
<1>16. ASSUME NEW p \in Procs, Crash(p) PROVE EventInv'
  BY <1>16, EventsRollback DEF Crash
<1>17. CASE UNCHANGED vars
  <2>1. UNCHANGED <<row, draft, lock, pc, req, outbox, published>>
    BY <1>17 DEF vars
  <2>2. LastingInv' /\ PublishedInv'
    BY <2>1 DEF EventInv, LastingInv, PublishedInv, Tells
  <2>3. OutboxInv'
    BY <2>1 DEF EventInv, OutboxInv, Tells, Telling
  <2>4. \A p \in Procs : Due(p)' = Due(p)
    BY <2>1 DEF Due, Current
  <2>5. DueInv'
    <3> SUFFICES ASSUME NEW p \in Procs, pc'[p] \in {"adjust", "cascade", "restore"}
        PROVE  /\ req'[p].op \in {"dispatch", "receive", "reject"}
               /\ pc'[p] # "adjust" => req'[p].op = "reject"
               /\ Telling(p, Due(p))'
      BY DEF DueInv
    <3> DEFINE k == Due(p)
    <3>1. /\ req[p].op \in {"dispatch", "receive", "reject"}
          /\ pc[p] # "adjust" => req[p].op = "reject"
          /\ Telling(p, k)
      BY <2>1 DEF EventInv, DueInv
    <3>2. k' = k
      BY <2>4
    <3> HIDE DEF k
    <3>3. Telling(p, k)'
      BY <2>1, <3>1, <3>2 DEF Telling, Tells
    <3>4. QED
      BY <2>1, <3>1, <3>3 DEF k
  <2>6. QED
    BY <2>2, <2>3, <2>5 DEF EventInv
<1>18. QED
  BY <1>1, <1>2, <1>3, <1>4, <1>5, <1>6, <1>7, <1>8, <1>9, <1>10, <1>11, <1>12,
     <1>13, <1>14, <1>15, <1>16, <1>17 DEF Next, Work

\* An event that notification-svc is sent is true of the committed order for
\* good, and is sent once, whatever requests, batches and faults meet.
THEOREM EventsCorrect == Spec => []EventsOnceAndTrue
<1>1. BaseInv /\ EventInv => EventsOnceAndTrue
  <2> SUFFICES ASSUME BaseInv, EventInv, NEW k \in Watched
      PROVE  /\ published[k] <= 1
             /\ published[k] = 1 =>
                   CASE k[2] = "OrderApprovedFinal" -> row[k[1]].status \notin {"ABSENT", "PENDING"}
                     [] k[2] = "OrderDispatched" -> row[k[1]].dispatched
                     [] k[2] = "OrderExecuted" -> row[k[1]].status = "EXECUTED"
                     [] k[2] = "OrderRejected" -> row[k[1]].status = "REJECTED"
    BY DEF EventsOnceAndTrue
  <2>1. k[2] \in Events
    BY EventTypes
  <2>2. published[k] \in {0, 1} /\ (published[k] = 1 => Tells(k[2], row[k[1]]))
    BY DEF EventInv, PublishedInv
  <2>3. CASE published[k] = 0
    BY <2>3
  <2>4. CASE published[k] = 1
    <3>1. Tells(k[2], row[k[1]]) /\ published[k] <= 1
      BY <2>2, <2>4
    <3>2. CASE k[2] = "OrderApprovedFinal"
      BY <3>1, <3>2 DEF Tells, Open
    <3>3. CASE k[2] = "OrderDispatched"
      BY <3>1, <3>3 DEF Tells
    <3>4. CASE k[2] = "OrderExecuted"
      BY <3>1, <3>4 DEF Tells
    <3>5. CASE k[2] = "OrderRejected"
      BY <3>1, <3>5 DEF Tells
    <3>6. QED
      BY <2>1, <3>2, <3>3, <3>4, <3>5 DEF Events
  <2>5. QED
    BY <2>2, <2>3, <2>4
<1>2. QED
  BY <1>1, EventInit, EventNext, StampsInit, StampsNext, TypeShape, ConsentInit, ConsentNext,
     TypeInvariant, PTL DEF Spec, BaseInv

-----------------------------------------------------------------------------
(* 3. The 08:00 batch *)

-----------------------------------------------------------------------------
(* The inductive invariant *)

Phases == {"ready", "approving", "approved", "rejecting", "done", "failed"}

CronTypeInv ==
    /\ ShapeInv
    /\ cron \in [phase : Phases, todo : SUBSET Orders, start : SUBSET Orders]

\* The batch decides on orders that have not left, and that nobody else can
\* put in transit before it has committed.
CronDraftsInv ==
    \A o \in Orders : lock[o] = Cron =>
        /\ draft[o].status \in {"APPROVED", "REJECTED"}
        /\ ~draft[o].dispatched
        /\ ~row[o].dispatched

\* No order becomes PENDING again, and no chained order ever is.
NotAgainInv ==
    \A o \in Orders :
        /\ row[o].status # "PENDING" => draft[o].status # "PENDING"
        /\ Parent[o] # NoOrder => row[o].status # "PENDING"

\* Of the orders the batch began with, those still PENDING when it rejects are
\* on its list or in its own transaction.
ClosingInv ==
    /\ \A o \in cron.start : Parent[o] = NoOrder
    /\ cron.phase = "rejecting" =>
          \A o \in cron.start :
              row[o].status = "PENDING" => o \in cron.todo \/ lock[o] = Cron
    /\ FinishedBatchClosesAll

CronInv == CronTypeInv /\ StampsInv /\ CronDraftsInv /\ NotAgainInv /\ ClosingInv

-----------------------------------------------------------------------------
(* Steps of the batch and of the requests *)

LEMMA CronOutside == Cron \notin Procs /\ Cron # NoProc
  BY CronAssumption

LEMMA NewestType ==
    ASSUME CronTypeInv, NEW o \in Orders
    PROVE  Newest(o) \in Row
  BY DEF Newest, CronTypeInv, ShapeInv

\* r is what the batch makes of version v.
Decision(v, r) ==
    /\ r.status = "APPROVED" \/ (r.status = "REJECTED" /\ r.stage = "PENDING")
    /\ r.dispatched = v.dispatched

LEMMA DecisionType ==
    ASSUME NEW v \in Row
    PROVE  /\ LET r == [v EXCEPT !.status = "APPROVED"] IN r \in Row /\ Decision(v, r)
           /\ LET r == [v EXCEPT !.status = "REJECTED", !.stage = "PENDING"]
              IN  r \in Row /\ Decision(v, r)
  BY DEF Row, Statuses, Live, Decision

\* A decided version that the CHECKs allow has not left.
LEMMA DecisionStamps ==
    ASSUME NEW v \in Row, NEW r \in Row, Decision(v, r), StampsOK(r)
    PROVE  ~r.dispatched /\ ~v.dispatched /\ r.status \in {"APPROVED", "REJECTED"}
  BY DEF Row, Decision, StampsOK

\* The batch writes one row, in a version the CHECKs allow.
CronWrites(o, r) ==
    /\ o \in cron.todo
    /\ lock[o] \in {Cron, NoProc}
    /\ r \in Row
    /\ StampsOK(r)
    /\ Decision(Newest(o), r)
    /\ draft' = [draft EXCEPT ![o] = r]
    /\ lock' = [lock EXCEPT ![o] = Cron]
    /\ cron' = [cron EXCEPT !.todo = @ \ {o}]
    /\ UNCHANGED <<row, sides, requestVars, faults>>

LEMMA CronUpdateCases ==
    ASSUME CronTypeInv, NEW o \in Orders, NEW r \in Row, CronUpdate(o, r),
           Decision(Newest(o), r)
    PROVE  CronWrites(o, r) \/ (CronUndo /\ faults' = faults)
  BY DEF CronUpdate, CronWrites, CheckAllows

\* What a step of the system does: it begins or goes on, the batch writes, is
\* undone or commits, or a request runs.
LEMMA StepKinds ==
    ASSUME CronTypeInv, [AutoNext]_allVars
    PROVE  \/ CronSelectEligible
           \/ CronSelectPending
           \/ \E o \in Orders, r \in Row : CronWrites(o, r)
           \/ CronUndo /\ faults' \in 0 .. MaxFaults
           \/ CronCommit
           \/ \E p \in Procs : Rollback(p) /\ UNCHANGED <<cron, ledger>>
                               /\ faults' \in 0 .. MaxFaults
           \/ [Next]_vars /\ cron' = cron
<1> USE ConstantsAssumption
<1>1. faults \in 0 .. MaxFaults
  BY DEF CronTypeInv, ShapeInv
<1>2. ASSUME CronApprove
      PROVE  (\E o \in Orders, r \in Row : CronWrites(o, r))
             \/ (CronUndo /\ faults' = faults)
  <2>1. PICK o \in cron.todo : CronUpdate(o, [Newest(o) EXCEPT !.status = "APPROVED"])
    BY <1>2 DEF CronApprove
  <2> DEFINE r == [Newest(o) EXCEPT !.status = "APPROVED"]
  <2>2. o \in Orders
    BY DEF CronTypeInv
  <2>3. r \in Row /\ Decision(Newest(o), r)
    BY <2>2, NewestType, DecisionType
  <2> HIDE DEF r
  <2>4. CronWrites(o, r) \/ (CronUndo /\ faults' = faults)
    BY <2>1, <2>2, <2>3, CronUpdateCases DEF r
  <2>5. QED
    BY <2>2, <2>3, <2>4
<1>3. ASSUME CronReject
      PROVE  (\E o \in Orders, r \in Row : CronWrites(o, r))
             \/ (CronUndo /\ faults' = faults)
  <2>1. PICK o \in cron.todo :
           CronUpdate(o, [Newest(o) EXCEPT !.status = "REJECTED", !.stage = "PENDING"])
    BY <1>3 DEF CronReject
  <2> DEFINE r == [Newest(o) EXCEPT !.status = "REJECTED", !.stage = "PENDING"]
  <2>2. o \in Orders
    BY DEF CronTypeInv
  <2>3. r \in Row /\ Decision(Newest(o), r)
    BY <2>2, NewestType, DecisionType
  <2> HIDE DEF r
  <2>4. CronWrites(o, r) \/ (CronUndo /\ faults' = faults)
    BY <2>1, <2>2, <2>3, CronUpdateCases DEF r
  <2>5. QED
    BY <2>2, <2>3, <2>4
<1>4. ASSUME CronCrash PROVE CronUndo /\ faults' \in 0 .. MaxFaults
  BY <1>1, <1>4 DEF CronCrash
<1>5. ASSUME NEW p \in Procs, CronDeadlock(p)
      PROVE  \/ CronUndo /\ faults' \in 0 .. MaxFaults
             \/ Rollback(p) /\ UNCHANGED <<cron, ledger>> /\ faults' \in 0 .. MaxFaults
  BY <1>1, <1>5 DEF CronDeadlock
<1>6. ASSUME NEW p \in Procs,
             SingleRequest(p) \/ BatchRequest(p) \/ Work(p) \/ Crash(p)
      PROVE  [Next]_vars
  BY <1>6 DEF Next
<1>7. CASE UNCHANGED allVars
  BY <1>7 DEF allVars
<1>8. QED
  BY <1>1, <1>2, <1>3, <1>4, <1>5, <1>6, <1>7 DEF AutoNext, CronNext

LEMMA CronTypeNext == CronTypeInv /\ [AutoNext]_allVars => CronTypeInv'
<1> SUFFICES ASSUME CronTypeInv, [AutoNext]_allVars PROVE CronTypeInv'
  OBVIOUS
<1> USE DEF CronTypeInv
<1>1. ASSUME CronSelectEligible \/ CronSelectPending PROVE CronTypeInv'
  <2>1. UNCHANGED vars
    BY <1>1 DEF CronSelectEligible, CronSelectPending
  <2>2. ShapeInv'
    BY <2>1, NextShape
  <2>3. Pending \subseteq Orders
    BY DEF Pending
  <2>4. cron' \in [phase : Phases, todo : SUBSET Orders, start : SUBSET Orders]
    <3>1. CASE CronSelectEligible
      BY <2>3, <3>1 DEF CronSelectEligible, Phases
    <3>2. CASE CronSelectPending
      BY <2>3, <3>2 DEF CronSelectPending, Phases
    <3>3. QED
      BY <1>1, <3>1, <3>2
  <2>5. QED
    BY <2>2, <2>4
<1>2. ASSUME NEW o \in Orders, NEW r \in Row, CronWrites(o, r) PROVE CronTypeInv'
  BY <1>2 DEF CronWrites, requestVars, ShapeInv, IsLock, BusyHasOrder
<1>3. ASSUME CronUndo, faults' \in 0 .. MaxFaults PROVE CronTypeInv'
  BY <1>3 DEF CronUndo, requestVars, ShapeInv, IsLock, BusyHasOrder, Phases
<1>4. ASSUME CronCommit PROVE CronTypeInv'
  <2>1. row' \in [Orders -> Row]
    BY <1>4, NewestType DEF CronCommit
  <2>2. IsLock(lock')
    BY <1>4 DEF CronCommit, IsLock
  <2>3. sides' \in [Orders -> SUBSET Sides]
    BY <1>4 DEF CronCommit, ShapeInv, Sides
  <2>4. cron' \in [phase : Phases, todo : SUBSET Orders, start : SUBSET Orders]
    BY <1>4 DEF CronCommit, Phases
  <2>5. QED
    BY <1>4, <2>1, <2>2, <2>3, <2>4 DEF CronCommit, requestVars, ShapeInv, BusyHasOrder
<1>5. ASSUME NEW p \in Procs, Rollback(p), UNCHANGED <<cron, ledger>>,
             faults' \in 0 .. MaxFaults
      PROVE  CronTypeInv'
  BY <1>5, RollbackType DEF ShapeInv
<1>6. ASSUME [Next]_vars, cron' = cron PROVE CronTypeInv'
  BY <1>6, NextShape
<1>7. QED
  BY <1>1, <1>2, <1>3, <1>4, <1>5, <1>6, StepKinds

LEMMA CronInit == AutoInit => CronInv
<1> SUFFICES ASSUME AutoInit PROVE CronInv
  OBVIOUS
<1>1. CronTypeInv
  BY InitShape DEF AutoInit, CronTypeInv, Phases
<1>2. StampsInv
  BY StampsInit DEF AutoInit
<1>3. CronDraftsInv /\ NotAgainInv
  BY CronOutside DEF AutoInit, Init, CronDraftsInv, NotAgainInv, NewRow, Absent
<1>4. ClosingInv
  BY DEF AutoInit, ClosingInv, FinishedBatchClosesAll
<1>5. QED
  BY <1>1, <1>2, <1>3, <1>4 DEF CronInv

-----------------------------------------------------------------------------
(* Every step keeps the invariant *)

\* No successor of a version is PENDING but that of a PENDING one.
LEMMA MovesKeep ==
    ASSUME CronInv, NEW o \in Orders, RowMoves(o)
    PROVE  /\ row[o].status # "PENDING" => row'[o].status # "PENDING"
           /\ row'[o].status # "PENDING" => draft'[o].status # "PENDING"
           /\ Parent[o] # NoOrder => row'[o].status # "PENDING"
           /\ lock'[o] = Cron => /\ draft'[o].status \in {"APPROVED", "REJECTED"}
                                 /\ ~draft'[o].dispatched
                                 /\ ~row'[o].dispatched
           /\ Parent[o] = NoOrder /\ lock[o] = Cron => lock'[o] = Cron
<1> USE CronOutside DEF CronInv, NotAgainInv
<1>1. row[o] \in Row /\ draft[o] \in Row
  BY DEF CronTypeInv, ShapeInv
<1>2. \A v \in {row[o], draft[o]} : Successor(v, draft'[o]) /\ v.status # "PENDING"
         => draft'[o].status # "PENDING"
  BY <1>1, SuccessorStatus
<1>3. row[o].status # "PENDING" => draft'[o].status # "PENDING"
  <2> SUFFICES ASSUME row[o].status # "PENDING" PROVE draft'[o].status # "PENDING"
    OBVIOUS
  <2>1. draft[o].status # "PENDING"
    OBVIOUS
  <2>2. \A k \in Nat : NewRow("APPROVED", k).status # "PENDING"
    BY DEF NewRow
  <2>3. NextVersion(o, draft'[o])
    BY DEF RowMoves
  <2>4. QED
    BY <1>2, <2>1, <2>2, <2>3 DEF NextVersion
<1>4. row'[o] = row[o] \/ (row'[o] = draft[o] /\ draft'[o] = draft[o])
  BY DEF RowMoves
<1>5. lock'[o] = Cron => lock[o] = Cron /\ row'[o] = row[o] /\ draft'[o] = draft[o]
  BY DEF RowMoves
<1>6. Parent[o] = NoOrder /\ lock[o] = Cron => lock'[o] = Cron
  BY DEF RowMoves
<1>7. QED
  BY <1>3, <1>4, <1>5, <1>6 DEF CronDraftsInv

\* A step that leaves the batch alone and moves rows on.
LEMMA MovesInv ==
    ASSUME CronInv, cron' = cron, \A o \in Orders : RowMoves(o)
    PROVE  CronDraftsInv' /\ NotAgainInv' /\ ClosingInv'
<1>1. CronDraftsInv' /\ NotAgainInv'
  BY MovesKeep DEF CronDraftsInv, NotAgainInv
<1>2. cron.start \subseteq Orders
  BY DEF CronInv, CronTypeInv
<1>3. ClosingInv'
  BY <1>2, MovesKeep DEF CronInv, ClosingInv, FinishedBatchClosesAll
<1>4. QED
  BY <1>1, <1>3

LEMMA SelectInv ==
    ASSUME CronInv, CronSelectEligible \/ CronSelectPending
    PROVE  StampsInv' /\ CronDraftsInv' /\ NotAgainInv' /\ ClosingInv'
<1>1. UNCHANGED <<row, draft, lock>>
  BY DEF CronSelectEligible, CronSelectPending, vars
<1>2. StampsInv' /\ CronDraftsInv' /\ NotAgainInv'
  BY <1>1 DEF CronInv, StampsInv, CronDraftsInv, NotAgainInv
<1>3. cron.start \subseteq Orders
  BY DEF CronInv, CronTypeInv
<1>4. CASE CronSelectEligible
  <2>1. cron'.phase = "approving" /\ cron'.start = Pending
    BY <1>4 DEF CronSelectEligible
  <2>2. QED
    BY <1>1, <1>2, <2>1
       DEF CronInv, NotAgainInv, ClosingInv, FinishedBatchClosesAll, Pending
<1>5. CASE CronSelectPending
  <2>1. cron'.phase = "rejecting" /\ cron'.start = cron.start /\ cron'.todo = Pending
    BY <1>5 DEF CronSelectPending, CronInv, CronTypeInv
  <2>2. QED
    BY <1>1, <1>2, <1>3, <2>1
       DEF CronInv, ClosingInv, FinishedBatchClosesAll, Pending
<1>6. QED
  BY <1>4, <1>5

LEMMA WritesInv ==
    ASSUME CronInv, NEW o \in Orders, NEW r \in Row, CronWrites(o, r)
    PROVE  StampsInv' /\ CronDraftsInv' /\ NotAgainInv' /\ ClosingInv'
<1>1. \A x \in Orders : draft'[x] = IF x = o THEN r ELSE draft[x]
  BY DEF CronWrites, CronInv, CronTypeInv, ShapeInv
<1>2. \A x \in Orders : lock'[x] = IF x = o THEN Cron ELSE lock[x]
  BY DEF CronWrites, CronInv, CronTypeInv, ShapeInv, IsLock
<1>3. row' = row /\ StampsOK(r) /\ lock[o] \in {Cron, NoProc}
  BY DEF CronWrites
<1>4. ~r.dispatched /\ ~Newest(o).dispatched /\ r.status \in {"APPROVED", "REJECTED"}
  BY NewestType, DecisionStamps DEF CronWrites, CronInv
<1>5. ~row[o].dispatched
  BY <1>4 DEF Newest, CronInv, CronDraftsInv
<1>6. StampsInv' /\ CronDraftsInv' /\ NotAgainInv'
  BY <1>1, <1>2, <1>3, <1>4, <1>5
     DEF CronInv, StampsInv, CronDraftsInv, NotAgainInv
<1>7. /\ cron'.start = cron.start /\ cron'.phase = cron.phase
      /\ cron'.todo = cron.todo \ {o} /\ cron.start \subseteq Orders
  BY DEF CronWrites, CronInv, CronTypeInv
<1>8. ClosingInv'
  BY <1>2, <1>3, <1>7 DEF CronInv, ClosingInv, FinishedBatchClosesAll
<1>9. QED
  BY <1>6, <1>8

LEMMA UndoInv ==
    ASSUME CronInv, CronUndo
    PROVE  StampsInv' /\ CronDraftsInv' /\ NotAgainInv' /\ ClosingInv'
<1>0. \A x \in Orders : /\ draft'[x] = IF lock[x] = Cron THEN row[x] ELSE draft[x]
                        /\ lock'[x] = IF lock[x] = Cron THEN NoProc ELSE lock[x]
  BY DEF CronUndo
<1>1. \A x \in Orders : lock'[x] # Cron
  BY <1>0, CronOutside
<1>2. row' = row
  BY DEF CronUndo
<1>3. StampsInv' /\ CronDraftsInv' /\ NotAgainInv'
  BY <1>0, <1>1, <1>2 DEF CronInv, StampsInv, CronDraftsInv, NotAgainInv
<1>4. cron'.phase = "failed" /\ cron'.start = cron.start
  BY DEF CronUndo, CronInv, CronTypeInv
<1>5. ClosingInv'
  BY <1>4 DEF CronInv, ClosingInv, FinishedBatchClosesAll
<1>6. QED
  BY <1>3, <1>5

LEMMA CommitInv ==
    ASSUME CronInv, CronCommit
    PROVE  StampsInv' /\ CronDraftsInv' /\ NotAgainInv' /\ ClosingInv'
<1>0. \A x \in Orders : /\ row'[x] = IF lock[x] = Cron THEN draft[x] ELSE row[x]
                        /\ lock'[x] = IF lock[x] = Cron THEN NoProc ELSE lock[x]
  BY DEF CronCommit, Newest
<1>1. \A x \in Orders : lock'[x] # Cron
  BY <1>0, CronOutside
<1>2. draft' = draft /\ cron.todo = {} /\ cron'.start = cron.start
  BY DEF CronCommit, CronInv, CronTypeInv
<1>3. \A x \in Orders : lock[x] = Cron => draft[x].status # "PENDING"
  BY DEF CronInv, CronDraftsInv
<1>4. StampsInv' /\ CronDraftsInv' /\ NotAgainInv'
  BY <1>0, <1>1, <1>2, <1>3 DEF CronInv, StampsInv, CronDraftsInv, NotAgainInv
<1>5. cron.start \subseteq Orders
  BY DEF CronInv, CronTypeInv
<1>6. \/ cron.phase = "approving" /\ cron'.phase = "approved"
      \/ cron.phase = "rejecting" /\ cron'.phase = "done"
  BY DEF CronCommit, CronInv, CronTypeInv
<1>7. ClosingInv'
  BY <1>0, <1>1, <1>2, <1>3, <1>5, <1>6 DEF CronInv, ClosingInv, FinishedBatchClosesAll
<1>8. QED
  BY <1>4, <1>7

LEMMA RequestInv ==
    ASSUME CronInv, cron' = cron, \A o \in Orders : RowMoves(o), ShapeInv'
    PROVE  StampsInv' /\ CronDraftsInv' /\ NotAgainInv' /\ ClosingInv'
<1>1. StampsInv'
  BY MovesStamps DEF CronInv, CronTypeInv
<1>2. QED
  BY <1>1, MovesInv

LEMMA CronNextInv == CronInv /\ [AutoNext]_allVars => CronInv'
<1> SUFFICES ASSUME CronInv, [AutoNext]_allVars PROVE CronInv'
  OBVIOUS
<1>1. CronTypeInv /\ CronTypeInv'
  BY CronTypeNext DEF CronInv
<1>2. ASSUME NEW p \in Procs, Rollback(p), cron' = cron
      PROVE  StampsInv' /\ CronDraftsInv' /\ NotAgainInv' /\ ClosingInv'
  BY <1>1, <1>2, RollbackVersion, RequestInv DEF CronTypeInv
<1>3. ASSUME [Next]_vars, cron' = cron
      PROVE  StampsInv' /\ CronDraftsInv' /\ NotAgainInv' /\ ClosingInv'
  BY <1>1, <1>3, VersionStep, RequestInv DEF CronTypeInv
<1>4. StampsInv' /\ CronDraftsInv' /\ NotAgainInv' /\ ClosingInv'
  BY <1>1, <1>2, <1>3, StepKinds, SelectInv, WritesInv, UndoInv, CommitInv
<1>5. QED
  BY <1>1, <1>4 DEF CronInv

LEMMA CronInvariant == AutoSpec => []CronInv
  BY CronInit, CronNextInv, PTL DEF AutoSpec

-----------------------------------------------------------------------------
(* What follows *)

\* Whatever requests meet the batch between its SELECT and its UPDATEs, and
\* whichever of them its transactions make wait or abort: a batch that runs to
\* its end leaves none of the orders it began with PENDING.
THEOREM ClosesAllCorrect == AutoSpec => []FinishedBatchClosesAll
<1>1. CronInv => FinishedBatchClosesAll
  BY DEF CronInv, ClosingInv
<1>2. QED
  BY <1>1, CronInvariant, PTL

\* A version that has not left its source, by its stamps, has moved no stock.
LEMMA NoEffect ==
    ASSUME NEW o \in Orders, NEW r \in Row, StampsOK(r), ~r.dispatched
    PROVE  Effect(o, r) = [src |-> 0, tgt |-> 0]
  BY DEF Effect, StampsOK, Row

LEMMA BatchStep ==
    ASSUME CronInv, [AutoNext]_allVars, cron' # cron, NEW o \in Orders
    PROVE  Effect(o, row'[o]) = Effect(o, row[o])
<1>1. CronCommit \/ row' = row
  BY StepKinds DEF CronInv, CronSelectEligible, CronSelectPending, vars, CronWrites, CronUndo
<1>2. CASE CronCommit /\ lock[o] = Cron
  <2>1. row'[o] = draft[o]
    BY <1>2 DEF CronCommit, Newest
  <2>2. ~draft[o].dispatched /\ ~row[o].dispatched
    BY <1>2 DEF CronInv, CronDraftsInv
  <2>3. /\ draft[o] \in Row /\ StampsOK(draft[o])
        /\ row[o] \in Row /\ StampsOK(row[o])
    BY DEF CronInv, CronTypeInv, ShapeInv, StampsInv
  <2>4. QED
    BY <2>1, <2>2, <2>3, NoEffect
<1>3. CASE CronCommit /\ lock[o] # Cron
  BY <1>3 DEF CronCommit, Newest
<1>4. QED
  BY <1>1, <1>2, <1>3

\* The batch never writes over an order that has left its source: neither the
\* rows it commits nor the ones it commits over say that stock has moved.
THEOREM BatchMovesNoStockCorrect == AutoSpec => BatchMovesNoStock
<1>1. CronInv /\ [AutoNext]_allVars =>
        [cron' # cron =>
           \A o \in Orders : Effect(o, row'[o]) = Effect(o, row[o])]_allVars
  BY BatchStep
<1>2. QED
  BY <1>1, CronInvariant, PTL DEF AutoSpec, BatchMovesNoStock

=============================================================================

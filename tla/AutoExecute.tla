----------------------------- MODULE AutoExecute ----------------------------
(***************************************************************************)
(* The 08:00 batch of intervention-svc (cron/auto_execute.py) against the  *)
(* requests of StateMachine.  It runs two transactions on a connection of  *)
(* its own: the first approves the orders it has found PENDING and         *)
(* eligible, the second rejects the orders it then finds PENDING.  Both    *)
(* write by order_id alone, so an order may have moved on between the      *)
(* SELECT and its UPDATE.                                                  *)
(***************************************************************************)
EXTENDS StateMachine

CONSTANTS
    Eligible,     \* orders with auto_execute_eligible
    Cron          \* the batch as the writer of a row

ASSUME CronAssumption ==
    /\ Eligible \subseteq Orders
    /\ Cron \notin Procs \cup {NoProc}

VARIABLE cron     \* phase of the batch, orders left, orders PENDING at its start

allVars == <<vars, cron>>

Pending == {o \in Orders : row[o].status = "PENDING"}

\* Mutant of CheckAllows: the migration that adds the CHECKs has not been run.
CheckAllowsAll(r) == TRUE

\* The CHECK constraints of pending_orders.
CheckAllows(r) == StampsOK(r)

Newest(o) == IF lock[o] = Cron THEN draft[o] ELSE row[o]

\* Requests wait for the approvals the batch has written but not committed.
BlockedByCron(p) ==
    /\ pc[p] = "upsert"
    /\ lock[Current(p)] = Cron
    /\ cron.phase = "approving"
    /\ "FINAL" \in IF req[p].batch THEN InferSide(req[p].who, Current(p))
                   ELSE req[p].sides

requestVars == <<mine, ledger, pc, req, calls, outbox, published>>

-----------------------------------------------------------------------------

\* The transaction of the batch is undone, and the job with it.
CronUndo ==
    /\ draft' = [o \in Orders |-> IF lock[o] = Cron THEN row[o] ELSE draft[o]]
    /\ lock' = [o \in Orders |-> IF lock[o] = Cron THEN NoProc ELSE lock[o]]
    /\ cron' = [cron EXCEPT !.phase = "failed", !.todo = {}]
    /\ UNCHANGED <<row, sides, requestVars>>

CronSelectEligible ==
    /\ cron.phase = "ready"
    /\ cron' = [phase |-> "approving", todo |-> Pending \cap Eligible,
                start |-> Pending]
    /\ UNCHANGED vars

\* UPDATE ... WHERE order_id = : it waits for whoever has written the row, and
\* then writes over what it finds.  A CHECK that fails ends the whole batch.
CronUpdate(o, r) ==
    /\ o \in cron.todo
    /\ lock[o] \in {Cron, NoProc}
    /\ \/ /\ CheckAllows(r)
          /\ draft' = [draft EXCEPT ![o] = r]
          /\ lock' = [lock EXCEPT ![o] = Cron]
          /\ cron' = [cron EXCEPT !.todo = @ \ {o}]
          /\ UNCHANGED <<row, sides, requestVars>>
       \/ /\ ~CheckAllows(r)
          /\ CronUndo
    /\ UNCHANGED faults

CronApprove ==
    \E o \in cron.todo :
        /\ cron.phase = "approving"
        /\ \A p \in Procs : <<o, "FINAL">> \notin mine[p]
        /\ CronUpdate(o, [Newest(o) EXCEPT !.status = "APPROVED"])

\* The first commit also makes the FINAL approvals of the system visible.
CronCommit ==
    /\ cron.phase \in {"approving", "rejecting"}
    /\ cron.todo = {}
    /\ row' = [o \in Orders |-> Newest(o)]
    /\ lock' = [o \in Orders |-> IF lock[o] = Cron THEN NoProc ELSE lock[o]]
    /\ sides' = [o \in Orders |->
                   IF lock[o] = Cron /\ cron.phase = "approving"
                   THEN sides[o] \cup {"FINAL"} ELSE sides[o]]
    /\ cron' = [cron EXCEPT !.phase = IF @ = "approving" THEN "approved" ELSE "done"]
    /\ UNCHANGED <<draft, requestVars, faults>>

\* Mutant of CronSelectPending: only the orders nobody has looked at.
CronSelectUntouched ==
    /\ cron.phase = "approved"
    /\ cron' = [cron EXCEPT !.phase = "rejecting",
                            !.todo = {o \in Pending : sides[o] = {}}]
    /\ UNCHANGED vars

CronSelectPending ==
    /\ cron.phase = "approved"
    /\ cron' = [cron EXCEPT !.phase = "rejecting", !.todo = Pending]
    /\ UNCHANGED vars

CronReject ==
    \E o \in cron.todo :
        /\ cron.phase = "rejecting"
        /\ CronUpdate(o, [Newest(o) EXCEPT !.status = "REJECTED",
                                           !.stage = "PENDING"])

\* The job dies; it is not restarted before the next day.
CronCrash ==
    /\ cron.phase \in {"approving", "approved", "rejecting"}
    /\ faults < MaxFaults
    /\ faults' = faults + 1
    /\ CronUndo

\* The batch and a request that wait for each other: PostgreSQL aborts one.
\* (A request may try again and lose again: MaxFaults bounds how often.)
CronDeadlock(p) ==
    /\ BlockedByCron(p) \/ (pc[p] # "upsert" /\ Waits(p, Cron))
    /\ cron.phase \in {"approving", "rejecting"}
    /\ \E o \in cron.todo :
          lock[o] = p \/ (cron.phase = "approving" /\ <<o, "FINAL">> \in mine[p])
    /\ \/ /\ Rollback(p)
          /\ faults < MaxFaults
          /\ faults' = faults + 1
          /\ UNCHANGED <<cron, ledger>>
       \/ CronUndo /\ UNCHANGED faults

CronNext ==
    \/ CronSelectEligible
    \/ CronApprove
    \/ CronCommit
    \/ CronSelectPending
    \/ CronReject
    \/ CronCrash
    \/ \E p \in Procs : CronDeadlock(p)

AutoInit == Init /\ cron = [phase |-> "ready", todo |-> {}, start |-> {}]

AutoNext ==
    \/ CronNext
    \/ \E p \in Procs :
          /\ \/ SingleRequest(p)
             \/ BatchRequest(p)
             \/ ~BlockedByCron(p) /\ Work(p)
             \/ Crash(p)
          /\ UNCHANGED cron

AutoSpec == AutoInit /\ [][AutoNext]_allVars

-----------------------------------------------------------------------------
(* Properties *)

\* A batch that has run to its end leaves none of the orders it started with
\* PENDING, not even those with an approval of one side.
FinishedBatchClosesAll ==
    cron.phase = "done" => \A o \in cron.start : row[o].status # "PENDING"

\* Whatever the batch writes over, it moves no stock and so never changes a row
\* to or from a status that says stock has been moved.
BatchMovesNoStock ==
    [][cron' # cron =>
          \A o \in Orders : Effect(o, row'[o]) = Effect(o, row[o])]_allVars

=============================================================================

----------------------------- MODULE Notifications -----------------------------
(***************************************************************************)
(* notification-svc: one pod, one event loop.  POST /notification/send     *)
(* (routes/notification.py) logs an event, mails it through Logic Apps and *)
(* publishes it; an InboundRejected is kept in a Redis list instead, which *)
(* a background task (main.py) mails in one piece every 300 seconds.       *)
(*                                                                         *)
(* A step of a call ends where the coroutine awaits or another system has  *)
(* seen something of it.  The callers are in the modules that extend this  *)
(* one; they let go after two seconds, and the call runs on without them.  *)
(***************************************************************************)
EXTENDS Integers, FiniteSets

CONSTANTS
    Calls,        \* requests that notification-svc serves at the same time
    Mails,        \* what there is to tell
    Regions,      \* wh_id of the buffers
    MaxFaults     \* bound on what goes wrong, everywhere

Events == {"NewBookRequest", "SpikeUrgent", "ReturnPending", "InboundRejected",
           "StockArrivalPending", "GoodsDisplayCampaign", "DailyPlanFinalized"}

\* about is the correlation_id for Correlated events; for InboundRejected, region
\* is the wh_id it is buffered under.
MailOK(m) ==
    /\ m.event \in Events
    /\ m.event = "InboundRejected" => m.region \in Regions

ASSUME NotificationsAssumption ==
    /\ \A m \in Mails : MailOK(m)
    /\ IsFiniteSet(Calls)
    /\ MaxFaults \in Nat

VARIABLES
    call,         \* each /send request
    keys,         \* the dedup keys in Redis
    lapsed,       \* how often a key has expired or could not be looked up
    buffer,       \* length of each inbound_rejected_buffer
    flush,        \* what the background task has in hand
    mailed,       \* how often Logic Apps has taken a mail
    batched,      \* how many rejections it has taken in batches
    rows,         \* notifications_log
    faults

notifVars == <<call, keys, lapsed, buffer, flush, mailed, batched, rows>>

Outcomes == {"SENT", "FAILED", "DEDUP", "SKIPPED", "BUFFERED"}

Quiet == [step |-> "idle", mail |-> CHOOSE m \in Mails : TRUE,
          outcome |-> "SKIPPED"]

NoBatch == [region |-> CHOOSE w \in Regions : TRUE, n |-> 0]

\* _EVENT_LOGIC_APPS, with every URL configured
Mailable(m) == m.event \in Events \ {"ReturnPending", "InboundRejected"}

\* The events whose callers give a correlation_id.
Correlated(m) == m.event \in {"SpikeUrgent", "ReturnPending", "InboundRejected",
                              "StockArrivalPending"}

Key(m) == <<m.event, m.about>>

AllKeys == {Key(m) : m \in {x \in Mails : Correlated(x) /\ Mailable(x)}}

Fault == faults < MaxFaults /\ faults' = faults + 1

Proceed(c, step, outcome) ==
    call' = [call EXCEPT ![c].step = step, ![c].outcome = outcome]

-----------------------------------------------------------------------------
(* POST /notification/send *)

\* A request with mail m comes in.
Send(c, m) ==
    /\ call[c].step = "idle"
    /\ call' = [call EXCEPT ![c] =
                  [step |-> IF m.event = "InboundRejected" THEN "buffer"
                            ELSE IF Mailable(m) THEN "dedup" ELSE "log",
                   mail |-> m, outcome |-> "SKIPPED"]]
    /\ UNCHANGED <<keys, lapsed, buffer, flush, mailed, batched, rows>>

Buffer(c) ==
    /\ call[c].step = "buffer"
    /\ \/ /\ buffer' = [buffer EXCEPT ![call[c].mail.region] = @ + 1]
          /\ Proceed(c, "log", "BUFFERED")
          /\ UNCHANGED faults
       \/ /\ Fault                       \* Redis is down
          /\ Proceed(c, "log", "FAILED")
          /\ UNCHANGED buffer
    /\ UNCHANGED <<keys, lapsed, flush, mailed, batched, rows>>

\* Mutant of Dedup: the key is looked up, but not set.
DedupUnset(c) ==
    /\ call[c].step = "dedup"
    /\ IF Correlated(call[c].mail) /\ Key(call[c].mail) \in keys
       THEN Proceed(c, "log", "DEDUP")
       ELSE Proceed(c, "post", "FAILED")
    /\ UNCHANGED <<keys, lapsed, buffer, flush, mailed, batched, rows, faults>>

\* _check_and_set_dedup: SET NX EX 300
Dedup(c) ==
    LET m == call[c].mail
        k == Key(m)
    IN  /\ call[c].step = "dedup"
        /\ \/ /\ ~Correlated(m)
              /\ Proceed(c, "post", "FAILED")
              /\ UNCHANGED <<keys, lapsed, faults>>
           \/ /\ Correlated(m)
              /\ k \notin keys
              /\ keys' = keys \cup {k}
              /\ Proceed(c, "post", "FAILED")
              /\ UNCHANGED <<lapsed, faults>>
           \/ /\ Correlated(m)
              /\ k \in keys
              /\ Proceed(c, "log", "DEDUP")
              /\ UNCHANGED <<keys, lapsed, faults>>
           \/ /\ Correlated(m)           \* Redis is down: sent unchecked
              /\ Fault
              /\ lapsed' = [lapsed EXCEPT ![k] = @ + 1]
              /\ Proceed(c, "post", "FAILED")
              /\ UNCHANGED keys
        /\ UNCHANGED <<buffer, flush, mailed, batched, rows>>

Taken(m) == mailed' = [mailed EXCEPT ![m] = @ + 1]

\* _post_logic_apps, in turn: taken and answered; not taken; taken, but the answer
\* is lost or says otherwise.
Post(c) ==
    LET m == call[c].mail
    IN  /\ call[c].step = "post"
        /\ \/ Taken(m) /\ Proceed(c, "log", "SENT") /\ UNCHANGED faults
           \/ Fault /\ Proceed(c, "log", "FAILED") /\ UNCHANGED mailed
           \/ Fault /\ Taken(m) /\ Proceed(c, "log", "FAILED")
        /\ UNCHANGED <<keys, lapsed, buffer, flush, batched, rows>>

\* INSERT INTO notifications_log, COMMIT, and the message to the screens.  Only
\* forecast-svc reads the answer.
Log(c) ==
    /\ call[c].step = "log"
    /\ rows' = rows \cup {<<call[c].mail, call[c].outcome>>}
    /\ call' = [call EXCEPT ![c] = IF @.mail.event = "GoodsDisplayCampaign"
                                   THEN [@ EXCEPT !.step = "logged"] ELSE Quiet]
    /\ UNCHANGED <<keys, lapsed, buffer, flush, mailed, batched, faults>>

\* The answer is read, or nobody waits for it any more.
Finish(c) ==
    /\ call[c].step = "logged"
    /\ call' = [call EXCEPT ![c] = Quiet]
    /\ UNCHANGED <<keys, lapsed, buffer, flush, mailed, batched, rows>>

\* The 300 seconds of a key are over.
Expire ==
    \E k \in keys :
        /\ Fault
        /\ keys' = keys \ {k}
        /\ lapsed' = [lapsed EXCEPT ![k] = @ + 1]
        /\ UNCHANGED <<call, buffer, flush, mailed, batched, rows>>

-----------------------------------------------------------------------------
(* _flush_inbound_rejected *)

\* Mutant of FlushTake: the list is deleted only when the mail has gone out.
FlushTakeKeeping(w) ==
    /\ flush.n = 0
    /\ buffer[w] > 0
    /\ flush' = [region |-> w, n |-> buffer[w]]
    /\ UNCHANGED <<call, keys, lapsed, buffer, mailed, batched, rows, faults>>

\* Mutant of FlushTake: a batch is at least two.
FlushTakeSeveral(w) ==
    /\ flush.n = 0
    /\ buffer[w] > 1
    /\ flush' = [region |-> w, n |-> buffer[w]]
    /\ buffer' = [buffer EXCEPT ![w] = 0]
    /\ UNCHANGED <<call, keys, lapsed, mailed, batched, rows, faults>>

\* LRANGE and DELETE, with no await in between.
FlushTake(w) ==
    /\ flush.n = 0
    /\ buffer[w] > 0
    /\ flush' = [region |-> w, n |-> buffer[w]]
    /\ buffer' = [buffer EXCEPT ![w] = 0]
    /\ UNCHANGED <<call, keys, lapsed, mailed, batched, rows, faults>>

\* One mail for the batch; if that fails, the batch is gone.
FlushPost ==
    /\ flush.n > 0
    /\ flush' = NoBatch
    /\ \/ /\ batched' = [batched EXCEPT ![flush.region] = @ + flush.n]
          /\ UNCHANGED faults
       \/ Fault /\ UNCHANGED batched
    /\ UNCHANGED <<call, keys, lapsed, buffer, mailed, rows>>

\* The pod dies with all it is doing.
NotifierCrash ==
    /\ Fault
    /\ call' = [c \in Calls |-> Quiet]
    /\ flush' = NoBatch
    /\ UNCHANGED <<keys, lapsed, buffer, mailed, batched, rows>>

-----------------------------------------------------------------------------

NotifInit ==
    /\ call = [c \in Calls |-> Quiet]
    /\ keys = {}
    /\ lapsed = [k \in AllKeys |-> 0]
    /\ buffer = [w \in Regions |-> 0]
    /\ flush = NoBatch
    /\ mailed = [m \in Mails |-> 0]
    /\ batched = [w \in Regions |-> 0]
    /\ rows = {}
    /\ faults = 0

Serving(c) == Buffer(c) \/ Dedup(c) \/ Post(c) \/ Log(c)

Flushing == (\E w \in Regions : FlushTake(w)) \/ FlushPost

=============================================================================

------------------------------- MODULE Dashboard -------------------------------
(***************************************************************************)
(* Everything that is asked for at the headquarters and the stores beside  *)
(* single orders and plans, put together: the dashboard's retries          *)
(* (Gateway), the requests of intervention-svc (Requests), the campaigns   *)
(* of forecast-svc (Campaigns) and the mails of notification-svc           *)
(* (Notifications).                                                        *)
(***************************************************************************)
EXTENDS Requests, Campaigns, Functions

\* Refused deliveries are followed to their mail.
ASSUME DashboardAssumption == RefusalMail \in Mails

vars == <<session, gateVars, notifVars, faults, tableVars, campaignVars>>

Init ==
    /\ GateInit
    /\ NotifInit
    /\ RequestInit
    /\ CampaignInit

\* What the requests of people are about, and the session, stays as it is.
Tables == <<session, tableVars, campaignVars>>

Quietly(A) == A /\ UNCHANGED <<notifVars, faults, Tables>>

Background(A) == A /\ UNCHANGED <<gateVars, Tables>>

\* notification-svc dies, and those that wait for it get no answer.
NotifierDies ==
    /\ NotifierCrash
    /\ handler' = [h \in Handlers |->
                     IF handler[h].step = "wait"
                     THEN [handler[h] EXCEPT !.step = "lost"] ELSE handler[h]]
    /\ UNCHANGED <<click, Tables>>

\* Nobody waits for this answer any more.
Unheard(c) ==
    /\ \A h \in Handlers : handler[h].step = "wait" => handler[h].at # c
    /\ Finish(c)
    /\ UNCHANGED faults

Ask(g) == Quietly(Press(g))

Forward(g) == Quietly(Reach(g))

Handle(h) ==
    \/ RequestStep(h) /\ UNCHANGED <<session, campaignVars>>
    \/ CampaignStep(h) /\ UNCHANGED <<session, tableVars>>
    \/ Quietly(Respond(h))

Job(A) == A /\ UNCHANGED <<session, campaignVars>>

Next ==
    \/ Job(Submit)
    \/ Job(JobStep)
    \/ Job(JobDies)
    \/ \E g \in Clicks : \/ Ask(g)
                         \/ Forward(g)
                         \/ Fault /\ Fails(g) /\ UNCHANGED <<notifVars, Tables>>
    \/ \E h \in Handlers : Handle(h)
    \/ Fault /\ ServiceCrash /\ UNCHANGED <<notifVars, Tables>>
    \/ \E c \in Calls : Background(Serving(c) \/ Unheard(c))
    \/ Background(Expire)
    \/ Background(Flushing)
    \/ NotifierDies

Spec == Init /\ [][Next]_vars

\* Threads and event loops go on, the background task wakes up every 300 seconds
\* and the CronJob is started again and again.  Nobody has to press anything, and
\* nothing has to fail.
FairSpec ==
    /\ Spec
    /\ WF_vars(Job(JobStep))
    /\ \A g \in Clicks : WF_vars(Forward(g))
    /\ \A h \in Handlers : WF_vars(Handle(h))
    /\ \A c \in Calls : WF_vars(Background(Serving(c) \/ Unheard(c)))
    /\ WF_vars(Background(Flushing))

-----------------------------------------------------------------------------
(* Properties *)

Quantity(shares) == FoldFunction(+, 0, shares)

\* A book or a spike is ordered once for a warehouse, however often the button was
\* pressed and the request repeated, only by the decision that the row shows, and
\* what goes to a warehouse's stores is what its publisher delivers.
OrdersMatchDecision ==
    \A about \in {"book", "spike"}, w \in Whs :
        LET made == {i \in DOMAIN orders[w] : orders[w][i].about = about}
        IN  /\ Cardinality(made) <= 1
            /\ \A i \in made : Shops[w] > 0 =>
                  Quantity(orders[w][i].shares) = orders[w][i].qty
            /\ made # {} => IF about = "book" THEN book = "APPROVED" ELSE spike

\* A person who has been told that a decision was taken finds it in the tables,
\* then and later, whatever retries, crashes and other decisions there were.
AnswersAreTrue ==
    \A g \in Clicks : click[g].answer = "ok" =>
        CASE click[g].op.kind = "approveBook"  -> book = "APPROVED"
          [] click[g].op.kind = "rejectBook"   -> book = "REJECTED"
          [] click[g].op.kind = "approveSpike" -> spike
          [] click[g].op.kind = "receive"      -> delivery = "EXECUTED"
          [] click[g].op.kind = "refuse"       -> delivery = "REJECTED"
          [] OTHER -> TRUE

\* What Logic Apps has mailed about a book is its status, and was mailed once; a
\* mail with a correlation_id is repeated only when its key has lapsed.
MailsAreTrue ==
    /\ \A m \in Mails \cap {BookMail(st) : st \in {"APPROVED", "REJECTED"}} :
          mailed[m] > 0 => book = m.stage
    /\ \A m \in Mails : m.event = "NewBookRequest" => mailed[m] <= 1
    /\ \A m \in Mails : Correlated(m) /\ Mailable(m) =>
          mailed[m] <= 1 + lapsed[Key(m)]

\* A refused delivery is in one place on its way to the warehouse's mail, and it
\* gets lost only when something fails.
RejectionsAccounted ==
    LET w      == RefusalMail.region
        made   == IF delivery = "REJECTED" THEN 1 ELSE 0
        untold == {h \in Handlers : RefusalMail \in handler[h].todo}
        unkept == {c \in Calls : call[c].step = "buffer"}
        there  == Cardinality(untold) + Cardinality(unkept) + buffer[w] + batched[w]
                  + IF flush.region = w THEN flush.n ELSE 0
    IN  there <= made /\ (faults = 0 => there = made)

\* A campaign that is marked sent has a row for it, a row that says a mail went out
\* has an answer of notification-svc behind it, and a deleted campaign leaves
\* nothing behind, also when it is deleted while it is being sent.
CampaignsConsistent ==
    \A k \in Campaigns :
        /\ status[k] = "SENT" => history[k] # {}
        /\ ~Exists(k) => Advised(k) = {} /\ history[k] = {}
        /\ \A r \in history[k] :
              r[2] = "SENT" => \E outcome \in Outcomes : <<r[1], outcome>> \in rows

\* A pressed button gets an answer, if only that the service is unavailable.
ClicksAnswered ==
    \A g \in Clicks : click[g].step = "calling" ~> click[g].step = "answered"

\* A submission is found or decided, and a refused delivery mailed, as long as
\* nothing fails.
EverythingTold ==
    /\ book = "NEW" ~> book # "NEW"
    /\ delivery = "REJECTED" ~> faults > 0 \/ batched[RefusalMail.region] = 1

=============================================================================

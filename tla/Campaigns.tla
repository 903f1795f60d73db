------------------------------- MODULE Campaigns -------------------------------
(***************************************************************************)
(* The campaigns of forecast-svc (routes/goods_campaigns.py): made by the  *)
(* headquarters, filled with recommendations of an outside model, changed  *)
(* by hand, and mailed branch by branch through notification-svc.          *)
(*                                                                         *)
(* Sending is one transaction around its calls: it reads what there is to  *)
(* send, mails, stores a row for each mail, and only then commits.  Its    *)
(* first row holds the campaign against a DELETE (the foreign key), and a  *)
(* campaign that has been deleted before makes that row fail.              *)
(***************************************************************************)
EXTENDS Gateway, Notifications

CONSTANTS
    Campaigns,    \* bound on the rows of goods_campaigns
    Branches      \* location_id of the stores that a campaign is for

VARIABLES
    status,       \* goods_campaigns.status
    advice,       \* goods_recommendations: where each branch's comes from
    history       \* goods_campaign_send_history, of each campaign

campaignVars == <<status, advice, history>>

CampaignKinds == {"create", "recommend", "patch", "send", "delete"}

\* A request names a campaign that there is, was, or may yet be.
ASSUME CampaignsAssumption ==
    \A op \in Ops : op.kind \in CampaignKinds => op.id \in Campaigns

CampaignMail(k, b) ==
    [event |-> "GoodsDisplayCampaign", about |-> k, stage |-> b,
     region |-> CHOOSE w \in Regions : TRUE]

Exists(k) == status[k] \notin {"ABSENT", "DELETED"}

Advised(k) == {b \in Branches : advice[k][b] # "none"}

\* The campaign in the URL of a request
Of(h) == handler[h].op.id

Asked(h, kind) == handler[h].step = "run" /\ handler[h].op.kind = kind

Turned(h) == To(h, "respond", "refused") /\ UNCHANGED <<click, campaignVars>>

\* create_campaign: every attempt makes another one.
Create(h) ==
    /\ Asked(h, "create")
    /\ \E k \in Campaigns :
          /\ status[k] = "ABSENT"
          /\ status' = [status EXCEPT ![k] = "DRAFT"]
    /\ To(h, "respond", "ok")
    /\ UNCHANGED <<click, advice, history>>

\* recommend_campaign reads, and asks Gemini ...
Recommend(h) ==
    /\ Asked(h, "recommend")
    /\ IF Exists(Of(h))
       THEN To(h, "advise", "ok") /\ UNCHANGED <<click, campaignVars>>
       ELSE Turned(h)

\* ... which may fail, or leave branches out.  What it gives replaces what was
\* there, also if that was written by hand or sent.
Advise(h) ==
    /\ handler[h].step = "advise"
    /\ \/ /\ Fault
          /\ Turned(h)
       \/ /\ \E bs \in SUBSET Branches :
                IF Exists(Of(h))
                THEN /\ advice' = [advice EXCEPT ![Of(h)] =
                                     [b \in Branches |-> IF b \in bs THEN "generated"
                                                         ELSE advice[Of(h)][b]]]
                     /\ status' = [status EXCEPT ![Of(h)] = "RECOMMENDED"]
                     /\ To(h, "respond", "ok")
                     /\ UNCHANGED <<click, history>>
                ELSE Turned(h)
          /\ UNCHANGED faults

\* patch_recommendation
Patch(h) ==
    /\ Asked(h, "patch")
    /\ \E b \in Branches :
          IF b \in Advised(Of(h))
          THEN /\ advice' = [advice EXCEPT ![Of(h)][b] = "edited"]
               /\ To(h, "respond", "ok")
               /\ UNCHANGED <<click, status, history>>
          ELSE Turned(h)

\* delete_campaign, cascading; it waits for a transaction with rows for it.
Delete(h) ==
    /\ Asked(h, "delete")
    /\ \A f \in Handlers : handler[f].kept # {} => Of(f) # Of(h)
    /\ IF Exists(Of(h))
       THEN /\ status' = [status EXCEPT ![Of(h)] = "DELETED"]
            /\ advice' = [advice EXCEPT ![Of(h)] = [b \in Branches |-> "none"]]
            /\ history' = [history EXCEPT ![Of(h)] = {}]
            /\ To(h, "respond", "ok")
            /\ UNCHANGED click
       ELSE Turned(h)

-----------------------------------------------------------------------------
(* send_campaign *)

Begin(h) ==
    /\ Asked(h, "send")
    /\ IF Exists(Of(h)) /\ Advised(Of(h)) # {}
       THEN /\ handler' = [handler EXCEPT
                  ![h].step = "mail",
                  ![h].todo = {CampaignMail(Of(h), b) : b \in Advised(Of(h))}]
            /\ UNCHANGED <<click, campaignVars>>
       ELSE Turned(h)

\* ORDER BY branch_id
NextMail(h) == CHOOSE m \in handler[h].todo : TRUE

\* Mutant of Stored: what comes back is not looked at.
StoredAsSent(h, outcome) ==
    LET m == NextMail(h)
    IN  /\ handler' = IF Exists(Of(h))
                      THEN [handler EXCEPT ![h].step = "mail", ![h].todo = @ \ {m},
                                           ![h].kept = @ \cup {<<m, "SENT">>}]
                      ELSE [handler EXCEPT ![h].step = "respond",
                                           ![h].result = "refused"]
        /\ UNCHANGED <<click, campaignVars>>

\* The row for a mail; without its campaign it fails, and the request with it.
Stored(h, outcome) ==
    LET m == NextMail(h)
    IN  /\ handler' = IF Exists(Of(h))
                      THEN [handler EXCEPT ![h].step = "mail", ![h].todo = @ \ {m},
                                           ![h].kept = @ \cup {<<m, outcome>>}]
                      ELSE [handler EXCEPT ![h].step = "respond",
                                           ![h].result = "refused"]
        /\ UNCHANGED <<click, campaignVars>>

\* The next branch's mail goes out, or the call fails at once.
Mail(h) ==
    /\ handler[h].step = "mail"
    /\ handler[h].todo # {}
    /\ \/ \E c \in Calls :
             /\ Send(c, NextMail(h))
             /\ handler' = [handler EXCEPT ![h].step = "wait", ![h].at = c]
             /\ UNCHANGED <<click, campaignVars, faults>>
       \/ Fault /\ Stored(h, "FAILED") /\ UNCHANGED notifVars

\* Any answer counts as sent, whatever its status says; none comes in time, or
\* none will come.
Answered(h) ==
    \/ /\ handler[h].step = "wait"
       /\ \/ Finish(handler[h].at) /\ Stored(h, "SENT") /\ UNCHANGED faults
          \/ Fault /\ Stored(h, "FAILED") /\ UNCHANGED notifVars
    \/ /\ handler[h].step = "lost"
       /\ Stored(h, "FAILED")
       /\ UNCHANGED <<notifVars, faults>>

\* All branches are done.
Close(h) ==
    /\ handler[h].step = "mail"
    /\ handler[h].todo = {}
    /\ status' = [status EXCEPT ![Of(h)] = "SENT"]
    /\ history' = [history EXCEPT ![Of(h)] = @ \cup handler[h].kept]
    /\ handler' = [handler EXCEPT ![h].step = "respond", ![h].kept = {},
                                  ![h].result = "ok"]
    /\ UNCHANGED <<click, advice>>

-----------------------------------------------------------------------------

\* One campaign has been made and filled.
CampaignInit ==
    LET first == CHOOSE k \in Campaigns : TRUE
    IN
        /\ status = [k \in Campaigns |-> IF k = first THEN "RECOMMENDED" ELSE "ABSENT"]
        /\ advice = [k \in Campaigns |->
                       [b \in Branches |-> IF k = first THEN "generated" ELSE "none"]]
        /\ history = [k \in Campaigns |-> {}]

CampaignStep(h) ==
    \/ /\ Create(h) \/ Recommend(h) \/ Patch(h) \/ Delete(h) \/ Begin(h) \/ Close(h)
       /\ UNCHANGED <<notifVars, faults>>
    \/ Advise(h) /\ UNCHANGED notifVars
    \/ Mail(h)
    \/ Answered(h)

=============================================================================

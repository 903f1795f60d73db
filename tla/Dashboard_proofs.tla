------------------------------ MODULE Dashboard_proofs ------------------------------
(***************************************************************************)
(* What the properties of Dashboard rest on, for any number of people,     *)
(* handlers, calls, warehouses, stores, campaigns and faults.              *)
(***************************************************************************)
EXTENDS Dashboard, Sums

-----------------------------------------------------------------------------
(* The invariant *)

CampaignMails == {CampaignMail(k, b) : k \in Campaigns, b \in Branches}

\* What a request of intervention-svc tells.
RequestMails ==
    {BookMail("APPROVED"), BookMail("REJECTED"), SpikeMail, ArrivalMail,
     RefusalMail, DayMail} \cup {ReturnMail(r) : r \in Returns}

Everything == Mails \cup CampaignMails \cup {BookMail("DISCOVERED"), Quiet.mail}

HandlerSteps ==
    {"idle", "run", "update", "flag", "tell", "advise", "mail", "wait", "lost",
     "respond"}

HandlerRecords ==
    [step : HandlerSteps, op : Ops \cup {Rest.op},
     result : {"none", "ok", "refused"}, todo : SUBSET Everything,
     kept : SUBSET (CampaignMails \X {"SENT", "FAILED"}), at : Calls \cup {NoCall}]

ClickRecords ==
    [step : {"ready", "calling", "answered"}, op : Ops \cup {Rest.op},
     try : Nat, by : Handlers \cup {NoHandler}, answer : Answers]

CallRecords ==
    [step : {"idle", "buffer", "dedup", "post", "log", "logged"},
     mail : Everything, outcome : Outcomes]

Groups ==
    [about : {"book", "spike"}, qty : Nat,
     shares : UNION {[T -> Nat] : T \in SUBSET Nat}]

PeopleTypes ==
    /\ session \in Sessions
    /\ click \in [Clicks -> ClickRecords]
    /\ handler \in [Handlers -> HandlerRecords]

MailTypes ==
    /\ call \in [Calls -> CallRecords]
    /\ keys \subseteq AllKeys
    /\ lapsed \in [AllKeys -> Nat]
    /\ buffer \in [Regions -> Nat]
    /\ flush \in [region : Regions, n : Nat]
    /\ mailed \in [Mails -> Nat]
    /\ batched \in [Regions -> Nat]
    /\ faults \in Nat

TableTypes ==
    /\ book \in {"none", "NEW", "FETCHED", "APPROVED", "REJECTED"}
    /\ job \in {"idle", "listed", "updated", "committed"}
    /\ spike \in BOOLEAN
    /\ delivery \in {"APPROVED", "EXECUTED", "REJECTED"}
    /\ orders \in [Whs -> Seq(Groups)]

CampaignTypes ==
    /\ status \in [Campaigns -> {"ABSENT", "DRAFT", "RECOMMENDED", "SENT", "DELETED"}]
    /\ advice \in [Campaigns -> [Branches -> {"none", "generated", "edited"}]]
    /\ history \in [Campaigns -> SUBSET (CampaignMails \X {"SENT", "FAILED"})]

TypeInv == PeopleTypes /\ MailTypes /\ TableTypes /\ CampaignTypes

Sending == {"mail", "wait", "lost"}

\* What a handler has in hand, step by step.
HandlerOK(r) ==
    /\ r.step # "idle" => r.op \in Ops
    /\ r.step = "update" => r.op.kind \in {"receive", "refuse"}
    /\ r.step = "flag" => r.op.kind = "closeDay"
    /\ r.step = "advise" => r.op.kind = "recommend"
    /\ r.step \in {"idle", "run", "update", "flag", "advise"} => r.todo = {}
    /\ r.step = "tell" => r.todo \subseteq RequestMails \cap Mails /\ r.result = "ok"
    /\ r.step \in Sending =>
          /\ r.op.kind = "send"
          /\ r.todo \subseteq {CampaignMail(r.op.id, b) : b \in Branches}
          /\ r.todo = {} => r.step = "mail" /\ r.kept # {}
    /\ r.step = "wait" => r.at \in Calls
    /\ r.step = "respond" => r.todo \subseteq CampaignMails
    /\ r.step \notin Sending \cup {"respond"} => r.kept = {}

HandlersInv == \A h \in Handlers : HandlerOK(handler[h])

\* The call for a mail.
CallOK(r) ==
    /\ r.step = "buffer" => r.mail = RefusalMail
    /\ r.step \in {"dedup", "post"} => Mailable(r.mail)
    /\ r.step \in {"dedup", "post"} /\ Correlated(r.mail) => r.mail \in Mails

CallsInv == \A c \in Calls : CallOK(call[c])

\* A person waits for the handler of what was asked for.
ClicksInv ==
    \A g \in Clicks :
        /\ click[g].step # "answered" => click[g].answer = "none"
        /\ click[g].step = "calling" => click[g].op \in Ops
        /\ click[g].by # NoHandler =>
              /\ click[g].step = "calling"
              /\ handler[click[g].by].step # "idle"
              /\ handler[click[g].by].op = click[g].op

\* What an "ok" says.
Truth(op) ==
    CASE op.kind = "approveBook"  -> book = "APPROVED"
      [] op.kind = "rejectBook"   -> book = "REJECTED"
      [] op.kind = "approveSpike" -> spike
      [] op.kind = "receive"      -> delivery = "EXECUTED"
      [] op.kind = "refuse"       -> delivery = "REJECTED"
      [] OTHER -> TRUE

TruthInv ==
    /\ \A g \in Clicks : click[g].answer = "ok" => Truth(click[g].op)
    /\ \A h \in Handlers : handler[h].result = "ok" => Truth(handler[h].op)

\* The row that the CronJob holds is NEW until its commit, and never again.
JobInv ==
    /\ job = "updated" => book = "NEW"
    /\ job = "committed" => book \notin {"none", "NEW"}

Decided(about) == IF about = "book" THEN book = "APPROVED" ELSE spike

\* What was created in one go.
GroupOK(w, group) ==
    /\ Decided(group.about)
    /\ Shops[w] > 0 => Quantity(group.shares) = group.qty

OrdersInv ==
    \A w \in Whs :
        /\ \A i \in DOMAIN orders[w] : GroupOK(w, orders[w][i])
        /\ \A i, j \in DOMAIN orders[w] :
              orders[w][i].about = orders[w][j].about => i = j

BookMails == {BookMail(st) : st \in {"DISCOVERED", "APPROVED", "REJECTED"}}

\* What a mail about the book says.
Said(m) == IF m.stage = "DISCOVERED" THEN book \notin {"none", "NEW"}
           ELSE book = m.stage

Carries(c, m) == call[c].mail = m /\ call[c].step \in {"dedup", "post"}

Mailed(m) == m \in Mails /\ mailed[m] > 0

\* A mail about the book is in one place.
BookMailInv ==
    /\ \A m \in BookMails :
          /\ \A h \in Handlers : m \in handler[h].todo =>
                /\ Said(m) /\ ~Mailed(m) /\ m.stage # "DISCOVERED"
                /\ \A f \in Handlers : m \in handler[f].todo => f = h
                /\ \A c \in Calls : ~Carries(c, m)
          /\ \A c \in Calls : Carries(c, m) =>
                /\ Said(m) /\ ~Mailed(m)
                /\ \A d \in Calls : Carries(d, m) => d = c
                /\ m.stage = "DISCOVERED" => job # "committed"
          /\ Mailed(m) =>
                /\ Said(m) /\ mailed[m] = 1
                /\ m.stage = "DISCOVERED" => job # "committed"
    /\ \A c \in Calls : call[c].step \in {"dedup", "post"}
          /\ call[c].mail.event = "NewBookRequest" => call[c].mail \in BookMails
    /\ \A m \in Mails : m.event = "NewBookRequest" /\ m \notin BookMails => mailed[m] = 0

Posting(m) == {c \in Calls : call[c].mail = m /\ call[c].step = "post"}

\* What has passed the duplicate filter has a key, or one that lapsed.
KeysInv ==
    \A m \in Mails : Correlated(m) /\ Mailable(m) =>
        mailed[m] + Cardinality(Posting(m))
            <= lapsed[Key(m)] + IF Key(m) \in keys THEN 1 ELSE 0

\* Refused deliveries that nobody has told notification-svc, and those that it has
\* not put into its list.
Untold == {h \in Handlers : RefusalMail \in handler[h].todo}
Unkept == {c \in Calls : call[c].step = "buffer"}

\* What the campaigns' handlers and calls have in hand.
CampaignsInv ==
    /\ \A h \in Handlers :
          /\ handler[h].kept # {} => handler[h].step \in Sending /\ Exists(Of(h))
          /\ \A r \in handler[h].kept : r[2] = "SENT" =>
                \E outcome \in Outcomes : <<r[1], outcome>> \in rows
          /\ handler[h].step = "wait" =>
                /\ call[handler[h].at].mail = NextMail(h)
                /\ call[handler[h].at].step # "idle"
                /\ \A f \in Handlers :
                      handler[f].step = "wait" /\ handler[f].at = handler[h].at => f = h
    /\ \A c \in Calls : call[c].step = "logged" =>
          <<call[c].mail, call[c].outcome>> \in rows
    /\ CampaignsConsistent

Inv ==
    /\ TypeInv /\ HandlersInv /\ CallsInv /\ ClicksInv /\ TruthInv
    /\ JobInv /\ OrdersInv /\ BookMailInv /\ KeysInv /\ RejectionsAccounted /\ CampaignsInv

-----------------------------------------------------------------------------
(* The steps, one by one *)

Failing(g) == Fault /\ Fails(g) /\ UNCHANGED <<notifVars, Tables>>

ServiceDies == Fault /\ ServiceCrash /\ UNCHANGED <<notifVars, Tables>>

\* A handler of intervention-svc, at its beginning and later.
Serves(h, A) ==
    /\ handler[h].step = "run"
    /\ A
    /\ UNCHANGED <<notifVars, faults, session, campaignVars>>

Goes(A) == A /\ UNCHANGED <<session, campaignVars>>

\* A handler of forecast-svc, beside its calls and with them.
Runs(A) == A /\ UNCHANGED <<notifVars, faults, session, tableVars>>

Advising(h) == Advise(h) /\ UNCHANGED <<notifVars, session, tableVars>>

Mailing(h) == Mail(h) /\ UNCHANGED <<session, tableVars>>

Hearing(h) == Answered(h) /\ UNCHANGED <<session, tableVars>>

LEMMA Steps ==
    ASSUME Next
    PROVE  \/ Job(Submit)
           \/ Job(JobList)
           \/ Job(JobUpdate)
           \/ Job(JobCommit)
           \/ Job(JobNotify)
           \/ Job(JobDies)
           \/ \E g \in Clicks : Ask(g) \/ Forward(g) \/ Failing(g)
           \/ ServiceDies
           \/ NotifierDies
           \/ \E h \in Handlers :
             \/ Quietly(Respond(h))
             \/ Serves(h, ApproveBook(h))
             \/ Serves(h, RejectBook(h))
             \/ Serves(h, ApproveSpike(h))
             \/ Serves(h, AskReturn(h))
             \/ Serves(h, DecideReturn(h))
             \/ Serves(h, LookAtDelivery(h))
             \/ Serves(h, LookAtFlag(h))
             \/ Goes(UpdateDelivery(h))
             \/ Goes(SetFlag(h))
             \/ Goes(TellAll(h))
             \/ Runs(Create(h))
             \/ Runs(Recommend(h))
             \/ Runs(Patch(h))
             \/ Runs(Delete(h))
             \/ Runs(Begin(h))
             \/ Runs(Close(h))
             \/ Advising(h)
             \/ Mailing(h)
             \/ Hearing(h)
           \/ \E c \in Calls :
             \/ Background(Buffer(c))
             \/ Background(Dedup(c))
             \/ Background(Post(c))
             \/ Background(Log(c))
             \/ Background(Unheard(c))
           \/ Background(Expire)
           \/ \E w \in Regions : Background(FlushTake(w))
           \/ Background(FlushPost)
<1>1. CASE Job(Submit) \/ Job(JobStep) \/ Job(JobDies)
  BY <1>1 DEF Job, JobStep
<1>2. CASE \E g \in Clicks : \/ Ask(g) \/ Forward(g)
                             \/ Fault /\ Fails(g) /\ UNCHANGED <<notifVars, Tables>>
  BY <1>2 DEF Failing
<1>3. ASSUME NEW h \in Handlers, Handle(h)
      PROVE  \E f \in Handlers :
                \/ Quietly(Respond(f))
                \/ Serves(f, ApproveBook(f))
                \/ Serves(f, RejectBook(f))
                \/ Serves(f, ApproveSpike(f))
                \/ Serves(f, AskReturn(f))
                \/ Serves(f, DecideReturn(f))
                \/ Serves(f, LookAtDelivery(f))
                \/ Serves(f, LookAtFlag(f))
                \/ Goes(UpdateDelivery(f))
                \/ Goes(SetFlag(f))
                \/ Goes(TellAll(f))
                \/ Runs(Create(f))
                \/ Runs(Recommend(f))
                \/ Runs(Patch(f))
                \/ Runs(Delete(f))
                \/ Runs(Begin(f))
                \/ Runs(Close(f))
                \/ Advising(f)
                \/ Mailing(f)
                \/ Hearing(f)
  BY <1>3 DEF Handle, RequestStep, CampaignStep, Serve, Serves, Goes, Runs, Advising,
              Mailing, Hearing
<1>4. ASSUME NEW c \in Calls, Background(Serving(c) \/ Unheard(c))
      PROVE  \/ Background(Buffer(c)) \/ Background(Dedup(c)) \/ Background(Post(c))
             \/ Background(Log(c)) \/ Background(Unheard(c))
  BY <1>4 DEF Serving, Background
<1>5. CASE Background(Flushing)
  BY <1>5 DEF Flushing, Background
<1>6. CASE Fault /\ ServiceCrash /\ UNCHANGED <<notifVars, Tables>>
  BY <1>6 DEF ServiceDies
<1>. QED
  BY <1>1, <1>2, <1>3, <1>4, <1>5, <1>6 DEF Next

\* What the assumptions say of the constants.
LEMMA AboutConstants ==
    /\ RefusalMail.region \in Regions /\ RefusalMail \in Mails
    /\ \A s \in Sessions, g \in Clicks : s.asks[g] \in Ops
    /\ \A op \in Ops : op.kind \in RequestKinds => op.qty \in [Whs -> Nat]
    /\ \A op \in Ops : op.kind \in CampaignKinds => op.id \in Campaigns
    /\ NoHandler \notin Handlers
    /\ NoBatch \in [region : Regions, n : Nat]
<1>1. RefusalMail.region \in Regions
  BY DashboardAssumption, NotificationsAssumption
     DEF MailOK, RefusalMail, Tell
<1>2. NoBatch \in [region : Regions, n : Nat]
  BY <1>1 DEF NoBatch
<1>. QED
  BY <1>1, <1>2, DashboardAssumption, GatewayAssumption, RequestsAssumption,
     CampaignsAssumption

\* A sender has a campaign, and the mail it sends next is one of it.
LEMMA InHand ==
    ASSUME TypeInv, HandlersInv, NEW h \in Handlers, handler[h].step \in Sending
    PROVE  /\ Of(h) \in Campaigns
           /\ \A m \in handler[h].todo : m \in CampaignMails
           /\ handler[h].todo # {} => NextMail(h) \in handler[h].todo
<1>1. handler[h].op \in Ops /\ handler[h].op.kind = "send"
  BY DEF HandlersInv, HandlerOK, Sending
<1>2. Of(h) \in Campaigns
  BY <1>1, AboutConstants DEF Of, CampaignKinds
<1>3. handler[h].todo \subseteq {CampaignMail(Of(h), b) : b \in Branches}
  BY DEF HandlersInv, HandlerOK, Of
<1>. QED
  BY <1>2, <1>3 DEF CampaignMails, NextMail


-----------------------------------------------------------------------------
(* Clicks and handlers *)

\* One handler becomes r, and the others stay.
Moved(h, r) == handler' = [handler EXCEPT ![h] = r]

LEMMA Moving ==
    ASSUME TypeInv, HandlersInv, NEW h \in Handlers, NEW r \in HandlerRecords,
           HandlerOK(r), Moved(h, r)
    PROVE  /\ handler' \in [Handlers -> HandlerRecords]
           /\ HandlersInv'
           /\ handler'[h] = r
           /\ \A f \in Handlers : f # h => handler'[f] = handler[f]
<1>. USE DEF TypeInv, PeopleTypes
<1>1. /\ handler' \in [Handlers -> HandlerRecords]
      /\ handler'[h] = r
      /\ \A f \in Handlers : f # h => handler'[f] = handler[f]
  BY DEF Moved
<1>2. \A f \in Handlers : HandlerOK(handler'[f])
  BY <1>1 DEF HandlersInv
<1>. QED
  BY <1>1, <1>2 DEF HandlersInv, HandlerOK

LEMMA RestOK == Rest \in HandlerRecords /\ HandlerOK(Rest)
<1>1. Rest \in HandlerRecords
  BY DEF Rest, HandlerRecords, HandlerSteps
<1>2. HandlerOK(Rest)
  BY DEF HandlerOK, Rest, Sending
<1>. QED
  BY <1>1, <1>2

\* A handler that answers, or goes on to its next look.
LEMMA ToMoves ==
    ASSUME TypeInv, NEW h \in Handlers,
           NEW step \in HandlerSteps, NEW result \in {"none", "ok", "refused"},
           To(h, step, result)
    PROVE  \E r \in HandlerRecords :
              /\ Moved(h, r)
              /\ r.step = step /\ r.result = result /\ r.op = handler[h].op
              /\ r.todo = handler[h].todo /\ r.kept = handler[h].kept
<1> DEFINE r == [handler[h] EXCEPT !.step = step, !.result = result]
<1>1. /\ Moved(h, r)
      /\ r \in HandlerRecords
      /\ r.step = step /\ r.result = result /\ r.op = handler[h].op
      /\ r.todo = handler[h].todo /\ r.kept = handler[h].kept
  BY DEF To, Moved, TypeInv, PeopleTypes, HandlerRecords
<1> HIDE DEF r
<1>. QED
  BY <1>1

LEMMA DoneMoves ==
    ASSUME TypeInv, NEW h \in Handlers, NEW mails, Done(h, mails)
    PROVE  \E r \in HandlerRecords :
              /\ Moved(h, r)
              /\ r.step = "tell" /\ r.result = "ok" /\ r.op = handler[h].op
              /\ r.todo = mails \cap Mails /\ r.kept = handler[h].kept
<1> DEFINE r == [handler[h] EXCEPT !.step = "tell", !.result = "ok",
                                   !.todo = mails \cap Mails]
<1>1. /\ Moved(h, r)
      /\ r \in HandlerRecords
      /\ r.step = "tell" /\ r.result = "ok" /\ r.op = handler[h].op
      /\ r.todo = mails \cap Mails /\ r.kept = handler[h].kept
  BY DEF Done, Moved, TypeInv, PeopleTypes, HandlerRecords, HandlerSteps, Everything
<1> HIDE DEF r
<1>. QED
  BY <1>1


\* What a step does to clicks and handlers.
LEMMA PeopleActs ==
    ASSUME Next
    PROVE  \/ UNCHANGED <<session, gateVars>>
           \/ \E g \in Clicks : Ask(g) \/ Forward(g) \/ Failing(g)
           \/ ServiceDies
           \/ NotifierDies
           \/ \E h \in Handlers :
                \/ Quietly(Respond(h))
                \/ Serves(h, ApproveBook(h))
                \/ Serves(h, RejectBook(h))
                \/ Serves(h, ApproveSpike(h))
                \/ Serves(h, AskReturn(h))
                \/ Serves(h, DecideReturn(h))
                \/ Serves(h, LookAtDelivery(h))
                \/ Serves(h, LookAtFlag(h))
                \/ Goes(UpdateDelivery(h))
                \/ Goes(SetFlag(h))
                \/ Goes(TellAll(h))
                \/ Runs(Create(h))
                \/ Runs(Recommend(h))
                \/ Runs(Patch(h))
                \/ Runs(Delete(h))
                \/ Runs(Begin(h))
                \/ Runs(Close(h))
                \/ Advising(h)
                \/ Mailing(h)
                \/ Hearing(h)
<1>1. CASE \/ Job(Submit) \/ Job(JobList) \/ Job(JobUpdate) \/ Job(JobCommit)
           \/ Job(JobNotify) \/ Job(JobDies)
  BY <1>1 DEF Job, Submit, JobList, JobUpdate, JobCommit, JobNotify, JobDies
<1>2. ASSUME NEW c \in Calls,
             \/ Background(Buffer(c)) \/ Background(Dedup(c)) \/ Background(Post(c))
             \/ Background(Log(c)) \/ Background(Unheard(c))
      PROVE  UNCHANGED <<session, gateVars>>
  BY <1>2 DEF Background, Tables
<1>3. CASE \/ Background(Expire) \/ Background(FlushPost)
           \/ \E w \in Regions : Background(FlushTake(w))
  BY <1>3 DEF Background, Tables
<1>. QED
  BY Steps, <1>1, <1>2, <1>3

Moves(h) ==
    /\ UNCHANGED <<session, click>>
    /\ \E r \in HandlerRecords :
          HandlerOK(r) /\ Moved(h, r) /\ r.op = handler[h].op /\ r.step # "idle"

LEMMA ToDoes ==
    ASSUME TypeInv, HandlersInv, NEW h \in Handlers, handler[h].step # "idle",
           NEW step \in {"respond", "update", "flag", "advise"},
           NEW result \in {"none", "ok", "refused"},
           To(h, step, result), UNCHANGED <<session, click>>,
           handler[h].kept = {},
           handler[h].todo = {},
           step = "update" => handler[h].op.kind \in {"receive", "refuse"},
           step = "flag" => handler[h].op.kind = "closeDay",
           step = "advise" => handler[h].op.kind = "recommend"
    PROVE  Moves(h)
<1>0. step \in HandlerSteps
  BY DEF HandlerSteps
<1>1. PICK r \in HandlerRecords :
          /\ Moved(h, r)
          /\ r.step = step /\ r.op = handler[h].op
          /\ r.todo = {} /\ r.kept = {}
  BY <1>0, ToMoves
<1>2. handler[h].op \in Ops
  BY DEF HandlersInv, HandlerOK
<1>3. HandlerOK(r)
  BY <1>1, <1>2 DEF HandlerOK, Sending
<1>. QED
  BY <1>1, <1>3 DEF Moves

LEMMA DoneDoes ==
    ASSUME TypeInv, HandlersInv, NEW h \in Handlers,
           handler[h].step \in {"run", "update", "flag"},
           NEW mails, mails \subseteq RequestMails,
           Done(h, mails), UNCHANGED <<session, click>>
    PROVE  Moves(h)
<1>1. PICK r \in HandlerRecords :
          /\ Moved(h, r)
          /\ r.step = "tell" /\ r.result = "ok" /\ r.op = handler[h].op
          /\ r.todo = mails \cap Mails /\ r.kept = handler[h].kept
  BY DoneMoves
<1>2. handler[h].op \in Ops /\ handler[h].kept = {}
  BY DEF HandlersInv, HandlerOK, Sending
<1>3. HandlerOK(r)
  BY <1>1, <1>2 DEF HandlerOK, Sending
<1>. QED
  BY <1>1, <1>3 DEF Moves

\* A handler that stands at its beginning has nothing in hand.
LEMMA AtFirst ==
    ASSUME HandlersInv, NEW h \in Handlers,
           handler[h].step \in {"run", "update", "flag", "advise"}
    PROVE  handler[h].kept = {} /\ handler[h].todo = {} /\ handler[h].op \in Ops
  BY DEF HandlersInv, HandlerOK, Sending

LEMMA RefuseDoes ==
    ASSUME TypeInv, HandlersInv, NEW h \in Handlers,
           handler[h].step \in {"run", "update", "flag", "advise"},
           To(h, "respond", "refused"), UNCHANGED <<session, click>>
    PROVE  Moves(h)
  BY AtFirst, ToDoes

\* What a campaign's mail leaves behind.
LEMMA StoredDoes ==
    ASSUME TypeInv, HandlersInv, NEW h \in Handlers, handler[h].step \in Sending,
           handler[h].todo # {}, NEW outcome \in {"SENT", "FAILED"},
           Stored(h, outcome), UNCHANGED session
    PROVE  Moves(h)
<1> DEFINE m == NextMail(h)
           r == [handler[h] EXCEPT !.step = "mail", !.todo = @ \ {m},
                                   !.kept = @ \cup {<<m, outcome>>}]
           q == [handler[h] EXCEPT !.step = "respond", !.result = "refused"]
<1>0. /\ handler[h] \in HandlerRecords
      /\ HandlerOK(handler[h])
      /\ m \in handler[h].todo
      /\ m \in CampaignMails
      /\ handler[h].todo \subseteq CampaignMails
  BY InHand DEF TypeInv, PeopleTypes, HandlersInv
<1>a. <<m, outcome>> \in CampaignMails \X {"SENT", "FAILED"}
  BY <1>0
<1>1. r \in HandlerRecords /\ q \in HandlerRecords
  <2> HIDE DEF m
  <2>. QED
    BY <1>0, <1>a DEF HandlerRecords, HandlerSteps
<1>2. HandlerOK(r) /\ r.op = handler[h].op /\ r.step # "idle"
  <2>1. /\ r.step = "mail" /\ r.op = handler[h].op /\ r.todo \subseteq handler[h].todo
        /\ r.kept # {}
    BY <1>0 DEF HandlerRecords
  <2> HIDE DEF r
  <2>. QED
    BY <1>0, <2>1 DEF HandlerOK, Sending
<1>3. HandlerOK(q) /\ q.op = handler[h].op /\ q.step # "idle"
  <2>1. q.step = "respond" /\ q.op = handler[h].op /\ q.todo = handler[h].todo
    BY <1>0 DEF HandlerRecords
  <2> HIDE DEF q
  <2>. QED
    BY <1>0, <2>1 DEF HandlerOK, Sending
<1>4. UNCHANGED click
  BY DEF Stored
<1>5. Moved(h, r) \/ Moved(h, q)
  BY DEF Stored, Moved, TypeInv, PeopleTypes, HandlerRecords
<1>. QED
  BY <1>1, <1>2, <1>3, <1>4, <1>5 DEF Moves

\* Handlers of intervention-svc.
LEMMA RequestMoves ==
    ASSUME TypeInv, HandlersInv, NEW h \in Handlers,
           \/ Serves(h, ApproveBook(h)) \/ Serves(h, RejectBook(h))
           \/ Serves(h, ApproveSpike(h)) \/ Serves(h, AskReturn(h))
           \/ Serves(h, DecideReturn(h)) \/ Serves(h, LookAtDelivery(h))
           \/ Serves(h, LookAtFlag(h)) \/ Goes(UpdateDelivery(h))
           \/ Goes(SetFlag(h)) \/ Goes(TellAll(h))
    PROVE  Moves(h)
<1>0. \A mails : mails \subseteq RequestMails <=> \A m \in mails : m \in RequestMails
  OBVIOUS
<1>1. CASE Serves(h, ApproveBook(h))
  <2>1. CASE BookOpen
    <3>1. {BookMail("APPROVED")} \subseteq RequestMails
      BY DEF RequestMails
    <3>. QED
      BY <1>1, <2>1, <3>1, DoneDoes DEF Serves, ApproveBook
  <2>2. CASE ~BookOpen
    BY <1>1, <2>2, RefuseDoes DEF Serves, ApproveBook, Refuse
  <2>. QED
    BY <2>1, <2>2
<1>2. CASE Serves(h, RejectBook(h))
  <2>1. CASE BookOpen
    <3>1. {BookMail("REJECTED")} \subseteq RequestMails
      BY DEF RequestMails
    <3>. QED
      BY <1>2, <2>1, <3>1, DoneDoes DEF Serves, RejectBook
  <2>2. CASE ~BookOpen
    BY <1>2, <2>2, RefuseDoes DEF Serves, RejectBook, Refuse
  <2>. QED
    BY <2>1, <2>2
<1>3. CASE Serves(h, ApproveSpike(h))
  <2>1. {SpikeMail} \subseteq RequestMails
    BY DEF RequestMails
  <2>2. /\ handler[h].step = "run" /\ UNCHANGED <<session, click>>
        /\ \/ Done(h, {SpikeMail})
           \/ To(h, "respond", "refused")
    BY <1>3 DEF Serves, ApproveSpike, Refuse
  <2>. QED
    BY <2>1, <2>2, DoneDoes, RefuseDoes
<1>4. CASE Serves(h, AskReturn(h))
  <2>1. PICK r \in Returns : Done(h, {ReturnMail(r)})
    BY <1>4 DEF Serves, AskReturn
  <2>2. {ReturnMail(r)} \subseteq RequestMails
    BY DEF RequestMails
  <2>. QED
    BY <1>4, <2>1, <2>2, DoneDoes DEF Serves, AskReturn
<1>5. CASE Serves(h, DecideReturn(h))
  <2>1. PICK r \in Returns :
            \/ Done(h, {ReturnMail(r)})
            \/ Done(h, {})
            \/ To(h, "respond", "refused")
    BY <1>5 DEF Serves, DecideReturn, Refuse
  <2>2. {ReturnMail(r)} \subseteq RequestMails /\ {} \subseteq RequestMails
    BY DEF RequestMails
  <2>3. handler[h].step = "run" /\ UNCHANGED <<session, click>>
    BY <1>5 DEF Serves, DecideReturn, Refuse
  <2>. QED
    BY <2>1, <2>2, <2>3, DoneDoes, RefuseDoes
<1>6. CASE Serves(h, LookAtDelivery(h))
  <2>1. /\ handler[h].step = "run" /\ UNCHANGED <<session, click>>
        /\ handler[h].op.kind \in {"receive", "refuse"}
        /\ To(h, "update", "refused") \/ To(h, "respond", "refused")
    BY <1>6 DEF Serves, LookAtDelivery, Kind
  <2>2. handler[h].kept = {} /\ handler[h].todo = {}
    BY <2>1, AtFirst
  <2>. QED
    BY <2>1, <2>2, ToDoes, RefuseDoes
<1>7. CASE Serves(h, LookAtFlag(h))
  <2>1. /\ handler[h].step = "run" /\ UNCHANGED <<session, click>>
        /\ handler[h].op.kind = "closeDay"
        /\ To(h, "flag", "ok") \/ To(h, "respond", "ok")
    BY <1>7 DEF Serves, LookAtFlag, Kind
  <2>2. handler[h].kept = {} /\ handler[h].todo = {}
    BY <2>1, AtFirst
  <2>. QED
    BY <2>1, <2>2, ToDoes
<1>8. CASE Goes(UpdateDelivery(h))
  <2>1. /\ handler[h].step = "update" /\ UNCHANGED <<session, click>>
        /\ \/ Done(h, {ArrivalMail})
           \/ Done(h, {RefusalMail})
           \/ To(h, "respond", "refused")
    BY <1>8 DEF Goes, UpdateDelivery, Refuse
  <2>2. {ArrivalMail} \subseteq RequestMails /\ {RefusalMail} \subseteq RequestMails
    BY DEF RequestMails
  <2>. QED
    BY <2>1, <2>2, DoneDoes, RefuseDoes
<1>9. CASE Goes(SetFlag(h))
  <2>1. {DayMail} \subseteq RequestMails
    BY DEF RequestMails
  <2>. QED
    BY <1>9, <2>1, DoneDoes DEF Goes, SetFlag
<1>10. CASE Goes(TellAll(h))
  <2>1. /\ handler[h].step = "tell" /\ handler[h] \in HandlerRecords
        /\ HandlerOK(handler[h]) /\ UNCHANGED <<session, click>>
    BY <1>10 DEF Goes, TellAll, TypeInv, PeopleTypes, HandlersInv
  <2>2. CASE handler[h].todo = {} /\ To(h, "respond", "ok")
    <3>1. handler[h].kept = {}
      BY <2>1 DEF HandlerOK, Sending
    <3>. QED
      BY <2>1, <2>2, <3>1, ToDoes
  <2>3. CASE \E m \in handler[h].todo : handler' = [handler EXCEPT ![h].todo = @ \ {m}]
    <3>1. PICK m \in handler[h].todo : handler' = [handler EXCEPT ![h].todo = @ \ {m}]
      BY <2>3
    <3> DEFINE r == [handler[h] EXCEPT !.todo = @ \ {m}]
    <3>2. Moved(h, r) /\ r \in HandlerRecords
      BY <2>1, <3>1 DEF Moved, TypeInv, PeopleTypes, HandlerRecords
    <3>3. /\ r.step = "tell" /\ r.op = handler[h].op /\ r.kept = handler[h].kept
          /\ r.result = handler[h].result /\ r.todo \subseteq handler[h].todo
      BY <2>1 DEF HandlerRecords
    <3> HIDE DEF r
    <3>4. HandlerOK(r)
      BY <2>1, <3>3 DEF HandlerOK, Sending
    <3>. QED
      BY <2>1, <3>2, <3>3, <3>4 DEF Moves
  <2>. QED
    BY <1>10, <2>2, <2>3 DEF Goes, TellAll
<1>. QED
  BY <1>1, <1>2, <1>3, <1>4, <1>5, <1>6, <1>7, <1>8, <1>9, <1>10

\* Handlers of forecast-svc.
LEMMA CampaignMoves ==
    ASSUME TypeInv, HandlersInv, NEW h \in Handlers,
           \/ Runs(Create(h)) \/ Runs(Recommend(h)) \/ Runs(Patch(h))
           \/ Runs(Delete(h)) \/ Runs(Begin(h)) \/ Runs(Close(h))
           \/ Advising(h) \/ Mailing(h) \/ Hearing(h)
    PROVE  Moves(h)
<1>a. /\ handler[h] \in HandlerRecords
      /\ HandlerOK(handler[h])
  BY DEF TypeInv, PeopleTypes, HandlersInv
<1>b. handler[h].step = "run" => handler[h].kept = {} /\ handler[h].todo = {}
  BY AtFirst
<1>1. CASE Runs(Create(h))
  BY <1>1, <1>b, ToDoes DEF Runs, Create, Asked
<1>2. CASE Runs(Recommend(h))
  <2>1. /\ handler[h].step = "run" /\ UNCHANGED <<session, click>>
        /\ handler[h].op.kind = "recommend"
        /\ To(h, "advise", "ok") \/ To(h, "respond", "refused")
    BY <1>2 DEF Runs, Recommend, Asked, Turned
  <2>. QED
    BY <1>b, <2>1, ToDoes, RefuseDoes
<1>3. CASE Runs(Patch(h))
  <2>1. /\ handler[h].step = "run" /\ UNCHANGED <<session, click>>
        /\ To(h, "respond", "ok") \/ To(h, "respond", "refused")
    BY <1>3 DEF Runs, Patch, Asked, Turned
  <2>. QED
    BY <1>b, <2>1, ToDoes, RefuseDoes
<1>4. CASE Runs(Delete(h))
  <2>1. /\ handler[h].step = "run" /\ UNCHANGED <<session, click>>
        /\ To(h, "respond", "ok") \/ To(h, "respond", "refused")
    BY <1>4 DEF Runs, Delete, Asked, Turned
  <2>. QED
    BY <1>b, <2>1, ToDoes, RefuseDoes
<1>5. CASE Runs(Begin(h))
  <2> DEFINE mails == {CampaignMail(Of(h), b) : b \in Advised(Of(h))}
             r == [handler[h] EXCEPT !.step = "mail", !.todo = mails]
  <2>1. /\ handler[h].step = "run" /\ handler[h].op.kind = "send"
        /\ UNCHANGED <<session, click>>
    BY <1>5 DEF Runs, Begin, Asked, Turned
  <2>2. \/ To(h, "respond", "refused")
        \/ /\ Advised(Of(h)) # {}
           /\ handler' = [handler EXCEPT ![h].step = "mail", ![h].todo = mails]
    BY <1>5 DEF Runs, Begin, Turned
  <2>3. Of(h) \in Campaigns
    BY <1>a, <2>1, AboutConstants DEF HandlerOK, Of, CampaignKinds
  <2>4. mails \subseteq {CampaignMail(Of(h), b) : b \in Branches}
    BY DEF Advised
  <2>5. mails \subseteq Everything
    BY <2>3, <2>4 DEF Everything, CampaignMails
  <2>6. CASE /\ Advised(Of(h)) # {}
             /\ handler' = [handler EXCEPT ![h].step = "mail", ![h].todo = mails]
    <3>0. mails # {}
      BY <2>6
    <3> HIDE DEF mails
    <3>1. Moved(h, r) /\ r \in HandlerRecords
      BY <1>a, <2>5, <2>6 DEF Moved, TypeInv, PeopleTypes, HandlerRecords, HandlerSteps
    <3>2. r.step = "mail" /\ r.op = handler[h].op /\ r.todo = mails
      BY <1>a DEF HandlerRecords
    <3> HIDE DEF r
    <3>3. HandlerOK(r)
      BY <1>a, <2>1, <2>4, <3>0, <3>2 DEF HandlerOK, Sending, Of
    <3>. QED
      BY <2>1, <3>1, <3>2, <3>3 DEF Moves
  <2>. QED
    BY <2>1, <2>2, <2>6, RefuseDoes
<1>6. CASE Runs(Close(h))
  <2> DEFINE r == [handler[h] EXCEPT !.step = "respond", !.kept = {}, !.result = "ok"]
  <2>1. /\ handler[h].step = "mail" /\ handler[h].todo = {}
        /\ UNCHANGED <<session, click>>
        /\ handler' = [handler EXCEPT ![h].step = "respond", ![h].kept = {},
                                      ![h].result = "ok"]
    BY <1>6 DEF Runs, Close
  <2>2. Moved(h, r) /\ r \in HandlerRecords
    BY <1>a, <2>1 DEF Moved, TypeInv, PeopleTypes, HandlerRecords, HandlerSteps
  <2>3. r.step = "respond" /\ r.op = handler[h].op /\ r.todo = {} /\ r.kept = {}
    BY <1>a, <2>1 DEF HandlerRecords
  <2> HIDE DEF r
  <2>4. HandlerOK(r)
    BY <1>a, <2>1, <2>3 DEF HandlerOK, Sending
  <2>. QED
    BY <2>1, <2>2, <2>3, <2>4 DEF Moves
<1>7. CASE Advising(h)
  <2>1. /\ handler[h].step = "advise" /\ UNCHANGED <<session, click>>
        /\ To(h, "respond", "ok") \/ To(h, "respond", "refused")
    BY <1>7 DEF Advising, Advise, Turned
  <2>2. handler[h].kept = {} /\ handler[h].todo = {}
    BY <2>1, AtFirst
  <2>. QED
    BY <2>1, <2>2, ToDoes, RefuseDoes
<1>8. CASE Mailing(h)
  <2>1. handler[h].step = "mail" /\ handler[h].todo # {} /\ UNCHANGED session
    BY <1>8 DEF Mailing, Mail
  <2>2. CASE \E c \in Calls : /\ handler' = [handler EXCEPT ![h].step = "wait", ![h].at = c]
                              /\ UNCHANGED click
    <3>1. PICK c \in Calls : handler' = [handler EXCEPT ![h].step = "wait", ![h].at = c]
      BY <2>2
    <3> DEFINE r == [handler[h] EXCEPT !.step = "wait", !.at = c]
    <3>2. Moved(h, r) /\ r \in HandlerRecords
      BY <1>a, <3>1 DEF Moved, TypeInv, PeopleTypes, HandlerRecords, HandlerSteps
    <3>3. /\ r.step = "wait" /\ r.op = handler[h].op /\ r.todo = handler[h].todo
          /\ r.kept = handler[h].kept /\ r.at = c
      BY <1>a DEF HandlerRecords
    <3> HIDE DEF r
    <3>4. HandlerOK(r)
      BY <1>a, <2>1, <3>3 DEF HandlerOK, Sending
    <3>. QED
      BY <2>1, <2>2, <3>2, <3>3, <3>4 DEF Moves
  <2>3. CASE Stored(h, "FAILED")
    BY <2>1, <2>3, StoredDoes DEF Sending
  <2>. QED
    BY <1>8, <2>2, <2>3 DEF Mailing, Mail
<1>9. CASE Hearing(h)
  <2>1. /\ handler[h].step \in {"wait", "lost"} /\ UNCHANGED session
        /\ Stored(h, "SENT") \/ Stored(h, "FAILED")
    BY <1>9 DEF Hearing, Answered
  <2>2. handler[h].todo # {} /\ handler[h].step \in Sending
    BY <1>a, <2>1 DEF HandlerOK, Sending
  <2>. QED
    BY <2>1, <2>2, StoredDoes
<1>. QED
  BY <1>1, <1>2, <1>3, <1>4, <1>5, <1>6, <1>7, <1>8, <1>9

\* A request that is given up, for good or to be repeated, waits for nobody.
LEMMA RetryOK ==
    ASSUME NEW c \in ClickRecords
    PROVE  \A d \in {Retry(c), Abandoned(c)} :
              /\ d \in ClickRecords /\ d.by = NoHandler /\ d.op = c.op
              /\ (d.step = c.step /\ d.answer = c.answer) \/ d.step = "answered"
              /\ d.answer \in {c.answer, "unavailable"}
<1> DEFINE a == [c EXCEPT !.step = "answered", !.answer = "unavailable",
                          !.by = NoHandler]
           b == [c EXCEPT !.try = @ + 1, !.by = NoHandler]
<1>1. /\ a \in ClickRecords /\ a.by = NoHandler /\ a.op = c.op /\ a.step = "answered"
      /\ a.answer = "unavailable"
  BY DEF ClickRecords, Answers
<1>2. /\ b \in ClickRecords /\ b.by = NoHandler /\ b.op = c.op /\ b.step = c.step
      /\ b.answer = c.answer
  <2> DEFINE n == c.try + 1
           d == [c EXCEPT !.try = n, !.by = NoHandler]
  <2>1. n \in Nat
    BY DEF ClickRecords
  <2>2. b = d
    OBVIOUS
  <2> HIDE DEF n
  <2>3. /\ d \in ClickRecords /\ d.by = NoHandler /\ d.op = c.op /\ d.step = c.step
        /\ d.answer = c.answer
    BY <2>1 DEF ClickRecords
  <2> HIDE DEF d, b
  <2>. QED
    BY <2>2, <2>3
<1>3. Abandoned(c) = a /\ Retry(c) \in {a, b}
  BY DEF Abandoned, Retry
<1> HIDE DEF a, b
<1>. QED
  BY <1>1, <1>2, <1>3

LEMMA PeopleSteps ==
    ASSUME TypeInv, HandlersInv, ClicksInv, Next
    PROVE  PeopleTypes' /\ HandlersInv' /\ ClicksInv'
<1>a. PeopleTypes
  BY DEF TypeInv
<1>1. CASE UNCHANGED <<session, gateVars>>
  BY <1>a, <1>1 DEF gateVars, PeopleTypes, HandlersInv, HandlerOK, ClicksInv
<1>2. ASSUME NEW g \in Clicks, Ask(g)
      PROVE  PeopleTypes' /\ HandlersInv' /\ ClicksInv'
  <2>1. /\ UNCHANGED <<session, handler>>
        /\ click[g].step = "ready"
        /\ click' = [click EXCEPT ![g].step = "calling", ![g].op = session.asks[g],
                                  ![g].try = 1]
    BY <1>2 DEF Ask, Quietly, Press, Tables
  <2>2. session.asks[g] \in Ops
    BY <1>a, AboutConstants DEF PeopleTypes
  <2> DEFINE c == [click[g] EXCEPT !.step = "calling", !.op = session.asks[g],
                                   !.try = 1]
  <2>3. PeopleTypes'
    <3>1. click' = [click EXCEPT ![g] = c]
      BY <1>a, <2>1 DEF PeopleTypes, ClickRecords
    <3>2. c \in ClickRecords
      BY <1>a, <2>2 DEF PeopleTypes, ClickRecords
    <3> HIDE DEF c
    <3>. QED
      BY <1>a, <2>1, <3>1, <3>2 DEF PeopleTypes
  <2>4. ClicksInv'
    BY <1>a, <2>1, <2>2 DEF PeopleTypes, ClickRecords, ClicksInv
  <2>. QED
    BY <2>1, <2>3, <2>4 DEF HandlersInv, HandlerOK
<1>3. ASSUME NEW g \in Clicks, Forward(g)
      PROVE  PeopleTypes' /\ HandlersInv' /\ ClicksInv'
  <2> DEFINE r == [Rest EXCEPT !.step = "run", !.op = click[g].op]
  <2>1. PICK h \in Handlers :
           /\ UNCHANGED session
           /\ click[g].step = "calling"
           /\ handler[h].step = "idle"
           /\ Moved(h, r)
           /\ click' = [click EXCEPT ![g].by = h]
    BY <1>3 DEF Forward, Quietly, Reach, Tables, Moved
  <2>2. click[g].op \in Ops
    BY <2>1 DEF ClicksInv
  <2>3. /\ r \in HandlerRecords /\ r.step = "run" /\ r.op = click[g].op
        /\ r.todo = {} /\ r.kept = {}
    BY <2>2, RestOK DEF HandlerRecords, HandlerSteps, Rest
  <2> HIDE DEF r
  <2>4. HandlerOK(r)
    BY <2>2, <2>3 DEF HandlerOK, Sending
  <2>5. /\ handler' \in [Handlers -> HandlerRecords]
        /\ HandlersInv'
        /\ handler'[h] = r
        /\ \A f \in Handlers : f # h => handler'[f] = handler[f]
    BY <2>1, <2>3, <2>4, Moving
  <2>6. PeopleTypes'
    BY <1>a, <2>1, <2>5 DEF PeopleTypes, ClickRecords
  <2>7. ClicksInv'
    <3>1. \A f \in Clicks : click[f].by # h
      BY <2>1, AboutConstants DEF ClicksInv
    <3>. QED
      BY <1>a, <2>1, <2>2, <2>3, <2>5, <3>1, AboutConstants
         DEF PeopleTypes, ClickRecords, ClicksInv
  <2>. QED
    BY <2>5, <2>6, <2>7
<1>4. ASSUME NEW g \in Clicks, Failing(g)
      PROVE  PeopleTypes' /\ HandlersInv' /\ ClicksInv'
  <2>1. /\ UNCHANGED <<session, handler>>
        /\ click[g].step = "calling"
        /\ \/ click' = [click EXCEPT ![g] = Retry(click[g])]
           \/ click' = [click EXCEPT ![g] = Abandoned(click[g])]
    BY <1>4 DEF Failing, Fails, Tables
  <2>2. \A c \in {Retry(click[g]), Abandoned(click[g])} :
           /\ c \in ClickRecords /\ c.by = NoHandler /\ c.op = click[g].op
           /\ (c.step = "calling" /\ c.answer = click[g].answer) \/ c.step = "answered"
    BY <1>a, <2>1, RetryOK DEF PeopleTypes
  <2>3. PeopleTypes'
    BY <1>a, <2>1, <2>2 DEF PeopleTypes
  <2>4. ClicksInv'
    BY <1>a, <2>1, <2>2 DEF PeopleTypes, ClicksInv
  <2>. QED
    BY <2>1, <2>3, <2>4 DEF HandlersInv, HandlerOK
<1>5. CASE ServiceDies
  <2>1. /\ UNCHANGED session
        /\ handler' = [h \in Handlers |-> Rest]
        /\ click' = [g \in Clicks |-> IF click[g].by # NoHandler THEN Retry(click[g])
                                      ELSE click[g]]
    BY <1>5 DEF ServiceDies, ServiceCrash, Tables
  <2>2. \A g \in Clicks : click[g].by # NoHandler =>
           /\ Retry(click[g]) \in ClickRecords /\ Retry(click[g]).by = NoHandler
           /\ Retry(click[g]).op = click[g].op
           /\ \/ Retry(click[g]).step = "calling" /\ Retry(click[g]).answer = "none"
              \/ Retry(click[g]).step = "answered"
    BY <1>a, RetryOK DEF PeopleTypes, ClicksInv
  <2>3. PeopleTypes'
    BY <1>a, <2>1, <2>2, RestOK DEF PeopleTypes
  <2>4. ClicksInv'
    BY <1>a, <2>1, <2>2 DEF PeopleTypes, ClicksInv
  <2>. QED
    BY <2>1, <2>3, <2>4, RestOK DEF HandlersInv, HandlerOK
<1>6. CASE NotifierDies
  <2>1. /\ UNCHANGED <<session, click>>
        /\ handler' = [h \in Handlers |->
                         IF handler[h].step = "wait"
                         THEN [handler[h] EXCEPT !.step = "lost"] ELSE handler[h]]
    BY <1>6 DEF NotifierDies, Tables
  <2>2. \A h \in Handlers :
           /\ handler'[h] \in HandlerRecords
           /\ handler'[h].op = handler[h].op /\ handler'[h].todo = handler[h].todo
           /\ handler'[h].kept = handler[h].kept
           /\ handler'[h].result = handler[h].result
           /\ IF handler[h].step = "wait" THEN handler'[h].step = "lost"
              ELSE handler'[h].step = handler[h].step
    BY <1>a, <2>1 DEF PeopleTypes, HandlerRecords, HandlerSteps
  <2>3. HandlersInv'
    <3> SUFFICES ASSUME NEW h \in Handlers
                 PROVE  HandlerOK(handler[h])'
      BY DEF HandlersInv
    <3>1. HandlerOK(handler[h])
      BY DEF HandlersInv
    <3>. QED
      BY <2>2, <3>1 DEF HandlerOK, Sending
  <2>4. PeopleTypes'
    BY <1>a, <2>1, <2>2 DEF PeopleTypes
  <2>5. ClicksInv'
    BY <1>a, <2>1, <2>2 DEF PeopleTypes, ClicksInv, ClickRecords
  <2>. QED
    BY <2>3, <2>4, <2>5
<1>7. ASSUME NEW h \in Handlers, Quietly(Respond(h))
      PROVE  PeopleTypes' /\ HandlersInv' /\ ClicksInv'
  <2>1. /\ UNCHANGED session
        /\ Moved(h, Rest)
        /\ click' = [g \in Clicks |->
                       IF click[g].by = h
                       THEN [click[g] EXCEPT !.step = "answered", !.by = NoHandler,
                                             !.answer = handler[h].result]
                       ELSE click[g]]
    BY <1>7 DEF Quietly, Respond, Tables, Moved
  <2>2. /\ handler' \in [Handlers -> HandlerRecords]
        /\ HandlersInv'
        /\ \A f \in Handlers : f # h => handler'[f] = handler[f]
    BY <2>1, RestOK, Moving
  <2>3. handler[h].result \in Answers
    BY <1>a DEF PeopleTypes, HandlerRecords, Answers
  <2>4. PeopleTypes'
    <3>1. ASSUME NEW g \in Clicks
          PROVE  click'[g] \in ClickRecords
      <4> DEFINE c == [click[g] EXCEPT !.step = "answered", !.by = NoHandler,
                                       !.answer = handler[h].result]
      <4>1. c \in ClickRecords
        BY <1>a, <2>3 DEF PeopleTypes, ClickRecords
      <4>2. click'[g] \in {c, click[g]}
        BY <2>1
      <4> HIDE DEF c
      <4>. QED
        BY <1>a, <4>1, <4>2 DEF PeopleTypes
    <3>. QED
      BY <1>a, <2>1, <2>2, <3>1 DEF PeopleTypes
  <2>5. ClicksInv'
    <3>1. \A g \in Clicks : click[g].by = h =>
             click'[g].step = "answered" /\ click'[g].by = NoHandler
      BY <1>a, <2>1 DEF PeopleTypes, ClickRecords
    <3>2. \A g \in Clicks : click[g].by # h => click'[g] = click[g]
      BY <2>1
    <3>3. \A g \in Clicks : click[g].by \in Handlers \cup {NoHandler}
      BY <1>a DEF PeopleTypes, ClickRecords
    <3>. QED
      BY <2>2, <3>1, <3>2, <3>3 DEF ClicksInv
  <2>. QED
    BY <2>2, <2>4, <2>5
<1>8. ASSUME NEW h \in Handlers, Moves(h)
      PROVE  PeopleTypes' /\ HandlersInv' /\ ClicksInv'
  <2>1. PICK r \in HandlerRecords :
            /\ HandlerOK(r) /\ Moved(h, r) /\ r.op = handler[h].op /\ r.step # "idle"
            /\ UNCHANGED <<session, click>>
    BY <1>8 DEF Moves
  <2>2. /\ handler' \in [Handlers -> HandlerRecords]
        /\ HandlersInv'
        /\ handler'[h] = r
        /\ \A f \in Handlers : f # h => handler'[f] = handler[f]
    BY <2>1, Moving
  <2>3. PeopleTypes'
    BY <1>a, <2>1, <2>2 DEF PeopleTypes
  <2>4. ClicksInv'
    BY <1>a, <2>1, <2>2 DEF PeopleTypes, ClicksInv, ClickRecords
  <2>. QED
    BY <2>2, <2>3, <2>4
<1>. QED
  BY PeopleActs, RequestMoves, CampaignMoves, <1>1, <1>2, <1>3, <1>4, <1>5, <1>6, <1>7,
     <1>8

-----------------------------------------------------------------------------
(* The calls of notification-svc *)

\* What is sent at all.
Sendable == (RequestMails \cap Mails) \cup CampaignMails \cup {BookMail("DISCOVERED")}

LEMMA AboutSendable ==
    ASSUME NEW m \in Sendable
    PROVE  /\ m \in Everything
           /\ m.event \in Events
           /\ m.event = "InboundRejected" => m = RefusalMail
           /\ m.event = "NewBookRequest" => m \in BookMails
           /\ Correlated(m) => m \in Mails /\ m \notin CampaignMails
           /\ m \in CampaignMails => m.event = "GoodsDisplayCampaign"
<1>1. m \in CampaignMails => m.event = "GoodsDisplayCampaign"
  BY DEF CampaignMails, CampaignMail
<1>2. CASE m \in CampaignMails \cup {BookMail("DISCOVERED")}
  BY <1>1, <1>2 DEF BookMail, Tell, BookMails, Everything, Events, Correlated
<1>3. CASE m \in RequestMails \cap Mails
  BY <1>1, <1>3 DEF RequestMails, BookMail, SpikeMail, ArrivalMail, RefusalMail, DayMail,
     ReturnMail, Tell, BookMails, Everything, Events, Correlated
<1>. QED
  BY <1>2, <1>3 DEF Sendable

\* What a step does to notification-svc.
LEMMA MailActs ==
    ASSUME TypeInv, HandlersInv, Next
    PROVE  /\ faults' = faults \/ faults' = faults + 1
           /\ \/ UNCHANGED notifVars
              \/ \E c \in Calls, m \in Sendable : Send(c, m)
              \/ \E c \in Calls :
                    Buffer(c) \/ Dedup(c) \/ Post(c) \/ Log(c) \/ Finish(c)
              \/ Expire
              \/ \E w \in Regions : FlushTake(w)
              \/ FlushPost
              \/ NotifierCrash
<1> DEFINE F == faults' = faults \/ faults' = faults + 1
           S == \E c \in Calls, m \in Sendable : Send(c, m)
<1>1. CASE \/ Job(Submit) \/ Job(JobList) \/ Job(JobUpdate) \/ Job(JobCommit) \/ Job(JobDies)
  BY <1>1 DEF Job, Submit, JobList, JobUpdate, JobCommit, JobDies, Fault
<1>2. CASE Job(JobNotify)
  <2>1. BookMail("DISCOVERED") \in Sendable
    BY DEF Sendable
  <2>. QED
    BY <1>2, <2>1 DEF Job, JobNotify, Fault
<1>3. ASSUME NEW g \in Clicks, Ask(g) \/ Forward(g) \/ Failing(g)
      PROVE  UNCHANGED notifVars /\ F
  BY <1>3 DEF Ask, Forward, Failing, Quietly, Fault
<1>4. CASE ServiceDies
  BY <1>4 DEF ServiceDies, Fault
<1>5. CASE NotifierDies
  BY <1>5 DEF NotifierDies, NotifierCrash, Fault
<1>6. ASSUME NEW h \in Handlers, Quietly(Respond(h))
      PROVE  UNCHANGED notifVars /\ F
  BY <1>6 DEF Quietly
<1>7. ASSUME NEW h \in Handlers,
             \/ Serves(h, ApproveBook(h)) \/ Serves(h, RejectBook(h))
             \/ Serves(h, ApproveSpike(h)) \/ Serves(h, AskReturn(h))
             \/ Serves(h, DecideReturn(h)) \/ Serves(h, LookAtDelivery(h))
             \/ Serves(h, LookAtFlag(h))
      PROVE  UNCHANGED notifVars /\ F
  BY <1>7 DEF Serves
<1>8. ASSUME NEW h \in Handlers, Goes(UpdateDelivery(h)) \/ Goes(SetFlag(h))
      PROVE  UNCHANGED notifVars /\ F
  BY <1>8 DEF Goes, UpdateDelivery, SetFlag
<1>9. ASSUME NEW h \in Handlers, Goes(TellAll(h))
      PROVE  F /\ (UNCHANGED notifVars \/ S)
  <2>1. handler[h].todo \subseteq Sendable
    BY <1>9 DEF Goes, TellAll, HandlersInv, HandlerOK, Sendable
  <2>. QED
    BY <1>9, <2>1 DEF Goes, TellAll, Fault
<1>10. ASSUME NEW h \in Handlers,
              \/ Runs(Create(h)) \/ Runs(Recommend(h)) \/ Runs(Patch(h))
              \/ Runs(Delete(h)) \/ Runs(Begin(h)) \/ Runs(Close(h))
       PROVE  UNCHANGED notifVars /\ F
  BY <1>10 DEF Runs
<1>11. ASSUME NEW h \in Handlers, Advising(h)
       PROVE  UNCHANGED notifVars /\ F
  BY <1>11 DEF Advising, Advise, Fault
<1>12. ASSUME NEW h \in Handlers, Mailing(h)
       PROVE  F /\ (UNCHANGED notifVars \/ S)
  <2>1. NextMail(h) \in Sendable
    BY <1>12, InHand DEF Mailing, Mail, Sendable, Sending
  <2>. QED
    BY <1>12, <2>1 DEF Mailing, Mail, Fault
<1>13. ASSUME NEW h \in Handlers, Hearing(h)
       PROVE  F /\ (UNCHANGED notifVars \/ \E c \in Calls : Finish(c))
  <2>1. handler[h].step = "wait" => handler[h].at \in Calls
    BY DEF HandlersInv, HandlerOK
  <2>. QED
    BY <1>13, <2>1 DEF Hearing, Answered, Fault
<1>14. ASSUME NEW c \in Calls,
              \/ Background(Buffer(c)) \/ Background(Dedup(c)) \/ Background(Post(c))
              \/ Background(Log(c)) \/ Background(Unheard(c))
       PROVE  F /\ (Buffer(c) \/ Dedup(c) \/ Post(c) \/ Log(c) \/ Finish(c))
  BY <1>14 DEF Background, Buffer, Dedup, Post, Log, Unheard, Fault
<1>15. CASE \/ Background(Expire) \/ Background(FlushPost)
            \/ \E w \in Regions : Background(FlushTake(w))
  BY <1>15 DEF Background, Expire, FlushPost, FlushTake, Fault
<1>. QED
  BY Steps, <1>1, <1>2, <1>3, <1>4, <1>5, <1>6, <1>7, <1>8, <1>9, <1>10, <1>11, <1>12,
     <1>13, <1>14, <1>15

\* A call after Send, after one of its own steps, and after its end.
LEMMA SendDoes ==
    ASSUME TypeInv, NEW c \in Calls, NEW m \in Sendable, Send(c, m)
    PROVE  /\ call' \in [Calls -> CallRecords]
           /\ \A d \in Calls : d # c => call'[d] = call[d]
           /\ call[c].step = "idle"
           /\ call'[c].mail = m
           /\ call'[c].step = IF m.event = "InboundRejected" THEN "buffer"
                              ELSE IF Mailable(m) THEN "dedup" ELSE "log"
           /\ UNCHANGED <<keys, lapsed, buffer, flush, mailed, batched, rows>>
<1> DEFINE s == IF m.event = "InboundRejected" THEN "buffer"
                ELSE IF Mailable(m) THEN "dedup" ELSE "log"
           r == [step |-> s, mail |-> m, outcome |-> "SKIPPED"]
<1>1. m \in Everything
  BY AboutSendable
<1>2. r \in CallRecords
  BY <1>1 DEF CallRecords, Outcomes
<1>3. /\ call[c].step = "idle" /\ call' = [call EXCEPT ![c] = r]
      /\ UNCHANGED <<keys, lapsed, buffer, flush, mailed, batched, rows>>
  BY DEF Send
<1>4. r.mail = m /\ r.step = s
  OBVIOUS
<1> HIDE DEF r
<1>. QED
  BY <1>2, <1>3, <1>4 DEF TypeInv, MailTypes

LEMMA ProceedDoes ==
    ASSUME TypeInv, NEW c \in Calls, NEW step \in {"log", "post"},
           NEW outcome \in Outcomes, Proceed(c, step, outcome)
    PROVE  /\ call' \in [Calls -> CallRecords]
           /\ \A d \in Calls : d # c => call'[d] = call[d]
           /\ call'[c].mail = call[c].mail /\ call'[c].step = step
           /\ call'[c].outcome = outcome
  BY DEF Proceed, TypeInv, MailTypes, CallRecords

LEMMA QuietOK == Quiet \in CallRecords /\ Quiet.step = "idle"
  BY DEF Quiet, CallRecords, Everything, Outcomes

LEMMA FinishDoes ==
    ASSUME TypeInv, NEW c \in Calls, Finish(c)
    PROVE  /\ call' \in [Calls -> CallRecords]
           /\ \A d \in Calls : d # c => call'[d] = call[d]
           /\ call[c].step = "logged" /\ call'[c].step = "idle"
           /\ UNCHANGED <<keys, lapsed, buffer, flush, mailed, batched, rows>>
  BY QuietOK DEF Finish, TypeInv, MailTypes

LEMMA LogDoes ==
    ASSUME TypeInv, NEW c \in Calls, Log(c)
    PROVE  /\ call' \in [Calls -> CallRecords]
           /\ \A d \in Calls : d # c => call'[d] = call[d]
           /\ call[c].step = "log"
           /\ IF call[c].mail.event = "GoodsDisplayCampaign"
              THEN /\ call'[c].step = "logged" /\ call'[c].mail = call[c].mail
                   /\ call'[c].outcome = call[c].outcome
              ELSE call'[c].step = "idle"
           /\ rows' = rows \cup {<<call[c].mail, call[c].outcome>>}
           /\ UNCHANGED <<keys, lapsed, buffer, flush, mailed, batched, faults>>
<1> DEFINE r == [call[c] EXCEPT !.step = "logged"]
<1>1. /\ r \in CallRecords /\ r.step = "logged" /\ r.mail = call[c].mail
      /\ r.outcome = call[c].outcome
  BY DEF TypeInv, MailTypes, CallRecords
<1>2. /\ call[c].step = "log"
      /\ call' = [call EXCEPT ![c] = IF call[c].mail.event = "GoodsDisplayCampaign"
                                     THEN r ELSE Quiet]
      /\ rows' = rows \cup {<<call[c].mail, call[c].outcome>>}
      /\ UNCHANGED <<keys, lapsed, buffer, flush, mailed, batched, faults>>
  BY DEF Log
<1> HIDE DEF r
<1>. QED
  BY <1>1, <1>2, QuietOK DEF TypeInv, MailTypes

LEMMA CrashDoes ==
    ASSUME TypeInv, NotifierCrash
    PROVE  /\ call' \in [Calls -> CallRecords]
           /\ \A c \in Calls : call'[c].step = "idle"
           /\ flush' = NoBatch
           /\ UNCHANGED <<keys, lapsed, buffer, mailed, batched, rows>>
  BY QuietOK DEF NotifierCrash

LEMMA MailSteps ==
    ASSUME TypeInv, HandlersInv, CallsInv, Next
    PROVE  MailTypes' /\ CallsInv'
<1>a. MailTypes
  BY DEF TypeInv
<1>b. faults' \in Nat
  BY MailActs DEF TypeInv, MailTypes
<1>c. \A c \in Calls : CallOK(call[c])
  BY DEF CallsInv
<1>1. CASE UNCHANGED notifVars
  BY <1>a, <1>b, <1>1 DEF notifVars, MailTypes, CallsInv, CallOK
<1>2. ASSUME NEW c \in Calls, NEW m \in Sendable, Send(c, m)
      PROVE  MailTypes' /\ CallsInv'
  <2>1. MailTypes'
    BY <1>a, <1>b, <1>2, SendDoes DEF MailTypes
  <2>2. CallsInv'
    BY <1>c, <1>2, SendDoes, AboutSendable DEF CallsInv, CallOK
  <2>. QED
    BY <2>1, <2>2
<1>3. ASSUME NEW c \in Calls, Buffer(c)
      PROVE  MailTypes' /\ CallsInv'
  <2>1. /\ call' \in [Calls -> CallRecords]
        /\ \A d \in Calls : d # c => call'[d] = call[d]
        /\ call'[c].step = "log"
    BY <1>3, ProceedDoes DEF Buffer, Outcomes
  <2>2. buffer' \in [Regions -> Nat]
    BY <1>a, <1>3 DEF Buffer, MailTypes
  <2>3. MailTypes'
    BY <1>a, <1>b, <1>3, <2>1, <2>2 DEF MailTypes, Buffer
  <2>4. CallsInv'
    BY <1>c, <2>1 DEF CallsInv, CallOK
  <2>. QED
    BY <2>3, <2>4
<1>4. ASSUME NEW c \in Calls, Dedup(c)
      PROVE  MailTypes' /\ CallsInv'
  <2>1. /\ call' \in [Calls -> CallRecords]
        /\ \A d \in Calls : d # c => call'[d] = call[d]
        /\ call'[c].mail = call[c].mail
        /\ call[c].step = "dedup"
        /\ call'[c].step \in {"log", "post"}
    BY <1>4, ProceedDoes DEF Dedup, Outcomes
  <2>2. Correlated(call[c].mail) => Key(call[c].mail) \in AllKeys
    BY <1>c, <2>1 DEF CallOK, AllKeys
  <2>3. keys' \subseteq AllKeys /\ lapsed' \in [AllKeys -> Nat]
    BY <1>a, <1>4, <2>2 DEF Dedup, MailTypes
  <2>4. MailTypes'
    BY <1>a, <1>b, <1>4, <2>1, <2>3 DEF MailTypes, Dedup
  <2>5. CallsInv'
    BY <1>c, <2>1 DEF CallsInv, CallOK
  <2>. QED
    BY <2>4, <2>5
<1>5. ASSUME NEW c \in Calls, Post(c)
      PROVE  MailTypes' /\ CallsInv'
  <2>1. /\ call' \in [Calls -> CallRecords]
        /\ \A d \in Calls : d # c => call'[d] = call[d]
        /\ call'[c].step = "log"
    BY <1>5, ProceedDoes DEF Post, Outcomes
  <2>2. mailed' \in [Mails -> Nat]
    BY <1>a, <1>5 DEF Post, Taken, MailTypes
  <2>3. MailTypes'
    BY <1>a, <1>b, <1>5, <2>1, <2>2 DEF MailTypes, Post
  <2>4. CallsInv'
    BY <1>c, <2>1 DEF CallsInv, CallOK
  <2>. QED
    BY <2>3, <2>4
<1>6. ASSUME NEW c \in Calls, Log(c)
      PROVE  MailTypes' /\ CallsInv'
  <2>1. MailTypes'
    BY <1>a, <1>b, <1>6, LogDoes DEF MailTypes
  <2>2. CallsInv'
    BY <1>c, <1>6, LogDoes DEF CallsInv, CallOK
  <2>. QED
    BY <2>1, <2>2
<1>7. ASSUME NEW c \in Calls, Finish(c)
      PROVE  MailTypes' /\ CallsInv'
  <2>1. MailTypes'
    BY <1>a, <1>b, <1>7, FinishDoes DEF MailTypes
  <2>2. CallsInv'
    BY <1>c, <1>7, FinishDoes DEF CallsInv, CallOK
  <2>. QED
    BY <2>1, <2>2
<1>8. CASE Expire
  BY <1>a, <1>b, <1>8 DEF Expire, MailTypes, CallsInv, CallOK
<1>9. ASSUME NEW w \in Regions, FlushTake(w)
      PROVE  MailTypes' /\ CallsInv'
  BY <1>a, <1>9 DEF FlushTake, MailTypes, CallsInv, CallOK
<1>10. CASE FlushPost
  <2>1. batched' \in [Regions -> Nat]
    BY <1>a, <1>10 DEF FlushPost, MailTypes
  <2>. QED
    BY <1>a, <1>b, <1>10, <2>1, AboutConstants DEF FlushPost, MailTypes, CallsInv, CallOK
<1>11. CASE NotifierCrash
  <2>1. MailTypes'
    BY <1>a, <1>b, <1>11, CrashDoes, AboutConstants DEF MailTypes
  <2>2. CallsInv'
    BY <1>11, CrashDoes DEF CallsInv, CallOK
  <2>. QED
    BY <2>1, <2>2
<1>. QED
  BY MailActs, <1>1, <1>2, <1>3, <1>4, <1>5, <1>6, <1>7, <1>8, <1>9, <1>10, <1>11

\* Whoever loses a call from a set of calls, or wins one, or neither.
LEMMA Counted ==
    ASSUME NEW S \in SUBSET Calls
    PROVE  /\ Cardinality(S) \in Nat
           /\ \A c \in S : Cardinality(S \ {c}) = Cardinality(S) - 1
           /\ \A c \in Calls : c \notin S => Cardinality(S \cup {c}) = Cardinality(S) + 1
           /\ \A T \in SUBSET S : Cardinality(T) <= Cardinality(S)
<1>1. IsFiniteSet(S)
  BY FS_Subset, NotificationsAssumption
<1>. QED
  BY <1>1, FS_CardinalityType, FS_RemoveElement, FS_AddElement, FS_Subset

LEMMA KeysSteps ==
    ASSUME TypeInv, HandlersInv, CallsInv, KeysInv, Next
    PROVE  KeysInv'
<1> SUFFICES ASSUME NEW m \in Mails, Correlated(m), Mailable(m)
             PROVE  mailed'[m] + Cardinality(Posting(m)')
                       <= lapsed'[Key(m)] + IF Key(m) \in keys' THEN 1 ELSE 0
  BY DEF KeysInv
<1> DEFINE n == Cardinality(Posting(m))
           k == Key(m)
<1>a. /\ mailed[m] + n <= lapsed[k] + IF k \in keys THEN 1 ELSE 0
      /\ mailed \in [Mails -> Nat] /\ lapsed \in [AllKeys -> Nat] /\ k \in AllKeys
  BY DEF KeysInv, TypeInv, MailTypes, AllKeys
<1>b. /\ Posting(m) \in SUBSET Calls /\ n \in Nat
      /\ \A T \in SUBSET Posting(m) : Cardinality(T) <= n
  BY Counted DEF Posting
<1> HIDE DEF k
<1>c. ASSUME Posting(m)' \subseteq Posting(m), UNCHANGED <<mailed, lapsed, keys>>
      PROVE  mailed'[m] + Cardinality(Posting(m)') <= lapsed'[k] + IF k \in keys' THEN 1 ELSE 0
  <2>1. Cardinality(Posting(m)') <= n /\ Cardinality(Posting(m)') \in Nat
    BY <1>b, <1>c, Counted
  <2>2. /\ mailed'[m] = mailed[m] /\ lapsed'[k] = lapsed[k] /\ (k \in keys' <=> k \in keys)
        /\ mailed[m] \in Nat /\ lapsed[k] \in Nat
    BY <1>a, <1>c
  <2>3. n \in Nat
    BY <1>b
  <2> HIDE DEF n
  <2>. QED
    BY <1>a, <2>1, <2>2, <2>3
<1>1. CASE UNCHANGED notifVars
  <2>1. Posting(m)' \subseteq Posting(m) /\ UNCHANGED <<mailed, lapsed, keys>>
    BY <1>1 DEF notifVars, Posting
  <2>. QED
    BY <1>c, <2>1 DEF k
<1>2. ASSUME NEW c \in Calls, NEW x \in Sendable, Send(c, x)
      PROVE  Posting(m)' \subseteq Posting(m) /\ UNCHANGED <<mailed, lapsed, keys>>
  BY <1>2, SendDoes DEF Posting
<1>3. ASSUME NEW c \in Calls, Buffer(c)
      PROVE  Posting(m)' \subseteq Posting(m) /\ UNCHANGED <<mailed, lapsed, keys>>
  <2>1. /\ \A d \in Calls : d # c => call'[d] = call[d]
        /\ call'[c].step = "log"
    BY <1>3, ProceedDoes DEF Buffer, Outcomes
  <2>. QED
    BY <1>3, <2>1 DEF Buffer, Posting
<1>4. ASSUME NEW c \in Calls, Dedup(c)
      PROVE  mailed'[m] + Cardinality(Posting(m)') <= lapsed'[k] + IF k \in keys' THEN 1 ELSE 0
  <2>1. /\ \A d \in Calls : d # c => call'[d] = call[d]
        /\ call'[c].mail = call[c].mail
        /\ call[c].step = "dedup"
        /\ call'[c].step \in {"log", "post"}
    BY <1>4, ProceedDoes DEF Dedup, Outcomes
  <2>2. CASE call[c].mail = m /\ call'[c].step = "post"
    <3>1. Posting(m)' = Posting(m) \cup {c} /\ c \notin Posting(m)
      BY <2>1, <2>2 DEF Posting
    <3>2. Cardinality(Posting(m)') = n + 1
      BY <1>b, <3>1, Counted
    <3>3. \/ /\ k \notin keys /\ keys' = keys \cup {k} /\ UNCHANGED lapsed
          \/ /\ lapsed' = [lapsed EXCEPT ![k] = @ + 1] /\ UNCHANGED keys
      <4>1. ~Proceed(c, "log", "DEDUP")
        BY <2>2, ProceedDoes DEF Outcomes
      <4>. QED
        BY <1>4, <2>2, <4>1 DEF Dedup, k
    <3>4. UNCHANGED mailed
      BY <1>4 DEF Dedup
    <3> HIDE DEF n
    <3>. QED
      BY <1>a, <1>b, <3>2, <3>3, <3>4
  <2>3. CASE ~(call[c].mail = m /\ call'[c].step = "post")
    <3>1. Posting(m)' = Posting(m)
      BY <2>1, <2>3 DEF Posting
    <3>2. /\ UNCHANGED mailed
          /\ keys \subseteq keys'
          /\ \A x \in AllKeys : lapsed[x] <= lapsed'[x] /\ lapsed'[x] \in Nat
      BY <1>a, <1>4 DEF Dedup
    <3> HIDE DEF n
    <3>. QED
      BY <1>a, <1>b, <3>1, <3>2 DEF n
  <2>. QED
    BY <2>2, <2>3
<1>5. ASSUME NEW c \in Calls, Post(c)
      PROVE  mailed'[m] + Cardinality(Posting(m)') <= lapsed'[k] + IF k \in keys' THEN 1 ELSE 0
  <2>1. /\ \A d \in Calls : d # c => call'[d] = call[d]
        /\ call'[c].mail = call[c].mail
        /\ call[c].step = "post"
        /\ call'[c].step = "log"
    BY <1>5, ProceedDoes DEF Post, Outcomes
  <2>2. Posting(m)' = Posting(m) \ {c} /\ (c \in Posting(m) <=> call[c].mail = m)
    BY <2>1 DEF Posting
  <2>3. /\ UNCHANGED <<lapsed, keys>>
        /\ mailed' = mailed \/ mailed' = [mailed EXCEPT ![call[c].mail] = @ + 1]
    BY <1>5 DEF Post, Taken
  <2>4. CASE call[c].mail = m
    <3>1. Cardinality(Posting(m)') = n - 1
      BY <1>b, <2>2, <2>4, Counted
    <3>2. mailed'[m] = mailed[m] \/ mailed'[m] = mailed[m] + 1
      BY <1>a, <2>3, <2>4
    <3> HIDE DEF n
    <3>. QED
      BY <1>a, <1>b, <2>3, <3>1, <3>2
  <2>5. CASE call[c].mail # m
    <3>1. Posting(m)' = Posting(m) /\ mailed'[m] = mailed[m]
      BY <1>a, <2>2, <2>3, <2>5
    <3>. QED
      BY <1>a, <2>3, <3>1
  <2>. QED
    BY <2>4, <2>5
<1>6. ASSUME NEW c \in Calls, Log(c)
      PROVE  Posting(m)' \subseteq Posting(m) /\ UNCHANGED <<mailed, lapsed, keys>>
  BY <1>6, LogDoes DEF Posting
<1>7. ASSUME NEW c \in Calls, Finish(c)
      PROVE  Posting(m)' \subseteq Posting(m) /\ UNCHANGED <<mailed, lapsed, keys>>
  BY <1>7, FinishDoes DEF Posting
<1>8. CASE Expire
  <2>1. PICK x \in keys : keys' = keys \ {x} /\ lapsed' = [lapsed EXCEPT ![x] = @ + 1]
    BY <1>8 DEF Expire
  <2>2. Posting(m)' = Posting(m) /\ UNCHANGED mailed
    BY <1>8 DEF Expire, Posting
  <2>3. \/ x = k /\ lapsed'[k] = lapsed[k] + 1
        \/ x # k /\ lapsed'[k] = lapsed[k] /\ (k \in keys' <=> k \in keys)
    BY <1>a, <2>1
  <2>4. x = k => k \in keys
    BY <2>1
  <2>5. n \in Nat /\ mailed'[m] = mailed[m] /\ mailed[m] \in Nat /\ lapsed[k] \in Nat
    BY <1>a, <1>b, <2>2
  <2>6. Cardinality(Posting(m)') = n
    BY <2>2
  <2> HIDE DEF n
  <2>. QED
    BY <1>a, <2>3, <2>4, <2>5, <2>6 DEF k
<1>9. ASSUME NEW w \in Regions, FlushTake(w)
      PROVE  Posting(m)' \subseteq Posting(m) /\ UNCHANGED <<mailed, lapsed, keys>>
  BY <1>9 DEF FlushTake, Posting
<1>10. CASE FlushPost
  <2>1. Posting(m)' \subseteq Posting(m) /\ UNCHANGED <<mailed, lapsed, keys>>
    BY <1>10 DEF FlushPost, Posting
  <2>. QED
    BY <1>c, <2>1 DEF k
<1>11. CASE NotifierCrash
  <2>1. Posting(m)' \subseteq Posting(m) /\ UNCHANGED <<mailed, lapsed, keys>>
    BY <1>11, CrashDoes DEF Posting
  <2>. QED
    BY <1>c, <2>1 DEF k
<1>. QED
  BY MailActs, <1>c, <1>1, <1>2, <1>3, <1>4, <1>5, <1>6, <1>7, <1>8, <1>9, <1>10, <1>11
     DEF k

-----------------------------------------------------------------------------
(* Refused deliveries *)

LEMMA RefusalIsTold ==
    ASSUME NEW r \in HandlerRecords, HandlerOK(r), r.step # "tell"
    PROVE  RefusalMail \notin r.todo
<1>1. RefusalMail \notin CampaignMails
  <2>1. RefusalMail.event = "InboundRejected"
    BY DEF RefusalMail, Tell
  <2>2. \A m \in CampaignMails : m.event = "GoodsDisplayCampaign"
    BY DEF CampaignMails, CampaignMail
  <2>. QED
    BY <2>1, <2>2
<1>2. r.todo = {} \/ r.todo \subseteq CampaignMails
  <2>1. r.step \in Sending => r.todo \subseteq CampaignMails
    <3>1. r.step \in Sending =>
             /\ r.op \in Ops /\ r.op.kind = "send"
             /\ r.todo \subseteq {CampaignMail(r.op.id, b) : b \in Branches}
      BY DEF HandlerOK, Sending
    <3>2. r.step \in Sending => r.op.id \in Campaigns
      BY <3>1, AboutConstants DEF CampaignKinds
    <3>. QED
      BY <3>1, <3>2 DEF CampaignMails
  <2>2. r.step \notin Sending \cup {"tell"} =>
           r.todo = {} \/ r.todo \subseteq CampaignMails
    <3>1. r.step \in HandlerSteps
      BY DEF HandlerRecords
    <3>. QED
      BY <3>1 DEF HandlerOK, Sending, HandlerSteps
  <2>. QED
    BY <2>1, <2>2
<1>. QED
  BY <1>1, <1>2

LEMMA NotUntold ==
    ASSUME TypeInv, HandlersInv, NEW h \in Handlers, handler[h].step # "tell"
    PROVE  h \notin Untold
  BY RefusalIsTold DEF Untold, TypeInv, PeopleTypes, HandlersInv

\* The mails that are not refusals
LEMMA OtherMails ==
    /\ \A st : BookMail(st) # RefusalMail
    /\ SpikeMail # RefusalMail /\ ArrivalMail # RefusalMail /\ DayMail # RefusalMail
    /\ \A r : ReturnMail(r) # RefusalMail
<1>1. RefusalMail.event = "InboundRejected"
  BY DEF RefusalMail, Tell
<1>2. \A st : BookMail(st).event = "NewBookRequest"
  BY DEF BookMail, Tell
<1>3. SpikeMail.event = "SpikeUrgent"
  BY DEF SpikeMail, Tell
<1>4. ArrivalMail.event = "StockArrivalPending"
  BY DEF ArrivalMail, Tell
<1>5. DayMail.event = "DailyPlanFinalized"
  BY DEF DayMail, Tell
<1>6. \A r : ReturnMail(r).event = "ReturnPending"
  BY DEF ReturnMail, Tell
<1>. QED
  BY <1>1, <1>2, <1>3, <1>4, <1>5, <1>6

LEMMA UntoldSame ==
    ASSUME NEW h \in Handlers, h \notin Untold, RefusalMail \notin handler'[h].todo,
           \A f \in Handlers : f # h => handler'[f] = handler[f]
    PROVE  Untold' = Untold
  BY DEF Untold

\* Somebody has refused a delivery; no refusal moves; one is told; some get lost.
Refusing ==
    \E h \in Handlers :
        /\ h \notin Untold /\ Untold' = Untold \cup {h}
        /\ delivery = "APPROVED" /\ delivery' = "REJECTED"
        /\ UNCHANGED <<notifVars, faults>>

NoneTold ==
    /\ Untold' = Untold
    /\ delivery' = "REJECTED" <=> delivery = "REJECTED"
    /\ \A c \in Calls : call'[c].step = "buffer" => call[c].step = "buffer"

OneTold ==
    \E h \in Untold, c \in Calls :
        /\ Untold' = Untold \ {h}
        /\ Send(c, RefusalMail)
        /\ UNCHANGED <<delivery, faults>>

SomeLost ==
    /\ Untold' \subseteq Untold
    /\ faults' = faults + 1
    /\ UNCHANGED <<notifVars, delivery>>

LEMMA DoneUntold ==
    ASSUME TypeInv, HandlersInv, NEW h \in Handlers, handler[h].step # "tell",
           NEW mails, RefusalMail \notin mails, Done(h, mails)
    PROVE  Untold' = Untold
<1>1. h \notin Untold
  BY NotUntold
<1>2. PICK r \in HandlerRecords : Moved(h, r) /\ r.todo = mails \cap Mails
  BY DoneMoves
<1>3. handler'[h] = r /\ \A f \in Handlers : f # h => handler'[f] = handler[f]
  BY <1>2 DEF Moved, TypeInv, PeopleTypes
<1>. QED
  BY <1>1, <1>2, <1>3, UntoldSame

LEMMA ToUntold ==
    ASSUME TypeInv, HandlersInv, NEW h \in Handlers, handler[h].step # "tell",
           NEW step \in HandlerSteps, NEW result \in {"none", "ok", "refused"},
           To(h, step, result)
    PROVE  Untold' = Untold
<1>1. h \notin Untold
  BY NotUntold
<1>2. PICK r \in HandlerRecords : Moved(h, r) /\ r.todo = handler[h].todo
  BY ToMoves
<1>3. handler'[h] = r /\ \A f \in Handlers : f # h => handler'[f] = handler[f]
  BY <1>2 DEF Moved, TypeInv, PeopleTypes
<1>. QED
  BY <1>1, <1>2, <1>3, UntoldSame DEF Untold

LEMMA UntoldActs ==
    ASSUME TypeInv, HandlersInv, ClicksInv, CallsInv, Next
    PROVE  Refusing \/ NoneTold \/ OneTold \/ SomeLost
<1>. USE DEF NoneTold
<1>a. HandlersInv' /\ PeopleTypes'
  BY PeopleSteps
<1>b. ASSUME UNCHANGED <<handler, delivery>>
      PROVE  Untold' = Untold /\ (delivery' = "REJECTED" <=> delivery = "REJECTED")
  BY <1>b DEF Untold
<1>1. CASE \/ Job(Submit) \/ Job(JobList) \/ Job(JobUpdate) \/ Job(JobCommit) \/ Job(JobDies)
  BY <1>b, <1>1 DEF Job, Submit, JobList, JobUpdate, JobCommit, JobDies, gateVars, notifVars
<1>2. CASE Job(JobNotify)
  <2>1. UNCHANGED <<handler, delivery>>
    BY <1>2 DEF Job, JobNotify, gateVars
  <2>2. BookMail("DISCOVERED") \in Sendable /\ BookMail("DISCOVERED").event # "InboundRejected"
    BY DEF Sendable, BookMail, Tell
  <2>3. (\E c \in Calls : Send(c, BookMail("DISCOVERED"))) \/ UNCHANGED notifVars
    BY <1>2 DEF Job, JobNotify
  <2>4. \A c \in Calls : call'[c].step = "buffer" => call[c].step = "buffer"
    BY <2>2, <2>3, SendDoes DEF notifVars
  <2>. QED
    BY <1>b, <2>1, <2>4
<1>3. ASSUME NEW g \in Clicks, Ask(g) \/ Failing(g)
      PROVE  NoneTold
  BY <1>b, <1>3 DEF Ask, Failing, Quietly, Press, Fails, Tables, tableVars, notifVars
<1>4. ASSUME NEW g \in Clicks, Forward(g)
      PROVE  NoneTold
  <2>1. PICK h \in Handlers :
            handler[h].step = "idle" /\ Moved(h, [Rest EXCEPT !.step = "run", !.op = click[g].op])
    BY <1>4 DEF Forward, Quietly, Reach, Moved
  <2>2. /\ handler'[h].step = "run"
        /\ \A f \in Handlers : f # h => handler'[f] = handler[f]
    BY <2>1 DEF Moved, TypeInv, PeopleTypes, Rest
  <2>3. h \notin Untold /\ h \notin Untold'
    BY <1>a, <2>1, <2>2, NotUntold DEF Untold, HandlersInv, HandlerOK
  <2>4. Untold' = Untold
    BY <2>2, <2>3 DEF Untold
  <2>. QED
    BY <1>4, <2>4 DEF Forward, Quietly, Tables, tableVars, notifVars
<1>5. CASE ServiceDies
  <2>1. \A h \in Handlers : handler'[h].todo = {}
    BY <1>5 DEF ServiceDies, ServiceCrash, Rest
  <2>. QED
    BY <1>5, <2>1 DEF ServiceDies, Fault, Untold, Tables, tableVars, SomeLost
<1>6. CASE NotifierDies
  <2>1. \A h \in Handlers : handler'[h].todo = handler[h].todo
    BY <1>6 DEF NotifierDies, TypeInv, PeopleTypes, HandlerRecords
  <2>2. \A c \in Calls : call'[c].step = "idle"
    BY <1>6, CrashDoes DEF NotifierDies
  <2>. QED
    BY <1>6, <2>1, <2>2 DEF NotifierDies, Untold, Tables, tableVars
<1>7. ASSUME NEW h \in Handlers, Quietly(Respond(h))
      PROVE  NoneTold
  <2>1. handler[h].step = "respond" /\ Moved(h, Rest)
    BY <1>7 DEF Quietly, Respond, Moved
  <2>2. handler'[h].todo = {} /\ \A f \in Handlers : f # h => handler'[f] = handler[f]
    BY <2>1 DEF Moved, TypeInv, PeopleTypes, Rest
  <2>3. Untold' = Untold
    BY <2>1, <2>2, NotUntold, UntoldSame
  <2>. QED
    BY <1>7, <2>3 DEF Quietly, Tables, tableVars, notifVars
<1>8. ASSUME NEW h \in Handlers, Serves(h, ApproveBook(h)) \/ Serves(h, RejectBook(h))
      PROVE  NoneTold
  <2>1. handler[h].step = "run" /\ UNCHANGED <<delivery, call>>
    BY <1>8 DEF Serves, ApproveBook, RejectBook, Refuse, tableVars, notifVars
  <2>2. \/ Done(h, {BookMail("APPROVED")}) \/ Done(h, {BookMail("REJECTED")})
        \/ To(h, "respond", "refused")
    BY <1>8 DEF Serves, ApproveBook, RejectBook, Refuse
  <2>3. Untold' = Untold
    BY <2>1, <2>2, OtherMails, DoneUntold, ToUntold DEF HandlerSteps
  <2>. QED
    BY <2>1, <2>3
<1>9. ASSUME NEW h \in Handlers, Serves(h, ApproveSpike(h))
      PROVE  NoneTold
  <2>1. handler[h].step = "run" /\ UNCHANGED <<delivery, call>>
    BY <1>9 DEF Serves, ApproveSpike, Refuse, tableVars, notifVars
  <2>2. Done(h, {SpikeMail}) \/ To(h, "respond", "refused")
    BY <1>9 DEF Serves, ApproveSpike, Refuse
  <2>3. Untold' = Untold
    BY <2>1, <2>2, OtherMails, DoneUntold, ToUntold DEF HandlerSteps
  <2>. QED
    BY <2>1, <2>3
<1>10. ASSUME NEW h \in Handlers, Serves(h, AskReturn(h)) \/ Serves(h, DecideReturn(h))
       PROVE  NoneTold
  <2>1. handler[h].step = "run" /\ UNCHANGED <<delivery, call>>
    BY <1>10 DEF Serves, AskReturn, DecideReturn, Refuse, tableVars, notifVars
  <2>2. \/ \E r \in Returns : Done(h, {ReturnMail(r)})
        \/ Done(h, {})
        \/ To(h, "respond", "refused")
    BY <1>10 DEF Serves, AskReturn, DecideReturn, Refuse
  <2>3. Untold' = Untold
    BY <2>1, <2>2, OtherMails, DoneUntold, ToUntold DEF HandlerSteps
  <2>. QED
    BY <2>1, <2>3
<1>11. ASSUME NEW h \in Handlers, Serves(h, LookAtDelivery(h)) \/ Serves(h, LookAtFlag(h))
       PROVE  NoneTold
  <2>1. handler[h].step = "run" /\ UNCHANGED <<delivery, call>>
    BY <1>11 DEF Serves, LookAtDelivery, LookAtFlag, tableVars, notifVars
  <2>2. \E step \in {"update", "respond", "flag"}, result \in {"ok", "refused"} :
            To(h, step, result)
    BY <1>11 DEF Serves, LookAtDelivery, LookAtFlag
  <2>3. Untold' = Untold
    BY <2>1, <2>2, ToUntold DEF HandlerSteps
  <2>. QED
    BY <2>1, <2>3
<1>12. ASSUME NEW h \in Handlers, Goes(UpdateDelivery(h))
       PROVE  NoneTold \/ Refusing
  <2>1. handler[h].step = "update" /\ UNCHANGED <<notifVars, faults>>
    BY <1>12 DEF Goes, UpdateDelivery
  <2>2. \/ Done(h, {ArrivalMail}) /\ delivery' = "EXECUTED" /\ delivery \in {"APPROVED", "EXECUTED"}
        \/ Done(h, {RefusalMail}) /\ delivery' = "REJECTED" /\ delivery = "APPROVED"
        \/ To(h, "respond", "refused") /\ UNCHANGED delivery
    BY <1>12 DEF Goes, UpdateDelivery, Refuse, tableVars
  <2>3. CASE Done(h, {ArrivalMail}) \/ To(h, "respond", "refused")
    <3>1. Untold' = Untold
      BY <2>1, <2>3, OtherMails, DoneUntold, ToUntold DEF HandlerSteps
    <3>2. delivery' = "REJECTED" <=> delivery = "REJECTED"
      <4>1. ~Done(h, {RefusalMail}) \/ UNCHANGED delivery \/ delivery' = "EXECUTED"
        <5>1. SUFFICES ASSUME Done(h, {RefusalMail})
                       PROVE  FALSE
          OBVIOUS
        <5>2. PICK r \in HandlerRecords : Moved(h, r) /\ r.todo = {RefusalMail} \cap Mails
          BY <5>1, DoneMoves
        <5>3. h \in Untold'
          BY <5>2, AboutConstants DEF Moved, TypeInv, PeopleTypes, Untold
        <5>. QED
          BY <2>1, <3>1, <5>3, NotUntold
      <4>. QED
        BY <2>2, <4>1
    <3>. QED
      BY <2>1, <3>1, <3>2 DEF notifVars
  <2>4. CASE Done(h, {RefusalMail}) /\ delivery' = "REJECTED" /\ delivery = "APPROVED"
    <3>1. PICK r \in HandlerRecords : Moved(h, r) /\ r.todo = {RefusalMail} \cap Mails
      BY <2>4, DoneMoves
    <3>2. RefusalMail \in handler'[h].todo /\ \A f \in Handlers : f # h => handler'[f] = handler[f]
      BY <3>1, AboutConstants DEF Moved, TypeInv, PeopleTypes
    <3>3. h \notin Untold /\ Untold' = Untold \cup {h}
      BY <2>1, <3>2, NotUntold DEF Untold
    <3>. QED
      BY <2>1, <2>4, <3>3 DEF Refusing
  <2>. QED
    BY <2>2, <2>3, <2>4
<1>13. ASSUME NEW h \in Handlers, Goes(SetFlag(h))
       PROVE  NoneTold
  <2>1. handler[h].step = "flag" /\ UNCHANGED <<delivery, call>> /\ Done(h, {DayMail})
    BY <1>13 DEF Goes, SetFlag, tableVars, notifVars
  <2>2. Untold' = Untold
    BY <2>1, OtherMails, DoneUntold
  <2>. QED
    BY <2>1, <2>2
<1>14. ASSUME NEW h \in Handlers, Goes(TellAll(h))
       PROVE  NoneTold \/ OneTold \/ SomeLost
  <2>1. handler[h].step = "tell" /\ UNCHANGED delivery
    BY <1>14 DEF Goes, TellAll, tableVars
  <2>2. CASE /\ handler[h].todo = {} /\ To(h, "respond", "ok")
             /\ UNCHANGED <<notifVars, faults>>
    <3>1. PICK r \in HandlerRecords : Moved(h, r) /\ r.todo = handler[h].todo
      BY <2>2, ToMoves DEF HandlerSteps
    <3>2. Untold' = Untold
      BY <2>2, <3>1 DEF Moved, TypeInv, PeopleTypes, Untold
    <3>. QED
      BY <2>1, <2>2, <3>2 DEF notifVars
  <2>3. ASSUME NEW m \in handler[h].todo,
               handler' = [handler EXCEPT ![h].todo = @ \ {m}],
               \/ (\E c \in Calls : Send(c, m)) /\ UNCHANGED faults
               \/ Fault /\ UNCHANGED notifVars
        PROVE  NoneTold \/ OneTold \/ SomeLost
    <3>1. /\ handler'[h].todo = handler[h].todo \ {m}
          /\ \A f \in Handlers : f # h => handler'[f] = handler[f]
      BY <2>3 DEF TypeInv, PeopleTypes, HandlerRecords
    <3>2. Untold' = IF m = RefusalMail THEN Untold \ {h} ELSE Untold
      BY <3>1 DEF Untold
    <3>3. m = RefusalMail => h \in Untold
      BY DEF Untold
    <3>4. m \in Sendable
      BY <2>1 DEF HandlersInv, HandlerOK, Sendable
    <3>5. CASE Fault /\ UNCHANGED notifVars
      BY <2>1, <3>2, <3>5 DEF Fault, SomeLost
    <3>6. ASSUME NEW c \in Calls, Send(c, m), UNCHANGED faults
          PROVE  NoneTold \/ OneTold
      <4>1. CASE m = RefusalMail
        BY <2>1, <3>2, <3>3, <3>6, <4>1 DEF OneTold
      <4>2. CASE m # RefusalMail
        <5>1. \A d \in Calls : call'[d].step = "buffer" => call[d].step = "buffer"
          BY <3>4, <3>6, <4>2, SendDoes, AboutSendable
        <5>. QED
          BY <2>1, <3>2, <4>2, <5>1
      <4>. QED
        BY <4>1, <4>2
    <3>. QED
      BY <2>3, <3>5, <3>6
  <2>. QED
    BY <1>14, <2>2, <2>3 DEF Goes, TellAll
<1>15. ASSUME NEW h \in Handlers,
              \/ Runs(Create(h)) \/ Runs(Recommend(h)) \/ Runs(Patch(h))
              \/ Runs(Delete(h)) \/ Runs(Begin(h)) \/ Runs(Close(h))
              \/ Advising(h) \/ Mailing(h) \/ Hearing(h)
       PROVE  NoneTold
  <2>1. handler[h].step # "tell"
    BY <1>15 DEF Runs, Create, Recommend, Patch, Delete, Begin, Close, Asked, Advising,
       Advise, Mailing, Mail, Hearing, Answered
  <2>2. handler'[h].step # "tell"
    <3>1. ASSUME NEW step, NEW result, To(h, step, result), step # "tell"
          PROVE  handler'[h].step # "tell"
      BY <3>1 DEF To, TypeInv, PeopleTypes, HandlerRecords
    <3>2. ASSUME NEW outcome, Stored(h, outcome)
          PROVE  handler'[h].step # "tell"
      BY <3>2 DEF Stored, TypeInv, PeopleTypes, HandlerRecords
    <3>3. CASE Runs(Create(h)) \/ Runs(Recommend(h)) \/ Runs(Patch(h)) \/ Runs(Delete(h))
      BY <3>1, <3>3 DEF Runs, Create, Recommend, Patch, Delete, Turned
    <3>4. CASE Runs(Begin(h))
      BY <3>1, <3>4 DEF Runs, Begin, Turned, TypeInv, PeopleTypes, HandlerRecords
    <3>5. CASE Runs(Close(h))
      BY <3>5 DEF Runs, Close, TypeInv, PeopleTypes, HandlerRecords
    <3>6. CASE Advising(h)
      BY <3>1, <3>6 DEF Advising, Advise, Turned
    <3>7. CASE Mailing(h)
      BY <3>2, <3>7 DEF Mailing, Mail, TypeInv, PeopleTypes, HandlerRecords
    <3>8. CASE Hearing(h)
      BY <3>2, <3>8 DEF Hearing, Answered
    <3>. QED
      BY <1>15, <3>3, <3>4, <3>5, <3>6, <3>7, <3>8
  <2>3. \A f \in Handlers : f # h => handler'[f] = handler[f]
    BY <1>15, CampaignMoves DEF Moves, Moved, TypeInv, PeopleTypes
  <2>4. h \notin Untold'
    BY <1>a, <2>2, RefusalIsTold DEF PeopleTypes, HandlersInv, HandlerOK, Untold
  <2>5. Untold' = Untold
    BY <2>1, <2>3, <2>4, NotUntold DEF Untold
  <2>6. UNCHANGED delivery
    BY <1>15 DEF Runs, Advising, Mailing, Hearing, tableVars
  <2>7. \A c \in Calls : call'[c].step = "buffer" => call[c].step = "buffer"
    <3>1. CASE UNCHANGED notifVars
      BY <3>1 DEF notifVars
    <3>2. CASE \E c \in Calls : Finish(c)
      BY <3>2, FinishDoes
    <3>3. CASE \E c \in Calls : Send(c, NextMail(h)) /\ Mailing(h)
      <4>1. NextMail(h) \in Sendable /\ NextMail(h) \in CampaignMails
        BY <3>3, InHand DEF Mailing, Mail, Sendable, Sending
      <4>2. NextMail(h).event # "InboundRejected"
        BY <4>1, AboutSendable
      <4>. QED
        BY <3>3, <4>1, <4>2, SendDoes
    <3>4. handler[h].step = "wait" => handler[h].at \in Calls
      BY DEF HandlersInv, HandlerOK
    <3>. QED
      BY <1>15, <3>1, <3>2, <3>3, <3>4 DEF Runs, Advising, Mailing, Mail, Hearing, Answered
  <2>. QED
    BY <2>5, <2>6, <2>7
<1>16. ASSUME NEW c \in Calls,
              \/ Background(Buffer(c)) \/ Background(Dedup(c)) \/ Background(Post(c))
              \/ Background(Log(c)) \/ Background(Unheard(c))
       PROVE  NoneTold
  <2>1. UNCHANGED <<handler, delivery>>
    BY <1>16 DEF Background, Tables, tableVars, gateVars
  <2>2. CASE Background(Buffer(c)) \/ Background(Dedup(c)) \/ Background(Post(c))
    BY <1>b, <2>1, <2>2, ProceedDoes DEF Background, Buffer, Dedup, Post, Outcomes
  <2>3. CASE Background(Log(c)) \/ Background(Unheard(c))
    BY <1>b, <2>1, <2>3, LogDoes, FinishDoes DEF Background, Unheard
  <2>. QED
    BY <1>16, <2>2, <2>3
<1>17. CASE \/ Background(Expire) \/ Background(FlushPost)
            \/ \E w \in Regions : Background(FlushTake(w))
  <2>1. UNCHANGED <<handler, delivery, call>>
    BY <1>17 DEF Background, Tables, tableVars, gateVars, Expire, FlushPost, FlushTake
  <2>. QED
    BY <1>b, <2>1
<1>. QED
  BY Steps, <1>1, <1>2, <1>3, <1>4, <1>5, <1>6, <1>7, <1>8, <1>9, <1>10, <1>11, <1>12,
     <1>13, <1>14, <1>15, <1>16, <1>17


LEMMA CountedHandlers ==
    ASSUME NEW S \in SUBSET Handlers
    PROVE  /\ Cardinality(S) \in Nat
           /\ \A h \in S : Cardinality(S \ {h}) = Cardinality(S) - 1
           /\ \A h \in Handlers : h \notin S => Cardinality(S \cup {h}) = Cardinality(S) + 1
           /\ \A T \in SUBSET S : Cardinality(T) <= Cardinality(S)
<1>1. IsFiniteSet(S)
  BY FS_Subset, GatewayAssumption
<1>. QED
  BY <1>1, FS_CardinalityType, FS_RemoveElement, FS_AddElement, FS_Subset

InFlush == IF flush.region = RefusalMail.region THEN flush.n ELSE 0

\* The refusals that notification-svc has.
Arrived ==
    Cardinality(Unkept) + buffer[RefusalMail.region] + batched[RefusalMail.region] + InFlush

LEMMA ArrivedTypes ==
    ASSUME MailTypes
    PROVE  /\ Cardinality(Unkept) \in Nat /\ buffer[RefusalMail.region] \in Nat
           /\ batched[RefusalMail.region] \in Nat /\ InFlush \in Nat
           /\ flush.n \in Nat /\ flush.region \in Regions /\ RefusalMail.region \in Regions
  BY AboutConstants, Counted DEF MailTypes, Unkept, InFlush

LEMMA RejectionsCounted ==
    ASSUME TypeInv
    PROVE  RejectionsAccounted <=>
              LET there == Cardinality(Untold) + Arrived
                  made  == IF delivery = "REJECTED" THEN 1 ELSE 0
              IN  there <= made /\ (faults = 0 => there = made)
<1> DEFINE w == RefusalMail.region
           k == Cardinality(Untold)
<1>1. /\ Cardinality(Unkept) \in Nat /\ buffer[w] \in Nat /\ batched[w] \in Nat
      /\ InFlush \in Nat /\ k \in Nat
  BY ArrivedTypes, CountedHandlers DEF TypeInv, Untold
<1>2. k + Cardinality(Unkept) + buffer[w] + batched[w] + InFlush = k + Arrived
  BY <1>1 DEF Arrived
<1>. QED
  BY <1>2 DEF RejectionsAccounted, Untold, Unkept, InFlush

\* What notification-svc does with the refusals that it has.
LEMMA ArrivedMoves ==
    ASSUME TypeInv, HandlersInv, CallsInv, MailTypes', Next,
           \A c \in Calls : call'[c].step = "buffer" => call[c].step = "buffer"
    PROVE  /\ Arrived \in Nat /\ Arrived' \in Nat /\ Arrived' <= Arrived
           /\ faults' = faults => Arrived' = Arrived
<1> DEFINE w == RefusalMail.region
           k == Cardinality(Unkept)
           j == Cardinality(Unkept')
<1>0. /\ k \in Nat /\ buffer[w] \in Nat /\ batched[w] \in Nat /\ InFlush \in Nat
      /\ flush.n \in Nat /\ flush.region \in Regions /\ w \in Regions
      /\ buffer \in [Regions -> Nat] /\ batched \in [Regions -> Nat]
  BY ArrivedTypes DEF TypeInv, MailTypes
<1>1. /\ j \in Nat /\ buffer'[w] \in Nat /\ batched'[w] \in Nat /\ InFlush' \in Nat
  <2>1. j \in Nat
    BY Counted DEF Unkept
  <2>. QED
    BY <1>0, <2>1 DEF MailTypes, InFlush
<1>2. Unkept' \subseteq Unkept /\ j <= k
  <2>1. Unkept' \subseteq Unkept
    BY DEF Unkept
  <2>. QED
    BY <2>1, Counted DEF Unkept
<1>3. faults \in Nat
  BY DEF TypeInv, MailTypes
<1>4. Arrived = k + buffer[w] + batched[w] + InFlush
  BY DEF Arrived
<1>5. Arrived' = j + buffer'[w] + batched'[w] + InFlush'
  BY DEF Arrived
<1>6. SUFFICES /\ j + buffer'[w] + batched'[w] + InFlush' <= k + buffer[w] + batched[w] + InFlush
               /\ faults' = faults =>
                    j + buffer'[w] + batched'[w] + InFlush' = k + buffer[w] + batched[w] + InFlush
  <2> HIDE DEF w, k, j
  <2>. QED
    BY <1>0, <1>1, <1>4, <1>5
<1> DEFINE Fine == /\ j + buffer'[w] + batched'[w] + InFlush' <= k + buffer[w] + batched[w] + InFlush
                   /\ faults' = faults =>
                        j + buffer'[w] + batched'[w] + InFlush' = k + buffer[w] + batched[w] + InFlush
<1>7. ASSUME Unkept' = Unkept, UNCHANGED <<buffer, batched, flush>>
      PROVE  Fine
  BY <1>0, <1>7 DEF InFlush
<1>8. ASSUME UNCHANGED notifVars
      PROVE  Fine
  BY <1>7, <1>8 DEF notifVars, Unkept
<1>9. ASSUME NEW c \in Calls, NEW m \in Sendable, Send(c, m)
      PROVE  Fine
  <2>1. Unkept' = Unkept
    BY <1>9, SendDoes DEF Unkept
  <2>. QED
    BY <1>7, <1>9, <2>1, SendDoes
<1>10. ASSUME NEW c \in Calls, Buffer(c)
       PROVE  Fine
  <2>1. /\ \A d \in Calls : d # c => call'[d] = call[d]
        /\ call[c].step = "buffer"
        /\ call'[c].step = "log"
    BY <1>10, ProceedDoes DEF Buffer, Outcomes
  <2>2. Unkept' = Unkept \ {c} /\ c \in Unkept /\ Unkept \in SUBSET Calls
    BY <2>1 DEF Unkept
  <2>3. j = k - 1
    BY <2>2, Counted
  <2>4. call[c].mail = RefusalMail
    BY <2>1 DEF CallsInv, CallOK
  <2>5. \/ buffer'[w] = buffer[w] + 1
        \/ buffer'[w] = buffer[w] /\ faults' = faults + 1
    BY <1>0, <1>10, <2>4 DEF Buffer, Fault
  <2>6. batched'[w] = batched[w] /\ InFlush' = InFlush
    BY <1>10 DEF Buffer, InFlush
  <2> HIDE DEF w, k, j
  <2>. QED
    BY <1>0, <1>1, <1>3, <2>3, <2>5, <2>6
<1>11. ASSUME NEW c \in Calls, Dedup(c) \/ Post(c)
       PROVE  Fine
  <2>1. /\ \A d \in Calls : d # c => call'[d] = call[d]
        /\ call[c].step # "buffer" /\ call'[c].step # "buffer"
    BY <1>11, ProceedDoes DEF Dedup, Post, Outcomes
  <2>2. Unkept' = Unkept
    BY <2>1 DEF Unkept
  <2>. QED
    BY <1>7, <1>11, <2>2 DEF Dedup, Post
<1>12. ASSUME NEW c \in Calls, Log(c) \/ Finish(c)
       PROVE  Fine
  <2>1. /\ \A d \in Calls : d # c => call'[d] = call[d]
        /\ call[c].step # "buffer" /\ call'[c].step # "buffer"
        /\ UNCHANGED <<buffer, batched, flush>>
    BY <1>12, LogDoes, FinishDoes
  <2>2. Unkept' = Unkept
    BY <2>1 DEF Unkept
  <2>. QED
    BY <1>7, <2>1, <2>2
<1>13. ASSUME Expire
       PROVE  Fine
  BY <1>7, <1>13 DEF Expire, Unkept
<1>14. ASSUME NEW v \in Regions, FlushTake(v)
       PROVE  Fine
  <2>1. j = k /\ batched'[w] = batched[w]
    BY <1>14 DEF FlushTake, Unkept
  <2>2. InFlush = 0
    BY <1>0, <1>14 DEF FlushTake, InFlush
  <2>3. buffer'[w] = (IF v = w THEN 0 ELSE buffer[w])
    BY <1>0, <1>14 DEF FlushTake
  <2>4. InFlush' = (IF v = w THEN buffer[w] ELSE 0)
    BY <1>0, <1>14 DEF FlushTake, InFlush
  <2> HIDE DEF w, k, j
  <2>. QED
    BY <1>0, <2>1, <2>2, <2>3, <2>4
<1>15. ASSUME FlushPost
       PROVE  Fine
  <2>1. j = k /\ buffer'[w] = buffer[w]
    BY <1>15 DEF FlushPost, Unkept
  <2>2. InFlush' = 0
    BY <1>15 DEF FlushPost, InFlush, NoBatch
  <2>3. \/ batched'[w] = batched[w] + InFlush
        \/ batched'[w] = batched[w] /\ faults' = faults + 1
    BY <1>0, <1>15 DEF FlushPost, InFlush, Fault
  <2> HIDE DEF w, k, j
  <2>. QED
    BY <1>0, <1>3, <2>1, <2>2, <2>3
<1>16. ASSUME NotifierCrash
       PROVE  Fine
  <2>1. faults' = faults + 1 /\ buffer'[w] = buffer[w] /\ batched'[w] = batched[w]
    BY <1>16 DEF NotifierCrash, Fault
  <2>2. InFlush' = 0
    BY <1>16 DEF NotifierCrash, InFlush, NoBatch
  <2> HIDE DEF w, k, j
  <2>. QED
    BY <1>0, <1>1, <1>2, <1>3, <2>1, <2>2
<1>17. Fine
  <2> HIDE DEF Fine
  <2>. QED
    BY MailActs, <1>8, <1>9, <1>10, <1>11, <1>12, <1>13, <1>14, <1>15, <1>16
<1>. QED
  BY <1>17 DEF Fine

LEMMA RefusalSteps ==
    ASSUME TypeInv, HandlersInv, ClicksInv, CallsInv, RejectionsAccounted, Next
    PROVE  RejectionsAccounted'
<1> DEFINE k == Cardinality(Untold)
           j == Cardinality(Untold')
           made == IF delivery = "REJECTED" THEN 1 ELSE 0
           new == IF delivery' = "REJECTED" THEN 1 ELSE 0
<1>1. MailTypes'
  BY MailSteps
<1>2. faults \in Nat /\ (faults' = faults \/ faults' = faults + 1)
  BY MailActs DEF TypeInv, MailTypes
<1>3. k + Arrived <= made /\ (faults = 0 => k + Arrived = made)
  BY RejectionsCounted
<1>4. k \in Nat /\ j \in Nat
  BY CountedHandlers DEF Untold
<1>6. /\ Arrived \in Nat /\ Arrived' \in Nat
      /\ j + Cardinality(Unkept') + buffer'[RefusalMail.region]
           + batched'[RefusalMail.region] + InFlush' = j + Arrived'
  <2>1. Arrived \in Nat
    BY ArrivedTypes DEF TypeInv, Arrived
  <2>2. /\ Cardinality(Unkept') \in Nat /\ buffer'[RefusalMail.region] \in Nat
        /\ batched'[RefusalMail.region] \in Nat /\ InFlush' \in Nat
    BY <1>1, AboutConstants, Counted DEF MailTypes, Unkept, InFlush
  <2>. QED
    BY <1>4, <2>1, <2>2 DEF Arrived
<1>5. SUFFICES j + Arrived' <= new /\ (faults' = 0 => j + Arrived' = new)
  BY <1>6 DEF RejectionsAccounted, Untold, Unkept, InFlush
<1>7. CASE Refusing
  <2>1. PICK h \in Handlers :
            /\ h \notin Untold /\ Untold' = Untold \cup {h}
            /\ delivery = "APPROVED" /\ delivery' = "REJECTED"
            /\ UNCHANGED <<notifVars, faults>>
    BY <1>7 DEF Refusing
  <2>2. j = k + 1
    <3>1. Untold \in SUBSET Handlers
      BY DEF Untold
    <3>. QED
      BY <2>1, <3>1, CountedHandlers
  <2>3. Arrived' = Arrived
    BY <2>1 DEF Arrived, Unkept, InFlush, notifVars
  <2>4. made = 0 /\ new = 1 /\ faults' = faults
    BY <2>1
  <2> HIDE DEF k, j, made, new
  <2>. QED
    BY <1>3, <1>4, <1>6, <2>2, <2>3, <2>4
<1>8. CASE NoneTold
  <2>1. j = k /\ made = new
    BY <1>8 DEF NoneTold
  <2>2. Arrived' <= Arrived /\ (faults' = faults => Arrived' = Arrived)
    BY <1>1, <1>8, ArrivedMoves DEF NoneTold
  <2>3. made \in Nat
    OBVIOUS
  <2>4. faults' = 0 => faults = 0 /\ faults' = faults
    BY <1>2
  <2>5. Arrived \in Nat /\ Arrived' \in Nat
    BY <1>6
  <2> HIDE DEF k, j, made, new
  <2>a. j <= k
    BY <1>4, <2>1
  <2>b. Arrived' <= Arrived
    BY <2>2
  <2>c. k + Arrived <= new /\ new \in Nat
    BY <1>3, <2>1, <2>3
  <2>6. j + Arrived' <= new
    <3>1. \A a, b, c, d, n \in Int : a <= b /\ c <= d /\ b + d <= n => a + c <= n
      OBVIOUS
    <3>2. j \in Int /\ k \in Int /\ Arrived \in Int /\ Arrived' \in Int /\ new \in Int
      BY <1>4, <2>5, <2>c
    <3>. QED
      BY <2>a, <2>b, <2>c, <3>1, <3>2, Zenon
  <2>7. faults' = 0 => j + Arrived' = new
    BY <1>3, <2>1, <2>2, <2>4
  <2>. QED
    BY <2>6, <2>7
<1>9. CASE OneTold
  <2>1. PICK h \in Untold, c \in Calls :
            /\ Untold' = Untold \ {h}
            /\ Send(c, RefusalMail)
            /\ UNCHANGED <<delivery, faults>>
    BY <1>9 DEF OneTold
  <2>2. j = k - 1
    <3>1. Untold \in SUBSET Handlers
      BY DEF Untold
    <3>. QED
      BY <2>1, <3>1, CountedHandlers
  <2>3. Arrived' = Arrived + 1
    <3>1. RefusalMail \in Sendable /\ RefusalMail.event = "InboundRejected"
      <4>1. RefusalMail \in RequestMails \cap Mails
        BY AboutConstants DEF RequestMails
      <4>. QED
        BY <4>1 DEF Sendable, RefusalMail, Tell
    <3>2. /\ \A d \in Calls : d # c => call'[d] = call[d]
          /\ call[c].step = "idle" /\ call'[c].step = "buffer"
          /\ UNCHANGED <<buffer, flush, batched>>
      BY <2>1, <3>1, SendDoes
    <3>3. Unkept' = Unkept \cup {c} /\ c \notin Unkept /\ Unkept \in SUBSET Calls
      BY <3>2 DEF Unkept
    <3>4. Cardinality(Unkept') = Cardinality(Unkept) + 1
      BY <3>3, Counted
    <3>5. InFlush' = InFlush
      BY <3>2 DEF InFlush
    <3>. QED
      BY <3>2, <3>4, <3>5, ArrivedTypes DEF Arrived, TypeInv
  <2>4. made = new /\ faults' = faults /\ made \in Nat
    BY <2>1
  <2> HIDE DEF k, j, made, new
  <2>. QED
    BY <1>3, <1>4, <1>6, <2>2, <2>3, <2>4
<1>10. CASE SomeLost
  <2>1. j <= k
    <3>1. Untold \in SUBSET Handlers
      BY DEF Untold
    <3>. QED
      BY <1>10, <3>1, CountedHandlers DEF SomeLost
  <2>2. Arrived' = Arrived
    BY <1>10 DEF SomeLost, Arrived, Unkept, InFlush, notifVars
  <2>3. made = new /\ faults' = faults + 1 /\ made \in Nat
    BY <1>10 DEF SomeLost
  <2> HIDE DEF k, j, made, new
  <2>. QED
    BY <1>2, <1>3, <1>4, <1>6, <2>1, <2>2, <2>3
<1>. QED
  BY UntoldActs, <1>7, <1>8, <1>9, <1>10

-----------------------------------------------------------------------------
(* Shares *)

LEMMA Division ==
    ASSUME NEW a \in Nat, NEW n \in Nat \ {0}
    PROVE  /\ a \div n \in Nat
           /\ (a \div n) * n <= a
           /\ a < (a \div n) * n + n
  BY Z3

LEMMA NextMultiple ==
    ASSUME NEW k \in Nat, NEW b \in Nat
    PROVE  /\ (k + 1) * b = k * b + b /\ k * b \in Nat /\ 0 * b = 0
           /\ k * b = b * k
  BY Z3

\* What the first stores get together
LEMMA FirstShares ==
    ASSUME NEW b \in Nat, NEW extra \in Nat, NEW n \in Nat,
           NEW F, \A i \in 1 .. n : F[i] = IF i <= extra THEN b + 1 ELSE b
    PROVE  Sum(F, 1 .. n) = n * b + IF n <= extra THEN n ELSE extra
<1> DEFINE S(k) == k * b + IF k <= extra THEN k ELSE extra
           Q == {k \in Nat : k <= n => Sum(F, 1 .. k) = S(k)}
<1>1. 0 \in Q
  <2>1. Sum(F, 1 .. 0) = 0
    <3>1. 1 .. 0 = {}
      OBVIOUS
    <3>. QED
      BY <3>1, SumEmpty
  <2>2. S(0) = 0
    BY NextMultiple
  <2>. QED
    BY <2>1, <2>2
<1>2. ASSUME NEW k \in Nat, k \in Q
      PROVE  k + 1 \in Q
  <2>1. SUFFICES ASSUME k + 1 <= n
                 PROVE  Sum(F, 1 .. k + 1) = S(k + 1)
    OBVIOUS
  <2>2. Sum(F, 1 .. k) = S(k)
    BY <1>2, <2>1
  <2>3. Sum(F, 1 .. k + 1) = F[k + 1] + Sum(F, 1 .. k)
    <3>1. 1 .. k + 1 = (1 .. k) \cup {k + 1} /\ k + 1 \notin 1 .. k
      OBVIOUS
    <3>2. \A y \in (1 .. k) \cup {k + 1} : F[y] \in Int
      BY <2>1, <3>1
    <3>3. IsFiniteSet(1 .. k)
      BY FS_Interval
    <3>. QED
      BY <3>1, <3>2, <3>3, SumAdd
  <2>4. F[k + 1] = IF k + 1 <= extra THEN b + 1 ELSE b
    BY <2>1
  <2>5. (k + 1) * b = k * b + b /\ k * b \in Nat
    BY NextMultiple
  <2>6. Sum(F, 1 .. k) = k * b + IF k <= extra THEN k ELSE extra
    BY <2>2
  <2>7. F[k + 1] + Sum(F, 1 .. k) = (k + 1) * b + IF k + 1 <= extra THEN k + 1 ELSE extra
    BY <2>4, <2>5, <2>6
  <2>. QED
    BY <2>3, <2>7
<1>3. Nat \subseteq Q
  <2> HIDE DEF Q
  <2>. QED
    BY <1>1, <1>2, ByNumbers
<1>. QED
  BY <1>3

LEMMA ShareTypes ==
    ASSUME NEW qty \in Nat, NEW n \in Nat \ {0}
    PROVE  \A i \in 1 .. n : Share(qty, i, n) \in Nat
<1>1. qty \div n \in Nat
  BY Division
<1>. QED
  BY <1>1 DEF Share

LEMMA SumSplit ==
    ASSUME NEW U, IsFiniteSet(U), NEW S \in SUBSET U, NEW F, \A x \in U : F[x] \in Int
    PROVE  Sum(F, U) = Sum(F, S) + Sum(F, U \ S)
<1>1. IsFiniteSet(S) /\ IsFiniteSet(U \ S) /\ U = S \cup (U \ S) /\ S \cap (U \ S) = {}
  BY FS_Subset
<1>. QED
  BY <1>1, SumUnion

\* The stores get what there is.
LEMMA SharesAddUp ==
    ASSUME NEW qty \in Nat, NEW n \in Nat \ {0}
    PROVE  Quantity([i \in Served(qty, n) |-> Share(qty, i, n)]) = qty
<1> DEFINE b == qty \div n
           extra == qty - b * n
           U == 1 .. n
           S == Served(qty, n)
           F == [i \in U |-> Share(qty, i, n)]
<1>1. b \in Nat /\ extra \in Nat /\ extra < n /\ n * b + extra = qty
  <2>1. b \in Nat /\ b * n <= qty /\ qty < b * n + n
    BY Division
  <2>2. n * b = b * n /\ n * b \in Nat
    BY <2>1, NextMultiple
  <2> HIDE DEF b
  <2>. QED
    BY <2>1, <2>2
<1>2. Sum(F, U) = qty
  <2>1. \A i \in 1 .. n : F[i] = IF i <= extra THEN b + 1 ELSE b
    BY DEF Share
  <2> HIDE DEF b, extra, F
  <2>2. Sum(F, 1 .. n) = n * b + IF n <= extra THEN n ELSE extra
    BY <1>1, <2>1, FirstShares
  <2>3. ~(n <= extra)
    BY <1>1
  <2>. QED
    BY <1>1, <2>2, <2>3
<1>3. /\ IsFiniteSet(U) /\ S \in SUBSET U
      /\ \A i \in U : F[i] \in Int /\ (i \notin S => F[i] = 0)
  <2>1. IsFiniteSet(U)
    BY FS_Interval
  <2>2. \A i \in U : Share(qty, i, n) \in Nat /\ F[i] = Share(qty, i, n)
    BY ShareTypes
  <2>3. S = {i \in U : Share(qty, i, n) > 0}
    BY DEF Served
  <2> HIDE DEF F, S, U
  <2>. QED
    BY <2>1, <2>2, <2>3
<1>4. [i \in Served(qty, n) |-> Share(qty, i, n)] = [i \in S |-> F[i]]
  BY <1>3
<1> HIDE DEF b, extra, U, S, F
<1>5. Sum(F, U) = Sum(F, S) + Sum(F, U \ S)
  BY <1>3, SumSplit
<1>6. IsFiniteSet(S) /\ IsFiniteSet(U \ S)
  BY <1>3, FS_Subset
<1>7. Sum(F, U \ S) = 0
  BY <1>3, <1>6, SumOfZeros
<1>8. Sum(F, S) \in Int
  BY <1>3, <1>6, SumType
<1>9. Sum(F, S) = qty
  BY <1>2, <1>5, <1>7, <1>8
<1>. QED
  BY <1>4, <1>9 DEF Quantity, Sum, Total

-----------------------------------------------------------------------------
(* The tables of intervention-svc and the CronJob *)

\* What a step can do to the book, the spike, the delivery and the orders.
TableMoves ==
    \/ UNCHANGED <<book, job, spike, delivery, orders>>
    \/ /\ UNCHANGED <<spike, delivery, orders>>
       /\ \/ book = "none" /\ book' = "NEW" /\ UNCHANGED job
          \/ job' \in {"idle", "listed"} /\ UNCHANGED book
          \/ book = "NEW" /\ job' = "updated" /\ UNCHANGED book
          \/ job = "updated" /\ job' = "committed" /\ book' = "FETCHED"
    \/ /\ UNCHANGED <<job, spike, delivery>>
       /\ job # "updated" /\ book \in Open
       /\ \/ book' = "REJECTED" /\ UNCHANGED orders
          \/ book' = "APPROVED" /\ \E qty \in [Whs -> Nat] : Order("book", qty)
    \/ /\ UNCHANGED <<book, job, delivery>>
       /\ ~spike /\ spike' = TRUE /\ \E qty \in [Whs -> Nat] : Order("spike", qty)
    \/ /\ UNCHANGED <<book, job, spike, orders>>
       /\ \/ delivery \in {"APPROVED", "EXECUTED"} /\ delivery' = "EXECUTED"
          \/ delivery = "APPROVED" /\ delivery' = "REJECTED"

LEMMA GivenQuantities ==
    ASSUME NEW qty \in [Whs -> Nat]
    PROVE  Given(qty) \in [Whs -> Nat]
<1>1. Fallback(Predicted) \in [Whs -> Nat]
  BY RequestsAssumption DEF Fallback
<1>. QED
  BY <1>1 DEF Given

LEMMA TableActs ==
    ASSUME TypeInv, HandlersInv, Next
    PROVE  TableMoves
<1>. USE DEF TableMoves
<1>a. ASSUME NEW h \in Handlers, handler[h].step = "run", handler[h].op.kind \in RequestKinds
      PROVE  handler[h].op.qty \in [Whs -> Nat]
  <2>1. handler[h].op \in Ops
    BY <1>a, AtFirst
  <2>. QED
    BY <1>a, <2>1, AboutConstants
<1>1. CASE Job(Submit) \/ Job(JobList) \/ Job(JobUpdate) \/ Job(JobCommit)
  BY <1>1 DEF Job, Submit, JobList, JobUpdate, JobCommit
<1>2. CASE Job(JobNotify) \/ Job(JobDies)
  BY <1>2 DEF Job, JobNotify, JobDies
<1>3. CASE \/ \E g \in Clicks : Ask(g) \/ Forward(g) \/ Failing(g)
           \/ ServiceDies \/ NotifierDies
  BY <1>3 DEF Ask, Forward, Failing, ServiceDies, NotifierDies, Quietly, Tables, tableVars
<1>4. ASSUME NEW h \in Handlers, Quietly(Respond(h))
      PROVE  TableMoves
  BY <1>4 DEF Quietly, Tables, tableVars
<1>5. ASSUME NEW h \in Handlers, Serves(h, ApproveBook(h))
      PROVE  TableMoves
  <2>1. handler[h].op.qty \in [Whs -> Nat]
    BY <1>a, <1>5 DEF Serves, ApproveBook, Kind, RequestKinds
  <2>. QED
    BY <1>5, <2>1 DEF Serves, ApproveBook, BookOpen, Refuse, tableVars
<1>6. ASSUME NEW h \in Handlers, Serves(h, RejectBook(h))
      PROVE  TableMoves
  BY <1>6 DEF Serves, RejectBook, BookOpen, Refuse, tableVars
<1>7. ASSUME NEW h \in Handlers, Serves(h, ApproveSpike(h))
      PROVE  TableMoves
  <2>1. handler[h].op.qty \in [Whs -> Nat]
    BY <1>a, <1>7 DEF Serves, ApproveSpike, Kind, RequestKinds
  <2>2. Given(handler[h].op.qty) \in [Whs -> Nat]
    BY <2>1, GivenQuantities
  <2>. QED
    BY <1>7, <2>2 DEF Serves, ApproveSpike, Refuse, tableVars
<1>8. ASSUME NEW h \in Handlers,
             \/ Serves(h, AskReturn(h)) \/ Serves(h, DecideReturn(h))
             \/ Serves(h, LookAtDelivery(h)) \/ Serves(h, LookAtFlag(h))
      PROVE  TableMoves
  BY <1>8 DEF Serves, AskReturn, DecideReturn, LookAtDelivery, LookAtFlag, Refuse, tableVars
<1>9. ASSUME NEW h \in Handlers, Goes(UpdateDelivery(h))
      PROVE  TableMoves
  BY <1>9 DEF Goes, UpdateDelivery, Refuse, tableVars
<1>10. ASSUME NEW h \in Handlers, Goes(SetFlag(h)) \/ Goes(TellAll(h))
       PROVE  TableMoves
  BY <1>10 DEF Goes, SetFlag, TellAll, tableVars
<1>11. ASSUME NEW h \in Handlers,
              \/ Runs(Create(h)) \/ Runs(Recommend(h)) \/ Runs(Patch(h))
              \/ Runs(Delete(h)) \/ Runs(Begin(h)) \/ Runs(Close(h))
              \/ Advising(h) \/ Mailing(h) \/ Hearing(h)
       PROVE  TableMoves
  BY <1>11 DEF Runs, Advising, Mailing, Hearing, tableVars
<1>12. ASSUME NEW c \in Calls,
              \/ Background(Buffer(c)) \/ Background(Dedup(c)) \/ Background(Post(c))
              \/ Background(Log(c)) \/ Background(Unheard(c))
       PROVE  TableMoves
  BY <1>12 DEF Background, Tables, tableVars
<1>13. CASE \/ Background(Expire) \/ Background(FlushPost)
            \/ \E w \in Regions : Background(FlushTake(w))
  BY <1>13 DEF Background, Tables, tableVars
<1>. QED
  BY Steps, <1>1, <1>2, <1>3, <1>4, <1>5, <1>6, <1>7, <1>8, <1>9, <1>10, <1>11, <1>12, <1>13

\* A decision orders for each warehouse what it says, and shares it out.
LEMMA OrderDoes ==
    ASSUME TypeInv, NEW about \in {"book", "spike"}, NEW qty \in [Whs -> Nat],
           Order(about, qty)
    PROVE  /\ orders' \in [Whs -> Seq(Groups)]
           /\ \A w \in Whs :
                 /\ Len(orders'[w]) \in {Len(orders[w]), Len(orders[w]) + 1}
                 /\ \A i \in 1 .. Len(orders[w]) : orders'[w][i] = orders[w][i]
                 /\ Len(orders'[w]) = Len(orders[w]) + 1 =>
                       LET new == orders'[w][Len(orders[w]) + 1]
                       IN  /\ new.about = about
                           /\ Shops[w] > 0 => Quantity(new.shares) = new.qty
<1>1. ASSUME NEW w \in Whs
      PROVE  LET new == Ordered(about, w, qty[w])
             IN  /\ new \in Groups /\ new.about = about
                 /\ Shops[w] > 0 => Quantity(new.shares) = new.qty
  <2> DEFINE n == Shops[w]
             S == Served(qty[w], n)
             shares == [i \in S |-> Share(qty[w], i, n)]
  <2>1. n \in Nat /\ qty[w] \in Nat
    BY RequestsAssumption
  <2>2. S \subseteq 1 .. n /\ S \in SUBSET Nat
    BY <2>1 DEF Served
  <2>3. shares \in [S -> Nat]
    <3>1. CASE n = 0
      BY <2>2, <3>1
    <3>2. CASE n # 0
      BY <2>1, <2>2, <3>2, ShareTypes
    <3>. QED
      BY <3>1, <3>2
  <2>4. shares \in UNION {[T -> Nat] : T \in SUBSET Nat}
    BY <2>2, <2>3
  <2>5. n > 0 => Quantity(shares) = qty[w]
    BY <2>1, SharesAddUp
  <2>6. Ordered(about, w, qty[w]) = [about |-> about, qty |-> qty[w], shares |-> shares]
    BY DEF Ordered
  <2> HIDE DEF shares, S
  <2>. QED
    BY <2>1, <2>4, <2>5, <2>6 DEF Groups
<1>2. ASSUME NEW w \in Whs
      PROVE  /\ orders[w] \in Seq(Groups)
             /\ orders'[w] = IF qty[w] = 0 THEN orders[w]
                             ELSE Append(orders[w], Ordered(about, w, qty[w]))
  BY DEF Order, TypeInv, TableTypes
<1>3. ASSUME NEW w \in Whs
      PROVE  /\ orders'[w] \in Seq(Groups)
             /\ Len(orders'[w]) \in {Len(orders[w]), Len(orders[w]) + 1}
             /\ \A i \in 1 .. Len(orders[w]) : orders'[w][i] = orders[w][i]
             /\ Len(orders'[w]) = Len(orders[w]) + 1 =>
                   orders'[w][Len(orders[w]) + 1] = Ordered(about, w, qty[w])
  <2> DEFINE new == Ordered(about, w, qty[w])
             old == orders[w]
  <2>1. new \in Groups /\ old \in Seq(Groups)
    BY <1>1, <1>2
  <2>2. orders'[w] = (IF qty[w] = 0 THEN old ELSE Append(old, new))
    BY <1>2
  <2> HIDE DEF new, old
  <2>3. /\ orders'[w] \in Seq(Groups)
        /\ Len(orders'[w]) \in {Len(old), Len(old) + 1}
        /\ \A i \in 1 .. Len(old) : orders'[w][i] = old[i]
        /\ Len(orders'[w]) = Len(old) + 1 => orders'[w][Len(old) + 1] = new
    BY <2>1, <2>2
  <2>. QED
    BY <2>3 DEF new, old
<1>4. orders' = [w \in Whs |-> orders'[w]]
  BY DEF Order
<1>. QED
  BY <1>1, <1>3, <1>4

DecidedNow(about) == IF about = "book" THEN book' = "APPROVED" ELSE spike'

\* The groups that a decision adds are the only ones of it.
LEMMA OrderFits ==
    ASSUME TypeInv, OrdersInv, NEW about \in {"book", "spike"}, NEW qty \in [Whs -> Nat],
           Order(about, qty), ~Decided(about), DecidedNow(about),
           \A x \in {"book", "spike"} : Decided(x) => DecidedNow(x)
    PROVE  OrdersInv'
<1>1. SUFFICES ASSUME NEW w \in Whs
               PROVE  /\ \A i \in DOMAIN orders'[w] :
                            /\ DecidedNow(orders'[w][i].about)
                            /\ Shops[w] > 0 =>
                                  Quantity(orders'[w][i].shares) = orders'[w][i].qty
                      /\ \A i, j \in DOMAIN orders'[w] :
                            orders'[w][i].about = orders'[w][j].about => i = j
  BY DEF OrdersInv, GroupOK, Decided, DecidedNow
<1> DEFINE n == Len(orders[w])
<1>2. /\ n \in Nat /\ DOMAIN orders[w] = 1 .. n
      /\ \A i \in 1 .. n : orders[w][i] \in Groups
  BY DEF TypeInv, TableTypes
<1>3. \A i \in 1 .. n :
         /\ Decided(orders[w][i].about)
         /\ orders[w][i].about # about
         /\ orders[w][i].about \in {"book", "spike"}
         /\ Shops[w] > 0 => Quantity(orders[w][i].shares) = orders[w][i].qty
  BY <1>2 DEF OrdersInv, GroupOK, Groups
<1>4. \A i, j \in 1 .. n : orders[w][i].about = orders[w][j].about => i = j
  BY <1>2 DEF OrdersInv
<1>5. /\ Len(orders'[w]) \in {n, n + 1}
      /\ DOMAIN orders'[w] = 1 .. Len(orders'[w])
      /\ \A i \in 1 .. n : orders'[w][i] = orders[w][i]
      /\ Len(orders'[w]) = n + 1 =>
            /\ orders'[w][n + 1].about = about
            /\ Shops[w] > 0 =>
                  Quantity(orders'[w][n + 1].shares) = orders'[w][n + 1].qty
  BY OrderDoes
<1> HIDE DEF n
<1>6. \A i \in DOMAIN orders'[w] : i \in 1 .. n \/ (i = n + 1 /\ Len(orders'[w]) = n + 1)
  BY <1>2, <1>5
<1>7. ASSUME NEW i \in DOMAIN orders'[w]
      PROVE  /\ DecidedNow(orders'[w][i].about)
             /\ Shops[w] > 0 => Quantity(orders'[w][i].shares) = orders'[w][i].qty
  <2>1. CASE i \in 1 .. n
    BY <1>3, <1>5, <2>1 DEF Decided, DecidedNow
  <2>2. CASE i = n + 1 /\ Len(orders'[w]) = n + 1
    BY <1>5, <2>2 DEF Decided, DecidedNow
  <2>. QED
    BY <1>6, <2>1, <2>2
<1>8. ASSUME NEW i \in DOMAIN orders'[w], NEW j \in DOMAIN orders'[w],
             orders'[w][i].about = orders'[w][j].about
      PROVE  i = j
  <2>1. CASE i \in 1 .. n /\ j \in 1 .. n
    BY <1>4, <1>5, <1>8, <2>1
  <2>2. CASE i = n + 1 /\ j = n + 1
    BY <2>2
  <2>3. CASE i \in 1 .. n /\ j = n + 1 /\ Len(orders'[w]) = n + 1
    BY <1>3, <1>5, <1>8, <2>3
  <2>4. CASE j \in 1 .. n /\ i = n + 1 /\ Len(orders'[w]) = n + 1
    BY <1>3, <1>5, <1>8, <2>4
  <2>. QED
    BY <1>6, <2>1, <2>2, <2>3, <2>4
<1>. QED
  BY <1>7, <1>8

LEMMA TableSteps ==
    ASSUME TypeInv, HandlersInv, JobInv, OrdersInv, Next
    PROVE  TableTypes' /\ JobInv' /\ OrdersInv'
<1>1. TableMoves
  BY TableActs
<1>2. TableTypes
  BY DEF TypeInv
<1>3. orders' \in [Whs -> Seq(Groups)]
  BY <1>1, <1>2, OrderDoes DEF TableMoves, TableTypes
<1>4. TableTypes'
  BY <1>1, <1>2, <1>3 DEF TableMoves, TableTypes
<1>5. JobInv'
  BY <1>1, <1>2 DEF TableMoves, JobInv, TableTypes, Open
<1>6. \A x \in {"book", "spike"} : Decided(x) => DecidedNow(x)
  BY <1>1, <1>2 DEF TableMoves, Decided, DecidedNow, TableTypes, JobInv, Open
<1>7. OrdersInv'
  <2>1. ASSUME UNCHANGED orders
        PROVE  OrdersInv'
    <3>1. \A w \in Whs : \A i \in DOMAIN orders[w] : DecidedNow(orders[w][i].about)
      <4>1. \A w \in Whs : \A i \in DOMAIN orders[w] : orders[w][i].about \in {"book", "spike"}
        <5>1. \A w \in Whs : \A i \in DOMAIN orders[w] : orders[w][i] \in Groups
          BY <1>2 DEF TableTypes
        <5>. QED
          BY <5>1 DEF Groups
      <4>. QED
        BY <1>6, <4>1 DEF OrdersInv, GroupOK, Decided, DecidedNow
    <3>2. orders' = orders
      BY <2>1
    <3>3. \A w \in Whs : \A i \in DOMAIN orders'[w] :
             /\ DecidedNow(orders'[w][i].about)
             /\ Shops[w] > 0 => Quantity(orders'[w][i].shares) = orders'[w][i].qty
      BY <3>1, <3>2 DEF OrdersInv, GroupOK
    <3>4. \A w \in Whs : \A i, j \in DOMAIN orders'[w] :
             orders'[w][i].about = orders'[w][j].about => i = j
      BY <3>2 DEF OrdersInv
    <3>. QED
      BY <3>3, <3>4 DEF OrdersInv, GroupOK, Decided, DecidedNow
  <2>2. ASSUME NEW qty \in [Whs -> Nat], Order("book", qty), book \in Open, book' = "APPROVED"
        PROVE  OrdersInv'
    BY <1>6, <2>2, OrderFits DEF Decided, DecidedNow, Open
  <2>3. ASSUME NEW qty \in [Whs -> Nat], Order("spike", qty), ~spike, spike' = TRUE
        PROVE  OrdersInv'
    BY <1>6, <2>3, OrderFits DEF Decided, DecidedNow
  <2>. QED
    BY <1>1, <2>1, <2>2, <2>3 DEF TableMoves
<1>. QED
  BY <1>4, <1>5, <1>7

-----------------------------------------------------------------------------
(* Campaigns *)

Statuses == {"ABSENT", "DRAFT", "RECOMMENDED", "SENT", "DELETED"}
Advices == [Branches -> {"none", "generated", "edited"}]
Histories == SUBSET (CampaignMails \X {"SENT", "FAILED"})

RowsBehind(r) ==
    \A x \in r : x[2] = "SENT" => \E outcome \in Outcomes : <<x[1], outcome>> \in rows

\* A campaign is changed, or deleted while nobody sends it.
Changed(k, s, a, r) ==
    /\ status' = [status EXCEPT ![k] = s]
    /\ advice' = [advice EXCEPT ![k] = a]
    /\ history' = [history EXCEPT ![k] = r]
    /\ \/ /\ s \in {"DRAFT", "RECOMMENDED", "SENT"}
          /\ s = "SENT" => r # {}
          /\ RowsBehind(r)
       \/ /\ s = "DELETED" /\ a = [b \in Branches |-> "none"] /\ r = {}
          /\ \A f \in Handlers : handler[f].kept # {} => Of(f) # k

OneChanged ==
    \E k \in Campaigns, s \in Statuses, a \in Advices, r \in Histories : Changed(k, s, a, r)

LEMMA StaysTheSame ==
    ASSUME TypeInv, NEW k \in Campaigns
    PROVE  /\ status = [status EXCEPT ![k] = status[k]]
           /\ advice = [advice EXCEPT ![k] = advice[k]]
           /\ history = [history EXCEPT ![k] = history[k]]
           /\ status[k] \in Statuses /\ advice[k] \in Advices /\ history[k] \in Histories
<1>1. status[k] \in Statuses /\ advice[k] \in Advices /\ history[k] \in Histories
  BY DEF TypeInv, CampaignTypes, Statuses, Advices, Histories
<1>2. status = [status EXCEPT ![k] = status[k]]
  BY DEF TypeInv, CampaignTypes
<1>3. advice = [advice EXCEPT ![k] = advice[k]]
  BY DEF TypeInv, CampaignTypes
<1>4. history = [history EXCEPT ![k] = history[k]]
  BY DEF TypeInv, CampaignTypes
<1>. QED
  BY <1>1, <1>2, <1>3, <1>4

LEMMA CampaignOf ==
    ASSUME HandlersInv, NEW h \in Handlers, handler[h].step # "idle",
           handler[h].op.kind \in CampaignKinds
    PROVE  Of(h) \in Campaigns
  BY AboutConstants DEF Of, HandlersInv, HandlerOK

LEMMA CampaignActs ==
    ASSUME TypeInv, HandlersInv, CampaignsInv, Next
    PROVE  UNCHANGED campaignVars \/ OneChanged
<1>. USE DEF campaignVars
<1>a. ASSUME NEW k \in Campaigns
      PROVE  /\ status[k] = "SENT" => history[k] # {}
             /\ RowsBehind(history[k])
             /\ ~Exists(k) => Advised(k) = {} /\ history[k] = {}
  BY DEF CampaignsInv, CampaignsConsistent, RowsBehind
<1>1. CASE \/ Job(Submit) \/ Job(JobList) \/ Job(JobUpdate) \/ Job(JobCommit)
           \/ Job(JobNotify) \/ Job(JobDies)
  BY <1>1 DEF Job
<1>2. CASE \/ \E g \in Clicks : Ask(g) \/ Forward(g) \/ Failing(g)
           \/ ServiceDies \/ NotifierDies
  BY <1>2 DEF Ask, Forward, Failing, ServiceDies, NotifierDies, Quietly, Tables
<1>3. ASSUME NEW h \in Handlers,
             \/ Quietly(Respond(h))
             \/ Serves(h, ApproveBook(h)) \/ Serves(h, RejectBook(h))
             \/ Serves(h, ApproveSpike(h)) \/ Serves(h, AskReturn(h))
             \/ Serves(h, DecideReturn(h)) \/ Serves(h, LookAtDelivery(h))
             \/ Serves(h, LookAtFlag(h)) \/ Goes(UpdateDelivery(h))
             \/ Goes(SetFlag(h)) \/ Goes(TellAll(h))
             \/ Runs(Recommend(h)) \/ Runs(Begin(h)) \/ Mailing(h) \/ Hearing(h)
      PROVE  UNCHANGED campaignVars
  BY <1>3 DEF Quietly, Tables, Serves, Goes, Runs, Recommend, Begin, Turned, Mailing, Mail,
     Hearing, Answered, Stored
<1>4. ASSUME NEW h \in Handlers, Runs(Create(h))
      PROVE  OneChanged
  <2>1. PICK k \in Campaigns :
            /\ status[k] = "ABSENT" /\ status' = [status EXCEPT ![k] = "DRAFT"]
            /\ UNCHANGED <<advice, history>>
    BY <1>4 DEF Runs, Create
  <2>2. Changed(k, "DRAFT", advice[k], history[k])
    BY <1>a, <2>1, StaysTheSame DEF Changed
  <2>. QED
    BY <2>2, StaysTheSame DEF OneChanged, Statuses
<1>5. ASSUME NEW h \in Handlers, Runs(Patch(h))
      PROVE  UNCHANGED campaignVars \/ OneChanged
  <2>1. Of(h) \in Campaigns
    BY <1>5, CampaignOf DEF Runs, Patch, Asked, CampaignKinds
  <2>2. PICK b \in Branches :
            \/ UNCHANGED campaignVars
            \/ /\ b \in Advised(Of(h))
               /\ advice' = [advice EXCEPT ![Of(h)][b] = "edited"]
               /\ UNCHANGED <<status, history>>
    BY <1>5 DEF Runs, Patch, Turned
  <2>3. CASE /\ b \in Advised(Of(h))
             /\ advice' = [advice EXCEPT ![Of(h)][b] = "edited"]
             /\ UNCHANGED <<status, history>>
    <3> DEFINE k == Of(h)
               a == [advice[k] EXCEPT ![b] = "edited"]
    <3>1. Exists(k)
      BY <1>a, <2>1, <2>3
    <3>2. status[k] \in {"DRAFT", "RECOMMENDED", "SENT"}
      BY <2>1, <3>1, StaysTheSame DEF Exists, Statuses
    <3>3. a \in Advices /\ advice' = [advice EXCEPT ![k] = a]
      BY <2>1, <2>3, StaysTheSame DEF Advices
    <3> HIDE DEF k, a
    <3>4. k \in Campaigns
      BY <2>1 DEF k
    <3>5. Changed(k, status[k], a, history[k])
      BY <1>a, <2>3, <3>2, <3>3, <3>4, StaysTheSame DEF Changed
    <3>. QED
      BY <3>3, <3>4, <3>5, StaysTheSame DEF OneChanged
  <2>. QED
    BY <2>2, <2>3
<1>6. ASSUME NEW h \in Handlers, Runs(Delete(h))
      PROVE  UNCHANGED campaignVars \/ OneChanged
  <2> DEFINE k == Of(h)
             a == [b \in Branches |-> "none"]
  <2>1. k \in Campaigns
    BY <1>6, CampaignOf DEF Runs, Delete, Asked, CampaignKinds
  <2>2. \/ UNCHANGED campaignVars
        \/ /\ status' = [status EXCEPT ![k] = "DELETED"]
           /\ advice' = [advice EXCEPT ![k] = a]
           /\ history' = [history EXCEPT ![k] = {}]
           /\ \A f \in Handlers : handler[f].kept # {} => Of(f) # k
    BY <1>6 DEF Runs, Delete, Turned
  <2>3. a \in Advices /\ {} \in Histories /\ "DELETED" \in Statuses
    BY DEF Advices, Histories, Statuses
  <2>4. UNCHANGED campaignVars \/ Changed(k, "DELETED", a, {})
    BY <2>2 DEF Changed
  <2> HIDE DEF k, a
  <2>. QED
    BY <2>1, <2>3, <2>4 DEF OneChanged
<1>7. ASSUME NEW h \in Handlers, Runs(Close(h))
      PROVE  OneChanged
  <2> DEFINE k == Of(h)
             r == history[k] \cup handler[h].kept
  <2>1. /\ handler[h].step = "mail" /\ handler[h].todo = {}
        /\ status' = [status EXCEPT ![k] = "SENT"]
        /\ history' = [history EXCEPT ![k] = r]
        /\ UNCHANGED advice
    <3>1. Runs(Close(h))
      BY <1>7
    <3>2. /\ handler[h].step = "mail" /\ handler[h].todo = {}
          /\ status' = [status EXCEPT ![k] = "SENT"]
          /\ UNCHANGED advice
      BY <3>1 DEF Runs, Close
    <3>3. history' = [history EXCEPT ![k] = @ \cup handler[h].kept]
      BY <3>1 DEF Runs, Close
    <3>. QED
      BY <3>2, <3>3 DEF TypeInv, CampaignTypes
  <2>2. k \in Campaigns
    BY <2>1, InHand DEF Sending
  <2>3. handler[h].kept # {} /\ handler[h].kept \in Histories
    <3>1. handler[h].kept \in Histories
      BY DEF TypeInv, PeopleTypes, HandlerRecords, Histories
    <3>. QED
      BY <2>1, <3>1 DEF HandlersInv, HandlerOK, Sending
  <2>4. RowsBehind(handler[h].kept)
    BY DEF CampaignsInv, RowsBehind
  <2>5. r \in Histories /\ r # {} /\ RowsBehind(r)
    <3>1. history[k] \in Histories /\ RowsBehind(history[k])
      BY <1>a, <2>2, StaysTheSame
    <3>2. r \in Histories
      BY <2>3, <3>1 DEF Histories
    <3>3. RowsBehind(r)
      BY <2>4, <3>1 DEF RowsBehind
    <3>. QED
      BY <2>3, <3>2, <3>3
  <2> HIDE DEF k, r
  <2>6. Changed(k, "SENT", advice[k], r)
    BY <2>1, <2>2, <2>5, StaysTheSame DEF Changed
  <2>. QED
    BY <2>2, <2>5, <2>6, StaysTheSame DEF OneChanged, Statuses
<1>8. ASSUME NEW h \in Handlers, Advising(h)
      PROVE  UNCHANGED campaignVars \/ OneChanged
  <2> DEFINE k == Of(h)
  <2>1. handler[h].step = "advise" /\ handler[h].op.kind = "recommend"
    BY <1>8 DEF Advising, Advise, HandlersInv, HandlerOK
  <2>2. k \in Campaigns
    BY <2>1, CampaignOf DEF CampaignKinds
  <2>3. ASSUME NEW bs \in SUBSET Branches,
               advice' = [advice EXCEPT ![Of(h)] =
                            [b \in Branches |-> IF b \in bs THEN "generated"
                                                ELSE advice[Of(h)][b]]],
               status' = [status EXCEPT ![Of(h)] = "RECOMMENDED"],
               UNCHANGED history
        PROVE  OneChanged
    <3> DEFINE a == [b \in Branches |-> IF b \in bs THEN "generated" ELSE advice[k][b]]
    <3>1. a \in Advices
      BY <2>2, StaysTheSame DEF Advices
    <3>2. advice' = [advice EXCEPT ![k] = a] /\ status' = [status EXCEPT ![k] = "RECOMMENDED"]
      BY <2>3
    <3> HIDE DEF a, k
    <3>3. Changed(k, "RECOMMENDED", a, history[k])
      BY <1>a, <2>2, <2>3, <3>2, StaysTheSame DEF Changed
    <3>. QED
      BY <2>2, <3>1, <3>3, StaysTheSame DEF OneChanged, Statuses
  <2>. QED
    BY <1>8, <2>3 DEF Advising, Advise, Turned
<1>9. ASSUME NEW c \in Calls,
              \/ Background(Buffer(c)) \/ Background(Dedup(c)) \/ Background(Post(c))
              \/ Background(Log(c)) \/ Background(Unheard(c))
       PROVE  UNCHANGED campaignVars
  BY <1>9 DEF Background, Tables
<1>10. CASE \/ Background(Expire) \/ Background(FlushPost)
            \/ \E w \in Regions : Background(FlushTake(w))
  BY <1>10 DEF Background, Tables
<1>. QED
  BY Steps, <1>1, <1>2, <1>3, <1>4, <1>5, <1>6, <1>7, <1>8, <1>9, <1>10

LEMMA RowsGrow ==
    ASSUME TypeInv, HandlersInv, Next
    PROVE  rows \subseteq rows'
<1>1. CASE UNCHANGED notifVars \/ \E c \in Calls, m \in Sendable : Send(c, m)
  BY <1>1 DEF notifVars, Send
<1>2. CASE \E c \in Calls : Buffer(c) \/ Dedup(c) \/ Post(c) \/ Log(c) \/ Finish(c)
  BY <1>2 DEF Buffer, Dedup, Post, Log, Finish
<1>3. CASE \/ Expire \/ FlushPost \/ NotifierCrash \/ \E w \in Regions : FlushTake(w)
  BY <1>3 DEF Expire, FlushPost, NotifierCrash, FlushTake
<1>. QED
  BY MailActs, <1>1, <1>2, <1>3

LEMMA CampaignTableSteps ==
    ASSUME TypeInv, HandlersInv, CampaignsInv, Next
    PROVE  /\ CampaignTypes' /\ CampaignsConsistent'
           /\ \A f \in Handlers : handler[f].kept # {} /\ Exists(Of(f)) =>
                 status'[Of(f)] \notin {"ABSENT", "DELETED"}
<1>0. CampaignTypes /\ rows \subseteq rows'
  BY RowsGrow DEF TypeInv
<1>1. CASE UNCHANGED campaignVars
  <2>1. CampaignTypes'
    BY <1>0, <1>1 DEF CampaignTypes, campaignVars
  <2>2. CampaignsConsistent'
    BY <1>0, <1>1 DEF CampaignsInv, CampaignsConsistent, Exists, Advised, campaignVars
  <2>. QED
    BY <1>1, <2>1, <2>2 DEF Exists, campaignVars
<1>2. ASSUME NEW k \in Campaigns, NEW s \in Statuses, NEW a \in Advices, NEW r \in Histories,
             Changed(k, s, a, r)
      PROVE  /\ CampaignTypes' /\ CampaignsConsistent'
             /\ \A f \in Handlers : handler[f].kept # {} /\ Exists(Of(f)) =>
                   status'[Of(f)] \notin {"ABSENT", "DELETED"}
  <2>1. CampaignTypes'
    BY <1>0, <1>2 DEF CampaignTypes, Changed, Statuses, Advices, Histories
  <2>2. /\ status'[k] = s /\ advice'[k] = a /\ history'[k] = r
        /\ \A j \in Campaigns : j # k =>
              status'[j] = status[j] /\ advice'[j] = advice[j] /\ history'[j] = history[j]
    BY <1>0, <1>2 DEF CampaignTypes, Changed
  <2>3. ASSUME NEW j \in Campaigns
        PROVE  /\ status'[j] = "SENT" => history'[j] # {}
               /\ status'[j] \in {"ABSENT", "DELETED"} =>
                     /\ {b \in Branches : advice'[j][b] # "none"} = {}
                     /\ history'[j] = {}
               /\ \A x \in history'[j] : x[2] = "SENT" =>
                     \E outcome \in Outcomes : <<x[1], outcome>> \in rows'
    <3>1. CASE j # k
      BY <1>0, <2>2, <3>1 DEF CampaignsInv, CampaignsConsistent, Exists, Advised
    <3>2. CASE j = k
      <4>1. status'[j] = s /\ advice'[j] = a /\ history'[j] = r
        BY <2>2, <3>2
      <4>2. CASE /\ s \in {"DRAFT", "RECOMMENDED", "SENT"}
                 /\ s = "SENT" => r # {}
                 /\ RowsBehind(r)
        BY <1>0, <4>1, <4>2 DEF RowsBehind
      <4>3. CASE s = "DELETED" /\ a = [b \in Branches |-> "none"] /\ r = {}
        BY <4>1, <4>3
      <4>. QED
        BY <1>2, <4>2, <4>3 DEF Changed
    <3>. QED
      BY <3>1, <3>2
  <2>4. CampaignsConsistent'
    BY <2>3 DEF CampaignsConsistent, Exists, Advised
  <2>5. ASSUME NEW f \in Handlers, handler[f].kept # {}, Exists(Of(f))
        PROVE  status'[Of(f)] \notin {"ABSENT", "DELETED"}
    <3>1. Of(f) \in Campaigns
      BY <2>5, InHand DEF CampaignsInv
    <3>. QED
      BY <1>2, <2>2, <2>5, <3>1 DEF Changed, Exists
  <2>. QED
    BY <2>1, <2>4, <2>5
<1>. QED
  BY CampaignActs, <1>1, <1>2 DEF OneChanged

\* Somebody waits for a call, and for nobody else's.
Held(d) == \E f \in Handlers : handler[f].step = "wait" /\ handler[f].at = d

HeldStay == \A d \in Calls : Held(d) => call'[d].mail = call[d].mail /\ call'[d].step # "idle"

\* Handlers that do not send, or begin anew, or go on as they were.
Idles(f) == handler'[f].kept = {} /\ handler'[f].step # "wait"

NobodySends ==
    /\ \A f \in Handlers : handler'[f] = handler[f] \/ Idles(f)
    /\ HeldStay

AllLost ==
    /\ handler' = [h \in Handlers |->
                     IF handler[h].step = "wait"
                     THEN [handler[h] EXCEPT !.step = "lost"] ELSE handler[h]]

OneSends ==
    \E h \in Handlers, c \in Calls :
        /\ handler[h].step = "mail" /\ handler[h].todo # {}
        /\ Send(c, NextMail(h))
        /\ handler' = [handler EXCEPT ![h].step = "wait", ![h].at = c]

OneStores ==
    \E h \in Handlers :
        /\ handler[h].step \in Sending /\ handler[h].todo # {}
        /\ \/ /\ handler[h].step = "wait"
              /\ Finish(handler[h].at) /\ Stored(h, "SENT")
           \/ UNCHANGED notifVars /\ Stored(h, "FAILED")

LEMMA SenderActs ==
    ASSUME TypeInv, HandlersInv, CampaignsInv, Next
    PROVE  NobodySends \/ AllLost \/ OneSends \/ OneStores
<1>a. ASSUME UNCHANGED notifVars PROVE HeldStay
  <2>1. \A d \in Calls : Held(d) => call[d].step # "idle"
    BY DEF Held, CampaignsInv
  <2>. QED
    BY <1>a, <2>1 DEF HeldStay, notifVars
<1>b. ASSUME NEW m \in Sendable, NEW c \in Calls, Send(c, m) PROVE HeldStay
  <2>1. \A d \in Calls : Held(d) => call[d].step # "idle"
    BY DEF Held, CampaignsInv
  <2>. QED
    BY <1>b, <2>1, SendDoes DEF HeldStay
<1>c. ASSUME UNCHANGED handler, HeldStay PROVE NobodySends
  BY <1>c DEF NobodySends
<1>1. CASE \/ Job(Submit) \/ Job(JobList) \/ Job(JobUpdate) \/ Job(JobCommit) \/ Job(JobDies)
  BY <1>a, <1>c, <1>1 DEF Job, Submit, JobList, JobUpdate, JobCommit, JobDies, gateVars
<1>2. CASE Job(JobNotify)
  <2>1. UNCHANGED handler
    BY <1>2 DEF Job, JobNotify, gateVars
  <2>2. BookMail("DISCOVERED") \in Sendable
    BY DEF Sendable
  <2>. QED
    BY <1>a, <1>b, <1>c, <1>2, <2>1, <2>2 DEF Job, JobNotify
<1>3. ASSUME NEW g \in Clicks, Ask(g) \/ Failing(g)
      PROVE  NobodySends
  BY <1>a, <1>c, <1>3 DEF Ask, Failing, Quietly, Press, Fails
<1>4. ASSUME NEW g \in Clicks, Forward(g)
      PROVE  NobodySends
  <2>1. PICK h \in Handlers :
            handler[h].step = "idle" /\ Moved(h, [Rest EXCEPT !.step = "run", !.op = click[g].op])
    BY <1>4 DEF Forward, Quietly, Reach, Moved
  <2>2. /\ Idles(h)
        /\ \A f \in Handlers : f # h => handler'[f] = handler[f]
    BY <2>1 DEF Moved, TypeInv, PeopleTypes, Rest, Idles
  <2>. QED
    BY <1>a, <1>4, <2>2 DEF Forward, Quietly, NobodySends
<1>5. CASE ServiceDies
  <2>1. \A h \in Handlers : Idles(h)
    BY <1>5 DEF ServiceDies, ServiceCrash, Rest, Idles
  <2>. QED
    BY <1>a, <1>5, <2>1 DEF ServiceDies, NobodySends
<1>6. CASE NotifierDies
  BY <1>6 DEF NotifierDies, AllLost
<1>7. ASSUME NEW h \in Handlers, Quietly(Respond(h))
      PROVE  NobodySends
  <2>1. Moved(h, Rest)
    BY <1>7 DEF Quietly, Respond, Moved
  <2>2. Idles(h) /\ \A f \in Handlers : f # h => handler'[f] = handler[f]
    BY <2>1 DEF Moved, TypeInv, PeopleTypes, Rest, Idles
  <2>. QED
    BY <1>a, <1>7, <2>2 DEF Quietly, NobodySends
<1>d. ASSUME NEW h \in Handlers, handler[h].step # "tell" => handler[h].kept = {},
             \/ \E step \in {"respond", "update", "flag", "advise"}, result \in {"ok", "refused"} :
                   To(h, step, result)
             \/ \E mails : Done(h, mails)
      PROVE  /\ handler'[h].kept = handler[h].kept
             /\ handler'[h].step # "wait"
             /\ \A f \in Handlers : f # h => handler'[f] = handler[f]
  BY <1>d DEF To, Done, TypeInv, PeopleTypes, HandlerRecords
<1>e. ASSUME NEW h \in Handlers, handler[h].step # "idle", handler[h].step \notin Sending,
             handler[h].step # "respond",
             \/ \E step \in {"respond", "update", "flag", "advise"}, result \in {"ok", "refused"} :
                   To(h, step, result)
             \/ \E mails : Done(h, mails)
      PROVE  \A f \in Handlers : handler'[f] = handler[f] \/ Idles(f)
  <2>1. handler[h].kept = {}
    BY <1>e DEF HandlersInv, HandlerOK
  <2>. QED
    BY <1>d, <1>e, <2>1 DEF Idles
<1>8. ASSUME NEW h \in Handlers, Serves(h, ApproveBook(h)) \/ Serves(h, RejectBook(h))
                                 \/ Serves(h, ApproveSpike(h)) \/ Serves(h, AskReturn(h))
                                 \/ Serves(h, DecideReturn(h))
      PROVE  NobodySends
  <2>1. handler[h].step = "run" /\ UNCHANGED notifVars
    BY <1>8 DEF Serves
  <2>2. To(h, "respond", "refused") \/ \E mails : Done(h, mails)
    BY <1>8 DEF Serves, ApproveBook, RejectBook, ApproveSpike, AskReturn, DecideReturn, Refuse
  <2>. QED
    BY <1>a, <1>e, <2>1, <2>2 DEF NobodySends, Sending
<1>9. ASSUME NEW h \in Handlers, Serves(h, LookAtDelivery(h)) \/ Serves(h, LookAtFlag(h))
      PROVE  NobodySends
  <2>1. handler[h].step = "run" /\ UNCHANGED notifVars
    BY <1>9 DEF Serves
  <2>2. \E step \in {"respond", "update", "flag", "advise"}, result \in {"ok", "refused"} :
            To(h, step, result)
    BY <1>9 DEF Serves, LookAtDelivery, LookAtFlag
  <2>. QED
    BY <1>a, <1>e, <2>1, <2>2 DEF NobodySends, Sending
<1>10. ASSUME NEW h \in Handlers, Goes(UpdateDelivery(h)) \/ Goes(SetFlag(h))
       PROVE  NobodySends
  <2>1. handler[h].step \in {"update", "flag"} /\ UNCHANGED notifVars
    BY <1>10 DEF Goes, UpdateDelivery, SetFlag
  <2>2. To(h, "respond", "refused") \/ \E mails : Done(h, mails)
    BY <1>10 DEF Goes, UpdateDelivery, SetFlag, Refuse
  <2>. QED
    BY <1>a, <1>e, <2>1, <2>2 DEF NobodySends, Sending
<1>11. ASSUME NEW h \in Handlers, Goes(TellAll(h))
       PROVE  NobodySends
  <2>1. handler[h].step = "tell" /\ handler[h].kept = {}
    BY <1>11 DEF Goes, TellAll, HandlersInv, HandlerOK, Sending
  <2>2. CASE To(h, "respond", "ok") /\ UNCHANGED notifVars
    BY <1>a, <1>e, <2>1, <2>2 DEF NobodySends, Sending
  <2>3. ASSUME NEW m \in handler[h].todo,
               handler' = [handler EXCEPT ![h].todo = @ \ {m}],
               (\E c \in Calls : Send(c, m)) \/ UNCHANGED notifVars
        PROVE  NobodySends
    <3>1. /\ handler'[h].kept = {} /\ handler'[h].step # "wait"
          /\ \A f \in Handlers : f # h => handler'[f] = handler[f]
      BY <2>1, <2>3 DEF TypeInv, PeopleTypes, HandlerRecords
    <3>2. m \in Sendable
      BY <2>1 DEF HandlersInv, HandlerOK, Sendable
    <3>. QED
      BY <1>a, <1>b, <2>3, <3>1, <3>2 DEF NobodySends, Idles
  <2>. QED
    BY <1>11, <2>2, <2>3 DEF Goes, TellAll
<1>12. ASSUME NEW h \in Handlers,
              \/ Runs(Create(h)) \/ Runs(Recommend(h)) \/ Runs(Patch(h))
              \/ Runs(Delete(h)) \/ Advising(h)
       PROVE  NobodySends
  <2>1. handler[h].step \in {"run", "advise"} /\ UNCHANGED notifVars
    BY <1>12 DEF Runs, Create, Recommend, Patch, Delete, Asked, Advising, Advise
  <2>2. \E step \in {"respond", "update", "flag", "advise"}, result \in {"ok", "refused"} :
            To(h, step, result)
    BY <1>12 DEF Runs, Create, Recommend, Patch, Delete, Advising, Advise, Turned
  <2>. QED
    BY <1>a, <1>e, <2>1, <2>2 DEF NobodySends, Sending
<1>13. ASSUME NEW h \in Handlers, Runs(Begin(h))
       PROVE  NobodySends
  <2>1. handler[h].step = "run" /\ UNCHANGED notifVars /\ handler[h].kept = {}
    BY <1>13, AtFirst DEF Runs, Begin, Asked
  <2>2. CASE To(h, "respond", "refused")
    BY <1>a, <1>e, <2>1, <2>2 DEF NobodySends, Sending
  <2>3. CASE handler' = [handler EXCEPT
                  ![h].step = "mail",
                  ![h].todo = {CampaignMail(Of(h), b) : b \in Advised(Of(h))}]
    <3>1. /\ handler'[h].kept = {} /\ handler'[h].step # "wait"
          /\ \A f \in Handlers : f # h => handler'[f] = handler[f]
      BY <2>1, <2>3 DEF TypeInv, PeopleTypes, HandlerRecords
    <3>. QED
      BY <1>a, <2>1, <3>1 DEF NobodySends, Idles
  <2>. QED
    BY <1>13, <2>2, <2>3 DEF Runs, Begin, Turned
<1>14. ASSUME NEW h \in Handlers, Runs(Close(h))
       PROVE  NobodySends
  <2>1. /\ handler'[h].kept = {} /\ handler'[h].step = "respond"
        /\ \A f \in Handlers : f # h => handler'[f] = handler[f]
    BY <1>14 DEF Runs, Close, TypeInv, PeopleTypes, HandlerRecords
  <2>. QED
    BY <1>a, <1>14, <2>1 DEF NobodySends, Idles, Runs
<1>15. ASSUME NEW h \in Handlers, Mailing(h)
       PROVE  OneSends \/ OneStores
  BY <1>15 DEF Mailing, Mail, OneSends, OneStores, Sending
<1>16. ASSUME NEW h \in Handlers, Hearing(h)
       PROVE  OneStores
  <2>1. handler[h].step \in {"wait", "lost"} /\ handler[h].todo # {}
    BY <1>16 DEF Hearing, Answered, HandlersInv, HandlerOK, Sending
  <2>. QED
    BY <1>16, <2>1 DEF Hearing, Answered, OneStores, Sending
<1>17. ASSUME NEW c \in Calls,
              \/ Background(Buffer(c)) \/ Background(Dedup(c)) \/ Background(Post(c))
       PROVE  NobodySends
  <2>1. UNCHANGED handler
    BY <1>17 DEF Background, gateVars
  <2>2. \A d \in Calls : d # c => call'[d] = call[d]
    BY <1>17, ProceedDoes DEF Background, Buffer, Dedup, Post, Outcomes
  <2>3. call'[c].mail = call[c].mail /\ call'[c].step # "idle"
    BY <1>17, ProceedDoes DEF Background, Buffer, Dedup, Post, Outcomes
  <2>4. \A d \in Calls : Held(d) => call[d].step # "idle"
    BY DEF Held, CampaignsInv
  <2>. QED
    BY <1>c, <2>1, <2>2, <2>3, <2>4 DEF HeldStay
<1>18. ASSUME NEW c \in Calls, Background(Log(c))
       PROVE  NobodySends
  <2>1. UNCHANGED handler
    BY <1>18 DEF Background, gateVars
  <2>2. \A d \in Calls : d # c => call'[d] = call[d]
    BY <1>18, LogDoes DEF Background
  <2>3. \A d \in Calls : Held(d) =>
           call[d].step # "idle" /\ call[d].mail.event = "GoodsDisplayCampaign"
    <3>1. ASSUME NEW f \in Handlers, handler[f].step = "wait"
          PROVE  /\ call[handler[f].at].step # "idle"
                 /\ call[handler[f].at].mail.event = "GoodsDisplayCampaign"
      <4>1. handler[f].todo # {}
        BY <3>1 DEF HandlersInv, HandlerOK, Sending
      <4>2. NextMail(f) \in CampaignMails
        BY <3>1, <4>1, InHand DEF Sending
      <4>3. \A m \in CampaignMails : m.event = "GoodsDisplayCampaign"
        BY DEF CampaignMails, CampaignMail
      <4>. QED
        BY <3>1, <4>2, <4>3 DEF CampaignsInv
    <3>. QED
      BY <3>1 DEF Held
  <2>4. Held(c) => call'[c].mail = call[c].mail /\ call'[c].step # "idle"
    BY <1>18, <2>3, LogDoes DEF Background
  <2>. QED
    BY <1>c, <2>1, <2>2, <2>3, <2>4 DEF HeldStay
<1>19. ASSUME NEW c \in Calls, Background(Unheard(c))
       PROVE  NobodySends
  <2>1. UNCHANGED handler
    BY <1>19 DEF Background, gateVars
  <2>2. \A d \in Calls : d # c => call'[d] = call[d]
    BY <1>19, FinishDoes DEF Background, Unheard
  <2>3. ~Held(c)
    BY <1>19 DEF Background, Unheard, Held
  <2>4. \A d \in Calls : Held(d) => call[d].step # "idle"
    BY DEF Held, CampaignsInv
  <2>. QED
    BY <1>c, <2>1, <2>2, <2>3, <2>4 DEF HeldStay
<1>20. CASE \/ Background(Expire) \/ Background(FlushPost)
            \/ \E w \in Regions : Background(FlushTake(w))
  <2>1. UNCHANGED <<handler, call>>
    BY <1>20 DEF Background, gateVars, Expire, FlushPost, FlushTake
  <2>2. \A d \in Calls : Held(d) => call[d].step # "idle"
    BY DEF Held, CampaignsInv
  <2>. QED
    BY <1>c, <2>1, <2>2 DEF HeldStay
<1>. QED
  BY Steps, <1>1, <1>2, <1>3, <1>4, <1>5, <1>6, <1>7, <1>8, <1>9, <1>10, <1>11, <1>12,
     <1>13, <1>14, <1>15, <1>16, <1>17, <1>18, <1>19, <1>20

LEMMA LoggedSteps ==
    ASSUME TypeInv, HandlersInv, CampaignsInv, Next
    PROVE  \A c \in Calls : call'[c].step = "logged" =>
              <<call'[c].mail, call'[c].outcome>> \in rows'
<1> SUFFICES ASSUME NEW c \in Calls, call'[c].step = "logged"
             PROVE  <<call'[c].mail, call'[c].outcome>> \in rows'
  OBVIOUS
<1>a. ASSUME call'[c] = call[c]
      PROVE  <<call'[c].mail, call'[c].outcome>> \in rows'
  BY <1>a, RowsGrow DEF CampaignsInv
<1>1. CASE UNCHANGED notifVars
  BY <1>a, <1>1 DEF notifVars
<1>2. ASSUME NEW d \in Calls, NEW m \in Sendable, Send(d, m)
      PROVE  call'[c] = call[c]
  BY <1>2, SendDoes
<1>3. ASSUME NEW d \in Calls, Buffer(d) \/ Dedup(d) \/ Post(d)
      PROVE  call'[c] = call[c]
  <2>1. (\A e \in Calls : e # d => call'[e] = call[e]) /\ call'[d].step # "logged"
    BY <1>3, ProceedDoes DEF Buffer, Dedup, Post, Outcomes
  <2>. QED
    BY <2>1
<1>4. ASSUME NEW d \in Calls, Log(d)
      PROVE  <<call'[c].mail, call'[c].outcome>> \in rows'
  <2>1. CASE c # d
    BY <1>a, <1>4, <2>1, LogDoes
  <2>2. CASE c = d
    BY <1>4, <2>2, LogDoes
  <2>. QED
    BY <2>1, <2>2
<1>5. ASSUME NEW d \in Calls, Finish(d)
      PROVE  call'[c] = call[c]
  BY <1>5, FinishDoes
<1>6. CASE Expire \/ FlushPost \/ \E w \in Regions : FlushTake(w)
  BY <1>a, <1>6 DEF Expire, FlushPost, FlushTake
<1>7. CASE NotifierCrash
  BY <1>7, CrashDoes
<1>. QED
  BY MailActs, <1>a, <1>1, <1>2, <1>3, <1>4, <1>5, <1>6, <1>7

\* What becomes of the handler that stores a row, and of its answer.
LEMMA StoredSays ==
    ASSUME TypeInv, HandlersInv, CampaignsInv, NEW h \in Handlers,
           handler[h].step \in Sending, handler[h].todo # {},
           NEW outcome \in {"SENT", "FAILED"}, Stored(h, outcome)
    PROVE  /\ \A f \in Handlers : f # h => handler'[f] = handler[f]
           /\ handler'[h].op = handler[h].op
           /\ \/ /\ Exists(Of(h)) /\ handler'[h].step = "mail"
                 /\ handler'[h].kept = handler[h].kept \cup {<<NextMail(h), outcome>>}
              \/ handler'[h].step = "respond" /\ handler'[h].kept = {}
<1>1. CASE Exists(Of(h))
  BY <1>1 DEF Stored, TypeInv, PeopleTypes, HandlerRecords
<1>2. CASE ~Exists(Of(h))
  <2>1. handler[h].kept = {}
    BY <1>2 DEF CampaignsInv
  <2>. QED
    BY <1>2, <2>1 DEF Stored, TypeInv, PeopleTypes, HandlerRecords
<1>. QED
  BY <1>1, <1>2

KeptOK(f) ==
    /\ handler'[f].kept # {} =>
          /\ handler'[f].step \in Sending
          /\ status'[handler'[f].op.id] \notin {"ABSENT", "DELETED"}
    /\ \A r \in handler'[f].kept : r[2] = "SENT" =>
          \E outcome \in Outcomes : <<r[1], outcome>> \in rows'

WaitOK(f) ==
    handler'[f].step = "wait" =>
        /\ call'[handler'[f].at].mail = CHOOSE m \in handler'[f].todo : TRUE
        /\ call'[handler'[f].at].step # "idle"
        /\ \A e \in Handlers :
              handler'[e].step = "wait" /\ handler'[e].at = handler'[f].at => e = f

LEMMA CampaignsFit ==
    ASSUME CampaignsConsistent',
           \A f \in Handlers : KeptOK(f) /\ WaitOK(f),
           \A c \in Calls : call'[c].step = "logged" =>
              <<call'[c].mail, call'[c].outcome>> \in rows'
    PROVE  CampaignsInv'
  BY DEF CampaignsInv, KeptOK, WaitOK, Exists, Of, NextMail

LEMMA CampaignSteps ==
    ASSUME TypeInv, HandlersInv, CampaignsInv, Next
    PROVE  CampaignTypes' /\ CampaignsInv'
<1>1. CampaignTypes' /\ CampaignsConsistent'
  BY CampaignTableSteps
<1>2. SUFFICES \A f \in Handlers : KeptOK(f) /\ WaitOK(f)
  BY <1>1, CampaignsFit, LoggedSteps
<1>a. ASSUME NEW f \in Handlers,
             /\ handler'[f].kept = handler[f].kept
             /\ handler'[f].op = handler[f].op
             /\ handler'[f].step \in Sending
      PROVE  KeptOK(f)
  <2>1. handler[f].kept # {} => Exists(Of(f))
    BY DEF CampaignsInv
  <2>2. handler[f].kept # {} => status'[Of(f)] \notin {"ABSENT", "DELETED"}
    BY <2>1, CampaignTableSteps
  <2>3. \A r \in handler[f].kept : r[2] = "SENT" =>
           \E outcome \in Outcomes : <<r[1], outcome>> \in rows'
    BY RowsGrow DEF CampaignsInv
  <2>. QED
    BY <1>a, <2>2, <2>3 DEF KeptOK, Of
<1>b. ASSUME NEW f \in Handlers, handler'[f] = handler[f]
      PROVE  KeptOK(f)
  <2>1. CASE handler[f].kept = {}
    BY <1>b, <2>1 DEF KeptOK
  <2>2. CASE handler[f].kept # {}
    <3>1. handler[f].step \in Sending
      BY <2>2 DEF CampaignsInv
    <3>. QED
      BY <1>a, <1>b, <3>1
  <2>. QED
    BY <2>1, <2>2
<1>c. ASSUME NEW f \in Handlers, handler'[f].kept = {}
      PROVE  KeptOK(f)
  BY <1>c DEF KeptOK
<1>d. ASSUME NEW f \in Handlers, handler'[f] = handler[f],
             handler[f].step = "wait" =>
                /\ call'[handler[f].at].mail = call[handler[f].at].mail
                /\ call'[handler[f].at].step # "idle",
             \A e \in Handlers :
                e # f /\ handler'[e].step = "wait" =>
                   \/ handler'[e] = handler[e]
                   \/ handler[f].step = "wait" => handler'[e].at # handler[f].at
      PROVE  WaitOK(f)
  <2>1. handler[f].step = "wait" =>
           /\ call[handler[f].at].mail = CHOOSE m \in handler[f].todo : TRUE
           /\ \A e \in Handlers :
                 handler[e].step = "wait" /\ handler[e].at = handler[f].at => e = f
    BY DEF CampaignsInv, NextMail
  <2>. QED
    BY <1>d, <2>1 DEF WaitOK
<1>3. CASE NobodySends
  <2> SUFFICES ASSUME NEW f \in Handlers
               PROVE  KeptOK(f) /\ WaitOK(f)
    OBVIOUS
  <2>1. CASE Idles(f)
    BY <1>c, <2>1 DEF Idles, WaitOK
  <2>2. CASE handler'[f] = handler[f]
    <3>1. handler[f].step = "wait" =>
                /\ call'[handler[f].at].mail = call[handler[f].at].mail
                /\ call'[handler[f].at].step # "idle"
      BY <1>3 DEF NobodySends, HeldStay, Held, HandlersInv, HandlerOK
    <3>2. \A e \in Handlers : handler'[e].step = "wait" => handler'[e] = handler[e]
      BY <1>3 DEF NobodySends, Idles
    <3>. QED
      BY <1>b, <1>d, <2>2, <3>1, <3>2
  <2>. QED
    BY <1>3, <2>1, <2>2 DEF NobodySends
<1>4. CASE AllLost
  <2> SUFFICES ASSUME NEW f \in Handlers
               PROVE  KeptOK(f) /\ WaitOK(f)
    OBVIOUS
  <2>1. handler'[f].step # "wait"
    BY <1>4 DEF AllLost, TypeInv, PeopleTypes, HandlerRecords
  <2>2. CASE handler[f].step = "wait"
    <3>1. /\ handler'[f].kept = handler[f].kept
          /\ handler'[f].op = handler[f].op
          /\ handler'[f].step \in Sending
      BY <1>4, <2>2 DEF AllLost, TypeInv, PeopleTypes, HandlerRecords, Sending
    <3>. QED
      BY <1>a, <2>1, <3>1 DEF WaitOK
  <2>3. CASE handler[f].step # "wait"
    <3>1. handler'[f] = handler[f]
      BY <1>4, <2>3 DEF AllLost
    <3>. QED
      BY <1>b, <2>1, <3>1 DEF WaitOK
  <2>. QED
    BY <2>2, <2>3
<1>5. ASSUME NEW h \in Handlers, NEW c \in Calls,
             handler[h].step = "mail", handler[h].todo # {},
             Send(c, NextMail(h)),
             handler' = [handler EXCEPT ![h].step = "wait", ![h].at = c],
             NEW f \in Handlers
      PROVE  KeptOK(f) /\ WaitOK(f)
  <2>1. /\ handler'[h].kept = handler[h].kept /\ handler'[h].op = handler[h].op
        /\ handler'[h].todo = handler[h].todo
        /\ handler'[h].step = "wait" /\ handler'[h].at = c
        /\ \A e \in Handlers : e # h => handler'[e] = handler[e]
    BY <1>5 DEF TypeInv, PeopleTypes, HandlerRecords
  <2>2. NextMail(h) \in Sendable
    BY <1>5, InHand DEF Sendable, Sending
  <2>3. /\ \A d \in Calls : d # c => call'[d] = call[d]
        /\ call[c].step = "idle" /\ call'[c].mail = NextMail(h)
        /\ call'[c].step # "idle"
    BY <1>5, <2>2, SendDoes
  <2>4. \A e \in Handlers : handler[e].step = "wait" =>
           handler[e].at \in Calls /\ handler[e].at # c /\ call[handler[e].at].step # "idle"
    BY <2>3 DEF CampaignsInv, HandlersInv, HandlerOK
  <2>5. CASE f = h
    <3>1. KeptOK(f)
      BY <1>a, <2>1, <2>5 DEF Sending
    <3>2. WaitOK(f)
      BY <2>1, <2>3, <2>4, <2>5 DEF WaitOK, NextMail
    <3>. QED
      BY <3>1, <3>2
  <2>6. CASE f # h
    <3>1. handler'[f] = handler[f]
      BY <2>1, <2>6
    <3>2. handler[f].step = "wait" =>
             /\ call'[handler[f].at].mail = call[handler[f].at].mail
             /\ call'[handler[f].at].step # "idle"
      BY <2>3, <2>4
    <3>3. \A e \in Handlers : e # f =>
             \/ handler'[e] = handler[e]
             \/ handler[f].step = "wait" => handler'[e].at # handler[f].at
      BY <2>1, <2>4
    <3>. QED
      BY <1>b, <1>d, <3>1, <3>2, <3>3
  <2>. QED
    BY <2>5, <2>6
<1>6. ASSUME NEW h \in Handlers, handler[h].step \in Sending, handler[h].todo # {},
             NEW outcome \in {"SENT", "FAILED"}, Stored(h, outcome),
             \/ /\ handler[h].step = "wait" /\ Finish(handler[h].at)
             \/ UNCHANGED notifVars /\ outcome = "FAILED",
             NEW f \in Handlers
      PROVE  KeptOK(f) /\ WaitOK(f)
  <2>0. \A e \in Handlers : handler[e].step = "wait" =>
           handler[e].at \in Calls /\ call[handler[e].at].step # "idle"
    BY DEF CampaignsInv, HandlersInv, HandlerOK
  <2>1. /\ \A e \in Handlers : e # h => handler'[e] = handler[e]
        /\ handler'[h].op = handler[h].op
        /\ \/ /\ Exists(Of(h)) /\ handler'[h].step = "mail"
              /\ handler'[h].kept = handler[h].kept \cup {<<NextMail(h), outcome>>}
           \/ handler'[h].step = "respond" /\ handler'[h].kept = {}
    BY <1>6, StoredSays
  <2>2. CASE f = h
    <3>1. WaitOK(f)
      BY <2>1, <2>2 DEF WaitOK
    <3>2. CASE handler'[h].kept = {}
      BY <1>c, <2>2, <3>1, <3>2
    <3>3. CASE /\ Exists(Of(h)) /\ handler'[h].step = "mail"
               /\ handler'[h].kept = handler[h].kept \cup {<<NextMail(h), outcome>>}
      <4>1. UNCHANGED campaignVars
        BY <1>6 DEF Stored
      <4>2. status'[Of(h)] \notin {"ABSENT", "DELETED"}
        BY <3>3, <4>1 DEF Exists, campaignVars
      <4>3. \A r \in handler[h].kept : r[2] = "SENT" =>
               \E x \in Outcomes : <<r[1], x>> \in rows'
        BY RowsGrow DEF CampaignsInv
      <4>4. outcome = "SENT" => \E x \in Outcomes : <<NextMail(h), x>> \in rows'
        <5>1. SUFFICES ASSUME outcome = "SENT"
                       PROVE  \E x \in Outcomes : <<NextMail(h), x>> \in rows'
          OBVIOUS
        <5>2. handler[h].step = "wait" /\ Finish(handler[h].at)
          BY <1>6, <5>1
        <5>3. /\ handler[h].at \in Calls
              /\ call[handler[h].at].mail = NextMail(h)
          BY <2>0, <5>2 DEF CampaignsInv
        <5>4. call[handler[h].at].step = "logged"
          BY <5>2 DEF Finish
        <5>5. <<NextMail(h), call[handler[h].at].outcome>> \in rows'
          BY <5>3, <5>4, RowsGrow DEF CampaignsInv
        <5>6. call[handler[h].at].outcome \in Outcomes
          BY <5>3 DEF TypeInv, MailTypes, CallRecords
        <5>. QED
          BY <5>5, <5>6
      <4>5. \A r \in handler'[h].kept : r[2] = "SENT" =>
               \E x \in Outcomes : <<r[1], x>> \in rows'
        BY <3>3, <4>3, <4>4
      <4>. QED
        BY <2>1, <2>2, <3>1, <3>3, <4>2, <4>5 DEF KeptOK, Sending, Of
    <3>. QED
      BY <2>1, <3>2, <3>3
  <2>3. CASE f # h
    <3>1. handler'[f] = handler[f]
      BY <2>1, <2>3
    <3>2. handler[f].step = "wait" =>
             /\ call'[handler[f].at].mail = call[handler[f].at].mail
             /\ call'[handler[f].at].step # "idle"
      <4>1. SUFFICES ASSUME handler[f].step = "wait"
                     PROVE  call'[handler[f].at] = call[handler[f].at]
        BY <2>0
      <4>2. CASE UNCHANGED notifVars
        BY <4>2 DEF notifVars
      <4>3. CASE handler[h].step = "wait" /\ Finish(handler[h].at)
        <5>1. handler[f].at # handler[h].at
          BY <2>3, <4>1, <4>3 DEF CampaignsInv
        <5>. QED
          BY <2>0, <4>1, <4>3, <5>1, FinishDoes
      <4>. QED
        BY <1>6, <4>2, <4>3
    <3>3. \A e \in Handlers :
             e # f /\ handler'[e].step = "wait" => handler'[e] = handler[e]
      BY <2>1
    <3>. QED
      BY <1>b, <1>d, <3>1, <3>2, <3>3
  <2>. QED
    BY <2>2, <2>3
<1>7. CASE OneSends
  BY <1>5, <1>7 DEF OneSends
<1>8. CASE OneStores
  BY <1>6, <1>8 DEF OneStores
<1>. QED
  BY SenderActs, <1>3, <1>4, <1>7, <1>8

-----------------------------------------------------------------------------
(* Answers *)

TruthNow(op) ==
    CASE op.kind = "approveBook"  -> book' = "APPROVED"
      [] op.kind = "rejectBook"   -> book' = "REJECTED"
      [] op.kind = "approveSpike" -> spike'
      [] op.kind = "receive"      -> delivery' = "EXECUTED"
      [] op.kind = "refuse"       -> delivery' = "REJECTED"
      [] OTHER -> TRUE

\* A decision is not taken back.
LEMMA TruthStays ==
    ASSUME TypeInv, HandlersInv, JobInv, Next, NEW op, Truth(op)
    PROVE  TruthNow(op)
<1>1. /\ book \in {"APPROVED", "REJECTED"} => UNCHANGED book
      /\ spike => spike'
      /\ delivery \in {"EXECUTED", "REJECTED"} => UNCHANGED delivery
  <2>0. TableMoves /\ TableTypes
    BY TableActs DEF TypeInv
  <2>1. book \in {"APPROVED", "REJECTED"} => UNCHANGED book
    BY <2>0 DEF TableMoves, JobInv, Open
  <2>2. spike => spike'
    BY <2>0 DEF TableMoves, TableTypes
  <2>3. delivery \in {"EXECUTED", "REJECTED"} => UNCHANGED delivery
    BY <2>0 DEF TableMoves
  <2>. QED
    BY <2>1, <2>2, <2>3
<1>. QED
  BY <1>1 DEF Truth, TruthNow

Honest(f) == handler'[f].result = "ok" => TruthNow(handler'[f].op)

LEMMA HandlersHonest ==
    ASSUME TypeInv, HandlersInv, JobInv, TruthInv, Next
    PROVE  \A f \in Handlers : Honest(f)
<1> SUFFICES ASSUME NEW f \in Handlers
             PROVE  Honest(f)
  OBVIOUS
<1>a. ASSUME handler'[f].op = handler[f].op, handler'[f].result = handler[f].result
      PROVE  Honest(f)
  BY <1>a, TruthStays DEF Honest, TruthInv
<1>b. ASSUME handler'[f] = handler[f]
      PROVE  Honest(f)
  BY <1>a, <1>b
<1>c. ASSUME UNCHANGED handler
      PROVE  Honest(f)
  BY <1>b, <1>c
<1>d. ASSUME handler'[f].result # "ok"
      PROVE  Honest(f)
  BY <1>d DEF Honest
<1>1. CASE \/ Job(Submit) \/ Job(JobList) \/ Job(JobUpdate) \/ Job(JobCommit)
           \/ Job(JobNotify) \/ Job(JobDies)
  BY <1>c, <1>1 DEF Job, Submit, JobList, JobUpdate, JobCommit, JobNotify, JobDies, gateVars
<1>2. ASSUME NEW g \in Clicks, Ask(g) \/ Failing(g)
      PROVE  Honest(f)
  BY <1>c, <1>2 DEF Ask, Failing, Quietly, Press, Fails
<1>3. ASSUME NEW g \in Clicks, Forward(g)
      PROVE  Honest(f)
  <2>1. PICK h \in Handlers : Moved(h, [Rest EXCEPT !.step = "run", !.op = click[g].op])
    BY <1>3 DEF Forward, Quietly, Reach, Moved
  <2>2. handler'[h].result = "none" /\ (f # h => handler'[f] = handler[f])
    BY <2>1 DEF Moved, TypeInv, PeopleTypes, Rest
  <2>. QED
    BY <1>b, <1>d, <2>2
<1>4. CASE ServiceDies
  <2>1. handler'[f].result = "none"
    BY <1>4 DEF ServiceDies, ServiceCrash, Rest
  <2>. QED
    BY <1>d, <2>1
<1>5. CASE NotifierDies
  <2>1. handler'[f].op = handler[f].op /\ handler'[f].result = handler[f].result
    BY <1>5 DEF NotifierDies, TypeInv, PeopleTypes, HandlerRecords
  <2>. QED
    BY <1>a, <2>1
<1>6. ASSUME NEW h \in Handlers, Quietly(Respond(h))
      PROVE  Honest(f)
  <2>1. Moved(h, Rest)
    BY <1>6 DEF Quietly, Respond, Moved
  <2>2. handler'[h].result = "none" /\ (f # h => handler'[f] = handler[f])
    BY <2>1 DEF Moved, TypeInv, PeopleTypes, Rest
  <2>. QED
    BY <1>b, <1>d, <2>2
<1>e. ASSUME NEW h \in Handlers, Moves(h)
      PROVE  /\ f # h => Honest(f)
             /\ handler'[h].op = handler[h].op
  <2>1. handler'[h].op = handler[h].op /\ \A e \in Handlers : e # h => handler'[e] = handler[e]
    BY <1>e DEF Moves, Moved, TypeInv, PeopleTypes
  <2>. QED
    BY <1>b, <2>1
<1>f. ASSUME NEW h \in Handlers, Moves(h),
             handler'[h].result = "ok" => TruthNow(handler[h].op)
      PROVE  Honest(f)
  BY <1>e, <1>f DEF Honest
<1>g. ASSUME NEW h \in Handlers, To(h, "respond", "refused")
      PROVE  handler'[h].result # "ok"
  BY <1>g DEF To, TypeInv, PeopleTypes, HandlerRecords
<1>7. ASSUME NEW h \in Handlers, Serves(h, ApproveBook(h))
      PROVE  Honest(f)
  <2>1. TruthNow(handler[h].op) \/ To(h, "respond", "refused")
    BY <1>7 DEF Serves, ApproveBook, Refuse, Kind, TruthNow
  <2>. QED
    BY <1>f, <1>g, <1>7, <2>1, RequestMoves
<1>8. ASSUME NEW h \in Handlers, Serves(h, RejectBook(h))
      PROVE  Honest(f)
  <2>1. TruthNow(handler[h].op) \/ To(h, "respond", "refused")
    BY <1>8 DEF Serves, RejectBook, Refuse, Kind, TruthNow
  <2>. QED
    BY <1>f, <1>g, <1>8, <2>1, RequestMoves
<1>9. ASSUME NEW h \in Handlers, Serves(h, ApproveSpike(h))
      PROVE  Honest(f)
  <2>1. TruthNow(handler[h].op) \/ To(h, "respond", "refused")
    BY <1>9 DEF Serves, ApproveSpike, Refuse, Kind, TruthNow
  <2>. QED
    BY <1>f, <1>g, <1>9, <2>1, RequestMoves
<1>10. ASSUME NEW h \in Handlers,
              Serves(h, AskReturn(h)) \/ Serves(h, DecideReturn(h)) \/ Serves(h, LookAtFlag(h))
       PROVE  Honest(f)
  <2>1. TruthNow(handler[h].op)
    BY <1>10 DEF Serves, AskReturn, DecideReturn, LookAtFlag, Kind, TruthNow
  <2>. QED
    BY <1>f, <1>10, <2>1, RequestMoves
<1>11. ASSUME NEW h \in Handlers, Serves(h, LookAtDelivery(h))
       PROVE  Honest(f)
  <2>1. handler'[h].result # "ok"
    BY <1>11 DEF Serves, LookAtDelivery, To, TypeInv, PeopleTypes, HandlerRecords
  <2>. QED
    BY <1>f, <1>11, <2>1, RequestMoves
<1>12. ASSUME NEW h \in Handlers, Goes(UpdateDelivery(h))
       PROVE  Honest(f)
  <2>1. handler[h].op.kind \in {"receive", "refuse"}
    BY <1>12 DEF Goes, UpdateDelivery, HandlersInv, HandlerOK
  <2>2. TruthNow(handler[h].op) \/ To(h, "respond", "refused")
    BY <1>12, <2>1 DEF Goes, UpdateDelivery, Refuse, Kind, TruthNow
  <2>. QED
    BY <1>f, <1>g, <1>12, <2>2, RequestMoves
<1>13. ASSUME NEW h \in Handlers, Goes(SetFlag(h))
       PROVE  Honest(f)
  <2>1. handler[h].op.kind = "closeDay"
    BY <1>13 DEF Goes, SetFlag, HandlersInv, HandlerOK
  <2>2. TruthNow(handler[h].op)
    BY <2>1 DEF TruthNow
  <2>. QED
    BY <1>f, <1>13, <2>2, RequestMoves
<1>14. ASSUME NEW h \in Handlers, Goes(TellAll(h))
       PROVE  Honest(f)
  <2>1. handler[h].result = "ok"
    BY <1>14 DEF Goes, TellAll, HandlersInv, HandlerOK
  <2>2. TruthNow(handler[h].op)
    BY <2>1, TruthStays DEF TruthInv
  <2>. QED
    BY <1>f, <1>14, <2>2, RequestMoves
<1>15. ASSUME NEW h \in Handlers,
              \/ Runs(Create(h)) \/ Runs(Recommend(h)) \/ Runs(Patch(h))
              \/ Runs(Delete(h)) \/ Runs(Begin(h)) \/ Runs(Close(h))
              \/ Advising(h) \/ Mailing(h) \/ Hearing(h)
       PROVE  Honest(f)
  <2>1. handler[h].op.kind \in CampaignKinds
    <3>1. CASE \/ Runs(Create(h)) \/ Runs(Recommend(h)) \/ Runs(Patch(h))
               \/ Runs(Delete(h)) \/ Runs(Begin(h))
      BY <3>1 DEF Runs, Create, Recommend, Patch, Delete, Begin, Asked, CampaignKinds
    <3>2. CASE Runs(Close(h)) \/ Mailing(h) \/ Hearing(h)
      <4>1. handler[h].step \in Sending
        BY <3>2 DEF Runs, Close, Mailing, Mail, Hearing, Answered, Sending
      <4>. QED
        BY <4>1 DEF HandlersInv, HandlerOK, CampaignKinds
    <3>3. CASE Advising(h)
      BY <3>3 DEF Advising, Advise, HandlersInv, HandlerOK, CampaignKinds
    <3>. QED
      BY <1>15, <3>1, <3>2, <3>3
  <2>2. TruthNow(handler[h].op)
    BY <2>1 DEF TruthNow, CampaignKinds
  <2>. QED
    BY <1>f, <1>15, <2>2, CampaignMoves
<1>16. ASSUME NEW c \in Calls,
              \/ Background(Buffer(c)) \/ Background(Dedup(c)) \/ Background(Post(c))
              \/ Background(Log(c)) \/ Background(Unheard(c))
       PROVE  Honest(f)
  BY <1>c, <1>16 DEF Background, gateVars
<1>17. CASE \/ Background(Expire) \/ Background(FlushPost)
            \/ \E w \in Regions : Background(FlushTake(w))
  BY <1>c, <1>17 DEF Background, gateVars
<1>. QED
  BY Steps, <1>1, <1>2, <1>3, <1>4, <1>5, <1>6, <1>7, <1>8, <1>9, <1>10, <1>11, <1>12,
     <1>13, <1>14, <1>15, <1>16, <1>17

LEMMA ClicksHonest ==
    ASSUME TypeInv, HandlersInv, ClicksInv, JobInv, TruthInv, Next
    PROVE  \A g \in Clicks : click'[g].answer = "ok" => TruthNow(click'[g].op)
<1> SUFFICES ASSUME NEW g \in Clicks, click'[g].answer = "ok"
             PROVE  TruthNow(click'[g].op)
  OBVIOUS
<1>a. ASSUME click'[g].op = click[g].op, click'[g].answer \in {click[g].answer, "unavailable"}
      PROVE  TruthNow(click'[g].op)
  BY <1>a, TruthStays DEF TruthInv
<1>b. ASSUME UNCHANGED click
      PROVE  TruthNow(click'[g].op)
  BY <1>a, <1>b
<1>c. click[g] \in ClickRecords
  BY DEF TypeInv, PeopleTypes
<1>1. ASSUME NEW f \in Clicks, Ask(f)
      PROVE  TruthNow(click'[g].op)
  <2>1. /\ click[f].step = "ready"
        /\ click' = [click EXCEPT ![f].step = "calling", ![f].op = session.asks[f],
                                  ![f].try = 1]
    BY <1>1 DEF Ask, Quietly, Press
  <2>2. click'[g].answer = click[g].answer /\ (f # g => click'[g] = click[g])
    BY <2>1 DEF TypeInv, PeopleTypes, ClickRecords
  <2>3. f # g
    BY <2>1, <2>2 DEF ClicksInv
  <2>. QED
    BY <1>a, <2>2, <2>3
<1>2. ASSUME NEW f \in Clicks, Forward(f)
      PROVE  TruthNow(click'[g].op)
  <2>1. \E h \in Handlers : click' = [click EXCEPT ![f].by = h]
    BY <1>2 DEF Forward, Quietly, Reach
  <2>2. click'[g].answer = click[g].answer /\ click'[g].op = click[g].op
    BY <2>1 DEF TypeInv, PeopleTypes, ClickRecords
  <2>. QED
    BY <1>a, <2>2
<1>3. ASSUME NEW f \in Clicks, Failing(f)
      PROVE  TruthNow(click'[g].op)
  <2>1. click'[g] \in {click[g], Retry(click[g]), Abandoned(click[g])}
    BY <1>3 DEF Failing, Fails, TypeInv, PeopleTypes
  <2>2. click'[g].op = click[g].op /\ click'[g].answer \in {click[g].answer, "unavailable"}
    BY <1>c, <2>1, RetryOK
  <2>. QED
    BY <1>a, <2>2
<1>4. CASE ServiceDies
  <2>1. click'[g] \in {click[g], Retry(click[g])}
    BY <1>4 DEF ServiceDies, ServiceCrash
  <2>2. click'[g].op = click[g].op /\ click'[g].answer \in {click[g].answer, "unavailable"}
    BY <1>c, <2>1, RetryOK
  <2>. QED
    BY <1>a, <2>2
<1>5. CASE NotifierDies
  BY <1>b, <1>5 DEF NotifierDies
<1>6. ASSUME NEW h \in Handlers, Quietly(Respond(h))
      PROVE  TruthNow(click'[g].op)
  <2>1. CASE click[g].by = h
    <3>1. click'[g].op = click[g].op /\ click'[g].answer = handler[h].result
      BY <1>c, <1>6, <2>1 DEF Quietly, Respond, ClickRecords
    <3>2. click[g].op = handler[h].op
      BY <2>1, AboutConstants DEF ClicksInv
    <3>. QED
      BY <3>1, <3>2, TruthStays DEF TruthInv
  <2>2. CASE click[g].by # h
    <3>1. click'[g] = click[g]
      BY <1>6, <2>2 DEF Quietly, Respond
    <3>. QED
      BY <1>a, <3>1
  <2>. QED
    BY <2>1, <2>2
<1>7. CASE UNCHANGED <<session, gateVars>>
  BY <1>b, <1>7 DEF gateVars
<1>8. ASSUME NEW h \in Handlers, Moves(h)
      PROVE  TruthNow(click'[g].op)
  BY <1>b, <1>8 DEF Moves
<1>. QED
  BY PeopleActs, RequestMoves, CampaignMoves, <1>1, <1>2, <1>3, <1>4, <1>5, <1>6, <1>7, <1>8

LEMMA TruthSteps ==
    ASSUME TypeInv, HandlersInv, ClicksInv, JobInv, TruthInv, Next
    PROVE  TruthInv'
  BY HandlersHonest, ClicksHonest DEF TruthInv, Honest, Truth, TruthNow

-----------------------------------------------------------------------------
(* Mails about the book *)

CarriesNow(c, m) == call'[c].mail = m /\ call'[c].step \in {"dedup", "post"}

SaidNow(m) ==
    IF m.stage = "DISCOVERED" THEN book' \notin {"none", "NEW"} ELSE book' = m.stage

\* m goes to nobody new.
NoNewHand(m) == \A h \in Handlers : m \in handler'[h].todo => m \in handler[h].todo
NoNewCall(m) == \A c \in Calls : CarriesNow(c, m) => Carries(c, m)
NoNewMail(m) == m \in Mails => mailed'[m] = mailed[m]

Resting(m) == NoNewHand(m) /\ NoNewCall(m) /\ NoNewMail(m)

Deciding(m) ==
    /\ m.stage # "DISCOVERED" /\ book \in Open /\ book' = m.stage
    /\ UNCHANGED notifVars
    /\ \E h \in Handlers : \A f \in Handlers : f # h => handler'[f] = handler[f]

Telling(m) ==
    \E h \in Handlers, c \in Calls :
        /\ m \in handler[h].todo /\ m \notin handler'[h].todo
        /\ \A f \in Handlers : f # h => handler'[f] = handler[f]
        /\ \A d \in Calls : d # c => call'[d] = call[d]
        /\ NoNewMail(m)

Discovering(m) ==
    /\ m.stage = "DISCOVERED" /\ job = "committed" /\ job' = "idle"
    /\ UNCHANGED handler
    /\ \E c \in Calls : \A d \in Calls : d # c => call'[d] = call[d]
    /\ NoNewMail(m)

Posted(m) ==
    /\ UNCHANGED handler
    /\ \E c \in Calls :
          /\ Carries(c, m) /\ ~CarriesNow(c, m)
          /\ \A d \in Calls : d # c => call'[d] = call[d]
    /\ m \in Mails => mailed'[m] = mailed[m] + 1

LEMMA AboutBookMails ==
    ASSUME NEW m \in BookMails
    PROVE  /\ m.event = "NewBookRequest" /\ m.stage \in {"DISCOVERED", "APPROVED", "REJECTED"}
           /\ m = BookMail(m.stage)
           /\ m \notin CampaignMails
           /\ m # SpikeMail /\ m # ArrivalMail /\ m # RefusalMail /\ m # DayMail
           /\ \A r : m # ReturnMail(r)
<1>1. m.event = "NewBookRequest" /\ m.stage \in {"DISCOVERED", "APPROVED", "REJECTED"}
      /\ m = BookMail(m.stage)
  BY DEF BookMails, BookMail, Tell
<1>2. \A x \in CampaignMails : x.event = "GoodsDisplayCampaign"
  BY DEF CampaignMails, CampaignMail
<1>3. SpikeMail.event = "SpikeUrgent"
  BY DEF SpikeMail, Tell
<1>4. ArrivalMail.event = "StockArrivalPending"
  BY DEF ArrivalMail, Tell
<1>5. DayMail.event = "DailyPlanFinalized"
  BY DEF DayMail, Tell
<1>6. \A r : ReturnMail(r).event = "ReturnPending"
  BY DEF ReturnMail, Tell
<1>7. RefusalMail.event = "InboundRejected"
  BY DEF RefusalMail, Tell
<1>. QED
  BY <1>1, <1>2, <1>3, <1>4, <1>5, <1>6, <1>7

LEMMA QuietRests ==
    ASSUME UNCHANGED notifVars, NEW m
    PROVE  NoNewCall(m) /\ NoNewMail(m)
  BY DEF notifVars, NoNewCall, NoNewMail, CarriesNow, Carries

LEMMA SendRests ==
    ASSUME TypeInv, NEW x \in Sendable, NEW c \in Calls, Send(c, x), NEW m
    PROVE  /\ NoNewMail(m)
           /\ x # m => NoNewCall(m)
           /\ \A d \in Calls : d # c => call'[d] = call[d]
  BY SendDoes DEF NoNewCall, NoNewMail, CarriesNow, Carries

LEMMA BookMailActs ==
    ASSUME TypeInv, HandlersInv, Next, NEW m \in BookMails
    PROVE  Resting(m) \/ Deciding(m) \/ Telling(m) \/ Discovering(m) \/ Posted(m)
<1>a. ASSUME UNCHANGED handler
      PROVE  NoNewHand(m)
  BY <1>a DEF NoNewHand
<1>1. CASE \/ Job(Submit) \/ Job(JobList) \/ Job(JobUpdate) \/ Job(JobCommit) \/ Job(JobDies)
  BY <1>a, <1>1, QuietRests
     DEF Job, Submit, JobList, JobUpdate, JobCommit, JobDies, gateVars, Resting
<1>2. CASE Job(JobNotify)
  <2>1. UNCHANGED handler /\ job = "committed" /\ job' = "idle"
    BY <1>2 DEF Job, JobNotify, gateVars
  <2>2. CASE UNCHANGED notifVars
    BY <1>a, <2>1, <2>2, QuietRests DEF Resting
  <2>3. ASSUME NEW c \in Calls, Send(c, BookMail("DISCOVERED"))
        PROVE  Resting(m) \/ Discovering(m)
    <3>1. BookMail("DISCOVERED") \in Sendable
      BY DEF Sendable
    <3>2. m = BookMail("DISCOVERED") => m.stage = "DISCOVERED"
      BY DEF BookMail, Tell
    <3>. QED
      BY <1>a, <2>1, <2>3, <3>1, <3>2, SendRests DEF Resting, Discovering
  <2>. QED
    BY <1>2, <2>2, <2>3 DEF Job, JobNotify
<1>3. ASSUME NEW g \in Clicks, Ask(g) \/ Failing(g)
      PROVE  Resting(m)
  BY <1>a, <1>3, QuietRests DEF Ask, Failing, Quietly, Press, Fails, Resting
<1>4. ASSUME NEW g \in Clicks, Forward(g)
      PROVE  Resting(m)
  <2>1. PICK h \in Handlers : Moved(h, [Rest EXCEPT !.step = "run", !.op = click[g].op])
    BY <1>4 DEF Forward, Quietly, Reach, Moved
  <2>2. /\ handler'[h].todo = {}
        /\ \A f \in Handlers : f # h => handler'[f] = handler[f]
    BY <2>1 DEF Moved, TypeInv, PeopleTypes, Rest
  <2>. QED
    BY <1>4, <2>2, QuietRests DEF Forward, Quietly, Resting, NoNewHand
<1>5. CASE ServiceDies
  <2>1. \A h \in Handlers : handler'[h].todo = {}
    BY <1>5 DEF ServiceDies, ServiceCrash, Rest
  <2>. QED
    BY <1>5, <2>1, QuietRests DEF ServiceDies, Resting, NoNewHand
<1>6. CASE NotifierDies
  <2>1. \A h \in Handlers : handler'[h].todo = handler[h].todo
    BY <1>6 DEF NotifierDies, TypeInv, PeopleTypes, HandlerRecords
  <2>2. (\A c \in Calls : call'[c].step = "idle") /\ UNCHANGED mailed
    BY <1>6, CrashDoes DEF NotifierDies
  <2>. QED
    BY <2>1, <2>2 DEF Resting, NoNewHand, NoNewCall, NoNewMail, CarriesNow
<1>7. ASSUME NEW h \in Handlers, Quietly(Respond(h))
      PROVE  Resting(m)
  <2>1. Moved(h, Rest)
    BY <1>7 DEF Quietly, Respond, Moved
  <2>2. handler'[h].todo = {} /\ \A f \in Handlers : f # h => handler'[f] = handler[f]
    BY <2>1 DEF Moved, TypeInv, PeopleTypes, Rest
  <2>. QED
    BY <1>7, <2>2, QuietRests DEF Quietly, Resting, NoNewHand
<1>b. ASSUME NEW h \in Handlers, NEW mails, Done(h, mails)
      PROVE  /\ \A f \in Handlers : f # h => handler'[f] = handler[f]
             /\ m \notin mails => NoNewHand(m)
  <2>1. PICK r \in HandlerRecords : Moved(h, r) /\ r.todo = mails \cap Mails
    BY <1>b, DoneMoves
  <2>2. handler'[h] = r /\ \A f \in Handlers : f # h => handler'[f] = handler[f]
    BY <2>1 DEF Moved, TypeInv, PeopleTypes
  <2>. QED
    BY <2>1, <2>2 DEF NoNewHand
<1>c. ASSUME NEW h \in Handlers, NEW step \in HandlerSteps, NEW result \in {"none", "ok", "refused"},
             To(h, step, result)
      PROVE  NoNewHand(m)
  <2>1. PICK r \in HandlerRecords : Moved(h, r) /\ r.todo = handler[h].todo
    BY <1>c, ToMoves
  <2>2. handler'[h] = r /\ \A f \in Handlers : f # h => handler'[f] = handler[f]
    BY <2>1 DEF Moved, TypeInv, PeopleTypes
  <2>. QED
    BY <2>1, <2>2 DEF NoNewHand
<1>8. ASSUME NEW h \in Handlers, Serves(h, ApproveBook(h))
      PROVE  Resting(m) \/ Deciding(m)
  <2>1. UNCHANGED notifVars
    BY <1>8 DEF Serves
  <2>2. CASE To(h, "respond", "refused")
    BY <1>c, <2>1, <2>2, QuietRests DEF Resting, HandlerSteps
  <2>3. CASE book \in Open /\ book' = "APPROVED" /\ Done(h, {BookMail("APPROVED")})
    <3>1. CASE m = BookMail("APPROVED")
      <4>1. m.stage = "APPROVED"
        BY <3>1 DEF BookMail, Tell
      <4>. QED
        BY <1>b, <2>1, <2>3, <4>1 DEF Deciding
    <3>2. CASE m # BookMail("APPROVED")
      BY <1>b, <2>1, <2>3, <3>2, QuietRests DEF Resting
    <3>. QED
      BY <3>1, <3>2
  <2>. QED
    BY <1>8, <2>2, <2>3 DEF Serves, ApproveBook, BookOpen, Refuse
<1>9. ASSUME NEW h \in Handlers, Serves(h, RejectBook(h))
      PROVE  Resting(m) \/ Deciding(m)
  <2>1. UNCHANGED notifVars
    BY <1>9 DEF Serves
  <2>2. CASE To(h, "respond", "refused")
    BY <1>c, <2>1, <2>2, QuietRests DEF Resting, HandlerSteps
  <2>3. CASE book \in Open /\ book' = "REJECTED" /\ Done(h, {BookMail("REJECTED")})
    <3>1. CASE m = BookMail("REJECTED")
      <4>1. m.stage = "REJECTED"
        BY <3>1 DEF BookMail, Tell
      <4>. QED
        BY <1>b, <2>1, <2>3, <4>1 DEF Deciding
    <3>2. CASE m # BookMail("REJECTED")
      BY <1>b, <2>1, <2>3, <3>2, QuietRests DEF Resting
    <3>. QED
      BY <3>1, <3>2
  <2>. QED
    BY <1>9, <2>2, <2>3 DEF Serves, RejectBook, BookOpen, Refuse
<1>10. ASSUME NEW h \in Handlers,
              \/ Serves(h, ApproveSpike(h)) \/ Serves(h, AskReturn(h))
              \/ Serves(h, DecideReturn(h)) \/ Goes(UpdateDelivery(h)) \/ Goes(SetFlag(h))
       PROVE  Resting(m)
  <2>1. UNCHANGED notifVars
    BY <1>10 DEF Serves, Goes, UpdateDelivery, SetFlag
  <2>2. \/ To(h, "respond", "refused") \/ Done(h, {SpikeMail})
        \/ \E r \in Returns : Done(h, {ReturnMail(r)})
        \/ Done(h, {}) \/ Done(h, {ArrivalMail}) \/ Done(h, {RefusalMail}) \/ Done(h, {DayMail})
    BY <1>10 DEF Serves, Goes, ApproveSpike, AskReturn, DecideReturn, UpdateDelivery, SetFlag,
       Refuse
  <2>3. To(h, "respond", "refused") \/ \E mails : m \notin mails /\ Done(h, mails)
    <3>1. /\ m \notin {SpikeMail} /\ m \notin {} /\ m \notin {ArrivalMail}
          /\ m \notin {RefusalMail} /\ m \notin {DayMail} /\ \A r : m \notin {ReturnMail(r)}
      BY AboutBookMails
    <3>. QED
      BY <2>2, <3>1, Zenon
  <2>4. NoNewHand(m)
    BY <1>b, <1>c, <2>3 DEF HandlerSteps
  <2>. QED
    BY <2>1, <2>4, QuietRests DEF Resting
<1>11. ASSUME NEW h \in Handlers, Serves(h, LookAtDelivery(h)) \/ Serves(h, LookAtFlag(h))
       PROVE  Resting(m)
  <2>1. UNCHANGED notifVars
    BY <1>11 DEF Serves
  <2>2. \E step \in HandlerSteps, result \in {"none", "ok", "refused"} : To(h, step, result)
    BY <1>11 DEF Serves, LookAtDelivery, LookAtFlag, HandlerSteps
  <2>. QED
    BY <1>c, <2>1, <2>2, QuietRests DEF Resting
<1>12. ASSUME NEW h \in Handlers, Goes(TellAll(h))
       PROVE  Resting(m) \/ Telling(m)
  <2>1. handler[h].step = "tell"
    BY <1>12 DEF Goes, TellAll
  <2>2. CASE To(h, "respond", "ok") /\ UNCHANGED notifVars
    BY <1>c, <2>2, QuietRests DEF Resting, HandlerSteps
  <2>3. ASSUME NEW x \in handler[h].todo,
               handler' = [handler EXCEPT ![h].todo = @ \ {x}],
               (\E c \in Calls : Send(c, x)) \/ UNCHANGED notifVars
        PROVE  Resting(m) \/ Telling(m)
    <3>1. /\ handler'[h].todo = handler[h].todo \ {x}
          /\ \A f \in Handlers : f # h => handler'[f] = handler[f]
      BY <2>3 DEF TypeInv, PeopleTypes, HandlerRecords
    <3>2. NoNewHand(m)
      BY <3>1 DEF NoNewHand
    <3>3. x \in Sendable
      BY <2>1 DEF HandlersInv, HandlerOK, Sendable
    <3>4. CASE UNCHANGED notifVars
      BY <3>2, <3>4, QuietRests DEF Resting
    <3>5. ASSUME NEW c \in Calls, Send(c, x)
          PROVE  Resting(m) \/ Telling(m)
      BY <3>1, <3>2, <3>3, <3>5, SendRests DEF Resting, Telling
    <3>. QED
      BY <2>3, <3>4, <3>5
  <2>. QED
    BY <1>12, <2>2, <2>3 DEF Goes, TellAll
<1>13. ASSUME NEW h \in Handlers,
              \/ Runs(Create(h)) \/ Runs(Recommend(h)) \/ Runs(Patch(h))
              \/ Runs(Delete(h)) \/ Advising(h)
       PROVE  Resting(m)
  <2>1. UNCHANGED notifVars
    BY <1>13 DEF Runs, Advising
  <2>2. \E step \in HandlerSteps, result \in {"none", "ok", "refused"} : To(h, step, result)
    BY <1>13 DEF Runs, Create, Recommend, Patch, Delete, Advising, Advise, Turned, HandlerSteps
  <2>. QED
    BY <1>c, <2>1, <2>2, QuietRests DEF Resting
<1>14. ASSUME NEW h \in Handlers, Runs(Begin(h))
       PROVE  Resting(m)
  <2>1. UNCHANGED notifVars /\ handler[h].step = "run"
    BY <1>14 DEF Runs, Begin, Asked
  <2>2. CASE To(h, "respond", "refused")
    BY <1>c, <2>1, <2>2, QuietRests DEF Resting, HandlerSteps
  <2>3. CASE handler' = [handler EXCEPT
                  ![h].step = "mail",
                  ![h].todo = {CampaignMail(Of(h), b) : b \in Advised(Of(h))}]
    <3>1. /\ handler'[h].todo = {CampaignMail(Of(h), b) : b \in Advised(Of(h))}
          /\ \A f \in Handlers : f # h => handler'[f] = handler[f]
      BY <2>3 DEF TypeInv, PeopleTypes, HandlerRecords
    <3>2. \A b : CampaignMail(Of(h), b).event = "GoodsDisplayCampaign"
      BY DEF CampaignMail
    <3>3. m \notin handler'[h].todo
      BY <3>1, <3>2, AboutBookMails
    <3>. QED
      BY <2>1, <3>1, <3>3, QuietRests DEF Resting, NoNewHand
  <2>. QED
    BY <1>14, <2>2, <2>3 DEF Runs, Begin, Turned
<1>15. ASSUME NEW h \in Handlers, Runs(Close(h))
       PROVE  Resting(m)
  <2>1. NoNewHand(m)
    BY <1>15 DEF Runs, Close, TypeInv, PeopleTypes, HandlerRecords, NoNewHand
  <2>. QED
    BY <1>15, <2>1, QuietRests DEF Resting, Runs
<1>d. ASSUME NEW h \in Handlers, NEW outcome, Stored(h, outcome)
      PROVE  NoNewHand(m)
  BY <1>d DEF Stored, TypeInv, PeopleTypes, HandlerRecords, NoNewHand
<1>16. ASSUME NEW h \in Handlers, Mailing(h)
       PROVE  Resting(m)
  <2>1. ASSUME NEW c \in Calls, Send(c, NextMail(h)),
               handler' = [handler EXCEPT ![h].step = "wait", ![h].at = c],
               handler[h].step = "mail", handler[h].todo # {}
        PROVE  Resting(m)
    <3>1. NoNewHand(m)
      BY <2>1 DEF TypeInv, PeopleTypes, HandlerRecords, NoNewHand
    <3>2. NextMail(h) \in Sendable /\ NextMail(h) # m
      BY <2>1, InHand, AboutBookMails DEF Sending, Sendable
    <3>. QED
      BY <2>1, <3>1, <3>2, SendRests DEF Resting
  <2>. QED
    BY <1>d, <1>16, <2>1, QuietRests DEF Mailing, Mail, Resting
<1>17. ASSUME NEW h \in Handlers, Hearing(h)
       PROVE  Resting(m)
  <2>1. NoNewHand(m)
    BY <1>d, <1>17 DEF Hearing, Answered
  <2>2. NoNewCall(m) /\ NoNewMail(m)
    <3>1. CASE UNCHANGED notifVars
      BY <3>1, QuietRests
    <3>2. ASSUME NEW c \in Calls, Finish(c)
          PROVE  NoNewCall(m) /\ NoNewMail(m)
      BY <3>2, FinishDoes DEF NoNewCall, NoNewMail, CarriesNow, Carries
    <3>3. handler[h].step = "wait" => handler[h].at \in Calls
      BY DEF HandlersInv, HandlerOK
    <3>. QED
      BY <1>17, <3>1, <3>2, <3>3 DEF Hearing, Answered
  <2>. QED
    BY <2>1, <2>2 DEF Resting
<1>18. ASSUME NEW c \in Calls, Background(Buffer(c)) \/ Background(Dedup(c))
       PROVE  Resting(m)
  <2>1. UNCHANGED <<handler, mailed>>
    BY <1>18 DEF Background, gateVars, Buffer, Dedup
  <2>2. /\ \A d \in Calls : d # c => call'[d] = call[d]
        /\ call'[c].mail = call[c].mail
        /\ call'[c].step \in {"dedup", "post"} => call[c].step \in {"dedup", "post"}
    BY <1>18, ProceedDoes DEF Background, Buffer, Dedup, Outcomes
  <2>. QED
    BY <1>a, <2>1, <2>2 DEF Resting, NoNewCall, NoNewMail, CarriesNow, Carries
<1>19. ASSUME NEW c \in Calls, Background(Post(c))
       PROVE  Resting(m) \/ Posted(m)
  <2>1. UNCHANGED handler
    BY <1>19 DEF Background, gateVars
  <2>2. /\ \A d \in Calls : d # c => call'[d] = call[d]
        /\ call'[c].mail = call[c].mail
        /\ call[c].step = "post" /\ call'[c].step = "log"
    BY <1>19, ProceedDoes DEF Background, Post, Outcomes
  <2>3. NoNewCall(m)
    BY <2>2 DEF NoNewCall, CarriesNow, Carries
  <2>4. mailed' = mailed \/ mailed' = [mailed EXCEPT ![call[c].mail] = @ + 1]
    BY <1>19 DEF Background, Post, Taken
  <2>5. CASE NoNewMail(m)
    BY <1>a, <2>1, <2>3, <2>5 DEF Resting
  <2>6. CASE ~NoNewMail(m)
    <3>1. m \in Mails /\ mailed'[m] # mailed[m] /\ mailed \in [Mails -> Nat]
      BY <2>6 DEF NoNewMail, TypeInv, MailTypes
    <3>2. call[c].mail = m /\ mailed'[m] = mailed[m] + 1
      BY <2>4, <3>1
    <3>. QED
      BY <2>1, <2>2, <3>2 DEF Posted, Carries, CarriesNow
  <2>. QED
    BY <2>5, <2>6
<1>20. ASSUME NEW c \in Calls, Background(Log(c)) \/ Background(Unheard(c))
       PROVE  Resting(m)
  <2>1. UNCHANGED handler
    BY <1>20 DEF Background, gateVars
  <2>2. /\ \A d \in Calls : d # c => call'[d] = call[d]
        /\ call'[c].step \notin {"dedup", "post"}
        /\ UNCHANGED mailed
    BY <1>20, LogDoes, FinishDoes DEF Background, Unheard
  <2>. QED
    BY <1>a, <2>1, <2>2 DEF Resting, NoNewCall, NoNewMail, CarriesNow, Carries
<1>21. CASE \/ Background(Expire) \/ Background(FlushPost)
            \/ \E w \in Regions : Background(FlushTake(w))
  <2>1. UNCHANGED <<handler, call, mailed>>
    BY <1>21 DEF Background, gateVars, Expire, FlushPost, FlushTake
  <2>. QED
    BY <1>a, <2>1 DEF Resting, NoNewCall, NoNewMail, CarriesNow, Carries
<1>. QED
  BY Steps, <1>1, <1>2, <1>3, <1>4, <1>5, <1>6, <1>7, <1>8, <1>9, <1>10, <1>11, <1>12,
     <1>13, <1>14, <1>15, <1>16, <1>17, <1>18, <1>19, <1>20, <1>21

LEMMA SaidStays ==
    ASSUME TypeInv, HandlersInv, JobInv, Next, NEW m \in BookMails, Said(m)
    PROVE  SaidNow(m) /\ (m.stage = "DISCOVERED" /\ job # "committed" => job' # "committed")
<1>1. m.stage \in {"DISCOVERED", "APPROVED", "REJECTED"}
  BY AboutBookMails
<1>2. TableMoves
  BY TableActs
<1>3. SaidNow(m)
  BY <1>1, <1>2 DEF TableMoves, JobInv, Said, SaidNow, Open
<1>4. m.stage = "DISCOVERED" /\ job # "committed" => job' # "committed"
  BY <1>1, <1>2 DEF TableMoves, JobInv, Said, SaidNow, Open
<1>. QED
  BY <1>3, <1>4

MailedNow(m) == m \in Mails /\ mailed'[m] > 0

InPlace(m) ==
    /\ \A h \in Handlers : m \in handler[h].todo =>
          /\ Said(m) /\ ~Mailed(m) /\ m.stage # "DISCOVERED"
          /\ \A f \in Handlers : m \in handler[f].todo => f = h
          /\ \A c \in Calls : ~Carries(c, m)
    /\ \A c \in Calls : Carries(c, m) =>
          /\ Said(m) /\ ~Mailed(m)
          /\ \A d \in Calls : Carries(d, m) => d = c
          /\ m.stage = "DISCOVERED" => job # "committed"
    /\ Mailed(m) =>
          /\ Said(m) /\ mailed[m] = 1
          /\ m.stage = "DISCOVERED" => job # "committed"

InPlaceNow(m) ==
    /\ \A h \in Handlers : m \in handler'[h].todo =>
          /\ SaidNow(m) /\ ~MailedNow(m) /\ m.stage # "DISCOVERED"
          /\ \A f \in Handlers : m \in handler'[f].todo => f = h
          /\ \A c \in Calls : ~CarriesNow(c, m)
    /\ \A c \in Calls : CarriesNow(c, m) =>
          /\ SaidNow(m) /\ ~MailedNow(m)
          /\ \A d \in Calls : CarriesNow(d, m) => d = c
          /\ m.stage = "DISCOVERED" => job' # "committed"
    /\ MailedNow(m) =>
          /\ SaidNow(m) /\ mailed'[m] = 1
          /\ m.stage = "DISCOVERED" => job' # "committed"

LEMMA InPlaceSteps ==
    ASSUME TypeInv, HandlersInv, JobInv, Next, NEW m \in BookMails, InPlace(m)
    PROVE  InPlaceNow(m)
<1>a. Said(m) => SaidNow(m) /\ (m.stage = "DISCOVERED" /\ job # "committed" => job' # "committed")
  BY SaidStays
<1>1. CASE Resting(m)
  <2>1. (MailedNow(m) <=> Mailed(m)) /\ (MailedNow(m) => mailed'[m] = mailed[m])
    BY <1>1 DEF Resting, NoNewMail, Mailed, MailedNow
  <2>2. \A h \in Handlers : m \in handler'[h].todo => m \in handler[h].todo
    BY <1>1 DEF Resting, NoNewHand
  <2>3. \A c \in Calls : CarriesNow(c, m) => Carries(c, m)
    BY <1>1 DEF Resting, NoNewCall
  <2>4. ASSUME NEW h \in Handlers, m \in handler'[h].todo
        PROVE  /\ SaidNow(m) /\ ~MailedNow(m) /\ m.stage # "DISCOVERED"
               /\ \A f \in Handlers : m \in handler'[f].todo => f = h
               /\ \A c \in Calls : ~CarriesNow(c, m)
    <3>1. /\ Said(m) /\ ~Mailed(m) /\ m.stage # "DISCOVERED"
          /\ \A f \in Handlers : m \in handler[f].todo => f = h
          /\ \A c \in Calls : ~Carries(c, m)
      BY <2>2, <2>4 DEF InPlace
    <3>. QED
      BY <1>a, <2>1, <2>2, <2>3, <3>1
  <2>5. ASSUME NEW c \in Calls, CarriesNow(c, m)
        PROVE  /\ SaidNow(m) /\ ~MailedNow(m)
               /\ \A d \in Calls : CarriesNow(d, m) => d = c
               /\ m.stage = "DISCOVERED" => job' # "committed"
    <3>1. /\ Said(m) /\ ~Mailed(m)
          /\ \A d \in Calls : Carries(d, m) => d = c
          /\ m.stage = "DISCOVERED" => job # "committed"
      BY <2>3, <2>5 DEF InPlace
    <3>. QED
      BY <1>a, <2>1, <2>3, <3>1
  <2>6. MailedNow(m) =>
           /\ SaidNow(m) /\ mailed'[m] = 1
           /\ m.stage = "DISCOVERED" => job' # "committed"
    <3>1. Mailed(m) =>
             /\ Said(m) /\ mailed[m] = 1
             /\ m.stage = "DISCOVERED" => job # "committed"
      BY DEF InPlace
    <3>. QED
      BY <1>a, <2>1, <3>1
  <2>. QED
    BY <2>4, <2>5, <2>6 DEF InPlaceNow
<1>2. CASE Deciding(m)
  <2>1. ~Said(m) /\ SaidNow(m)
    BY <1>2, AboutBookMails DEF Deciding, Said, SaidNow, Open
  <2>2. /\ \A f \in Handlers : m \notin handler[f].todo
        /\ \A c \in Calls : ~Carries(c, m)
        /\ ~Mailed(m)
    BY <2>1 DEF InPlace
  <2>3. (\A c \in Calls : ~CarriesNow(c, m)) /\ ~MailedNow(m)
    BY <1>2, <2>2 DEF Deciding, notifVars, Carries, CarriesNow, Mailed, MailedNow
  <2>. QED
    BY <1>2, <2>1, <2>2, <2>3 DEF Deciding, InPlaceNow
<1>3. CASE Telling(m)
  <2>1. PICK h \in Handlers, c \in Calls :
            /\ m \in handler[h].todo /\ m \notin handler'[h].todo
            /\ \A f \in Handlers : f # h => handler'[f] = handler[f]
            /\ \A d \in Calls : d # c => call'[d] = call[d]
            /\ NoNewMail(m)
    BY <1>3 DEF Telling
  <2>2. /\ Said(m) /\ ~Mailed(m) /\ m.stage # "DISCOVERED"
        /\ \A f \in Handlers : m \in handler[f].todo => f = h
        /\ \A d \in Calls : ~Carries(d, m)
    BY <2>1 DEF InPlace
  <2>3. /\ SaidNow(m) /\ ~MailedNow(m)
        /\ \A f \in Handlers : m \notin handler'[f].todo
        /\ \A d \in Calls : d # c => ~CarriesNow(d, m)
    BY <1>a, <2>1, <2>2 DEF NoNewMail, Mailed, MailedNow, Carries, CarriesNow
  <2>. QED
    BY <2>2, <2>3 DEF InPlaceNow
<1>4. CASE Discovering(m)
  <2>1. PICK c \in Calls : \A d \in Calls : d # c => call'[d] = call[d]
    BY <1>4 DEF Discovering
  <2>2. /\ \A f \in Handlers : m \notin handler[f].todo
        /\ \A d \in Calls : ~Carries(d, m)
        /\ ~Mailed(m)
    BY <1>4 DEF InPlace, Discovering
  <2>3. Said(m)
    BY <1>4 DEF Discovering, JobInv, Said
  <2>4. /\ SaidNow(m) /\ ~MailedNow(m)
        /\ \A f \in Handlers : m \notin handler'[f].todo
        /\ \A d \in Calls : d # c => ~CarriesNow(d, m)
        /\ job' # "committed"
    BY <1>a, <1>4, <2>1, <2>2, <2>3
       DEF Discovering, NoNewMail, Mailed, MailedNow, Carries, CarriesNow
  <2>. QED
    BY <2>4 DEF InPlaceNow
<1>5. CASE Posted(m)
  <2>1. PICK c \in Calls :
            /\ Carries(c, m) /\ ~CarriesNow(c, m)
            /\ \A d \in Calls : d # c => call'[d] = call[d]
    BY <1>5 DEF Posted
  <2>2. /\ Said(m) /\ ~Mailed(m)
        /\ \A d \in Calls : Carries(d, m) => d = c
        /\ m.stage = "DISCOVERED" => job # "committed"
        /\ \A f \in Handlers : m \notin handler[f].todo
    BY <2>1 DEF InPlace
  <2>3. \A d \in Calls : ~CarriesNow(d, m)
    BY <2>1, <2>2 DEF Carries, CarriesNow
  <2>4. MailedNow(m) => mailed'[m] = 1
    <3>1. ASSUME m \in Mails
          PROVE  mailed[m] = 0 /\ mailed'[m] = mailed[m] + 1
      BY <1>5, <2>2, <3>1 DEF Posted, Mailed, TypeInv, MailTypes
    <3>. QED
      BY <3>1 DEF MailedNow
  <2>5. \A f \in Handlers : m \notin handler'[f].todo
    BY <1>5, <2>2 DEF Posted
  <2>. QED
    BY <1>a, <2>2, <2>3, <2>4, <2>5 DEF InPlaceNow
<1>. QED
  BY BookMailActs, <1>1, <1>2, <1>3, <1>4, <1>5

\* Calls for mails about a book carry one of the three.
LEMMA BookCallSteps ==
    ASSUME TypeInv, HandlersInv, Next,
           \A c \in Calls : call[c].step \in {"dedup", "post"}
              /\ call[c].mail.event = "NewBookRequest" => call[c].mail \in BookMails,
           \A m \in Mails : m.event = "NewBookRequest" /\ m \notin BookMails => mailed[m] = 0
    PROVE  /\ \A c \in Calls : call'[c].step \in {"dedup", "post"}
                 /\ call'[c].mail.event = "NewBookRequest" => call'[c].mail \in BookMails
           /\ \A m \in Mails : m.event = "NewBookRequest" /\ m \notin BookMails => mailed'[m] = 0
<1> DEFINE CallsOK == \A c \in Calls : call'[c].step \in {"dedup", "post"}
                 /\ call'[c].mail.event = "NewBookRequest" => call'[c].mail \in BookMails
           MailsOK == \A m \in Mails : m.event = "NewBookRequest" /\ m \notin BookMails => mailed'[m] = 0
<1>a. UNCHANGED mailed => MailsOK
  OBVIOUS
<1>b. ASSUME NEW c \in Calls,
             \A d \in Calls : d # c => call'[d] = call[d],
             call'[c].step \in {"dedup", "post"} =>
                call'[c].mail = call[c].mail /\ call[c].step \in {"dedup", "post"}
      PROVE  CallsOK
  BY <1>b
<1> HIDE DEF CallsOK
<1>1. ASSUME UNCHANGED notifVars
      PROVE  CallsOK /\ MailsOK
  BY <1>a, <1>1 DEF notifVars, CallsOK
<1>2. ASSUME NEW c \in Calls, NEW m \in Sendable, Send(c, m)
      PROVE  CallsOK /\ MailsOK
  <2>1. m.event = "NewBookRequest" => m \in BookMails
    BY AboutSendable
  <2>2. /\ \A d \in Calls : d # c => call'[d] = call[d]
        /\ call'[c].mail = m /\ UNCHANGED mailed
    BY <1>2, SendDoes
  <2>3. CallsOK
    BY <2>1, <2>2 DEF CallsOK
  <2>. QED
    BY <1>a, <2>2, <2>3
<1>3. ASSUME NEW c \in Calls, Buffer(c) \/ Dedup(c)
      PROVE  CallsOK /\ MailsOK
  <2>1. /\ \A d \in Calls : d # c => call'[d] = call[d]
        /\ call'[c].mail = call[c].mail
        /\ call'[c].step \in {"dedup", "post"} => call[c].step \in {"dedup", "post"}
    BY <1>3, ProceedDoes DEF Buffer, Dedup, Outcomes
  <2>2. UNCHANGED mailed
    BY <1>3 DEF Buffer, Dedup
  <2>. QED
    BY <1>a, <1>b, <2>1, <2>2
<1>4. ASSUME NEW c \in Calls, Post(c)
      PROVE  CallsOK /\ MailsOK
  <2>1. /\ \A d \in Calls : d # c => call'[d] = call[d]
        /\ call[c].step = "post" /\ call'[c].step = "log"
    BY <1>4, ProceedDoes DEF Post, Outcomes
  <2>2. CallsOK
    BY <1>b, <2>1
  <2>3. mailed' = mailed \/ mailed' = [mailed EXCEPT ![call[c].mail] = @ + 1]
    BY <1>4 DEF Post, Taken
  <2>4. call[c].mail.event = "NewBookRequest" => call[c].mail \in BookMails
    BY <2>1
  <2>5. MailsOK
    BY <2>3, <2>4 DEF TypeInv, MailTypes
  <2>. QED
    BY <2>2, <2>5
<1>5. ASSUME NEW c \in Calls, Log(c) \/ Finish(c)
      PROVE  CallsOK /\ MailsOK
  <2>1. /\ \A d \in Calls : d # c => call'[d] = call[d]
        /\ call'[c].step \notin {"dedup", "post"}
        /\ UNCHANGED mailed
    BY <1>5, LogDoes, FinishDoes
  <2>. QED
    BY <1>a, <1>b, <2>1
<1>6. ASSUME Expire \/ FlushPost \/ \E w \in Regions : FlushTake(w)
      PROVE  CallsOK /\ MailsOK
  BY <1>a, <1>6 DEF Expire, FlushPost, FlushTake, CallsOK
<1>7. ASSUME NotifierCrash
      PROVE  CallsOK /\ MailsOK
  BY <1>a, <1>7, CrashDoes DEF CallsOK
<1> HIDE DEF MailsOK
<1>8. CallsOK /\ MailsOK
  BY MailActs, <1>1, <1>2, <1>3, <1>4, <1>5, <1>6, <1>7
<1>. QED
  BY <1>8 DEF CallsOK, MailsOK

LEMMA BookMailSteps ==
    ASSUME TypeInv, HandlersInv, JobInv, BookMailInv, Next
    PROVE  BookMailInv'
<1>1. \A m \in BookMails : InPlace(m)
  BY DEF BookMailInv, InPlace
<1>2. \A m \in BookMails : InPlaceNow(m)
  BY <1>1, InPlaceSteps
<1>3. /\ \A c \in Calls : call'[c].step \in {"dedup", "post"}
            /\ call'[c].mail.event = "NewBookRequest" => call'[c].mail \in BookMails
      /\ \A m \in Mails : m.event = "NewBookRequest" /\ m \notin BookMails => mailed'[m] = 0
  BY BookCallSteps DEF BookMailInv
<1>. QED
  BY <1>2, <1>3 DEF BookMailInv, InPlaceNow, SaidNow, Said, MailedNow, Mailed, CarriesNow, Carries

-----------------------------------------------------------------------------
(* The invariant, from the first state on *)

LEMMA InitTypes ==
    ASSUME Init
    PROVE  TypeInv
<1>1. PeopleTypes
  <2>1. Fresh \in ClickRecords
    BY DEF Fresh, Rest, ClickRecords, Answers
  <2>2. Rest \in HandlerRecords
    BY DEF Rest, HandlerRecords, HandlerSteps
  <2>. QED
    BY <2>1, <2>2 DEF Init, GateInit, PeopleTypes
<1>2. MailTypes
  <2>1. Quiet \in CallRecords
    BY DEF Quiet, CallRecords, Everything, Outcomes
  <2>. QED
    BY <2>1, AboutConstants DEF Init, NotifInit, MailTypes
<1>3. TableTypes
  <2>1. <<>> \in Seq(Groups)
    OBVIOUS
  <2>2. orders \in [Whs -> Seq(Groups)]
    BY <2>1 DEF Init, RequestInit
  <2>3. book = "none" /\ job = "idle" /\ spike = FALSE /\ delivery = "APPROVED"
    BY DEF Init, RequestInit
  <2>. QED
    BY <2>2, <2>3 DEF TableTypes
<1>4. CampaignTypes
  <2> DEFINE first == CHOOSE k \in Campaigns : TRUE
  <2>1. /\ status = [k \in Campaigns |-> IF k = first THEN "RECOMMENDED" ELSE "ABSENT"]
        /\ advice = [k \in Campaigns |->
                       [b \in Branches |-> IF k = first THEN "generated" ELSE "none"]]
        /\ history = [k \in Campaigns |-> {}]
    BY DEF Init, CampaignInit
  <2> HIDE DEF first
  <2>. QED
    BY <2>1 DEF CampaignTypes
<1>. QED
  BY <1>1, <1>2, <1>3, <1>4 DEF TypeInv

LEMMA InitPeople ==
    ASSUME Init
    PROVE  HandlersInv /\ CallsInv /\ ClicksInv /\ TruthInv
<1>1. \A h \in Handlers : handler[h].step = "idle" /\ handler[h].result = "none"
                         /\ handler[h].todo = {} /\ handler[h].kept = {}
  BY DEF Init, GateInit, Rest
<1>2. \A c \in Calls : call[c].step = "idle"
  BY DEF Init, NotifInit, Quiet
<1>3. \A g \in Clicks : click[g].step = "ready" /\ click[g].answer = "none"
                       /\ click[g].by = NoHandler
  BY DEF Init, GateInit, Fresh
<1>4. HandlersInv
  BY <1>1 DEF HandlersInv, HandlerOK, Sending
<1>5. CallsInv
  BY <1>2 DEF CallsInv, CallOK
<1>6. ClicksInv
  BY <1>3 DEF ClicksInv
<1>7. TruthInv
  BY <1>1, <1>3 DEF TruthInv
<1>. QED
  BY <1>4, <1>5, <1>6, <1>7

LEMMA InitTables ==
    ASSUME Init
    PROVE  JobInv /\ OrdersInv /\ BookMailInv /\ CampaignsInv
<1>1. \A h \in Handlers : handler[h].step = "idle" /\ handler[h].todo = {} /\ handler[h].kept = {}
  BY DEF Init, GateInit, Rest
<1>2. \A c \in Calls : call[c].step = "idle"
  BY DEF Init, NotifInit, Quiet
<1>3. \A m \in Mails : mailed[m] = 0
  BY DEF Init, NotifInit
<1>4. JobInv
  BY DEF Init, RequestInit, JobInv
<1>5. OrdersInv
  BY DEF Init, RequestInit, OrdersInv
<1>6. BookMailInv
  BY <1>1, <1>2, <1>3 DEF BookMailInv, Carries, Mailed
<1>7. CampaignsConsistent
  BY DEF Init, CampaignInit, CampaignsConsistent, Exists, Advised
<1>8. CampaignsInv
  BY <1>1, <1>2, <1>7 DEF CampaignsInv
<1>. QED
  BY <1>4, <1>5, <1>6, <1>8

LEMMA InitCounts ==
    ASSUME Init
    PROVE  KeysInv /\ RejectionsAccounted
<1>1. \A m : Posting(m) = {}
  BY DEF Init, NotifInit, Quiet, Posting
<1>2. Untold = {} /\ Unkept = {}
  BY DEF Init, GateInit, NotifInit, Quiet, Rest, Untold, Unkept
<1>3. Cardinality({}) = 0
  BY FS_EmptySet
<1>4. KeysInv
  <2> SUFFICES ASSUME NEW m \in Mails, Correlated(m), Mailable(m)
               PROVE  mailed[m] + Cardinality(Posting(m))
                         <= lapsed[Key(m)] + IF Key(m) \in keys THEN 1 ELSE 0
    BY DEF KeysInv
  <2>1. Key(m) \in AllKeys
    BY DEF AllKeys
  <2>2. mailed[m] = 0 /\ lapsed[Key(m)] = 0 /\ keys = {}
    BY <2>1 DEF Init, NotifInit
  <2>. QED
    BY <1>1, <1>3, <2>2
<1>5. RejectionsAccounted
  <2>1. /\ delivery = "APPROVED"
        /\ buffer[RefusalMail.region] = 0 /\ batched[RefusalMail.region] = 0
        /\ flush.n = 0
    BY AboutConstants DEF Init, NotifInit, RequestInit, NoBatch
  <2>2. /\ {h \in Handlers : RefusalMail \in handler[h].todo} = {}
        /\ {c \in Calls : call[c].step = "buffer"} = {}
    BY <1>2 DEF Untold, Unkept
  <2> DEFINE untold == Cardinality({h \in Handlers : RefusalMail \in handler[h].todo})
             unkept == Cardinality({c \in Calls : call[c].step = "buffer"})
  <2>3. untold = 0 /\ unkept = 0
    BY <1>3, <2>2
  <2> HIDE DEF untold, unkept
  <2>4. LET w     == RefusalMail.region
            made  == IF delivery = "REJECTED" THEN 1 ELSE 0
            there == untold + unkept + buffer[w] + batched[w]
                     + IF flush.region = w THEN flush.n ELSE 0
        IN  there <= made /\ (faults = 0 => there = made)
    BY <2>1, <2>3
  <2>. QED
    BY <2>4 DEF RejectionsAccounted, untold, unkept
<1>. QED
  BY <1>4, <1>5

LEMMA InvInit == Init => Inv
  BY InitTypes, InitPeople, InitTables, InitCounts DEF Inv

LEMMA InvStutter ==
    ASSUME Inv, UNCHANGED vars
    PROVE  Inv'
<1>1. /\ UNCHANGED <<session, click, handler>>
      /\ UNCHANGED <<call, keys, lapsed, buffer, flush, mailed, batched, rows, faults>>
      /\ UNCHANGED <<book, job, spike, returned, delivery, orders, flag>>
      /\ UNCHANGED <<status, advice, history>>
  BY DEF vars, gateVars, notifVars, tableVars, campaignVars
<1>2. TypeInv'
  BY <1>1 DEF Inv, TypeInv, PeopleTypes, MailTypes, TableTypes, CampaignTypes
<1>3. HandlersInv' /\ CallsInv' /\ ClicksInv' /\ TruthInv'
  BY <1>1 DEF Inv, HandlersInv, HandlerOK, CallsInv, ClicksInv, TruthInv, Truth
<1>4. JobInv' /\ OrdersInv'
  BY <1>1 DEF Inv, JobInv, OrdersInv, GroupOK, Decided
<1>5. BookMailInv'
  BY <1>1 DEF Inv, BookMailInv, Said, Carries, Mailed
<1>6. KeysInv' /\ RejectionsAccounted'
  BY <1>1 DEF Inv, KeysInv, Posting, RejectionsAccounted
<1>7. CampaignsInv'
  BY <1>1 DEF Inv, CampaignsInv, CampaignsConsistent, Of, NextMail, Exists, Advised
<1>. QED
  BY <1>2, <1>3, <1>4, <1>5, <1>6, <1>7 DEF Inv

LEMMA InvStep ==
    ASSUME Inv, Next
    PROVE  Inv'
<1>1. PeopleTypes' /\ HandlersInv' /\ ClicksInv'
  BY PeopleSteps DEF Inv
<1>2. MailTypes' /\ CallsInv'
  BY MailSteps DEF Inv
<1>3. TableTypes' /\ JobInv' /\ OrdersInv'
  BY TableSteps DEF Inv
<1>4. CampaignTypes' /\ CampaignsInv'
  BY CampaignSteps DEF Inv
<1>5. TruthInv'
  BY TruthSteps DEF Inv
<1>6. BookMailInv'
  BY BookMailSteps DEF Inv
<1>7. KeysInv'
  BY KeysSteps DEF Inv
<1>8. RejectionsAccounted'
  BY RefusalSteps DEF Inv
<1>. QED
  BY <1>1, <1>2, <1>3, <1>4, <1>5, <1>6, <1>7, <1>8 DEF Inv, TypeInv

\* The invariant of everything that is asked for at the headquarters and the
\* stores, through all retries, crashes and mails.
THEOREM DashboardInvariant == Spec => []Inv
<1>1. Init => Inv
  BY InvInit
<1>2. Inv /\ [Next]_vars => Inv'
  BY InvStep, InvStutter
<1>. QED
  BY <1>1, <1>2, PTL DEF Spec

-----------------------------------------------------------------------------
(* The properties *)

\* A set whose members are all the same has one member at most.
LEMMA OneAtMost ==
    ASSUME NEW S, \A x, y \in S : x = y
    PROVE  Cardinality(S) \in {0, 1}
<1>1. CASE S = {}
  BY <1>1, FS_EmptySet
<1>2. CASE S # {}
  <2>1. PICK x : S = {x}
    BY <1>2
  <2>. QED
    BY <2>1, FS_Singleton
<1>. QED
  BY <1>1, <1>2

\* approve_new_book_request and approve_spike create the orders of a decision once
\* for a warehouse, whatever is repeated, only with the decision, and deal a
\* warehouse's quantity out to its stores without a copy too many or too few.
THEOREM OrdersCorrect == Spec => []OrdersMatchDecision
<1>1. ASSUME OrdersInv
      PROVE  OrdersMatchDecision
  <2> SUFFICES ASSUME NEW about \in {"book", "spike"}, NEW w \in Whs
               PROVE  LET made == {i \in DOMAIN orders[w] : orders[w][i].about = about}
                      IN  /\ Cardinality(made) <= 1
                          /\ \A i \in made : Shops[w] > 0 =>
                                Quantity(orders[w][i].shares) = orders[w][i].qty
                          /\ made # {} => IF about = "book" THEN book = "APPROVED" ELSE spike
    BY DEF OrdersMatchDecision
  <2> DEFINE made == {i \in DOMAIN orders[w] : orders[w][i].about = about}
  <2>1. \A i, j \in made : i = j
    BY <1>1 DEF OrdersInv
  <2>2. Cardinality(made) <= 1
    <3>1. Cardinality(made) \in {0, 1}
      BY <2>1, OneAtMost
    <3>. QED
      BY <3>1
  <2>3. \A i \in made : GroupOK(w, orders[w][i]) /\ orders[w][i].about = about
    BY <1>1 DEF OrdersInv
  <2>4. \A i \in made : Shops[w] > 0 =>
            Quantity(orders[w][i].shares) = orders[w][i].qty
    BY <2>3 DEF GroupOK
  <2>5. made # {} => IF about = "book" THEN book = "APPROVED" ELSE spike
    BY <2>3 DEF GroupOK, Decided
  <2>. QED
    BY <2>2, <2>4, <2>5
<1>2. Inv => OrdersMatchDecision
  BY <1>1 DEF Inv
<1>. QED
  BY <1>2, DashboardInvariant, PTL

\* What the dashboard has answered a person with "ok" is in the tables, from then
\* on: the locks and conditions of the handlers' updates are enough, although the
\* gateway repeats requests and attempts go on after nobody waits for them.
THEOREM AnswersCorrect == Spec => []AnswersAreTrue
<1>1. Inv => AnswersAreTrue
  BY DEF Inv, TruthInv, Truth, AnswersAreTrue
<1>. QED
  BY <1>1, DashboardInvariant, PTL

\* A mail about a book says what its row says, and goes out once; what has a
\* correlation_id goes out once, and once more for each time its key has lapsed.
THEOREM MailsCorrect == Spec => []MailsAreTrue
<1>1. ASSUME Inv
      PROVE  MailsAreTrue
  <2>1. ASSUME NEW m \in Mails, m \in {BookMail(st) : st \in {"APPROVED", "REJECTED"}},
               mailed[m] > 0
        PROVE  book = m.stage
    <3>1. m \in BookMails /\ m.stage # "DISCOVERED"
      BY <2>1 DEF BookMails, BookMail, Tell
    <3>2. Said(m)
      BY <1>1, <2>1, <3>1 DEF Inv, BookMailInv, Mailed
    <3>. QED
      BY <3>1, <3>2 DEF Said
  <2>2. ASSUME NEW m \in Mails, m.event = "NewBookRequest"
        PROVE  mailed[m] <= 1
    <3>1. mailed[m] \in Nat
      BY <1>1 DEF Inv, TypeInv, MailTypes
    <3>2. m \in BookMails /\ mailed[m] > 0 => mailed[m] = 1
      BY <1>1 DEF Inv, BookMailInv, Mailed
    <3>3. m \notin BookMails => mailed[m] = 0
      BY <1>1, <2>2 DEF Inv, BookMailInv
    <3>. QED
      BY <3>1, <3>2, <3>3
  <2>3. ASSUME NEW m \in Mails, Correlated(m), Mailable(m)
        PROVE  mailed[m] <= 1 + lapsed[Key(m)]
    <3>1. mailed[m] + Cardinality(Posting(m))
             <= lapsed[Key(m)] + IF Key(m) \in keys THEN 1 ELSE 0
      BY <1>1, <2>3 DEF Inv, KeysInv
    <3>2. Cardinality(Posting(m)) \in Nat
      <4>1. IsFiniteSet(Posting(m))
        BY NotificationsAssumption, FS_Subset DEF Posting
      <4>. QED
        BY <4>1, FS_CardinalityType
    <3>3. mailed[m] \in Nat
      BY <1>1 DEF Inv, TypeInv, MailTypes
    <3>4. Key(m) \in AllKeys
      BY <2>3 DEF AllKeys
    <3>5. lapsed[Key(m)] \in Nat
      BY <1>1, <3>4 DEF Inv, TypeInv, MailTypes
    <3>. QED
      BY <3>1, <3>2, <3>3, <3>5
  <2>. QED
    BY <2>1, <2>2, <2>3 DEF MailsAreTrue
<1>. QED
  BY <1>1, DashboardInvariant, PTL

\* The copies of a refused delivery's message, with the handler, in the call, in
\* the list, in the batch and in the mail, are one together, and none only when
\* something has failed.
THEOREM RejectionsCorrect == Spec => []RejectionsAccounted
<1>1. Inv => RejectionsAccounted
  BY DEF Inv
<1>. QED
  BY <1>1, DashboardInvariant, PTL

\* send_campaign and delete_campaign, at the same time or repeated, leave a
\* campaign's status, recommendations and history in agreement, and no row says
\* that a mail was sent for which notification-svc has no row.
THEOREM CampaignsCorrect == Spec => []CampaignsConsistent
<1>1. Inv => CampaignsConsistent
  BY DEF Inv, CampaignsInv
<1>. QED
  BY <1>1, DashboardInvariant, PTL

=============================================================================

-------------------------------- MODULE Gateway --------------------------------
(***************************************************************************)
(* dashboard-svc between a person and the services: clients.py _safe_post, *)
(* _safe_patch and _safe_delete forward a request and repeat it, up to     *)
(* three times, when the connection fails or no answer comes in time.  An  *)
(* attempt that is given up runs on in the service it has reached.         *)
(*                                                                         *)
(* What a request does is in the modules that extend this one: a handler   *)
(* starts in step "run" and ends in step "respond"; todo are mails it has  *)
(* still to send, kept the rows it has not committed, at the call it waits *)
(* for.                                                                    *)
(***************************************************************************)
EXTENDS Integers, FiniteSets

CONSTANTS
    Clicks,       \* what people ask for, one request each
    Ops,          \* the requests there are
    Sessions,     \* what may happen together
    Handlers,     \* request threads of the services
    NoHandler,
    NoCall

ASSUME GatewayAssumption ==
    /\ Sessions \subseteq [asks : [Clicks -> Ops], form : BOOLEAN]
    /\ IsFiniteSet(Handlers)
    /\ NoHandler \notin Handlers

Tries == 3

VARIABLES
    session,      \* what each person will ask for, if they ask, and whether
                  \* there will be a publisher's form
    click,        \* each request of a person
    handler       \* each attempt that has reached a service

gateVars == <<click, handler>>

Answers == {"none", "ok", "refused", "unavailable"}

Rest == [step |-> "idle", op |-> CHOOSE op \in Ops : TRUE, result |-> "none",
         todo |-> {}, kept |-> {}, at |-> NoCall]

Fresh == [step |-> "ready", op |-> CHOOSE op \in Ops : TRUE, try |-> 0,
          by |-> NoHandler, answer |-> "none"]

\* Somebody presses a button.
Press(g) ==
    /\ click[g].step = "ready"
    /\ click' = [click EXCEPT ![g].step = "calling", ![g].op = session.asks[g],
                              ![g].try = 1]
    /\ UNCHANGED handler

\* An attempt reaches the service.
Reach(g) ==
    /\ click[g].step = "calling"
    /\ click[g].by = NoHandler
    /\ \E h \in Handlers :
          /\ handler[h].step = "idle"
          /\ handler' = [handler EXCEPT ![h] =
                           [Rest EXCEPT !.step = "run", !.op = click[g].op]]
          /\ click' = [click EXCEPT ![g].by = h]

Abandoned(c) == [c EXCEPT !.step = "answered", !.answer = "unavailable",
                           !.by = NoHandler]

\* Mutant of Retry: it goes on waiting for the attempt that has failed.
RetrySame(c) == [c EXCEPT !.try = @ + 1]

\* What becomes of a request whose attempt has failed.
Retry(c) ==
    IF c.try < Tries THEN [c EXCEPT !.try = @ + 1, !.by = NoHandler]
    ELSE Abandoned(c)

\* ConnectError and ConnectTimeout before the service has seen anything;
\* ReadTimeout and RemoteProtocolError while it is at work.  Any other error is
\* not tried again.
Fails(g) ==
    /\ click[g].step = "calling"
    /\ \E c \in {Retry(click[g]), Abandoned(click[g])} :
          click' = [click EXCEPT ![g] = c]
    /\ UNCHANGED handler

\* The answer of an attempt; nobody listens for one that was given up.
Respond(h) ==
    /\ handler[h].step = "respond"
    /\ handler' = [handler EXCEPT ![h] = Rest]
    /\ click' = [g \in Clicks |->
                   IF click[g].by = h
                   THEN [click[g] EXCEPT !.step = "answered", !.by = NoHandler,
                                         !.answer = handler[h].result]
                   ELSE click[g]]

\* The pods of the services die.
ServiceCrash ==
    /\ \E h \in Handlers : handler[h].step # "idle"
    /\ handler' = [h \in Handlers |-> Rest]
    /\ click' = [g \in Clicks |->
                   IF click[g].by # NoHandler THEN Retry(click[g]) ELSE click[g]]

GateInit ==
    /\ session \in Sessions
    /\ click = [g \in Clicks |-> Fresh]
    /\ handler = [h \in Handlers |-> Rest]

To(h, step, result) ==
    handler' = [handler EXCEPT ![h].step = step, ![h].result = result]

=============================================================================

------------------------------ MODULE MCDashboard ------------------------------
(***************************************************************************)
(* An instance of Dashboard for TLC.                                       *)
(***************************************************************************)
EXTENDS Dashboard, TLC

CONSTANTS s1, s2, w1, w2, g1, g2, k1

TwoWhs == {w1, w2}

\* One warehouse with two stores, one with one.
SomeShops == [x \in Whs |-> IF x = w1 THEN 2 ELSE 1]

\* Three copies for each warehouse; campaign k1 is there from the beginning.
Op(kind) ==
    [kind |-> kind, id |-> k1,
     qty |-> [x \in Whs |-> IF kind = "approveBook" THEN 3 ELSE 0]]

AllOps == {Op(kind) : kind \in RequestKinds \cup CampaignKinds}

\* The requests that are about the same row, two at a time.
Pairs == {<<"approveBook", "approveBook">>, <<"approveBook", "rejectBook">>,
          <<"approveSpike", "approveSpike">>, <<"askReturn", "approveReturn">>,
          <<"receive", "receive">>, <<"receive", "refuse">>,
          <<"closeDay", "closeDay">>, <<"send", "send">>, <<"send", "delete">>,
          <<"send", "recommend">>, <<"patch", "delete">>, <<"create", "recommend">>}

TwoSessions ==
    {[asks |-> [g \in Clicks |-> Op(p[IF g = g1 THEN 1 ELSE 2])],
      form |-> p[1] = "approveBook"] : p \in Pairs}

BookStages == {"DISCOVERED", "APPROVED", "REJECTED"}

AllMails == {BookMail(st) : st \in BookStages}
            \cup {ArrivalMail, RefusalMail, DayMail}
            \cup {CampaignMail(k1, s) : s \in Branches}

=============================================================================

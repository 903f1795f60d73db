---------------------------- MODULE Authority_proofs ---------------------------
(***************************************************************************)
(* Theorems about Authority, for any company: its warehouses, stores,      *)
(* accounts and orders.  The rules are compared order by order; what the   *)
(* comparison needs of the history of an order is in AuthTypeOK, that a    *)
(* source is missing exactly from orders to publishers, and in Unasked,    *)
(* that nobody has approved an order before there is one.                  *)
(***************************************************************************)
EXTENDS Authority, FiniteSetTheorems, TLAPS

\* No approval comes before its order.
Unasked == \A o \in Orders : ~Existing(o) => \A s \in Sides : consent[o][s] = {}

\* A token names a warehouse for a manager, a store for a clerk, and nothing else.
LEMMA TokensAreTyped ==
    /\ Tokens \subseteq Token
    /\ \A t \in Tokens : /\ t.role = "wh-manager" => t.wh \in Whs
                         /\ t.role = "branch-clerk" => t.store \in Stores
<1> SUFFICES ASSUME NEW a \in Accounts
             PROVE  /\ Resolve(a) \in Token
                    /\ Resolve(a).role = "wh-manager" => Resolve(a).wh \in Whs
                    /\ Resolve(a).role = "branch-clerk" => Resolve(a).store \in Stores
  BY DEF Tokens
<1>1. /\ Local[a].kind \in Kinds
      /\ Local[a].kind = "wh" => Local[a].n \in Whs
      /\ Local[a].kind = "branch" => Local[a].n \in Stores
      /\ Group[a] \in Groups
  BY AuthorityAssumption
<1>2. FirstWh \in Whs /\ DefaultStore \in Stores
  BY AuthorityAssumption
<1>. QED
  BY <1>1, <1>2 DEF Resolve, ByGroup, TokenOf, Token, Roles, Kinds, Groups

\* The region of a location is a warehouse.
LEMMA RegionIsWh == \A l \in Locations : WhAt(l) \in Whs /\ l # None
  BY AuthorityAssumption DEF WhAt, Locations

\* What AuthTypeOK says of one order.
LEMMA OrderIsTyped ==
    ASSUME AuthTypeOK, NEW o \in Orders
    PROVE  /\ order[o].type \in Types
           /\ order[o].src \in Locations \cup {None}
           /\ order[o].tgt \in Locations
           /\ order[o].status \in Statuses
           /\ Existing(o) => (order[o].src = None <=> order[o].type = "PUBLISHER_ORDER")
  BY DEF AuthTypeOK, Order

-----------------------------------------------------------------------------
(* Steps *)

\* Recording approvals of some sides keeps the type of consent.
LEMMA RecordedIsTyped ==
    ASSUME AuthTypeOK, NEW o \in Orders, NEW ss, NEW t \in Tokens, NEW f \in BOOLEAN
    PROVE  Recorded(o, ss, t, f) \in [Orders -> [Sides -> SUBSET Consent]]
<1>1. [who |-> t, claimed |-> f] \in Consent
  BY TokensAreTyped DEF Consent
<1>. QED
  BY <1>1 DEF Recorded, AuthTypeOK

\* A change of status alone keeps the type of the orders.
LEMMA BecomeIsTyped ==
    ASSUME AuthTypeOK, NEW o \in Orders, Existing(o), NEW st \in Statuses, Become(o, st)
    PROVE  /\ order' \in [Orders -> Order]
           /\ \A k \in Orders : order'[k] = IF k = o THEN [order[o] EXCEPT !.status = st]
                                            ELSE order[k]
           /\ \A k \in Orders : Existing(k)' =>
                 (order'[k].src = None <=> order'[k].type = "PUBLISHER_ORDER")
<1>1. order' = [order EXCEPT ![o].status = st] /\ order \in [Orders -> Order]
  BY DEF Become, AuthTypeOK
<1>2. \A k \in Orders : order'[k] = IF k = o THEN [order[o] EXCEPT !.status = st]
                                    ELSE order[k]
  BY <1>1
<1>3. \A k \in Orders : order'[k].src = order[k].src /\ order'[k].type = order[k].type
  BY <1>1, <1>2 DEF Order
<1>4. order' \in [Orders -> Order]
  BY <1>1 DEF Order
<1>. QED
  BY <1>2, <1>3, <1>4 DEF AuthTypeOK, Existing

\* So does a receipt.
LEMMA ArriveIsTyped ==
    ASSUME AuthTypeOK, NEW o \in Orders, Arrive(o)
    PROVE  /\ order' \in [Orders -> Order]
           /\ \A k \in Orders : /\ order'[k].src = order[k].src
                                /\ order'[k].type = order[k].type
                                /\ order'[k].status =
                                      IF k = o THEN "EXECUTED" ELSE order[k].status
<1>1. PICK offday \in BOOLEAN :
         order' = [order EXCEPT ![o].status = "EXECUTED", ![o].offday = offday]
  BY DEF Arrive
<1>. QED
  BY <1>1 DEF AuthTypeOK, Order, Statuses

\* A new target leaves an order as it was but for that.
LEMMA RetargetIsTyped ==
    ASSUME AuthTypeOK, NEW o \in Orders, NEW l \in Locations,
           order' = [order EXCEPT ![o].tgt = l]
    PROVE  /\ order' \in [Orders -> Order]
           /\ \A k \in Orders : /\ order'[k].src = order[k].src
                                /\ order'[k].type = order[k].type
                                /\ order'[k].status = order[k].status
<1>. QED
  BY DEF AuthTypeOK, Order

\* A proposal fills in an order that was not there.
LEMMA ProposalIsTyped ==
    ASSUME AuthTypeOK, NEW o \in Orders, Propose(o)
    PROVE  AuthTypeOK' /\ consent' = consent /\ ~Existing(o)
           /\ \A k \in Orders \ {o} : order'[k] = order[k]
<1>1. PICK type \in Types, l \in Locations \cup {None}, m \in Locations, nb \in BOOLEAN :
        /\ CASE type = "WH_TO_STORE" -> l \in Whs /\ m \in Stores /\ WhOf[m] = l
             [] type = "REBALANCE"   -> /\ l \in Stores /\ m \in Stores \ {l}
                                        /\ WhOf[l] = WhOf[m]
             [] type = "WH_TRANSFER" -> l \in Whs /\ m \in Whs \ {l}
             [] OTHER                -> l = None /\ m \in Whs
        /\ order' = [order EXCEPT ![o] =
                       [type |-> type, src |-> l, tgt |-> m, newbook |-> nb,
                        status |-> IF nb THEN "APPROVED" ELSE "PENDING",
                        offday |-> FALSE]]
  BY DEF Propose
<1> DEFINE new == [type |-> type, src |-> l, tgt |-> m, newbook |-> nb,
                   status |-> IF nb THEN "APPROVED" ELSE "PENDING", offday |-> FALSE]
<1>2. l = None <=> type = "PUBLISHER_ORDER"
  BY <1>1, AuthorityAssumption DEF Types, Locations
<1>3. new \in Order /\ new.src = l /\ new.type = type
  BY DEF Order, Statuses
<1>4. order' = [order EXCEPT ![o] = new]
  BY <1>1
<1> HIDE DEF new
<1>5. order'[o] = new /\ \A k \in Orders \ {o} : order'[k] = order[k]
  BY <1>4 DEF AuthTypeOK
<1>6. order' \in [Orders -> Order]
  BY <1>3, <1>4 DEF AuthTypeOK
<1>7. consent' = consent /\ ~Existing(o)
  BY DEF Propose
<1>. QED
  BY <1>2, <1>3, <1>5, <1>6, <1>7 DEF AuthTypeOK, Existing

\* What is left when the type of the approvals is known, after a change of status.
LEMMA StatusKeepsTypes ==
    ASSUME AuthTypeOK, NEW o \in Orders, Existing(o), NEW st \in Statuses,
           Become(o, st), consent' \in [Orders -> [Sides -> SUBSET Consent]]
    PROVE  AuthTypeOK'
  BY BecomeIsTyped DEF AuthTypeOK

\* The same after a receipt.
LEMMA ReceiptKeepsTypes ==
    ASSUME AuthTypeOK, NEW o \in Orders, Existing(o), Arrive(o), UNCHANGED consent
    PROVE  AuthTypeOK'
<1>1. \A k \in Orders : Existing(k)' => Existing(k)
  BY ArriveIsTyped DEF Existing
<1>. QED
  BY <1>1, ArriveIsTyped DEF AuthTypeOK

\* A legacy approval of an order that there is keeps the types.
LEMMA V1RecordKeepsTypes ==
    ASSUME AuthTypeOK, NEW o \in Orders, Existing(o), NEW t \in Tokens, NEW ss,
           V1Record(t, o, ss)
    PROVE  AuthTypeOK'
<1>1. consent' \in [Orders -> [Sides -> SUBSET Consent]]
  BY RecordedIsTyped DEF V1Record
<1>2. CASE Become(o, "APPROVED")
  BY <1>1, <1>2, StatusKeepsTypes DEF Statuses
<1>3. CASE UNCHANGED order
  BY <1>1, <1>3 DEF AuthTypeOK, Existing
<1>. QED
  BY <1>2, <1>3 DEF V1Record

\* So does an approval of the state machine.
LEMMA V2RecordKeepsTypes ==
    ASSUME AuthTypeOK, NEW o \in Orders, Existing(o), NEW t \in Tokens, NEW ss,
           NEW f \in BOOLEAN, V2Record(t, o, ss, f)
    PROVE  AuthTypeOK'
<1>1. consent' \in [Orders -> [Sides -> SUBSET Consent]]
  BY RecordedIsTyped DEF V2Record
<1>2. Become(o, "APPROVED") \/ Become(o, "IN_TRANSIT") \/ UNCHANGED order
  BY DEF V2Record
<1>. QED
  BY <1>1, <1>2, StatusKeepsTypes DEF Statuses, AuthTypeOK, Existing

\* Every request keeps the types.
LEMMA ActKeepsTypes ==
    ASSUME AuthTypeOK, NEW o \in Orders, NEW t \in Tokens, Act(t, o)
    PROVE  AuthTypeOK'
<1>0. consent \in [Orders -> [Sides -> SUBSET Consent]]
  BY DEF AuthTypeOK
<1>1. CASE V1Approve(t, o)
  BY <1>1, V1RecordKeepsTypes DEF V1Approve
<1>2. CASE V1ApproveAll(t, o)
  BY <1>2, V1RecordKeepsTypes DEF V1ApproveAll, Existing
<1>3. CASE V1Reject(t, o)
  <2>1. consent' \in [Orders -> [Sides -> SUBSET Consent]]
    BY <1>0, <1>3 DEF V1Reject
  <2>. QED
    BY <1>3, <2>1, StatusKeepsTypes DEF V1Reject, Existing, Statuses
<1>4. CASE V1Edit(t, o)
  <2>1. PICK l \in Locations : order' = [order EXCEPT ![o].tgt = l]
    BY <1>4 DEF V1Edit
  <2>. QED
    BY <1>4, <2>1, RetargetIsTyped DEF V1Edit, AuthTypeOK, Existing
<1>5. CASE V1Receive(t, o)
  BY <1>5, ReceiptKeepsTypes DEF V1Receive, Existing
<1>6. CASE V2ApproveInferred(t, o)
  <2>1. (~IsHq(t) /\ Cardinality(InferSide(t, o)) # 1) \in BOOLEAN
    OBVIOUS
  <2>. QED
    BY <1>6, <2>1, V2RecordKeepsTypes DEF V2ApproveInferred
<1>7. CASE V2Dispatch(t, o)
  BY <1>0, <1>7, StatusKeepsTypes DEF V2Dispatch, Existing, Statuses
<1>8. CASE V2Receive(t, o)
  BY <1>8, ReceiptKeepsTypes DEF V2Receive, Existing
<1>9. CASE V2Reject(t, o)
  BY <1>0, <1>9, StatusKeepsTypes DEF V2Reject, Existing, Statuses
<1>10. CASE V2Patch(t, o)
  <2>1. PICK l \in Locations : order' = [order EXCEPT ![o].tgt = l]
    BY <1>10 DEF V2Patch
  <2>. QED
    BY <1>10, <2>1, RetargetIsTyped DEF V2Patch, AuthTypeOK, Existing
<1>11. CASE V2ApproveNamed(t, o)
  <2>1. PICK s \in Sides : V2Record(t, o, {s}, TRUE)
    BY <1>11 DEF V2ApproveNamed
  <2>. QED
    BY <1>11, <2>1, V2RecordKeepsTypes DEF V2ApproveNamed
<1>. QED
  BY <1>1, <1>2, <1>3, <1>4, <1>5, <1>6, <1>7, <1>8, <1>9, <1>10, <1>11 DEF Act

\* In the first state there is no order, and no approval.
LEMMA InitIsTyped == Init => AuthTypeOK
<1>1. Unborn \in Order /\ Unborn.status = "NONE"
  BY AuthorityAssumption DEF Unborn, Order, Types, Statuses, Locations
<1>. QED
  BY <1>1 DEF Init, AuthTypeOK, Existing

\* AuthTypeOK: every token, order and approval has its type, and an order has no
\* source exactly when it goes to a publisher.
THEOREM AuthTypeCorrect == Spec => []AuthTypeOK
<1>1. ASSUME AuthTypeOK, [Next]_vars
      PROVE  AuthTypeOK'
  <2>1. CASE UNCHANGED vars
    BY <1>1, <2>1 DEF vars, AuthTypeOK, Existing
  <2>2. CASE Next
    BY <1>1, <2>2, ProposalIsTyped, ActKeepsTypes DEF Next
  <2>. QED
    BY <1>1, <2>1, <2>2
<1>. QED
  BY <1>1, InitIsTyped, PTL DEF Spec

-----------------------------------------------------------------------------
(* Rules against rules *)

\* The two rules are compared case by case: order types against roles.
LEMMA TypesMakeRulesAgree == AuthTypeOK => BulkAgreesWithSingle
<1>1. ASSUME AuthTypeOK
      PROVE  BulkAgreesWithSingle
  <2>1. SUFFICES ASSUME NEW o \in Orders, NEW t \in Tokens, NEW s \in Sides, Existing(o)
                 PROVE  MayDecide(t, o, s) <=> MayDecideInBulk(t, o, s)
    BY DEF BulkAgreesWithSingle
  <2>2. /\ order[o].type \in Types
        /\ order[o].tgt \in Locations
        /\ order[o].type # "PUBLISHER_ORDER" => order[o].src \in Locations
    BY <1>1, <2>1, OrderIsTyped
  <2>3. /\ t.role \in Roles
        /\ t.role = "wh-manager" => t.wh \in Whs /\ t.wh # None
        /\ t.role = "branch-clerk" => t.store \in Stores /\ t.store # None
    BY TokensAreTyped, AuthorityAssumption DEF Token, Locations
  <2>4. CASE order[o].type = "PUBLISHER_ORDER"
    BY <2>1, <2>2, <2>3, <2>4
       DEF MayDecide, MayDecideInBulk, SidesOf, Sides, Ends, IsHq, ManagerAt
  <2>5. CASE order[o].type # "PUBLISHER_ORDER"
    <3>1. s = "FINAL" => ~MayDecide(t, o, s) /\ ~MayDecideInBulk(t, o, s)
      BY <2>5 DEF MayDecide, MayDecideInBulk, SidesOf, Ends
    <3>2. ASSUME s \in Ends
          PROVE  MayDecide(t, o, s) <=> MayDecideInBulk(t, o, s)
      <4> DEFINE mine == IF s = "SOURCE" THEN order[o].src ELSE order[o].tgt
      <4>1. mine = End(o, s)
        BY DEF End
      <4>2. MayDecide(t, o, s) <=>
              \/ IsHq(t)
              \/ order[o].type = "REBALANCE" /\ Party(t, mine)
              \/ /\ order[o].type = "WH_TO_STORE"
                 /\ IF s = "SOURCE" THEN ManagerAt(t, mine) ELSE ClerkAt(t, mine)
              \/ order[o].type = "WH_TRANSFER" /\ ManagerAt(t, mine)
        BY <2>5, <3>2, <4>1 DEF MayDecide, SidesOf
      <4>3. MayDecideInBulk(t, o, s) <=>
              CASE IsHq(t) -> TRUE
                [] t.role = "branch-clerk" ->
                     /\ t.store = mine
                     /\ \/ order[o].type = "REBALANCE"
                        \/ order[o].type = "WH_TO_STORE" /\ s = "TARGET"
                [] t.role = "wh-manager" ->
                     /\ t.wh = WhAt(mine)
                     /\ order[o].type = "WH_TO_STORE" => s = "SOURCE"
                [] OTHER -> FALSE
        BY <2>5, <3>2 DEF MayDecideInBulk
      <4> HIDE DEF mine
      <4>. QED
        BY <2>2, <2>3, <2>5, <3>2, <4>2, <4>3
           DEF Party, ClerkAt, ManagerAt, IsHq, Roles, Types, Ends
    <3>. QED
      BY <3>1, <3>2 DEF Sides
  <2>. QED
    BY <2>4, <2>5
<1>. QED
  BY <1>1

\* BulkAgreesWithSingle: an order may be decided in bulk by exactly those, and for
\* exactly those sides, that may decide it alone.
THEOREM BulkAgreement == Spec => []BulkAgreesWithSingle
  BY TypesMakeRulesAgree, AuthTypeCorrect, PTL

\* A party at a location may change its stock, see it, and has its figures.
LEMMA PartyHasStock ==
    ASSUME NEW t \in Tokens, NEW l \in Locations, IsHq(t) \/ Party(t, l)
    PROVE  MayWriteStock(t, l) /\ StockShows(t, WhAt(l)) /\ LocationShows(t, l)
<1>1. l # None
  BY RegionIsWh
<1>2. CASE IsHq(t)
  BY <1>2 DEF IsHq, MayWriteStock, StockShows, LocationShows
<1>3. CASE ClerkAt(t, l)
  BY <1>1, <1>3 DEF ClerkAt, Party, MayWriteStock, StockShows, LocationShows, WhAt
<1>4. CASE ManagerAt(t, l)
  BY <1>1, <1>4 DEF ManagerAt, Party, MayWriteStock, StockShows, LocationShows, WhAt
<1>. QED
  BY <1>2, <1>3, <1>4 DEF Party

\* StockRightsFollow: inventory-svc accepts the stock movement of every dispatch and
\* receipt that intervention-svc accepts, of whatever order it is.
THEOREM StockRights == Spec => []StockRightsFollow
<1>1. ASSUME AuthTypeOK
      PROVE  StockRightsFollow
  <2>1. SUFFICES ASSUME NEW o \in Orders, NEW t \in Tokens, Existing(o)
        PROVE  /\ CanDispatch(t, o) /\ order[o].src # None =>
                    /\ MayWriteStock(t, order[o].src)
                    /\ StockShows(t, WhAt(order[o].src))
                    /\ LocationShows(t, order[o].src)
               /\ CanReceive(t, o) \/ MayReceiveInbound(t, o) =>
                    /\ MayWriteStock(t, order[o].tgt)
                    /\ StockShows(t, WhAt(order[o].tgt))
                    /\ LocationShows(t, order[o].tgt)
    BY DEF StockRightsFollow
  <2>2. ASSUME CanDispatch(t, o), order[o].src # None
        PROVE  order[o].src \in Locations /\ (IsHq(t) \/ Party(t, order[o].src))
    BY <1>1, <2>1, <2>2, OrderIsTyped DEF CanDispatch
  <2>3. ASSUME CanReceive(t, o) \/ MayReceiveInbound(t, o)
        PROVE  order[o].tgt \in Locations /\ (IsHq(t) \/ Party(t, order[o].tgt))
    BY <1>1, <2>1, <2>3, OrderIsTyped DEF CanReceive, MayReceiveInbound, Party
  <2>. QED
    BY <2>2, <2>3, PartyHasStock
<1>. QED
  BY <1>1, AuthTypeCorrect, PTL

-----------------------------------------------------------------------------
(* Approvals outlive the edits of their order *)

ConsentInv == AuthTypeOK /\ Unasked /\ SourceConsentStands

\* Whoever may decide for the source is at the source, or the headquarters.
LEMMA DecidersAreThere ==
    ASSUME NEW o \in Orders, NEW t \in Tokens, MayDecide(t, o, "SOURCE")
    PROVE  IsHq(t) \/ Party(t, order[o].src)
  BY DEF MayDecide, SidesOf, End, Party

\* A side inferred for a caller who has just one is his.
LEMMA InferredAreThere ==
    ASSUME NEW o \in Orders, NEW t \in Tokens,
           "SOURCE" \in InferSide(t, o), IsHq(t) \/ Cardinality(InferSide(t, o)) = 1
    PROVE  IsHq(t) \/ Party(t, order[o].src)
<1>1. Cardinality(Ends) # 1
  <2>1. IsFiniteSet({"SOURCE"})
    BY FS_Singleton
  <2>2. Ends = {"SOURCE"} \cup {"TARGET"}
    BY DEF Ends
  <2>3. IsFiniteSet(Ends)
    BY <2>1, <2>2, FS_AddElement
  <2>4. \A x : Ends # {x}
    BY DEF Ends
  <2>. QED
    BY <2>3, <2>4, FS_Singleton
<1>2. SUFFICES ASSUME ~IsHq(t), InferSide(t, o) # Ends
               PROVE  Party(t, order[o].src)
  BY <1>1
<1>3. InferSide(t, o) = {"SOURCE"}
  BY <1>2 DEF InferSide
<1>. QED
  BY <1>2, <1>3 DEF InferSide, Party, Ends

\* An approval keeps the invariant when the one who gives it for the source is
\* there, or has only claimed it.
LEMMA ApprovalKeepsConsent ==
    ASSUME ConsentInv, NEW o \in Orders, NEW t \in Tokens, NEW ss, NEW f \in BOOLEAN,
           Existing(o), consent' = Recorded(o, ss, t, f),
           "SOURCE" \in ss /\ ~f => IsHq(t) \/ Party(t, order[o].src),
           AuthTypeOK',
           \A k \in Orders : order'[k].src = order[k].src,
           \A k \in Orders : Existing(k) <=> Existing(k)'
    PROVE  ConsentInv'
<1>1. \A k \in Orders, s \in Sides :
         consent'[k][s] = IF k = o /\ s \in ss THEN {[who |-> t, claimed |-> f]}
                          ELSE consent[k][s]
  BY DEF Recorded, ConsentInv, AuthTypeOK
<1>2. Unasked'
  BY <1>1 DEF ConsentInv, Unasked
<1>3. SourceConsentStands'
  <2>1. SUFFICES ASSUME NEW k \in Orders, NEW c \in consent'[k]["SOURCE"], ~c.claimed,
                        ~IsHq(c.who)
                 PROVE  Party(c.who, order'[k].src)
    BY DEF SourceConsentStands, IsHq, Party, ClerkAt, ManagerAt, WhAt
  <2>2. CASE k = o /\ "SOURCE" \in ss
    BY <1>1, <2>1, <2>2 DEF Sides, Ends
  <2>3. CASE ~(k = o /\ "SOURCE" \in ss)
    BY <1>1, <2>1, <2>3 DEF Sides, Ends, ConsentInv, SourceConsentStands
  <2>. QED
    BY <2>2, <2>3
<1>. QED
  BY <1>2, <1>3 DEF ConsentInv

\* So does whatever takes approvals away at most and leaves the sources alone.
LEMMA QuietKeepsConsent ==
    ASSUME ConsentInv, AuthTypeOK',
           \A k \in Orders, s \in Sides : consent'[k][s] \subseteq consent[k][s],
           \A k \in Orders : order'[k].src = order[k].src,
           \A k \in Orders : Existing(k) <=> Existing(k)'
    PROVE  ConsentInv'
<1>1. Unasked'
  BY DEF ConsentInv, Unasked
<1>2. SourceConsentStands'
  <2>1. SUFFICES ASSUME NEW k \in Orders, NEW c \in consent'[k]["SOURCE"], ~c.claimed,
                        ~IsHq(c.who)
                 PROVE  Party(c.who, order'[k].src)
    BY DEF SourceConsentStands, IsHq, Party, ClerkAt, ManagerAt, WhAt
  <2>2. c \in consent[k]["SOURCE"]
    BY <2>1 DEF Sides, Ends
  <2>. QED
    BY <2>1, <2>2 DEF ConsentInv, SourceConsentStands
<1>. QED
  BY <1>1, <1>2 DEF ConsentInv

\* No request changes the source of an order, or whether there is one.
LEMMA ActKeepsSource ==
    ASSUME AuthTypeOK, NEW o \in Orders, NEW t \in Tokens, Act(t, o)
    PROVE  \A k \in Orders : /\ order'[k].src = order[k].src
                             /\ Existing(k) <=> Existing(k)'
<1>1. ASSUME NEW st \in Statuses, Become(o, st), Existing(o), st # "NONE"
      PROVE  \A k \in Orders : /\ order'[k].src = order[k].src
                               /\ Existing(k) <=> Existing(k)'
  <2>1. order[o] \in Order
    BY DEF AuthTypeOK
  <2> DEFINE new == [order[o] EXCEPT !.status = st]
  <2>2. new.src = order[o].src /\ new.status = st
    BY <2>1 DEF Order
  <2>3. \A k \in Orders : order'[k] = IF k = o THEN new ELSE order[k]
    BY <1>1, BecomeIsTyped
  <2> HIDE DEF new
  <2>. QED
    BY <1>1, <2>2, <2>3 DEF Existing
<1>2. ASSUME NEW l \in Locations, order' = [order EXCEPT ![o].tgt = l]
      PROVE  \A k \in Orders : /\ order'[k].src = order[k].src
                               /\ Existing(k) <=> Existing(k)'
  BY <1>2, RetargetIsTyped DEF Existing
<1>3. ASSUME Arrive(o), Existing(o)
      PROVE  \A k \in Orders : /\ order'[k].src = order[k].src
                               /\ Existing(k) <=> Existing(k)'
  BY <1>3, ArriveIsTyped DEF Existing
<1>4. \/ \E st \in Statuses : Become(o, st) /\ Existing(o) /\ st # "NONE"
      \/ \E l \in Locations : order' = [order EXCEPT ![o].tgt = l]
      \/ Arrive(o) /\ Existing(o)
      \/ UNCHANGED order
  BY DEF Act, V1Approve, V1ApproveAll, V1Record, V1Reject, V1Edit, V1Receive,
         V2ApproveInferred, V2ApproveNamed, V2Record, V2Dispatch, V2Receive, V2Reject,
         V2Patch, Existing, Statuses
<1>. QED
  BY <1>1, <1>2, <1>3, <1>4 DEF Existing

\* Every request keeps the invariant.
LEMMA ActKeepsConsent ==
    ASSUME ConsentInv, NEW o \in Orders, NEW t \in Tokens, Act(t, o)
    PROVE  ConsentInv'
<1>0. /\ AuthTypeOK /\ AuthTypeOK'
      /\ \A k \in Orders : order'[k].src = order[k].src
      /\ \A k \in Orders : Existing(k) <=> Existing(k)'
      /\ consent \in [Orders -> [Sides -> SUBSET Consent]]
  BY ActKeepsTypes, ActKeepsSource DEF ConsentInv, AuthTypeOK
<1>1. CASE V1Approve(t, o)
  <2>1. PICK s \in Sides : MayDecide(t, o, s) /\ V1Record(t, o, {s})
    BY <1>1 DEF V1Approve
  <2>2. Existing(o) /\ consent' = Recorded(o, {s}, t, FALSE)
    BY <1>1, <2>1 DEF V1Approve, V1Record
  <2>. QED
    BY <1>0, <2>1, <2>2, DecidersAreThere, ApprovalKeepsConsent
<1>2. CASE V1ApproveAll(t, o)
  <2> DEFINE ss == {s \in SidesOf(o) : MayDecideInBulk(t, o, s)}
  <2>1. Existing(o) /\ consent' = Recorded(o, ss, t, FALSE)
    BY <1>2 DEF V1ApproveAll, V1Record, Existing
  <2>2. "SOURCE" \in ss => MayDecide(t, o, "SOURCE")
    BY <1>0, <2>1, TypesMakeRulesAgree DEF BulkAgreesWithSingle, Sides, Ends
  <2> HIDE DEF ss
  <2>. QED
    BY <1>0, <2>1, <2>2, DecidersAreThere, ApprovalKeepsConsent
<1>3. CASE V1Reject(t, o)
  <2>1. PICK s \in Sides : consent' = [consent EXCEPT ![o][s] = {}]
    BY <1>3 DEF V1Reject
  <2>. QED
    BY <1>0, <2>1, QuietKeepsConsent
<1>4. CASE V2ApproveInferred(t, o)
  <2> DEFINE own == IsHq(t) \/ Cardinality(InferSide(t, o)) = 1
  <2>1. Existing(o) /\ consent' = Recorded(o, InferSide(t, o), t, ~own)
    BY <1>4 DEF V2ApproveInferred, V2Record
  <2>2. "SOURCE" \in InferSide(t, o) /\ own => IsHq(t) \/ Party(t, order[o].src)
    BY InferredAreThere
  <2>3. (~own) \in BOOLEAN
    OBVIOUS
  <2> HIDE DEF own
  <2>. QED
    BY <1>0, <2>1, <2>2, <2>3, ApprovalKeepsConsent
<1>5. CASE V2ApproveNamed(t, o)
  <2>1. PICK s \in Sides : consent' = Recorded(o, {s}, t, TRUE)
    BY <1>5 DEF V2ApproveNamed, V2Record
  <2>. QED
    BY <1>0, <1>5, <2>1, ApprovalKeepsConsent DEF V2ApproveNamed
<1>6. CASE consent' = consent
  BY <1>0, <1>6, QuietKeepsConsent
<1>. QED
  BY <1>1, <1>2, <1>3, <1>4, <1>5, <1>6
     DEF Act, V1Edit, V1Receive, V2Dispatch, V2Receive, V2Reject, V2Patch

\* A proposal has no approvals, so the invariant does not mind its source.
LEMMA ProposalKeepsConsent ==
    ASSUME ConsentInv, NEW o \in Orders, Propose(o)
    PROVE  ConsentInv'
<1>1. /\ AuthTypeOK' /\ consent' = consent /\ ~Existing(o)
      /\ \A k \in Orders \ {o} : order'[k] = order[k]
  BY ProposalIsTyped DEF ConsentInv
<1>2. \A s \in Sides : consent[o][s] = {}
  BY <1>1 DEF ConsentInv, Unasked
<1>3. Unasked'
  BY <1>1, <1>2 DEF ConsentInv, Unasked, Existing
<1>4. SourceConsentStands'
  <2>1. SUFFICES ASSUME NEW k \in Orders, NEW c \in consent'[k]["SOURCE"], ~c.claimed,
                        ~IsHq(c.who)
                 PROVE  Party(c.who, order'[k].src)
    BY DEF SourceConsentStands, IsHq, Party, ClerkAt, ManagerAt, WhAt
  <2>2. k # o /\ c \in consent[k]["SOURCE"]
    BY <1>1, <1>2, <2>1 DEF Sides, Ends
  <2>. QED
    BY <1>1, <2>1, <2>2 DEF ConsentInv, SourceConsentStands
<1>. QED
  BY <1>1, <1>3, <1>4 DEF ConsentInv

\* SourceConsentStands: for any history of approvals, rejections and retargetings,
\* who has been taken for a speaker of the source by the code is at the source.
THEOREM SourceConsentCorrect == Spec => []SourceConsentStands
<1>1. Init => ConsentInv
  BY InitIsTyped DEF Init, ConsentInv, Unasked, SourceConsentStands, Sides, Ends
<1>2. ASSUME ConsentInv, [Next]_vars
      PROVE  ConsentInv'
  <2>1. CASE UNCHANGED vars
    BY <1>2, <2>1 DEF vars, ConsentInv, AuthTypeOK, Existing, Unasked,
                     SourceConsentStands, IsHq, Party, ClerkAt, ManagerAt, WhAt
  <2>2. CASE Next
    BY <1>2, <2>2, ProposalKeepsConsent, ActKeepsConsent DEF Next
  <2>. QED
    BY <1>2, <2>1, <2>2
<1>3. ConsentInv => SourceConsentStands
  BY DEF ConsentInv
<1>. QED
  BY <1>1, <1>2, <1>3, PTL DEF Spec

-----------------------------------------------------------------------------
(* Lists against rules *)

Involved(t, o) == Mine(t, order[o].src) \/ Mine(t, order[o].tgt)

\* What the filters of the lists come to, for a caller whose scope is not NULL.
LEMMA FiltersAreInvolved ==
    ASSUME NEW o \in Orders, NEW t \in Tokens, t.role # "engineer"
    PROVE  /\ QueueShows(t, o) <=> Involved(t, o)
           /\ FunnelCounts(t, o) <=> Involved(t, o)
           /\ PlanShows(t, o) => Involved(t, o)
           /\ InstructionsShow(t, o) <=>
                 order[o].status \in {"APPROVED", "EXECUTED"} /\ Involved(t, o)
           /\ \A l \in Locations : LocationShows(t, l) <=> Mine(t, l)
<1>1. \/ t.role = "hq-admin"
      \/ t.role = "wh-manager" /\ t.wh \in Whs /\ t.wh # None
      \/ t.role = "branch-clerk" /\ t.store \in Stores /\ t.store # None
  BY TokensAreTyped, AuthorityAssumption DEF Token, Roles, Locations
<1> USE DEF QueueShows, FunnelCounts, PlanShows, InstructionsShow, LocationShows,
            Involved, Mine, IsHq, Party, ClerkAt, ManagerAt, End, Ends
<1>2. CASE t.role = "hq-admin"
  BY <1>2
<1>3. CASE t.role = "wh-manager" /\ t.wh \in Whs /\ t.wh # None
  BY <1>3
<1>4. CASE t.role = "branch-clerk" /\ t.store \in Stores /\ t.store # None
  BY <1>4
<1>. QED
  BY <1>1, <1>2, <1>3, <1>4

\* Only those at an end of an order decide, send off, receive or reject it.
LEMMA ActorsAreInvolved ==
    ASSUME AuthTypeOK, NEW o \in Orders, NEW t \in Tokens, Existing(o),
           \/ \E s \in Sides : MayDecide(t, o, s)
           \/ CanDispatch(t, o) \/ CanReceive(t, o) \/ CanReject(t, o)
    PROVE  Involved(t, o) /\ t.role # "engineer"
<1>1. Involved(t, o)
  BY DEF MayDecide, CanDispatch, CanReceive, CanReject, SidesOf, End, Ends, Party,
         Involved, Mine
<1>2. t.role # "engineer"
  BY <1>1 DEF Involved, Mine, IsHq, Party, ClerkAt, ManagerAt
<1>. QED
  BY <1>1, <1>2

\* ActorsSeeTheirOrders: whatever is asked of somebody is in the list where he looks
\* for it.
THEOREM ActorsSee == Spec => []ActorsSeeTheirOrders
<1>1. ASSUME AuthTypeOK
      PROVE  ActorsSeeTheirOrders
  <2> SUFFICES ASSUME NEW o \in Orders, NEW t \in Tokens, Existing(o)
      PROVE
        LET st      == order[o].status
            decides == \E s \in Sides : MayDecide(t, o, s)
        IN  /\ decides \/ CanDispatch(t, o) \/ CanReceive(t, o) \/ CanReject(t, o)
               => QueueShows(t, o)
            /\ st = "PENDING" /\ decides => o \in ManualReview(t)
            /\ \/ st = "APPROVED" /\ CanDispatch(t, o)
               \/ st = "IN_TRANSIT" /\ CanReceive(t, o)
               => CalendarCells(t, o) # {}
            /\ st = "APPROVED" /\ CanDispatch(t, o) => InstructionsShow(t, o)
    BY DEF ActorsSeeTheirOrders
  <2> DEFINE acts == \/ \E s \in Sides : MayDecide(t, o, s)
                     \/ CanDispatch(t, o) \/ CanReceive(t, o) \/ CanReject(t, o)
  <2>1. acts => Involved(t, o) /\ QueueShows(t, o)
    BY <1>1, ActorsAreInvolved, FiltersAreInvolved
  <2>2. acts /\ order[o].status = "APPROVED" => InstructionsShow(t, o)
    BY <1>1, ActorsAreInvolved, FiltersAreInvolved
  <2>3. ASSUME Involved(t, o), order[o].status = "APPROVED"
        PROVE  CalendarCells(t, o) # {}
    <3>1. "inbound" \in CalendarCells(t, o) \/ "outbound" \in CalendarCells(t, o)
      BY <2>3 DEF CalendarCells, Involved
    <3>. QED
      BY <3>1
  <2>4. ASSUME Involved(t, o), order[o].status = "IN_TRANSIT"
        PROVE  CalendarCells(t, o) # {}
    <3>1. "in_transit" \in CalendarCells(t, o)
      BY <2>4 DEF CalendarCells, Involved
    <3>. QED
      BY <3>1
  <2>. QED
    BY <2>1, <2>2, <2>3, <2>4 DEF ManualReview
<1>. QED
  BY <1>1, AuthTypeCorrect, PTL

\* CountedOnce: the calendar has an order that did not arrive on an unexpected day in
\* one of its cells, for whom the history shows it and for nobody else, and one that
\* did in none; the other figures count both for the same people.
THEOREM CalendarCounts == Spec => []CountedOnce
<1>1. ASSUME AuthTypeOK
      PROVE  CountedOnce
  <2> SUFFICES ASSUME NEW o \in Orders, NEW t \in Tokens, t.role # "engineer", Existing(o)
      PROVE  /\ Cardinality(CalendarCells(t, o)) =
                   IF /\ QueueShows(t, o)
                      /\ \/ order[o].status \in {"APPROVED", "IN_TRANSIT"}
                         \/ order[o].status = "EXECUTED" /\ ~order[o].offday
                   THEN 1 ELSE 0
             /\ FunnelCounts(t, o) <=> QueueShows(t, o)
             /\ ExecutionCells(t, o) # {} <=> InstructionsShow(t, o)
             /\ PlanShows(t, o) => QueueShows(t, o)
    BY DEF CountedOnce
  <2> DEFINE st == order[o].status
             cells == CalendarCells(t, o)
             counts == \/ st \in {"APPROVED", "IN_TRANSIT"}
                       \/ st = "EXECUTED" /\ ~order[o].offday
  <2>1. IF Involved(t, o) /\ counts
        THEN \E c : cells = {c} ELSE cells = {}
    <3>1. CASE ~Involved(t, o)
      BY <3>1 DEF CalendarCells, Involved
    <3>2. CASE ~counts
      BY <3>2 DEF CalendarCells
    <3>3. CASE Involved(t, o) /\ st = "APPROVED" /\ Mine(t, order[o].tgt)
      <4>1. cells = {"inbound"}
        BY <3>3 DEF CalendarCells
      <4>. QED
        BY <3>3, <4>1
    <3>4. CASE Involved(t, o) /\ st = "APPROVED" /\ ~Mine(t, order[o].tgt)
      <4>1. cells = {"outbound"}
        BY <3>4 DEF CalendarCells, Involved
      <4>. QED
        BY <3>4, <4>1
    <3>5. CASE Involved(t, o) /\ st = "IN_TRANSIT"
      <4>1. cells = {"in_transit"}
        BY <3>5 DEF CalendarCells, Involved
      <4>. QED
        BY <3>5, <4>1
    <3>6. CASE Involved(t, o) /\ st = "EXECUTED" /\ ~order[o].offday
      <4>1. cells = {"executed"}
        BY <3>6 DEF CalendarCells, Involved
      <4>. QED
        BY <3>6, <4>1
    <3>. QED
      BY <3>1, <3>2, <3>3, <3>4, <3>5, <3>6
  <2>2. Cardinality(cells) =
          IF Involved(t, o) /\ counts THEN 1 ELSE 0
    BY <2>1, FS_Singleton, FS_EmptySet
  <2>3. ExecutionCells(t, o) # {} <=> st \in {"APPROVED", "EXECUTED"} /\ Involved(t, o)
    <3>1. /\ order[o].src \in Locations \cup {None}
          /\ order[o].tgt \in Locations
      BY <1>1, OrderIsTyped
    <3>2. \A l \in Locations : l # None /\ (LocationShows(t, l) <=> Mine(t, l))
      BY FiltersAreInvolved, RegionIsWh
    <3>3. ~Mine(t, None) \/ IsHq(t)
      BY DEF Mine, Party, ClerkAt, ManagerAt, WhAt
    <3>4. "TARGET" \in ExecutionCells(t, o)
          <=> st \in {"APPROVED", "EXECUTED"} /\ Mine(t, order[o].tgt)
      BY <3>1, <3>2 DEF ExecutionCells, Ends, End
    <3>5. "SOURCE" \in ExecutionCells(t, o)
          <=> /\ st \in {"APPROVED", "EXECUTED"}
              /\ order[o].src # None /\ Mine(t, order[o].src)
      BY <3>1, <3>2 DEF ExecutionCells, Ends, End
    <3>6. ExecutionCells(t, o) \subseteq {"SOURCE", "TARGET"}
      BY DEF ExecutionCells, Ends
    <3>7. IsHq(t) => Mine(t, order[o].tgt)
      BY DEF Mine
    <3>. QED
      BY <3>3, <3>4, <3>5, <3>6, <3>7 DEF Involved
  <2>. QED
    BY <2>2, <2>3, FiltersAreInvolved
<1>. QED
  BY <1>1, AuthTypeCorrect, PTL

=============================================================================

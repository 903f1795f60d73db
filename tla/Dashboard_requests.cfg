SPECIFICATION FairSpec
CONSTANTS
  s1 = s1
  s2 = s2
  w1 = w1
  w2 = w2
  Whs <- TwoWhs
  Regions <- TwoWhs
  Shops <- SomeShops
  Ops <- AllOps
  Mails <- AllMails
  Predicted = 4
  Returns = {r1, r2, r3}
  g1 = g1
  g2 = g2
  Clicks = {g1, g2}
  Sessions <- TwoSessions
  Handlers = {h1, h2}
  k1 = k1
  Campaigns = {k1, k2, k3}
  Branches = {s1, s2}
  Calls = {n1}
  NoHandler = NoHandler
  NoCall = NoCall
  MaxFaults = 1
INVARIANTS OrdersMatchDecision AnswersAreTrue MailsAreTrue RejectionsAccounted CampaignsConsistent
PROPERTIES ClicksAnswered EverythingTold
CHECK_DEADLOCK FALSE

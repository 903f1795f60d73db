SPECIFICATION Spec
CONSTANTS
  w1 = w1
  w2 = w2
  s1 = s1
  s2 = s2
  s3 = s3
  Orders = {o}
  Whs = {w1, w2}
  Stores = {s1, s2, s3}
  WhOf <- WhOfDef
  Accounts <- AccountsDef
  Local <- LocalDef
  Group <- GroupDef
  FirstWh = w1
  DefaultStore = s1
  None = None
CHECK_DEADLOCK FALSE
INVARIANTS AuthTypeOK BulkAgreesWithSingle ActorsSeeTheirOrders CountedOnce StockRightsFollow SourceConsentStands

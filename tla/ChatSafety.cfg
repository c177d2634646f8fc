SPECIFICATION Spec
CONSTANTS
  c1 = c1
  c2 = c2
  c3 = c3
  Clients <- MCClients3
  Sleepers = {}
  Nobody = Nobody
  MAX_CLNT = 3
  MaxMsgs = 2
SYMMETRY MCSymmetry3
INVARIANTS
  TypeOK
  ClntCntCounts
  OrderedDelivery
  ServesOwn
PROPERTIES
  ImplementsRoom

SPECIFICATION Spec
CONSTANTS
  c1 = c1
  c2 = c2
  c3 = c3
  Clients <- MCClients2
  Sleepers = {}
  Nobody = Nobody
  MAX_CLNT = 2
  MaxMsgs = 1
INVARIANT
  SendToAll

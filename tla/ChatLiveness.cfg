SPECIFICATION FairSpec
CONSTANTS
  c1 = c1
  c2 = c2
  c3 = c3
  Clients <- MCClients2
  Sleepers <- MCSleepers
  Nobody = Nobody
  MAX_CLNT = 2
  MaxMsgs = 2
PROPERTY
  LeaversDone

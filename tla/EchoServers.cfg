SPECIFICATION FairSpec
CONSTANTS
  c1 = c1
  c2 = c2
  Clients <- MCClients
  MsgLen = 3
  MaxMsgs = 1
  Limits = {1, 2}
  Rounds = 2
  serv_sock = serv_sock
  Nobody = Nobody
INVARIANTS
  TypeOK
  EchoInOrder
  PipeNeedsKill
PROPERTIES
  EchoArrives
  ClosesConnections

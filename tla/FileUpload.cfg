SPECIFICATION FairSpec
CONSTANTS
  c1 = c1
  c2 = c2
  Clients <- MCClients
  DataLen = 2
  Unstable <- MCUnstable
  MAX_USER = 2
  serv_sock = serv_sock
  NoClient = NoClient
INVARIANTS
  TypeOK
  StoredIsSent
  CrashOnlyAfterCause
PROPERTY
  UploadsEnd

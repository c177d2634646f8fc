SPECIFICATION Spec
CONSTANTS
  s1 = s1
  s2 = s2
  s3 = s3
  a1 = a1
  a2 = a2
  p1 = p1
  p2 = p2
  p3 = p3
  MAX_SERV_CNT = 2
  MAX_CLNT_CNT = 2
  Socks <- MCSocks2
  IPs <- MCIPs1
  Ports <- MCPorts3
  LBPort = 8080
  RandValues <- MCRandValues
  Usages = {1}
  lb_sock = lb_sock
  raw_sock = raw_sock
  MaxDrift = 0
SYMMETRY MCSymmetry23
INVARIANTS
  ClntCntNeverOver
  CrashOnlyAfterCause

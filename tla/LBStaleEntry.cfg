SPECIFICATION Spec
CONSTANTS
  s1 = s1
  s2 = s2
  s3 = s3
  a1 = a1
  a2 = a2
  p1 = p1
  p2 = p2
  p3 = p3
  MAX_SERV_CNT = 1
  MAX_CLNT_CNT = 1
  Socks <- MCSocks1
  IPs <- MCIPs1
  Ports <- MCPorts1
  LBPort = 8080
  RandValues = {0}
  Usages = {1}
  lb_sock = lb_sock
  raw_sock = raw_sock
  MaxDrift = 0
INVARIANT
  ForwardingTableIsConnectionList

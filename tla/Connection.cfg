SPECIFICATION FairSpec
CONSTANTS
  h1 = h1
  h2 = h2
  lan = lan
  vpn = vpn
  NoHost = NoHost
  NoEndpoint = NoEndpoint
  Hosts <- MCHosts
  Endpoints <- MCEndpoints
  HostsOf <- MCHostsOf
  Reachable <- MCReachable
  MaxRetry = 1
INVARIANTS TypeOK SocketsAllowed ConnTruthful ClosesAreCurrent
PROPERTIES RefusalStands Reconnects

SPECIFICATION FairSpec
CONSTANTS
  Macs = {m1}
  Bcast = Bcast
  Addrs = {p1, p2, core}
  CorePeer = core
  SendTtl = 2
  Ttls = {0, 1, 2}
  Timeout = 2
  Unset = Unset
INVARIANT TypeOK
PROPERTIES RouteTableSpec SilentForgotten OldPathGivenUp

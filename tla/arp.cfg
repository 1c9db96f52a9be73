SPECIFICATION FairSpec
CONSTANTS
  Workers = {w1}
  Idle = Idle
  Ips = {ip1, ip2}
  Macs = {m1, m2}
  None = None
  BcastIp = BcastIp
  BcastMac = BcastMac
  MaxTasks = 2
INVARIANTS TypeOK LastSenderRecorded PermitsMatch
PROPERTIES PoolEnds

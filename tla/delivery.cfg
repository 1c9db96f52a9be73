SPECIFICATION FairSpec
CONSTANTS
  a = a
  b = b
  c = c
  r = r
  Nodes = {a, b, r}
  Ghosts = {}
  Bcast = Bcast
  NoAddr = NoAddr
  Unset = Unset
  Core <- Star
  SendTtl = 1
  Faults = {"dup"}
  MaxFrames = 2
  MaxInFlight = 1
PROPERTY RelayDelivers

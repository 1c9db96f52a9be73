SPECIFICATION FairSpec
CONSTANTS
  a = a
  b = b
  c = c
  r = r
  Nodes = {a, b, r}
  Ghosts = {}
  Bcast = Bcast
  NoAddr = NoAddr
  Unset = Unset
  Core <- Ring
  SendTtl = 3
  Faults = {"forget","restart"}
  MaxFrames = 1
  MaxInFlight = 2
INVARIANTS HopBound OnlyAddressed
PROPERTY StormDies

SPECIFICATION Spec
CONSTANTS
  a = a
  b = b
  c = c
  r = r
  Nodes = {a, b, r}
  Ghosts = {}
  Bcast = Bcast
  NoAddr = NoAddr
  Unset = Unset
  Core <- Chain
  SendTtl = 3
  Faults = {}
  MaxFrames = 2
  MaxInFlight = 2
INVARIANT UplinkTtl

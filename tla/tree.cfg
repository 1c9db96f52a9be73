SPECIFICATION Spec
CONSTANTS
  a = a
  b = b
  c = c
  r = r
  Nodes = {a, b, c, r}
  Ghosts = {}
  Bcast = Bcast
  NoAddr = NoAddr
  Unset = Unset
  Core <- Chain
  Hop <- ChainHop
  SendTtl = 3
  Faults = {"lose"}
  MaxFrames = 2
  MaxInFlight = 1
INVARIANTS TypeOK RouteSound PathSound CopiesSound
PROPERTY LanSpec

SPECIFICATION CtrlSpec
CONSTANTS
  a = a
  b = b
  r = r
  Nodes = {a, b, r}
  Ghosts = {}
  Bcast = Bcast
  NoAddr = NoAddr
  Unset = Unset
  Core <- Star
  Hop <- StarHop
  SendTtl = 2
  Faults = {"lose"}
  MaxFrames = 1
  MaxInFlight = 1
  P2p = {a, b, r}
  Retry = 0
SYMMETRY Leaves
INVARIANTS CtrlTypeOK LoopFree
PROPERTY LanSpec

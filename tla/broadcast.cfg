SPECIFICATION Spec
CONSTANTS
  Words = {0, 1, 2, 3, 4}
  Ports = {1, 2}
  FFFF = 1
  Macs = {m1, m2, m3}
  Bcast = Bcast
  Addresses <- DualStack
  Core <- DualStackCore
  Ttl = 0
INVARIANTS OneCopyEach NoEcho
PROPERTY NoneLeftOut
CHECK_DEADLOCK FALSE

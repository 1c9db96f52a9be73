SPECIFICATION FairSpec
CONSTANTS
  Pollers = {home, other}
  Home = home
  MaxIn = 3
  MaxTap = 1
  Bcast = {1, 3, 4}
  Room = 2
INVARIANTS RelayInOrder OnceOnly
PROPERTIES LostInQueueOnly ArrivalsRead NothingStuck
CHECK_DEADLOCK FALSE

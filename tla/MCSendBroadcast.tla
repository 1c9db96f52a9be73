-------------------------- MODULE MCSendBroadcast --------------------------
(* Addresses for TLC. *)
EXTENDS SendBroadcast

(* Peers over IPv4, in the form they are heard and in the form they are    *)
(* configured, and peers over IPv6 whose first word is no IPv4 address.    *)
DualStack == {Mapped(2, 1), Mapped(3, 1), Mapped(2, 2), Inet(2, 1),
              [family |-> "inet6", ip |-> <<4, 0, 0, 2>>, port |-> 1]}
DualStackCore == {Inet(2, 1), Inet(3, 1), [family |-> "inet6", ip |-> <<4, 0, 0, 2>>, port |-> 1]}

(* compareSockAddr tells them apart. *)
ASSUME DualStackDistinguished == \A x, y \in DualStack \cup DualStackCore : ~Confused(x, y)
=============================================================================

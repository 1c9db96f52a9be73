----------------------------- MODULE RouteTable -----------------------------
(***************************************************************************)
(* What the MAC table promises to the switch: the route of a MAC address   *)
(* is exchanged only for one that is at least as good, a route may be      *)
(* forgotten, and the uplink, the route of the broadcast address, is       *)
(* there for good.                                                         *)
(***************************************************************************)
EXTENDS Naturals

CONSTANTS Macs, Bcast, Addrs, CorePeer, SendTtl, Ttls, Unset

VARIABLE route

NoRoute == [sock |-> Unset, ttl |-> 0]

Init ==
    route = [m \in Macs \cup {Bcast} |->
               IF m = Bcast THEN [sock |-> CorePeer, ttl |-> SendTtl] ELSE NoRoute]

Exchange(m, a, t) ==
    /\ route[m].sock # a
    /\ route[m] # NoRoute => t >= route[m].ttl
    /\ route' = [route EXCEPT ![m] = [sock |-> a, ttl |-> t]]

Forget(m) == route' = [route EXCEPT ![m] = NoRoute]

Next == \E m \in Macs : Forget(m) \/ \E a \in Addrs, t \in Ttls : Exchange(m, a, t)

Spec == Init /\ [][Next]_route
=============================================================================

------------------------------ MODULE MacPeer ------------------------------
(***************************************************************************)
(* One entry of the MAC table (class MacMap::MacPeer, src/src/MacMap.h)    *)
(* and the rule by which MacMap::addMacPeer learns a path for a MAC        *)
(* address.  An entry is the socket address behind which the MAC address   *)
(* was heard and the time to live the frame still had: a higher ttl means  *)
(* fewer relays between that address and the owner of the MAC.             *)
(*                                                                         *)
(* Addresses are compared for equality; compareSockAddr, which the code    *)
(* uses, is the subject of module SockAddr.                                *)
(***************************************************************************)
EXTENDS Naturals

CONSTANT Unset  \* the sock of a MacPeer nobody has filled in (AF_UNSPEC)

(* operator[] creates an entry of this value, so that a MAC address with   *)
(* no entry is represented by it as well.                                  *)
NoPeer == [sock |-> Unset, ttl |-> 0]

Known(e) == e.sock # Unset

(* addMacPeer takes a new path only if it is at least as short...          *)
Replaces(e, peer, ttl) == e.sock # peer /\ e.ttl <= ttl

(* ...and resets the entry's ticker then, or when the path is the known    *)
(* one, whose ttl it leaves as it was.                                     *)
RefreshesAlways(e, peer, ttl) == TRUE  \* mutant: every frame keeps the entry
Refreshes(e, peer, ttl) == e.sock = peer \/ Replaces(e, peer, ttl)

LearnedLatest(e, peer, ttl) ==         \* mutant: the ttls are not compared
    [sock |-> peer, ttl |-> ttl]
LearnedLess(e, peer, ttl) ==           \* mutant: a hop is taken off, 0 or not
    IF Replaces(e, peer, ttl) THEN [sock |-> peer, ttl |-> ttl - 1] ELSE e

Learned(e, peer, ttl) ==
    IF Replaces(e, peer, ttl) THEN [sock |-> peer, ttl |-> ttl] ELSE e
=============================================================================

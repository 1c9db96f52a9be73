------------------------------- MODULE VSCtrl -------------------------------
(***************************************************************************)
(* The control helper (src/src/VSCtrlHelper.cpp) on top of the network of  *)
(* module VSwitch: a node asks its core peer for the peers in that node's  *)
(* MAC table, and sends each of them that it reaches through its own core  *)
(* peer datagrams of its own, so that the two learn each other's address.  *)
(*                                                                         *)
(* Commands have the destination MAC address 0, so that onPeerInput is not *)
(* called for them: they are not relayed and nothing is learned from them. *)
(* A response is handled peer by peer; here each peer is a datagram, the   *)
(* most parts a response can come in.  A datagram sent to an address       *)
(* reaches it (no NAT drops it).                                           *)
(***************************************************************************)
EXTENDS VSwitchTree

CONSTANTS
    P2p,    \* the nodes with Config::enableP2p
    Retry   \* sends that follow the first one; 10 in the code

ASSUME P2pAssumption == P2p \subseteq Nodes
ASSUME RetryAssumption == Retry \in Nat

VARIABLES
    cmds,      \* the commands in flight
    punching   \* the timers that send to a peer of a response

ctrlVars == <<macMap, net, frames, written, cmds, punching>>

Query == [cmd : {"QueryPeers"}, from : Nodes, to : Nodes]
Response == [cmd : {"ReQueryPeers"}, from : Nodes, to : Nodes, mac : Macs, addr : Addrs]
Empty == [cmd : {"empty"}, from : Nodes, to : Nodes]
Timer == [at : Nodes, mac : Macs, addr : Addrs, retry : 0..Retry]

(* Types; equal timers count as one.                                       *)
CtrlTypeOK ==
    /\ TypeOK
    /\ cmds \subseteq Query \cup Response \cup Empty
    /\ punching \subseteq Timer

CtrlInit == Init /\ cmds = {} /\ punching = {}

(* Every 60 seconds, and at the start. *)
SendQueryPeersAny(n) ==  \* mutant: the core need not be the one asked
    /\ n \in P2p /\ Core[n] # NoAddr
    /\ Cardinality(net \cup cmds) < MaxInFlight
    /\ \E peer \in Nodes \ {n} :
          cmds' = cmds \cup {[cmd |-> "QueryPeers", from |-> n, to |-> peer]}
    /\ UNCHANGED <<vars, punching>>

SendQueryPeers(n) ==
    /\ n \in P2p /\ Core[n] # NoAddr
    /\ Cardinality(net \cup cmds) < MaxInFlight
    /\ cmds' = cmds \cup {[cmd |-> "QueryPeers", from |-> n, to |-> Core[n]]}
    /\ UNCHANGED <<vars, punching>>

(* The response of an empty table is an empty datagram, and one may follow *)
(* any other: the last part of the response is sent even if it was sent    *)
(* already, for its length.                                                *)
OnQueryPeers(c) ==
    /\ c.cmd = "QueryPeers"
    /\ LET known == {m \in Macs : Known(macMap[c.to][m])}
           parts == {[cmd |-> "ReQueryPeers", from |-> c.to, to |-> c.from, mac |-> m,
                      addr |-> macMap[c.to][m].sock] : m \in known}
           last == {[cmd |-> "empty", from |-> c.to, to |-> c.from]}
       IN \/ known # {} /\ cmds' = (cmds \ {c}) \cup parts
          \/ cmds' = (cmds \ {c}) \cup parts \cup last
    /\ UNCHANGED <<vars, punching>>

(* Each peer that is reached through the core peer, if at all, is sent to  *)
(* once a second.                                                          *)
Punches(n, mac) == mac # n /\ GetMacPeer(macMap[n], mac) = Core[n]

OnQueryPeersResponse(c) ==
    /\ c.cmd = "ReQueryPeers"
    /\ cmds' = cmds \ {c}
    /\ punching' = IF Punches(c.to, c.mac)
                   THEN punching \cup {[at |-> c.to, mac |-> c.mac, addr |-> c.addr,
                                        retry |-> Retry]}
                   ELSE punching
    /\ UNCHANGED vars

(* setOnRead takes the MAC addresses of an empty datagram from memory that *)
(* nothing has written, where those of an earlier frame may be left over:  *)
(* onPeerInput learns a path for none or any of them.                      *)
OnEmpty(c) ==
    /\ c.cmd = "empty"
    /\ cmds' = cmds \ {c}
    /\ \/ UNCHANGED macMap
       \/ \E m \in Macs \ {c.to} :
             macMap' = [macMap EXCEPT ![c.to][m] = Learned(@, c.from, SendTtl)]
    /\ UNCHANGED <<net, frames, written, punching>>

(* The timer: sendKeepData with ttl 0, Retry times more. *)
AgainAlways(t) == {[t EXCEPT !.retry = @ - 1]}  \* mutant: not stopped at 0
Again(t) == IF t.retry > 0 THEN {[t EXCEPT !.retry = @ - 1]} ELSE {}

Punch(t) ==
    /\ Cardinality(net \cup cmds) < MaxInFlight
    /\ net' = net \cup {[fid |-> 0, src |-> t.at, dst |-> t.mac, from |-> t.at,
                         to |-> t.addr, ttl |-> 0, hops |-> 0]}
    /\ punching' = (punching \ {t}) \cup Again(t)
    /\ UNCHANGED <<macMap, frames, written, cmds>>

LoseCmd(c) ==
    /\ "lose" \in Faults
    /\ cmds' = cmds \ {c}
    /\ UNCHANGED <<vars, punching>>

CtrlNext ==
    \/ Next /\ UNCHANGED <<cmds, punching>>
    \/ \E n \in Nodes : SendQueryPeers(n)
    \/ \E c \in cmds : \/ OnQueryPeers(c)
                       \/ OnQueryPeersResponse(c)
                       \/ OnEmpty(c)
                       \/ LoseCmd(c)
    \/ \E t \in punching : Punch(t)

CtrlSpec == CtrlInit /\ [][CtrlNext]_ctrlVars

(* The paths that nodes have for a MAC address, taken together, lead to it *)
(* or to a node that has none: there are no nodes that pass its frames     *)
(* round among themselves, though they now learn each other's addresses    *)
(* beside the tree.                                                        *)
LoopFree ==
    \A m \in Nodes : \A S \in SUBSET (Nodes \ {m}) :
        S # {} => \E n \in S : macMap[n][m].sock \notin S
=============================================================================

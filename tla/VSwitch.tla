------------------------------ MODULE VSwitch ------------------------------
(***************************************************************************)
(* A network of virtual switches: every node runs VSwitch (src/src/        *)
(* VSwitch.cpp), its MAC table (MacMap.h), its link keeper (LinkKeeper.h)  *)
(* and its UDP transport (Transport.h).  A node is named by one value that *)
(* stands both for the MAC address of its TAP interface and for the socket *)
(* address of its transport.                                               *)
(*                                                                         *)
(* The tunnel is UDP: a datagram may be delayed and reordered at will,     *)
(* and, as Faults allows, lost or duplicated; a node may restart or forget *)
(* a MAC address.  Copies of a frame that agree on everything, the hops    *)
(* they made included, are one element of net.                             *)
(***************************************************************************)
EXTENDS MacPeer, Sequences, FiniteSets

CONSTANTS
    Nodes,
    Ghosts,      \* destination MAC addresses that no node owns
    Bcast,       \* MAC_BROADCAST
    NoAddr,      \* 0.0.0.0:0, the remote address of a node started without one
    Core,        \* Core[n]: the address node n was given as its core peer
    SendTtl,     \* Config::sendTtl, the same at every node
    Faults,      \* which of "lose", "dup", "forget", "restart" may happen
    MaxFrames,   \* bound: frames read from the TAP interfaces
    MaxInFlight  \* bound: no new frame or keepalive while more are in flight

Macs == Nodes \cup Ghosts
Keys == Macs \cup {Bcast}
Addrs == Nodes \cup {NoAddr}

ASSUME NodesAssumption ==
    /\ Nodes \cap Ghosts = {}
    /\ Bcast \notin Macs
    /\ NoAddr \notin Nodes
    /\ Unset \notin Addrs
ASSUME CoreAssumption == Core \in [Nodes -> Addrs] /\ \A n \in Nodes : Core[n] # n
ASSUME TtlAssumption == SendTtl \in 0..255
ASSUME BoundsAssumption == MaxFrames \in Nat /\ MaxInFlight \in Nat

VARIABLES
    macMap,   \* macMap[n]: the MAC table of node n
    net,      \* the datagrams in flight
    frames,   \* history: the frames read from the TAP interfaces
    written   \* history: written[n][f], writes of frame f to n's TAP, up to 2

vars == <<macMap, net, frames, written>>

(* A datagram: the frame it carries (0: none, it is a keepalive of twelve  *)
(* bytes), the MAC addresses of that frame, the two ends of the datagram,  *)
(* the ttl of its first byte, and (history) the relays it went through.    *)
Packet == [fid : 0..MaxFrames, src : Nodes, dst : Keys, from : Nodes,
           to : Nodes, ttl : 0..255, hops : Nat]

IsKeep(p) == p.fid = 0

(* uint8_t arithmetic *)
DecNone(ttl) == ttl  \* mutant: forwarded with the ttl it came with
Dec(ttl) == (ttl + 255) % 256

Peer == [sock : Addrs \cup {Unset}, ttl : 0..255]

(* main: the broadcast address maps to the core peer before anything runs *)
FreshTable(n) ==
    [m \in Keys |-> IF m = Bcast THEN [sock |-> Core[n], ttl |-> SendTtl]
                                 ELSE NoPeer]

(* MacMap::getMacPeer *)
GetMacPeer(table, m) == IF Known(table[m]) THEN table[m].sock ELSE table[Bcast].sock

-----------------------------------------------------------------------------
(* sendBroadcast: one copy to every address in the table but the one the   *)
(* frame came from.  The table is an unordered_map: when other MAC         *)
(* addresses are known behind the core peer's address, the first of them   *)
(* and the broadcast entry that the iteration meets decides the copy's     *)
(* ttl.  What is sent to port 0 goes nowhere.                              *)
TargetsEcho(table, from) ==  \* mutant: the source is not left out
    {table[m].sock : m \in {k \in Keys : Known(table[k])}} \ {NoAddr}

Targets(table, from) ==
    {table[m].sock : m \in {k \in Keys : Known(table[k])}} \ {from, NoAddr}

BcastFirst(table) ==
    {first \in BOOLEAN :
        first \/ \E m \in Macs : table[m].sock = table[Bcast].sock}

FanOutAsIs(n, table, p, hops, bcastFirst) ==  \* mutant: passed on as it came
    {[p EXCEPT !.from = n, !.to = a] : a \in Targets(table, p.from)}

FanOutOneTtl(n, table, p, hops, bcastFirst) ==  \* mutant: the same ttl for every entry
    {[p EXCEPT !.from = n, !.to = a, !.hops = hops, !.ttl = Dec(p.ttl)] :
        a \in Targets(table, p.from)}

FanOut(n, table, p, hops, bcastFirst) ==
    {[p EXCEPT !.from = n, !.to = a, !.hops = hops,
               !.ttl = IF a = table[Bcast].sock /\ bcastFirst
                       THEN Dec(p.ttl) ELSE 0] : a \in Targets(table, p.from)}

-----------------------------------------------------------------------------
Init ==
    /\ macMap = [n \in Nodes |-> FreshTable(n)]
    /\ net = {}
    /\ frames = <<>>
    /\ written = [n \in Nodes |-> [f \in 1..MaxFrames |-> 0]]

(* pollInterface: node n reads a frame for dst from its TAP interface.  It *)
(* goes to the address known for dst, else to the core peer; a node with   *)
(* no core peer fans out a broadcast and drops a frame for a MAC address   *)
(* it does not know.                                                       *)
Frame(n, dst) ==
    [fid |-> Len(frames) + 1, src |-> n, dst |-> dst, from |-> Unset,
     to |-> n, ttl |-> SendTtl, hops |-> 0]

PollInterface(n, dst) ==
    /\ Len(frames) < MaxFrames
    /\ Cardinality(net) < MaxInFlight
    /\ frames' = Append(frames, [src |-> n, dst |-> dst])
    /\ LET p == Frame(n, dst)
           peer == GetMacPeer(macMap[n], dst)
       IN \/ /\ peer # NoAddr
             /\ net' = net \cup {[p EXCEPT !.from = n, !.to = peer]}
          \/ /\ peer = NoAddr /\ dst = Bcast
             /\ \E first \in BcastFirst(macMap[n]) :
                   net' = net \cup FanOut(n, macMap[n], p, 0, first)
          \/ /\ peer = NoAddr /\ dst # Bcast
             /\ UNCHANGED net
    /\ UNCHANGED <<macMap, written>>

(* The callback of setupOnPeerInput, for the datagram p at node p.to.      *)
(* First the frame is written to the TAP interface and its source learned. *)
WritesAny(p) == p.src # p.to /\ ~IsKeep(p)  \* mutant: the destination is not checked
WritesOwn(p) == p.dst \in {p.to, Bcast} /\ ~IsKeep(p)  \* mutant: the source is not checked
Writes(p) == p.dst \in {p.to, Bcast} /\ p.src # p.to /\ ~IsKeep(p)

Count(w) == IF w = 2 THEN 2 ELSE w + 1

TableAfter(p) ==
    IF p.src = p.to THEN macMap[p.to]
    ELSE [macMap[p.to] EXCEPT ![p.src] = Learned(@, p.from, p.ttl)]

Left(p) == {net \ {p}} \cup (IF "dup" \in Faults THEN {net} ELSE {})

(* Then it is relayed, unless it has arrived, its ttl is used up or it is  *)
(* a keepalive.                                                            *)
StopsAtNode(p) == p.dst = p.to \/ IsKeep(p)   \* mutant: the ttl is not checked
StopsEarly(p) == p.dst = p.to \/ p.ttl <= 1 \/ IsKeep(p)  \* mutant: off by one
Stops(p) == p.dst = p.to \/ p.ttl = 0 \/ IsKeep(p)

(* A frame for one node follows the table; one for an unknown MAC address  *)
(* is dropped.                                                             *)
Forward(p) ==
    LET e == TableAfter(p)[p.dst]
    IN IF Known(e)
       THEN {[p EXCEPT !.from = p.to, !.to = e.sock, !.ttl = Dec(p.ttl),
                       !.hops = p.hops + 1]}
       ELSE {}

OnPeerInput(p) ==
    /\ macMap' = [macMap EXCEPT ![p.to] = TableAfter(p)]
    /\ written' = IF Writes(p) THEN [written EXCEPT ![p.to][p.fid] = Count(@)]
                               ELSE written
    /\ \E left \in Left(p) :
          \/ /\ Stops(p)
             /\ net' = left
          \/ /\ ~Stops(p) /\ p.dst # Bcast
             /\ net' = left \cup Forward(p)
          \/ /\ ~Stops(p) /\ p.dst = Bcast
             /\ \E first \in BcastFirst(TableAfter(p)) :
                   net' = left \cup FanOut(p.to, TableAfter(p), p, p.hops + 1, first)
    /\ UNCHANGED frames

(* LinkKeeper: every 5 seconds a datagram that carries no more than two    *)
(* MAC addresses goes to every address in the table that has a port.       *)
Keepalive(n, m) ==
    [fid |-> 0, src |-> n, dst |-> m, from |-> n, to |-> macMap[n][m].sock,
     ttl |-> 0, hops |-> 0]

KeepAliveAnyPort(n) ==  \* mutant: the port is not checked
    /\ Cardinality(net) < MaxInFlight
    /\ net' = net \cup {Keepalive(n, m) : m \in {k \in Keys : Known(macMap[n][k])}}
    /\ UNCHANGED <<macMap, frames, written>>

KeepAlive(n) ==
    /\ Cardinality(net) < MaxInFlight
    /\ net' = net \cup {Keepalive(n, m) :
                          m \in {k \in Keys : macMap[n][k].sock \in Nodes}}
    /\ UNCHANGED <<macMap, frames, written>>

(* MacMap::removePeer; module MacMap says when the table's check calls it. *)
RemovePeer(n, m) ==
    /\ "forget" \in Faults
    /\ Known(macMap[n][m])
    /\ macMap' = [macMap EXCEPT ![n][m] = NoPeer]
    /\ UNCHANGED <<net, frames, written>>

(* The process of node n ends, and main runs again. *)
Restart(n) ==
    /\ "restart" \in Faults
    /\ macMap' = [macMap EXCEPT ![n] = FreshTable(n)]
    /\ UNCHANGED <<net, frames, written>>

Lose(p) ==
    /\ "lose" \in Faults
    /\ net' = net \ {p}
    /\ UNCHANGED <<macMap, frames, written>>

Next ==
    \/ \E n \in Nodes : \E dst \in Keys \ {n} : PollInterface(n, dst)
    \/ \E p \in net : OnPeerInput(p)
    \/ \E n \in Nodes : KeepAlive(n)
    \/ \E n \in Nodes, m \in Macs : RemovePeer(n, m)
    \/ \E n \in Nodes : Restart(n)
    \/ \E p \in net : Lose(p)

Spec == Init /\ [][Next]_vars

(* The broadcast entry is main's; the others were learned from datagrams.  *)
Wired(n, table) ==
    /\ table[Bcast] = [sock |-> Core[n], ttl |-> SendTtl]
    /\ \A m \in Macs : table[m].sock \in Nodes \cup {Unset}

(* Types; every table keeps its broadcast entry, and a learned address is  *)
(* one that a node sends from.                                             *)
TypeOK ==
    /\ macMap \in [Nodes -> [Keys -> Peer]]
    /\ \A n \in Nodes : Wired(n, macMap[n])
    /\ net \subseteq Packet
    /\ frames \in Seq([src : Nodes, dst : Keys]) /\ Len(frames) <= MaxFrames
    /\ written \in [Nodes -> [1..MaxFrames -> 0..2]]

(* No frame is relayed more often than the ttl its sender gave it: ttl-1   *)
(* in onPeerInput and sendBroadcast never wraps on a datagram that leaves. *)
HopBound == \A p \in net : p.hops + p.ttl <= SendTtl

(* Whatever network carries it, copies it and learns paths from it, a      *)
(* frame is what its sender's TAP interface gave: no host is handed one    *)
(* that it sent itself, or one that was sent to another.                   *)
OnlyAddressed ==
    \A n \in Nodes, f \in 1..MaxFrames :
        written[n][f] # 0 =>
            f <= Len(frames) /\ frames[f].src # n /\ frames[f].dst \in {n, Bcast}

(* The comment in sendBroadcast, "to the upper node, ttl - 1": the copy of *)
(* a broadcast that goes to the core peer may still be relayed as often as *)
(* the frame the node received.                                            *)
UplinkTtl ==
    \A p \in net :
        p.dst = Bcast /\ ~IsKeep(p) /\ p.to = Core[p.from] => p.hops + p.ttl = SendTtl

(* A node's socket hands over every datagram that has arrived: of the      *)
(* copies of a frame on their way to a node, one is read in time.          *)
ReadFrame(n, f) == \E p \in net : p.to = n /\ p.fid = f /\ OnPeerInput(p)

Fairness == \A n \in Nodes, f \in 1..MaxFrames : WF_vars(ReadFrame(n, f))

FairSpec == Spec /\ Fairness

(* Whatever the cores form, a ring included, a frame dies out.             *)
StormDies ==
    \A f \in 1..MaxFrames : [](f <= Len(frames) => <>[](\A p \in net : p.fid # f))

(* A frame that reaches a node with a route to its destination, and        *)
(* enough ttl, is handed to its destination; a broadcast at the top of the *)
(* network is handed to every node known there behind an address of its    *)
(* own.                                                                    *)
Heading(p, m) ==
    /\ m \notin {p.src, p.to} /\ p.dst \in {m, Bcast}
    /\ p.ttl > 0 /\ macMap[p.to][m].sock = m

RelayDelivers ==
    \A f \in 1..MaxFrames, m \in Nodes :
        (\E p \in net : p.fid = f /\ Heading(p, m)) ~> written[m][f] > 0
=============================================================================

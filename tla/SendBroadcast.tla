--------------------------- MODULE SendBroadcast ---------------------------
(***************************************************************************)
(* One call of VSwitch::sendBroadcast (src/src/VSwitch.cpp), task by task. *)
(* MacMap::forEach posts one task per entry of the table, with the address *)
(* the entry has then, to one poller thread, in the order of an            *)
(* unordered_map; each task decides by compareSockAddr whether its address *)
(* was served already.  Module VSwitch takes the whole call as one step    *)
(* and addresses as equal or not.                                          *)
(***************************************************************************)
EXTENDS SockAddr, FiniteSets

CONSTANTS
    Macs, Bcast,
    Addresses,   \* the addresses entries of the table may have
    Core,        \* the addresses the core peer may have
    Ttl          \* the ttl the frame came with

Keys == Macs \cup {Bcast}

ASSUME KeysAssumption == Bcast \notin Macs /\ IsFiniteSet(Macs)
ASSUME AddressesAssumption == Core \cup Addresses \subseteq V4 \cup V6

VARIABLES
    posted,       \* the tasks not run yet: MAC address and address of an entry
    pktRecvPeer,  \* where the frame came from; nowhere, if from the TAP interface
    sendPeers,    \* the addresses served, as the tasks remember them
    copies        \* history: the tasks that sent a copy, with the copy's ttl

vars == <<posted, pktRecvPeer, sendPeers, copies>>

Task == [mac : Keys, addr : Core \cup Addresses]

(* forEach: some of the MAC addresses are in the table, the broadcast      *)
(* address always is.                                                      *)
Init ==
    /\ \E known \in SUBSET Macs, core \in Core :
         \E sock \in [known -> Addresses] :
            posted = {[mac |-> m, addr |-> sock[m]] : m \in known}
                       \cup {[mac |-> Bcast, addr |-> core]}
    /\ pktRecvPeer \in Addresses \cup {NoFamily}
    /\ sendPeers = {}
    /\ copies = {}

CopyTtl(t) == IF t.mac # Bcast THEN 0 ELSE (Ttl + 255) % 256

NeverServed(t) == FALSE  \* mutant: addresses served are not remembered
Served(t) == \E addr \in sendPeers : compareSockAddr(t.addr, addr)

NeverSource(t) == FALSE  \* mutant: the source is not left out
FromSource(t) == compareSockAddr(pktRecvPeer, t.addr)

RunTask(t) ==
    /\ posted' = posted \ {t}
    /\ IF Served(t) \/ FromSource(t)
       THEN UNCHANGED <<sendPeers, copies>>
       ELSE /\ sendPeers' = sendPeers \cup {t.addr}
            /\ copies' = copies \cup {[task |-> t, ttl |-> CopyTtl(t)]}
    /\ UNCHANGED pktRecvPeer

Next == \E t \in posted : RunTask(t)

Spec == Init /\ [][Next]_vars

(* "Remove duplicates": no endpoint is sent two copies, in whichever of    *)
(* its two forms an entry holds it...                                      *)
OneCopyEach ==
    \A x, y \in copies : SameEndpoint(x.task.addr, y.task.addr) => x = y

(* ...and "ignore the address the packet came from": that endpoint is sent *)
(* none, in either form.                                                   *)
NoEcho == \A x \in copies : ~SameEndpoint(x.task.addr, pktRecvPeer)

(* No IPv6 address of the call begins with the bytes of an IPv4 one.       *)
Distinguished ==
    \A addr1, addr2 \in Core \cup Addresses : ~Confused(addr1, addr2)

(* "Forward the broadcast to all known nodes except the sender" (VSwitch.h)*)
(* : a task sends nothing only if its endpoint was sent a copy or is the   *)
(* sender's.                                                               *)
NoneLeftOut ==
    [][\A t \in posted \ posted' :
          \/ SameEndpoint(t.addr, pktRecvPeer)
          \/ \E x \in copies' : SameEndpoint(x.task.addr, t.addr)]_vars
=============================================================================

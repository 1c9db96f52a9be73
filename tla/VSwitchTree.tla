---------------------------- MODULE VSwitchTree ----------------------------
(***************************************************************************)
(* The networks the program is meant to build: every node but one has a    *)
(* core peer and the cores form no ring, so that the nodes are a tree, and *)
(* nodes learn of each other from relayed frames only (p2p 0).  Hop[n][m]  *)
(* is the neighbour of n on the way to m.                                  *)
(***************************************************************************)
EXTENDS VSwitch

CONSTANT Hop

Adjacent(n, h) == Core[n] = h \/ Core[h] = n

(* The way from h to s goes through its neighbour n exactly if s is n, or  *)
(* the way from n to s does not lead back to h.                            *)
ASSUME HopAssumption ==
    /\ Hop \in [Nodes -> [Nodes -> Nodes]]
    /\ \A n, m \in Nodes : n # m => Adjacent(n, Hop[n][m])
    /\ \A n, h, s \in Nodes :
          Adjacent(n, h) /\ s # h => (Hop[h][s] = n <=> s = n \/ Hop[n][s] # h)

(* Every MAC address a node has learned is behind the neighbour that is on *)
(* the way to its owner, whatever was lost, duplicated, reordered or       *)
(* forgotten, and whoever restarted: a relayed frame is never sent back    *)
(* toward a node it passed.                                                *)
RouteSound ==
    \A n \in Nodes, m \in Macs :
        Known(macMap[n][m]) => m \in Nodes \ {n} /\ macMap[n][m].sock = Hop[n][m]

(* A datagram moves between neighbours, away from the source of its frame; *)
(* past that source, a frame for one node moves toward it.  Only a frame   *)
(* for one node ever returns to its source (its core peer sends it back).  *)
OnPath(p) ==
    /\ Adjacent(p.from, p.to)
    /\ p.src # p.to => Hop[p.to][p.src] = p.from
    /\ p.src = p.to => p.dst # Bcast
    /\ ~IsKeep(p) /\ p.dst \in Nodes /\ p.from # p.src =>
          p.dst # p.from /\ Hop[p.from][p.dst] = p.to

PathSound == \A p \in net : OnPath(p)

-----------------------------------------------------------------------------
(* The network is a LAN to the hosts: no frame is handed to a node it is   *)
(* not addressed to, and none twice to the same node (if the network below *)
(* duplicates no datagram).                                                *)
LAN == INSTANCE Lan
LanSpec == LAN!Spec

(* Why: a broadcast spreads over the tree from its source.  A copy is on   *)
(* its way only to a node that was not handed the frame, from one that was *)
(* (or sent it), and no two copies are on their way to the same node; of a *)
(* frame for one node there is one copy at a time.                         *)
CopySound(p) ==
    /\ p.fid \in 1..Len(frames)
    /\ frames[p.fid] = [src |-> p.src, dst |-> p.dst]
    /\ p.dst = Bcast => /\ written[p.to][p.fid] = 0
                        /\ p.from # p.src => written[p.from][p.fid] # 0
    /\ p.dst \in Nodes => written[p.dst][p.fid] = 0
    /\ \A q \in net : q.fid = p.fid /\ (p.dst # Bcast \/ q.to = p.to) => q = p

WriteSound(n, f) ==
    /\ f \in 1..Len(frames)
    /\ frames[f].src # n /\ frames[f].dst \in {n, Bcast}
    /\ LET up == Hop[n][frames[f].src]
       IN frames[f].dst = Bcast /\ up # frames[f].src => written[up][f] # 0

CopiesSound ==
    /\ \A p \in net : ~IsKeep(p) => CopySound(p)
    /\ \A n \in Nodes, f \in 1..MaxFrames : written[n][f] # 0 => WriteSound(n, f)
=============================================================================

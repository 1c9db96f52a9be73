------------------------- MODULE VSwitchTreeProofs -------------------------
(***************************************************************************)
(* Theorems of module VSwitchTree, for every tree of nodes: routes and     *)
(* paths under every fault, then copies and the LAN; and of module VSCtrl, *)
(* which adds direct paths to the tree.                                    *)
(***************************************************************************)
EXTENDS VSCtrl, VSwitchProofs, FiniteSetTheorems, WellFoundedInduction

USE DEF HopAssumption

(* What the assumption on Hop says of two neighbours. *)
LEMMA Neighbours ==
    ASSUME NEW n \in Nodes, NEW h \in Nodes, Adjacent(n, h)
    PROVE  /\ n # h /\ Adjacent(h, n) /\ Hop[h][n] = n
           /\ \A s \in Nodes \ {h} : Hop[h][s] = n <=> (s = n \/ Hop[n][s] # h)
<1>1. n # h /\ Adjacent(h, n)
  BY CoreAssumption DEF Adjacent
<1>2. \A s \in Nodes \ {h} : Hop[h][s] = n <=> (s = n \/ Hop[n][s] # h)
  BY HopAssumption
<1> QED
  BY <1>1, <1>2

(* The address a node sends to, the core peer's or a learned one, is that  *)
(* of a neighbour.                                                         *)
LEMMA TargetAdjacent ==
    ASSUME RouteSound, NEW n \in Nodes, NEW h \in Nodes,
           h = Core[n] \/ \E m \in Macs : Known(macMap[n][m]) /\ macMap[n][m].sock = h
    PROVE  Adjacent(n, h)
<1>1. CASE h = Core[n]
  BY <1>1 DEF Adjacent
<1>2. ASSUME NEW m \in Macs, Known(macMap[n][m]), macMap[n][m].sock = h
      PROVE  Adjacent(n, h)
  <2>1. m \in Nodes /\ m # n /\ h = Hop[n][m]
    BY <1>2 DEF RouteSound
  <2> QED
    BY <2>1, HopAssumption
<1> QED
  BY <1>1, <1>2

(* What onPeerInput learns of the source of a datagram is sound. *)
LEMMA LearnedSound ==
    ASSUME TypeOK, RouteSound, PathSound, NEW p \in net,
           NEW m \in Macs, Known(TableAfter(p)[m])
    PROVE  m \in Nodes \ {p.to} /\ TableAfter(p)[m].sock = Hop[p.to][m]
<1>1. p \in Packet /\ OnPath(p)
  BY DEF TypeOK, PathSound
<1>2. macMap[p.to] \in Table /\ p.src \in Keys /\ m \in Keys /\ p.to \in Nodes /\ p.src \in Nodes
  BY <1>1 DEF TypeOK, Packet, Table, Keys, Macs
<1>3. CASE TableAfter(p)[m] = macMap[p.to][m]
  BY <1>2, <1>3 DEF RouteSound
<1>4. CASE TableAfter(p)[m] # macMap[p.to][m]
  <2>1. p.src # p.to /\ m = p.src /\ TableAfter(p)[m].sock = p.from
    BY <1>2, <1>4 DEF TableAfter, Table, Learned
  <2> QED
    BY <1>1, <1>2, <2>1 DEF OnPath
<1> QED
  BY <1>3, <1>4

(* A datagram that leaves the source of its frame for a neighbour is on    *)
(* its path.                                                               *)
LEMMA FirstStepOnPath ==
    ASSUME NEW q \in Packet, q.from = q.src, Adjacent(q.from, q.to)
    PROVE  OnPath(q)
<1>1. q.from \in Nodes /\ q.to \in Nodes
  BY DEF Packet
<1>2. q.src # q.to /\ Hop[q.to][q.src] = q.from
  BY <1>1, Neighbours
<1> QED
  BY <1>2 DEF OnPath

(* A relayed datagram stays on the path of its frame. *)
LEMMA RelayOnPath ==
    ASSUME TypeOK, RouteSound, PathSound,
           NEW p \in net, OnPeerInput(p), NEW q \in net', q \notin net
    PROVE  OnPath(q)
<1> DEFINE n == p.to
           s == p.src
           h == q.to
<1>1. p \in Packet /\ OnPath(p)
  BY DEF TypeOK, PathSound
<1>2. /\ q \in Packet /\ ~Stops(p)
      /\ q.fid = p.fid /\ q.src = s /\ q.dst = p.dst /\ q.from = n
      /\ \/ /\ p.dst # Bcast /\ Known(TableAfter(p)[p.dst])
            /\ h = TableAfter(p)[p.dst].sock
         \/ /\ p.dst = Bcast /\ h # p.from
            /\ h = Core[n] \/ \E m \in Macs :
                 Known(TableAfter(p)[m]) /\ TableAfter(p)[m].sock = h
  BY InputSends
<1>3. n \in Nodes /\ s \in Nodes /\ h \in Nodes /\ p.from \in Nodes /\ p.dst \in Keys
  BY <1>1, <1>2 DEF Packet
<1>4. Adjacent(p.from, n) /\ p.from # n /\ Adjacent(n, p.from)
  BY <1>1, <1>3, Neighbours DEF OnPath
<1>5. CASE p.dst # Bcast
  <2>1. p.dst \in Nodes \ {n} /\ h = Hop[n][p.dst]
    BY <1>2, <1>3, <1>5, LearnedSound DEF Keys
  <2>2. Adjacent(n, h)
    BY <1>3, <2>1, HopAssumption
  <2>3. s # h => Hop[h][s] = n
    <3>1. SUFFICES ASSUME s # h, s # n PROVE Hop[n][s] # h
      BY <1>3, <2>2, Neighbours
    <3>2. Hop[n][s] = p.from
      BY <1>1, <3>1 DEF OnPath
    <3>3. SUFFICES ASSUME h = p.from PROVE FALSE
      BY <3>2
    <3>4. p.dst # p.from /\ Hop[p.from][p.dst] = n
      BY <1>1, <1>2, <2>1, <3>1, <3>3 DEF OnPath, Stops
    <3>5. Hop[n][p.dst] = p.from <=> (p.dst = p.from \/ Hop[p.from][p.dst] # n)
      BY <1>3, <1>4, <2>1, Neighbours
    <3> QED
      BY <2>1, <3>3, <3>4, <3>5
  <2> QED
    BY <1>2, <1>5, <2>1, <2>2, <2>3 DEF OnPath
<1>6. CASE p.dst = Bcast
  <2>1. s # n /\ Hop[n][s] = p.from /\ h # p.from
    BY <1>1, <1>2, <1>6 DEF OnPath
  <2>2. Adjacent(n, h)
    <3>1. CASE h = Core[n]
      BY <3>1 DEF Adjacent
    <3>2. ASSUME NEW m \in Macs, Known(TableAfter(p)[m]), TableAfter(p)[m].sock = h
          PROVE  Adjacent(n, h)
      BY <1>3, <3>2, LearnedSound, HopAssumption
    <3> QED
      BY <1>2, <1>6, <3>1, <3>2
  <2>3. s # h
    <3>1. Adjacent(h, n)
      BY <1>3, <2>2, Neighbours
    <3>2. Hop[n][h] = h
      BY <1>3, <3>1, Neighbours
    <3> QED
      BY <2>1, <3>2
  <2>4. Hop[h][s] = n
    BY <1>3, <2>1, <2>2, <2>3, Neighbours
  <2> QED
    BY <1>2, <1>3, <1>6, <2>2, <2>3, <2>4, NodesAssumption DEF OnPath, Macs
<1> QED
  BY <1>5, <1>6

(* On every tree, whatever is lost, duplicated, reordered or forgotten and *)
(* whoever restarts, every learned route points along the tree to the      *)
(* owner of the MAC address, and every datagram is on the tree path of its *)
(* frame.                                                                  *)
THEOREM RoutesFollowTree == Spec => [](RouteSound /\ PathSound)
<1>1. Init => RouteSound /\ PathSound
  <2> SUFFICES ASSUME Init PROVE RouteSound
    BY DEF Init, PathSound
  <2>1. \A n \in Nodes, m \in Macs : macMap[n][m] = NoPeer
    BY NodesAssumption DEF Init, FreshTable, Keys
  <2> QED
    BY <2>1 DEF RouteSound, Known, NoPeer
<1>2. TypeOK /\ RouteSound /\ PathSound /\ [Next]_vars => RouteSound' /\ PathSound'
  <2> SUFFICES ASSUME TypeOK, RouteSound, PathSound, [Next]_vars
               PROVE  RouteSound' /\ PathSound'
    OBVIOUS
  <2>1. ASSUME NEW n \in Nodes, NEW dst \in Keys \ {n}, PollInterface(n, dst)
        PROVE  RouteSound' /\ PathSound'
    <3>1. RouteSound'
      BY <2>1 DEF PollInterface, RouteSound
    <3>2. ASSUME NEW q \in net', q \notin net PROVE OnPath(q)
      <4>1. /\ q \in Packet /\ q.src = n /\ q.from = n
            /\ q.to = Core[n] \/ \E m \in Macs : Known(macMap[n][m]) /\ macMap[n][m].sock = q.to
        BY <2>1, <3>2, PollSends
      <4> QED
        BY <4>1, TargetAdjacent, FirstStepOnPath DEF Packet
    <3> QED
      BY <3>1, <3>2 DEF PathSound, OnPath
  <2>2. ASSUME NEW p \in net, OnPeerInput(p)
        PROVE  RouteSound' /\ PathSound'
    <3>1. p.to \in Nodes
      BY DEF TypeOK, Packet
    <3>2. \A n \in Nodes : macMap'[n] = IF n = p.to THEN TableAfter(p) ELSE macMap[n]
      BY <2>2, <3>1 DEF OnPeerInput, TypeOK
    <3>3. RouteSound'
      BY <3>1, <3>2, LearnedSound DEF RouteSound
    <3>4. ASSUME NEW q \in net', q \notin net PROVE OnPath(q)
      BY <2>2, <3>4, RelayOnPath
    <3> QED
      BY <3>3, <3>4 DEF PathSound, OnPath
  <2>3. ASSUME NEW n \in Nodes, KeepAlive(n)
        PROVE  RouteSound' /\ PathSound'
    <3>1. RouteSound'
      BY <2>3 DEF KeepAlive, RouteSound
    <3>2. ASSUME NEW q \in net', q \notin net PROVE OnPath(q)
      <4>1. /\ q \in Packet /\ q.src = n /\ q.from = n
            /\ q.to = Core[n] \/ \E m \in Macs : Known(macMap[n][m]) /\ macMap[n][m].sock = q.to
        BY <2>3, <3>2, KeepAliveSends
      <4> QED
        BY <4>1, TargetAdjacent, FirstStepOnPath DEF Packet
    <3> QED
      BY <3>1, <3>2 DEF PathSound, OnPath
  <2>4. ASSUME NEW n \in Nodes, NEW m \in Macs, RemovePeer(n, m)
        PROVE  RouteSound' /\ PathSound'
    <3>1. \A k \in Nodes, x \in Macs : Known(macMap'[k][x]) => macMap'[k][x] = macMap[k][x]
      BY <2>4 DEF RemovePeer, TypeOK, Known, NoPeer, Keys
    <3> QED
      BY <2>4, <3>1 DEF RemovePeer, RouteSound, PathSound, OnPath
  <2>5. ASSUME NEW n \in Nodes, Restart(n)
        PROVE  RouteSound' /\ PathSound'
    <3>1. \A m \in Macs : ~Known(FreshTable(n)[m])
      BY NodesAssumption DEF FreshTable, Keys, Known, NoPeer
    <3>2. \A k \in Nodes, x \in Macs : Known(macMap'[k][x]) => macMap'[k][x] = macMap[k][x]
      BY <2>5, <3>1 DEF Restart, TypeOK
    <3> QED
      BY <2>5, <3>2 DEF Restart, RouteSound, PathSound, OnPath
  <2>6. ASSUME NEW p \in net, Lose(p)
        PROVE  RouteSound' /\ PathSound'
    BY <2>6 DEF Lose, RouteSound, PathSound, OnPath
  <2>7. CASE UNCHANGED vars
    BY <2>7 DEF vars, RouteSound, PathSound, OnPath
  <2> QED
    BY <2>1, <2>2, <2>3, <2>4, <2>5, <2>6, <2>7 DEF Next
<1> QED
  BY <1>1, <1>2, TypeCorrect, PTL DEF Spec

(* In particular every datagram is on its path.                            *)
THEOREM PathsFollowTree == Spec => []PathSound
  BY RoutesFollowTree, PTL

-----------------------------------------------------------------------------
(* The nodes that a node n has behind it when it looks toward m, itself    *)
(* included: they grow with every hop toward m.                            *)
Behind(n, m) == {n} \cup {s \in Nodes : Hop[n][s] # Hop[n][m]}

LEMMA BehindGrows ==
    ASSUME NEW m \in Nodes, NEW n \in Nodes \ {m}, Hop[n][m] # m
    PROVE  LET h == Hop[n][m]
           IN  h \in Nodes /\ h \notin Behind(n, m) /\ Behind(n, m) \cup {h} \subseteq Behind(h, m)
<1> DEFINE h == Hop[n][m]
<1>1. h \in Nodes /\ Adjacent(n, h)
  BY HopAssumption
<1>2. /\ n # h /\ Hop[n][h] = h
      /\ \A s \in Nodes \ {h} : Hop[h][s] = n <=> (s = n \/ Hop[n][s] # h)
  BY <1>1, Neighbours
<1>3. h \notin Behind(n, m)
  BY <1>2 DEF Behind
<1>4. Hop[h][m] # n
  BY <1>2
<1>5. ASSUME NEW s \in Behind(n, m), s # h PROVE s \in Behind(h, m)
  <2>1. s \in Nodes /\ (s = n \/ Hop[n][s] # h)
    BY <1>5 DEF Behind
  <2>2. Hop[h][s] = n
    BY <1>2, <1>5, <2>1
  <2> QED
    BY <1>4, <2>1, <2>2 DEF Behind
<1> QED
  BY <1>1, <1>3, <1>5 DEF Behind

(* How many nodes are left in front of n on the way to m.                  *)
Ahead(n, m) == Cardinality(Nodes) - Cardinality(Behind(n, m))

LEMMA AheadShrinks ==
    ASSUME IsFiniteSet(Nodes), NEW m \in Nodes, NEW n \in Nodes \ {m}
    PROVE  /\ Ahead(n, m) \in Nat
           /\ Hop[n][m] # m => Ahead(Hop[n][m], m) < Ahead(n, m)
<1>1. ASSUME NEW k \in Nodes
      PROVE  /\ IsFiniteSet(Behind(k, m)) /\ Cardinality(Behind(k, m)) \in Nat
             /\ Cardinality(Behind(k, m)) <= Cardinality(Nodes) /\ Cardinality(Nodes) \in Nat
  <2>1. Behind(k, m) \in SUBSET Nodes
    BY DEF Behind
  <2> QED
    BY <2>1, FS_Subset, FS_CardinalityType
<1>2. Ahead(n, m) \in Nat
  BY <1>1 DEF Ahead
<1>3. ASSUME Hop[n][m] # m PROVE Ahead(Hop[n][m], m) < Ahead(n, m)
  <2> DEFINE h == Hop[n][m]
             B == Behind(n, m)
             C == Behind(h, m)
  <2>1. h \in Nodes /\ h \notin B /\ B \cup {h} \subseteq C
    BY <1>3, BehindGrows
  <2>2. /\ IsFiniteSet(B) /\ IsFiniteSet(C) /\ Cardinality(B) \in Nat /\ Cardinality(C) \in Nat
        /\ Cardinality(Nodes) \in Nat
    BY <1>1, <2>1
  <2> HIDE DEF h, B, C
  <2>3. Cardinality(B \cup {h}) = Cardinality(B) + 1
    BY <2>1, <2>2, FS_AddElement
  <2>4. Cardinality(B \cup {h}) <= Cardinality(C)
    BY <2>1, <2>2, FS_Subset
  <2> QED
    BY <2>2, <2>3, <2>4 DEF Ahead, h, B, C
<1> QED
  BY <1>2, <1>3

(* Without direct paths, and whatever happens to datagrams and nodes, no   *)
(* nodes of a finite tree pass the frames for a MAC address round among    *)
(* themselves: the one of them that has fewest nodes ahead would pass them *)
(* to one that has fewer.                                                  *)
THEOREM TreeLoopFree ==
    ASSUME IsFiniteSet(Nodes)
    PROVE  Spec => []LoopFree
<1>1. TypeOK /\ RouteSound => LoopFree
  <2> SUFFICES ASSUME TypeOK, RouteSound, NEW m \in Nodes,
                      NEW S \in SUBSET (Nodes \ {m}), S # {},
                      \A n \in S : macMap[n][m].sock \in S
               PROVE  FALSE
    BY DEF LoopFree
  <2>1. \A n \in S : Hop[n][m] \in S
    <3>1. Unset \notin S /\ m \in Macs
      BY NodesAssumption DEF Addrs, Macs
    <3> QED
      BY <3>1 DEF RouteSound, Known
  <2> DEFINE R == OpToRel(<, Nat)
             D == {Ahead(n, m) : n \in S}
  <2>2. D \subseteq Nat /\ D # {}
    BY AheadShrinks
  <2>3. IsWellFoundedOn(R, Nat)
    BY NatLessThanWellFounded
  <2>4. \A x, y \in Nat : y < x => <<y, x>> \in R
    BY DEF OpToRel
  <2> HIDE DEF R, D
  <2>5. PICK d \in D : \A e \in D : ~(<<e, d>> \in R)
    BY <2>2, <2>3, WFMin
  <2>6. PICK n \in S : d = Ahead(n, m)
    BY <2>5 DEF D
  <2>7. Ahead(Hop[n][m], m) \in D /\ Ahead(Hop[n][m], m) < d
    BY <2>1, <2>6, AheadShrinks DEF D
  <2> QED
    BY <2>2, <2>4, <2>5, <2>7
<1> QED
  BY <1>1, TypeCorrect, RoutesFollowTree, PTL

-----------------------------------------------------------------------------
(***************************************************************************)
(* On every tree, if the network below duplicates no datagram, the switch  *)
(* implements the LAN of module Lan.                                       *)
(***************************************************************************)

(* What one step does to the soundness of the copies and of the writes.    *)
(* Of the routes it only matters that broadcasts keep to the tree.         *)
BroadcastsOnPath == \A p \in net : ~IsKeep(p) /\ p.dst = Bcast => OnPath(p)

Inv == TypeOK /\ BroadcastsOnPath /\ CopiesSound

(* What is written was addressed to the node and is its first copy. *)
LEMMA InputDelivers ==
    ASSUME Inv, NEW p \in net, OnPeerInput(p), Writes(p)
    PROVE  /\ written[p.to][p.fid] = 0
           /\ written' = [written EXCEPT ![p.to][p.fid] = 1]
           /\ p.fid \in 1..Len(frames) /\ LAN!Addressed(p.fid, p.to)
<1>1. p \in Packet /\ CopySound(p) /\ ~IsKeep(p)
  BY DEF Inv, TypeOK, CopiesSound, Writes
<1>2. written[p.to][p.fid] = 0
  BY <1>1 DEF CopySound, Writes, Packet
<1>3. p.fid \in 1..MaxFrames /\ p.to \in Nodes
  BY <1>1 DEF Packet, IsKeep
<1>4. written' = [written EXCEPT ![p.to][p.fid] = 1]
  BY <1>2, <1>3 DEF OnPeerInput, Count, Inv, TypeOK
<1>5. LAN!Addressed(p.fid, p.to)
  BY <1>1 DEF CopySound, Writes, LAN!Addressed
<1> QED
  BY <1>1, <1>2, <1>4, <1>5 DEF CopySound

(* A new frame has no copies yet, so that those of pollInterface are sound. *)
LEMMA PollKeepsCopies ==
    ASSUME Inv, NEW n \in Nodes, NEW dst \in Keys \ {n}, PollInterface(n, dst)
    PROVE  CopiesSound'
<1> DEFINE f == Len(frames) + 1
<1>1. frames \in Seq([src : Nodes, dst : Keys]) /\ Len(frames) \in Nat /\ f <= MaxFrames
  BY BoundsAssumption DEF Inv, TypeOK, PollInterface
<1>2. /\ Len(frames') = f
      /\ \A i \in 1..Len(frames) : frames'[i] = frames[i]
      /\ frames'[f] = [src |-> n, dst |-> dst]
      /\ written' = written
  BY <1>1 DEF PollInterface
<1>3. \A k \in Nodes : written[k][f] = 0
  BY <1>1 DEF Inv, CopiesSound, WriteSound
<1>4. ASSUME NEW q \in net', ~IsKeep(q), q \in net
      PROVE  CopySound(q)'
  <2>1. CopySound(q) /\ q.fid \in 1..Len(frames)
    BY <1>4 DEF Inv, CopiesSound, CopySound
  <2>2. ASSUME NEW r \in net', r.fid = q.fid PROVE r \in net
    BY <1>1, <2>1, <2>2, <2>2, PollSends DEF Inv
  <2> QED
    BY <1>1, <1>2, <2>1, <2>2 DEF CopySound
<1>5. ASSUME NEW q \in net', q \notin net
      PROVE  CopySound(q)'
  <2>1. q \in Packet /\ q.fid = f /\ q.src = n /\ q.dst = dst /\ q.from = n
    BY <1>5, PollSends DEF Inv
  <2>2. q.to \in Nodes
    BY <2>1 DEF Packet
  <2>3. ASSUME NEW r \in net', r.fid = f PROVE r \notin net
    <3> SUFFICES ASSUME r \in net PROVE FALSE
      OBVIOUS
    <3>1. ~IsKeep(r)
      BY <1>1, <2>3 DEF IsKeep
    <3>2. r.fid \in 1..Len(frames)
      BY <3>1 DEF Inv, CopiesSound, CopySound
    <3> QED
      BY <1>1, <2>3, <3>2
  <2>4. ASSUME NEW r \in net', r.fid = f, dst # Bcast \/ r.to = q.to PROVE r = q
    BY <1>5, <2>3, <2>4, PollSendsOnce DEF Inv
  <2> QED
    BY <1>1, <1>2, <1>3, <2>1, <2>2, <2>4 DEF CopySound
<1>6. ASSUME NEW k \in Nodes, NEW g \in 1..MaxFrames, written'[k][g] # 0
      PROVE  WriteSound(k, g)'
  <2>1. WriteSound(k, g) /\ g \in 1..Len(frames)
    BY <1>2, <1>6 DEF Inv, CopiesSound, WriteSound
  <2> QED
    BY <1>1, <1>2, <2>1 DEF WriteSound
<1> QED
  BY <1>4, <1>5, <1>6 DEF CopiesSound, IsKeep

(* Copies relayed move on to nodes further from the source. *)
LEMMA InputKeepsCopies ==
    ASSUME Inv, BroadcastsOnPath', "dup" \notin Faults, NEW p \in net, OnPeerInput(p)
    PROVE  CopiesSound'
<1> DEFINE n == p.to
           s == p.src
           f == p.fid
<1>1. /\ p \in Packet /\ n \in Nodes /\ s \in Nodes /\ frames' = frames
      /\ ~IsKeep(p) /\ p.dst = Bcast => OnPath(p)
  BY DEF Inv, TypeOK, Packet, BroadcastsOnPath, OnPeerInput
<1>2. ~IsKeep(p) => CopySound(p) /\ f \in 1..MaxFrames
  BY <1>1 DEF Inv, CopiesSound, Packet, IsKeep
<1>3. \A k \in Nodes, g \in 1..MaxFrames :
         written'[k][g] = IF Writes(p) /\ k = n /\ g = f THEN 1 ELSE written[k][g]
  <2>1. CASE Writes(p)
    <3>1. written' = [written EXCEPT ![n][f] = 1]
      BY <2>1, InputDelivers
    <3>2. written \in [Nodes -> [1..MaxFrames -> 0..2]] /\ f \in 1..MaxFrames
      BY <1>2, <2>1 DEF Inv, TypeOK, Writes
    <3> QED
      BY <1>1, <2>1, <3>1, <3>2
  <2>2. CASE ~Writes(p)
    BY <2>2 DEF OnPeerInput
  <2> QED
    BY <2>1, <2>2
<1>4. \A q \in net' : q # p
  BY InputTakes DEF Inv
<1>5. ASSUME NEW q \in net', q \notin net
      PROVE  /\ q \in Packet /\ ~Stops(p) /\ ~IsKeep(p)
             /\ q.dst = Bcast => OnPath(q)
             /\ q.fid = f /\ q.src = s /\ q.dst = p.dst /\ q.from = n
  <2>1. /\ q \in Packet /\ ~Stops(p) /\ ~IsKeep(p)
        /\ q.fid = f /\ q.src = s /\ q.dst = p.dst /\ q.from = n
    BY <1>5, InputSends DEF Inv, Stops
  <2>2. q.dst = Bcast => OnPath(q)
    BY <1>5, <2>1 DEF BroadcastsOnPath, OnPath, IsKeep
  <2> QED
    BY <2>1, <2>2
<1>6. ASSUME NEW q \in net', ~IsKeep(q), q \in net
      PROVE  CopySound(q)'
  <2>1. CopySound(q) /\ q \in Packet /\ q.fid \in 1..MaxFrames
    BY <1>6 DEF Inv, CopiesSound, TypeOK, Packet, IsKeep
  <2>2. ASSUME q.fid = f PROVE q.src = s /\ q.dst = p.dst /\ ~IsKeep(p) /\ CopySound(p)
    BY <1>2, <1>6, <2>1, <2>2 DEF CopySound, IsKeep
  <2>3. q.fid = f => p.dst = Bcast /\ q.to # n
    BY <1>4, <1>6, <2>2 DEF CopySound
  <2>4. q.dst = Bcast => /\ written'[q.to][q.fid] = 0
                         /\ q.from # q.src => written'[q.from][q.fid] # 0
    BY <1>3, <2>1, <2>3 DEF CopySound, Packet
  <2>5. q.dst \in Nodes => written'[q.dst][q.fid] = 0
    BY <1>3, <2>1, <2>2, <2>3, NodesAssumption DEF CopySound, Macs
  <2>6. ASSUME NEW r \in net', r.fid = q.fid, q.dst # Bcast \/ r.to = q.to
        PROVE  r = q
    <3>1. CASE r \in net
      BY <2>1, <2>6, <3>1 DEF CopySound
    <3>2. CASE r \notin net
      <4>1. /\ r.fid = f /\ r.src = s /\ r.dst = p.dst /\ r.from = n
            /\ r.dst = Bcast => OnPath(r)
            /\ ~IsKeep(p)
        BY <1>5, <3>2
      <4>2. p.dst = Bcast /\ q.src = s /\ q.dst = Bcast /\ r.to = q.to /\ CopySound(p)
        BY <2>2, <2>3, <2>6, <4>1
      <4>3. s # n /\ s # q.to /\ Hop[q.to][s] = n
        BY <1>1, <4>1, <4>2 DEF OnPath
      <4>4. q.from = n
        BY <1>6, <4>2, <4>3 DEF Inv, BroadcastsOnPath, OnPath
      <4>5. written[n][f] # 0
        BY <2>1, <2>6, <4>1, <4>2, <4>3, <4>4 DEF CopySound
      <4> QED
        BY <4>2, <4>5 DEF CopySound
    <3> QED
      BY <3>1, <3>2
  <2>7. /\ q.fid \in 1..Len(frames')
        /\ frames'[q.fid] = [src |-> q.src, dst |-> q.dst]
    BY <1>1, <2>1 DEF CopySound
  <2> QED
    BY <2>4, <2>5, <2>6, <2>7 DEF CopySound
<1>7. ASSUME NEW q \in net', q \notin net
      PROVE  CopySound(q)'
  <2>1. /\ q \in Packet /\ ~Stops(p) /\ ~IsKeep(p)
        /\ q.dst = Bcast => OnPath(q)
        /\ q.fid = f /\ q.src = s /\ q.dst = p.dst /\ q.from = n
    BY <1>5, <1>7
  <2>2. CopySound(p) /\ f \in 1..MaxFrames /\ q.to \in Nodes
    BY <1>2, <2>1 DEF Packet
  <2>3. q.dst = Bcast => /\ written'[q.to][f] = 0
                         /\ written'[n][f] # 0
    <3> SUFFICES ASSUME q.dst = Bcast
                 PROVE  written'[q.to][f] = 0 /\ written'[n][f] # 0
      OBVIOUS
    <3>1. s # n /\ Writes(p)
      BY <1>1, <2>1 DEF OnPath, Writes
    <3>2. s # q.to /\ Hop[q.to][s] = n /\ n # q.to
      BY <1>1, <2>1, <2>2, Neighbours DEF OnPath
    <3>3. written[n][f] = 0 /\ frames[f] = [src |-> s, dst |-> Bcast]
      BY <2>1, <2>2 DEF CopySound
    <3>4. written[q.to][f] = 0
      BY <2>2, <3>1, <3>2, <3>3 DEF Inv, CopiesSound, WriteSound
    <3> QED
      BY <1>1, <1>3, <2>2, <3>1, <3>2, <3>4
  <2>4. q.dst \in Nodes => written'[q.dst][f] = 0
    BY <1>3, <2>1, <2>2 DEF CopySound, Stops
  <2>5. ASSUME NEW r \in net', r.fid = f, q.dst # Bcast \/ r.to = q.to
        PROVE  r = q
    <3>1. CASE r \notin net
      BY <1>7, <2>1, <2>5, <3>1, InputSendsOnce DEF Inv
    <3>2. CASE r \in net
      <4>1. ~IsKeep(r)
        BY <2>1, <2>5 DEF IsKeep
      <4>2. CopySound(r)'
        BY <1>6, <3>2, <4>1
      <4>3. r.dst = q.dst
        BY <1>1, <2>1, <2>2, <2>5, <4>2 DEF CopySound
      <4> QED
        BY <2>1, <2>5, <4>2, <4>3 DEF CopySound
    <3> QED
      BY <3>1, <3>2
  <2> QED
    BY <1>1, <2>1, <2>2, <2>3, <2>4, <2>5 DEF CopySound
<1>8. ASSUME NEW k \in Nodes, NEW g \in 1..MaxFrames, written'[k][g] # 0
      PROVE  WriteSound(k, g)'
  <2>1. \A j \in Nodes : written[j][g] # 0 => written'[j][g] # 0
    BY <1>3
  <2>2. CASE written[k][g] # 0
    <3>1. WriteSound(k, g)
      BY <2>2 DEF Inv, CopiesSound
    <3>2. frames[g] \in [src : Nodes, dst : Keys]
      BY <3>1, ElementOfSeq DEF WriteSound, Inv, TypeOK
    <3>3. Hop[k][frames[g].src] \in Nodes
      BY <3>2, HopAssumption
    <3> QED
      BY <1>1, <2>1, <3>1, <3>3 DEF WriteSound
  <2>3. CASE written[k][g] = 0
    <3>1. Writes(p) /\ k = n /\ g = f
      BY <1>3, <1>8, <2>3
    <3>2. /\ CopySound(p) /\ s # n /\ p.dst \in {n, Bcast}
          /\ p.dst = Bcast => Hop[n][s] = p.from
      BY <1>1, <1>2, <3>1 DEF Writes, OnPath
    <3>3. f \in 1..Len(frames) /\ frames[f] = [src |-> s, dst |-> p.dst]
      BY <3>2 DEF CopySound
    <3>4. p.dst = Bcast /\ p.from # s => written[p.from][f] # 0
      BY <3>2 DEF CopySound
    <3>5. p.from \in Nodes
      BY <1>1 DEF Packet
    <3> QED
      BY <1>1, <2>1, <3>1, <3>2, <3>3, <3>4, <3>5 DEF WriteSound
  <2> QED
    BY <2>2, <2>3
<1> QED
  BY <1>6, <1>7, <1>8 DEF CopiesSound, IsKeep

(* Steps that touch neither the frames nor the writes, and send nothing    *)
(* but keepalives, which are no copies of a frame.                         *)
LEMMA QuietStepKeepsCopies ==
    ASSUME CopiesSound, \A q \in net' : q \in net \/ IsKeep(q),
           frames' = frames, written' = written
    PROVE  CopiesSound'
<1>1. ASSUME NEW q \in net', ~IsKeep(q)
      PROVE  CopySound(q)'
  <2>1. q \in net /\ CopySound(q)
    BY <1>1 DEF CopiesSound
  <2>2. ASSUME NEW r \in net', r.fid = q.fid PROVE r \in net
    BY <1>1, <2>2 DEF IsKeep
  <2> QED
    BY <2>1, <2>2 DEF CopySound
<1>2. ASSUME NEW k \in Nodes, NEW g \in 1..MaxFrames, written'[k][g] # 0
      PROVE  WriteSound(k, g)'
  BY <1>2 DEF CopiesSound, WriteSound
<1> QED
  BY <1>1, <1>2 DEF CopiesSound, IsKeep

(* Every step of the switch keeps the copies sound.                        *)
LEMMA StepKeepsCopies ==
    ASSUME Inv, BroadcastsOnPath', "dup" \notin Faults, [Next]_vars
    PROVE  CopiesSound'
<1>1. ASSUME NEW n \in Nodes, NEW dst \in Keys \ {n}, PollInterface(n, dst)
      PROVE  CopiesSound'
  BY <1>1, PollKeepsCopies
<1>2. ASSUME NEW p \in net, OnPeerInput(p)
      PROVE  CopiesSound'
  BY <1>2, InputKeepsCopies
<1>3. ASSUME NEW n \in Nodes, KeepAlive(n)
      PROVE  CopiesSound'
  <2>1. \A q \in net' : q \in net \/ IsKeep(q)
    BY <1>3, KeepAliveSends DEF Inv, IsKeep
  <2> QED
    BY <1>3, <2>1, QuietStepKeepsCopies DEF KeepAlive, Inv
<1>4. ASSUME NEW n \in Nodes, NEW m \in Macs, RemovePeer(n, m)
      PROVE  CopiesSound'
  BY <1>4, QuietStepKeepsCopies DEF RemovePeer, Inv
<1>5. ASSUME NEW n \in Nodes, Restart(n)
      PROVE  CopiesSound'
  BY <1>5, QuietStepKeepsCopies DEF Restart, Inv
<1>6. ASSUME NEW p \in net, Lose(p)
      PROVE  CopiesSound'
  BY <1>6, QuietStepKeepsCopies DEF Lose, Inv
<1>7. CASE UNCHANGED vars
  BY <1>7, QuietStepKeepsCopies DEF vars, Inv
<1> QED
  BY <1>1, <1>2, <1>3, <1>4, <1>5, <1>6, <1>7 DEF Next

(* On every tree whose network duplicates no datagram, copies of a frame   *)
(* never meet: at no time are two on their way to the same node, or one on *)
(* its way to a node that was handed the frame already.                    *)
THEOREM CopiesNeverMeet ==
    ASSUME "dup" \notin Faults
    PROVE  Spec => []CopiesSound
<1>1. Init => CopiesSound
  BY DEF Init, CopiesSound
<1>2. PathSound => BroadcastsOnPath
  BY DEF PathSound, BroadcastsOnPath
<1>3. Inv /\ BroadcastsOnPath' /\ [Next]_vars => CopiesSound'
  BY StepKeepsCopies
<1> QED
  BY <1>1, <1>2, <1>3, TypeCorrect, RoutesFollowTree, PTL DEF Spec, Inv

(* And, as long as they are sound, is a step of the LAN.                   *)
LEMMA StepImplementsLan ==
    ASSUME Inv, [Next]_vars
    PROVE  [LAN!Next]_(LAN!vars)
<1>1. ASSUME NEW n \in Nodes, NEW dst \in Keys \ {n}, PollInterface(n, dst)
      PROVE  LAN!Next
  <2>1. LAN!Send(n, dst)
    BY <1>1 DEF PollInterface, LAN!Send
  <2>2. dst \in (Nodes \cup Ghosts \cup {Bcast}) \ {n}
    BY DEF Keys, Macs
  <2> QED
    BY <2>1, <2>2 DEF LAN!Next
<1>2. ASSUME NEW p \in net, OnPeerInput(p)
      PROVE  [LAN!Next]_(LAN!vars)
  <2>1. CASE Writes(p)
    <3>1. p.to \in Nodes /\ frames' = frames
      BY <1>2 DEF Inv, TypeOK, Packet, OnPeerInput
    <3>2. LAN!Deliver(p.to, p.fid) /\ p.fid \in 1..Len(frames)
      BY <1>2, <2>1, <3>1, InputDelivers DEF LAN!Deliver
    <3> QED
      BY <3>1, <3>2 DEF LAN!Next
  <2>2. CASE ~Writes(p)
    BY <1>2, <2>2 DEF OnPeerInput, LAN!vars
  <2> QED
    BY <2>1, <2>2
<1>3. CASE UNCHANGED <<frames, written>>
  BY <1>3 DEF LAN!vars
<1> QED
  BY <1>1, <1>2, <1>3 DEF Next, KeepAlive, RemovePeer, Restart, Lose, vars

(* The switch implements the LAN: on every tree whose network duplicates   *)
(* no datagram, whatever is lost, reordered or forgotten and whoever       *)
(* restarts, a frame is written only to nodes it is addressed to, never    *)
(* to its sender, and to none of them twice.                               *)
THEOREM ImplementsLan ==
    ASSUME "dup" \notin Faults
    PROVE  Spec => LanSpec
<1>1. Init => LAN!Init
  BY DEF Init, LAN!Init
<1>2. PathSound => BroadcastsOnPath
  BY DEF PathSound, BroadcastsOnPath
<1>3. Inv /\ [Next]_vars => [LAN!Next]_(LAN!vars)
  BY StepImplementsLan
<1> QED
  BY <1>1, <1>2, <1>3, TypeCorrect, RoutesFollowTree, CopiesNeverMeet, PTL
     DEF Spec, Inv, LanSpec, LAN!Spec

-----------------------------------------------------------------------------
(***************************************************************************)
(* The control helper.  With direct paths routes no longer follow the      *)
(* tree, so that the ttl is all that bounds how often a frame is relayed.  *)
(***************************************************************************)

(* A response names peers at addresses that datagrams came from, so that   *)
(* no timer sends to port 0.                                               *)
Reachable ==
    /\ \A c \in cmds : c.cmd = "ReQueryPeers" => c.addr \in Nodes
    /\ \A t \in punching : t.addr \in Nodes

CtrlInv == CtrlTypeOK /\ Reachable

(* What the shape of a command says of its type. *)
LEMMA CmdTyped ==
    ASSUME CtrlTypeOK, NEW c \in cmds
    PROVE  /\ c.from \in Nodes /\ c.to \in Nodes
           /\ c.cmd = "ReQueryPeers" => c \in Response
  BY DEF CtrlTypeOK, Query, Response, Empty

(* What the helper does to the switch: a timer sends a datagram, and an    *)
(* empty response teaches a path.                                          *)
LEMMA PunchTyped ==
    ASSUME CtrlInv, NEW t \in punching
    PROVE  [fid |-> 0, src |-> t.at, dst |-> t.mac, from |-> t.at,
            to |-> t.addr, ttl |-> 0, hops |-> 0] \in Packet
<1>1. t \in Timer /\ t.addr \in Nodes
  BY DEF CtrlInv, CtrlTypeOK, Reachable
<1>2. t.at \in Nodes /\ t.mac \in Keys
  BY <1>1 DEF Timer, Keys
<1>3. 0 \in 0..MaxFrames /\ 0 \in 0..255 /\ 0 \in Nat
  BY BoundsAssumption
<1> QED
  BY <1>1, <1>2, <1>3 DEF Packet

LEMMA AgainTyped ==
    ASSUME NEW t \in Timer, t.addr \in Nodes, NEW u \in Again(t)
    PROVE  u \in Timer /\ u.addr \in Nodes
<1>1. t.retry \in 0..Retry /\ t.retry > 0 /\ u = [t EXCEPT !.retry = @ - 1]
  BY DEF Again, Timer
<1>2. t.retry - 1 \in 0..Retry
  BY <1>1, RetryAssumption
<1> QED
  BY <1>1, <1>2 DEF Timer

LEMMA OnEmptyTyped ==
    ASSUME CtrlInv, NEW c \in cmds, OnEmpty(c)
    PROVE  TypeOK'
<1>1. TypeOK /\ c.from \in Nodes /\ c.to \in Nodes
  BY CmdTyped DEF CtrlInv, CtrlTypeOK
<1>2. CASE UNCHANGED macMap
  BY <1>1, <1>2 DEF OnEmpty, TypeOK
<1>3. ASSUME NEW m \in Macs \ {c.to},
             macMap' = [macMap EXCEPT ![c.to][m] = Learned(@, c.from, SendTtl)]
      PROVE  TypeOK'
  <2> DEFINE e == Learned(macMap[c.to][m], c.from, SendTtl)
  <2>1. m \in Keys /\ m # Bcast
    BY NodesAssumption DEF Keys
  <2>2. macMap[c.to][m] \in Peer /\ macMap[c.to][m].sock \in Nodes \cup {Unset}
    BY <1>1, <2>1 DEF TypeOK, Wired
  <2>3. e \in Peer /\ e.sock \in Nodes \cup {Unset}
    BY <1>1, <2>2, TtlAssumption DEF Learned, Peer, Addrs
  <2> HIDE DEF e
  <2>4. macMap' = [macMap EXCEPT ![c.to] = [macMap[c.to] EXCEPT ![m] = e]]
    BY <1>1, <1>3 DEF e, TypeOK
  <2>5. macMap' \in [Nodes -> [Keys -> Peer]]
    BY <1>1, <2>1, <2>3, <2>4 DEF TypeOK
  <2>6. \A n \in Nodes : Wired(n, macMap'[n])
    BY <1>1, <2>1, <2>3, <2>4 DEF TypeOK, Wired, Keys
  <2> QED
    BY <1>1, <2>5, <2>6 DEF OnEmpty, TypeOK
<1> QED
  BY <1>2, <1>3 DEF OnEmpty

(* Commands and timers keep their types, and name peers that are there.    *)
HelperTyped ==
    /\ cmds \subseteq Query \cup Response \cup Empty
    /\ punching \subseteq Timer
    /\ Reachable

LEMMA CtrlStepTyped == CtrlInv /\ [CtrlNext]_ctrlVars => CtrlInv'
<1> SUFFICES ASSUME CtrlInv, [CtrlNext]_ctrlVars PROVE TypeOK' /\ HelperTyped'
  BY DEF CtrlInv, CtrlTypeOK, HelperTyped
<1>1. TypeOK /\ HelperTyped
  BY DEF CtrlInv, CtrlTypeOK, HelperTyped
<1>2. ASSUME UNCHANGED vars PROVE TypeOK'
  BY <1>1, <1>2 DEF TypeOK, vars
<1>3. CASE Next /\ UNCHANGED <<cmds, punching>>
  BY <1>1, <1>3, StepTyped DEF HelperTyped, Reachable
<1>4. ASSUME NEW n \in Nodes, SendQueryPeers(n)
      PROVE  TypeOK' /\ HelperTyped'
  <2> DEFINE c == [cmd |-> "QueryPeers", from |-> n, to |-> Core[n]]
  <2>1. c \in Query
    BY <1>4, CoreAssumption DEF SendQueryPeers, Query, Addrs
  <2>2. cmds' = cmds \cup {c} /\ punching' = punching
    BY <1>4 DEF SendQueryPeers
  <2>3. c.cmd # "ReQueryPeers"
    OBVIOUS
  <2> HIDE DEF c
  <2> QED
    BY <1>1, <1>2, <1>4, <2>1, <2>2, <2>3 DEF SendQueryPeers, HelperTyped, Reachable
<1>5. ASSUME NEW c \in cmds, OnQueryPeers(c)
      PROVE  TypeOK' /\ HelperTyped'
  <2> DEFINE known == {m \in Macs : Known(macMap[c.to][m])}
             none == [cmd |-> "empty", from |-> c.to, to |-> c.from]
             answer(m) == [cmd |-> "ReQueryPeers", from |-> c.to, to |-> c.from, mac |-> m,
                           addr |-> macMap[c.to][m].sock]
  <2>1. c.from \in Nodes /\ c.to \in Nodes
    BY CmdTyped DEF CtrlInv
  <2>2. none \in Empty /\ none.cmd # "ReQueryPeers"
    BY <2>1 DEF Empty
  <2>3. ASSUME NEW m \in known
        PROVE  answer(m) \in Response /\ answer(m).addr \in Nodes
    <3>1. macMap[c.to][m].sock \in Nodes
      BY <1>1, <2>1 DEF TypeOK, Wired, Known
    <3> QED
      BY <2>1, <3>1 DEF Response, Addrs
  <2>4. cmds' \subseteq cmds \cup {none} \cup {answer(m) : m \in known}
    BY <1>5 DEF OnQueryPeers
  <2>5. punching' = punching /\ UNCHANGED vars
    BY <1>5 DEF OnQueryPeers
  <2> HIDE DEF known, none, answer
  <2> QED
    BY <1>1, <1>2, <2>2, <2>3, <2>4, <2>5 DEF HelperTyped, Reachable
<1>6. ASSUME NEW c \in cmds, OnQueryPeersResponse(c)
      PROVE  TypeOK' /\ HelperTyped'
  <2> DEFINE t == [at |-> c.to, mac |-> c.mac, addr |-> c.addr, retry |-> Retry]
  <2>1. c \in Response /\ c.addr \in Nodes
    BY <1>6, CmdTyped DEF OnQueryPeersResponse, CtrlInv, Reachable
  <2>2. t \in Timer /\ t.addr \in Nodes
    BY <2>1, RetryAssumption DEF Response, Timer
  <2>3. cmds' \subseteq cmds /\ punching' \subseteq punching \cup {t} /\ UNCHANGED vars
    BY <1>6 DEF OnQueryPeersResponse
  <2> HIDE DEF t
  <2> QED
    BY <1>1, <1>2, <2>2, <2>3 DEF HelperTyped, Reachable
<1>7. ASSUME NEW c \in cmds, OnEmpty(c)
      PROVE  TypeOK' /\ HelperTyped'
  <2>1. cmds' \subseteq cmds /\ punching' = punching
    BY <1>7 DEF OnEmpty
  <2> QED
    BY <1>1, <1>7, <2>1, OnEmptyTyped DEF HelperTyped, Reachable
<1>8. ASSUME NEW c \in cmds, LoseCmd(c)
      PROVE  TypeOK' /\ HelperTyped'
  <2>1. cmds' \subseteq cmds /\ punching' = punching /\ UNCHANGED vars
    BY <1>8 DEF LoseCmd
  <2> QED
    BY <1>1, <1>2, <2>1 DEF HelperTyped, Reachable
<1>9. ASSUME NEW t \in punching, Punch(t)
      PROVE  TypeOK' /\ HelperTyped'
  <2>1. net' \subseteq Packet
    BY <1>1, <1>9, PunchTyped DEF Punch, TypeOK
  <2>2. t \in Timer /\ t.addr \in Nodes
    BY <1>1 DEF HelperTyped, Reachable
  <2>3. punching' \subseteq punching \cup Again(t) /\ cmds' = cmds
    BY <1>9 DEF Punch
  <2>4. HelperTyped'
    BY <1>1, <2>2, <2>3, AgainTyped DEF HelperTyped, Reachable
  <2> QED
    BY <1>1, <1>9, <2>1, <2>4 DEF Punch, TypeOK
<1>10. CASE UNCHANGED ctrlVars
  BY <1>1, <1>2, <1>10 DEF ctrlVars, vars, HelperTyped, Reachable
<1> QED
  BY <1>3, <1>4, <1>5, <1>6, <1>7, <1>8, <1>9, <1>10 DEF CtrlNext

(* Types of the network with its commands and timers; a response names     *)
(* peers at addresses that datagrams came from, never at port 0.           *)
THEOREM CtrlTypeCorrect == CtrlSpec => []CtrlTypeOK
<1>1. CtrlInit => CtrlInv
  BY InitTyped DEF CtrlInit, CtrlInv, CtrlTypeOK, Reachable
<1>2. CtrlInv => CtrlTypeOK
  BY DEF CtrlInv
<1> QED
  BY <1>1, <1>2, CtrlStepTyped, PTL DEF CtrlSpec

(* Direct paths lead frames off the tree, and an empty response may teach  *)
(* any path: no frame is relayed more than SendTtl times even so.          *)
THEOREM CtrlHopsBounded == CtrlSpec => []HopBound
<1>1. CtrlInit => CtrlInv /\ HopBound
  BY InitTyped DEF CtrlInit, CtrlInv, CtrlTypeOK, Reachable, Init, HopBound
<1>2. CtrlInv /\ HopBound /\ [CtrlNext]_ctrlVars => HopBound'
  <2> SUFFICES ASSUME CtrlInv, HopBound, [CtrlNext]_ctrlVars PROVE HopBound'
    OBVIOUS
  <2>1. CASE [Next]_vars
    BY <2>1, StepBounded DEF CtrlInv, CtrlTypeOK
  <2>2. ASSUME net' \subseteq net PROVE HopBound'
    BY <2>2 DEF HopBound
  <2>3. ASSUME NEW t \in punching, Punch(t) PROVE HopBound'
    BY <2>3, TtlAssumption DEF Punch, HopBound
  <2>4. ASSUME NEW n \in Nodes, SendQueryPeers(n) PROVE HopBound'
    BY <2>2, <2>4 DEF SendQueryPeers, vars
  <2>5. ASSUME NEW c \in cmds,
               \/ OnQueryPeers(c) \/ OnQueryPeersResponse(c)
               \/ OnEmpty(c) \/ LoseCmd(c)
        PROVE  HopBound'
    BY <2>2, <2>5 DEF OnQueryPeers, OnQueryPeersResponse, OnEmpty, LoseCmd, vars
  <2>6. CASE UNCHANGED ctrlVars
    BY <2>2, <2>6 DEF ctrlVars
  <2> QED
    BY <2>1, <2>3, <2>4, <2>5, <2>6 DEF CtrlNext
<1> QED
  BY <1>1, <1>2, CtrlStepTyped, PTL DEF CtrlSpec

(* To the frames the control helper is the switch, or quiet: it sends      *)
(* keepalives and commands.                                                *)
LEMMA HelperQuiet ==
    ASSUME [CtrlNext]_ctrlVars
    PROVE  \/ [Next]_vars
           \/ /\ \A q \in net' : q \in net \/ IsKeep(q)
              /\ frames' = frames /\ written' = written
<1>1. CASE Next
  BY <1>1
<1>2. ASSUME NEW n \in Nodes, SendQueryPeers(n) PROVE UNCHANGED vars
  BY <1>2 DEF SendQueryPeers
<1>3. ASSUME NEW c \in cmds, OnQueryPeers(c) \/ OnQueryPeersResponse(c) \/ LoseCmd(c)
      PROVE  UNCHANGED vars
  BY <1>3 DEF OnQueryPeers, OnQueryPeersResponse, LoseCmd
<1>4. ASSUME NEW c \in cmds, OnEmpty(c)
      PROVE  net' = net /\ frames' = frames /\ written' = written
  BY <1>4 DEF OnEmpty
<1>5. ASSUME NEW t \in punching, Punch(t)
      PROVE  /\ \A q \in net' : q \in net \/ IsKeep(q)
             /\ frames' = frames /\ written' = written
  BY <1>5 DEF Punch, IsKeep
<1>6. CASE UNCHANGED ctrlVars
  BY <1>6 DEF ctrlVars, vars
<1> QED
  BY <1>1, <1>2, <1>3, <1>4, <1>5, <1>6 DEF CtrlNext

(* Nor do direct paths, or what an empty response teaches, ever hand a     *)
(* frame to a host it is not addressed to.                                 *)
THEOREM CtrlHandedOnlyToAddressed == CtrlSpec => []OnlyAddressed
<1>1. CtrlInit => CtrlInv /\ Carried /\ OnlyAddressed
  BY InitTyped, InitCarries DEF CtrlInit, CtrlInv, CtrlTypeOK, Reachable
<1>2. CtrlInv /\ Carried /\ OnlyAddressed /\ [CtrlNext]_ctrlVars => Carried' /\ OnlyAddressed'
  BY HelperQuiet, StepCarries, QuietStepCarries DEF CtrlInv, CtrlTypeOK
<1> QED
  BY <1>1, <1>2, CtrlStepTyped, PTL DEF CtrlSpec

(* If the network duplicates no datagram, a frame for one node is handed   *)
(* over at most once with direct paths, too.                               *)
THEOREM CtrlUnicastHandedOnce ==
    ASSUME "dup" \notin Faults
    PROVE  CtrlSpec => []UnicastOnce
<1>1. CtrlInit => CtrlInv /\ UnicastInv
  BY InitTyped, InitUnicast DEF CtrlInit, CtrlInv, CtrlTypeOK, Reachable
<1>2. CtrlInv /\ UnicastInv /\ [CtrlNext]_ctrlVars => UnicastInv'
  BY HelperQuiet, StepUnicast, QuietStepUnicast DEF CtrlInv, CtrlTypeOK
<1>3. UnicastInv => UnicastOnce
  BY DEF UnicastInv
<1> QED
  BY <1>1, <1>2, <1>3, CtrlStepTyped, PTL DEF CtrlSpec

-----------------------------------------------------------------------------
(***************************************************************************)
(* The network the control helper is made for: a node with no core peer    *)
(* that is the core peer of every other one.  There direct paths are safe, *)
(* however many nodes ask for them and whatever happens to the datagrams   *)
(* and the nodes.  On deeper trees none of this holds in general.          *)
(***************************************************************************)
Star(r) == Core[r] = NoAddr /\ \A n \in Nodes \ {r} : Core[n] = r

(* The address h behind which node n knows the MAC address m: node r knows *)
(* the others where they are, and these know each other there or behind r. *)
Leads(r, n, m, h) == m # n /\ IF n = r THEN m \in Nodes /\ h = m ELSE h \in {m, r}

RoutesOnStar(r) ==
    \A n \in Nodes, m \in Macs : Known(macMap[n][m]) => Leads(r, n, m, macMap[n][m].sock)

(* No datagram but r's is a relayed one, and none returns to the source of *)
(* its frame.  A frame for one node goes to it or to r.  A broadcast goes  *)
(* to r with all of its ttl, and from r with none, so that r's copies of   *)
(* it are not relayed again, not even to peers reached directly.           *)
OnStar(r, p) ==
    /\ p.from # p.to /\ p.src # p.to /\ p.from \in {p.src, r}
    /\ ~IsKeep(p) =>
          /\ p.dst # p.src
          /\ p.dst # Bcast => p.to \in {p.dst, r}
          /\ p.dst = Bcast => \/ p.to = r /\ p.hops + p.ttl = SendTtl
                              \/ p.from = r /\ p.ttl = 0

NetOnStar(r) == \A p \in net : OnStar(r, p)

(* Only r is asked, and it knows every node at that node's own address.    *)
AskedOnStar(r, c) ==
    IF c.cmd = "QueryPeers" THEN c.from # r /\ c.to = r
    ELSE /\ c.from = r /\ c.to # r
         /\ c.cmd = "ReQueryPeers" => c.addr = c.mac

HelperOnStar(r) ==
    /\ \A c \in cmds : AskedOnStar(r, c)
    /\ \A t \in punching : t.addr = t.mac /\ t.mac # t.at

StarInv(r) == CtrlInv /\ RoutesOnStar(r) /\ NetOnStar(r) /\ HelperOnStar(r)

(* The addresses nodes send to are other nodes'.                           *)
LEMMA StarTarget ==
    ASSUME NEW r \in Nodes, Star(r), RoutesOnStar(r), NEW n \in Nodes, NEW h \in Nodes,
           h = Core[n] \/ \E m \in Macs : Known(macMap[n][m]) /\ macMap[n][m].sock = h
    PROVE  h # n
BY CoreAssumption DEF RoutesOnStar, Leads

(* What onPeerInput learns leads where it should.                          *)
LEMMA StarLearned ==
    ASSUME NEW r \in Nodes, TypeOK, RoutesOnStar(r), NetOnStar(r), NEW p \in net,
           NEW m \in Macs, Known(TableAfter(p)[m])
    PROVE  Leads(r, p.to, m, TableAfter(p)[m].sock)
<1>1. p \in Packet /\ OnStar(r, p)
  BY DEF TypeOK, NetOnStar
<1>2. macMap[p.to] \in Table /\ p.src \in Nodes /\ p.to \in Nodes /\ m \in Keys
  BY <1>1 DEF TypeOK, Packet, Table, Keys
<1>3. CASE TableAfter(p)[m] = macMap[p.to][m]
  BY <1>2, <1>3 DEF RoutesOnStar
<1>4. CASE TableAfter(p)[m] # macMap[p.to][m]
  <2>1. p.src # p.to /\ m = p.src /\ TableAfter(p)[m].sock = p.from
    BY <1>2, <1>4 DEF TableAfter, Table, Learned
  <2> QED
    BY <1>1, <1>2, <2>1 DEF OnStar, Leads
<1> QED
  BY <1>3, <1>4

(* What pollInterface sends.                                               *)
LEMMA PollOnStar ==
    ASSUME NEW r \in Nodes, Star(r), TypeOK, RoutesOnStar(r),
           NEW n \in Nodes, NEW dst \in Keys \ {n}, PollInterface(n, dst),
           NEW q \in net', q \notin net
    PROVE  OnStar(r, q)
<1>1. /\ q \in Packet /\ q.src = n /\ q.dst = dst /\ q.from = n /\ q.hops = 0
      /\ q.to = Core[n] \/ \E m \in Macs : Known(macMap[n][m]) /\ macMap[n][m].sock = q.to
      /\ dst # Bcast => q.to = GetMacPeer(macMap[n], dst)
      /\ dst = Bcast => IF Core[n] = NoAddr THEN q.ttl = 0
                        ELSE q.to = Core[n] /\ q.ttl = SendTtl
  BY PollSends
<1>2. q.to \in Nodes /\ q.to # n
  BY <1>1, StarTarget DEF Packet
<1>3. ASSUME dst # Bcast PROVE q.to \in {dst, r}
  <2>1. dst \in Macs /\ Wired(n, macMap[n])
    BY <1>3 DEF Keys, TypeOK
  <2>2. CASE Known(macMap[n][dst])
    BY <1>1, <1>3, <2>1, <2>2 DEF GetMacPeer, RoutesOnStar, Leads
  <2>3. CASE ~Known(macMap[n][dst])
    BY <1>1, <1>2, <1>3, <2>1, <2>3, NodesAssumption DEF GetMacPeer, Wired, Star
  <2> QED
    BY <2>2, <2>3
<1>4. ASSUME dst = Bcast
      PROVE  \/ q.to = r /\ q.hops + q.ttl = SendTtl
             \/ q.from = r /\ q.ttl = 0
  <2>1. CASE n = r
    BY <1>1, <1>4, <2>1 DEF Star
  <2>2. CASE n # r
    BY <1>1, <1>4, <2>2, NodesAssumption, TtlAssumption DEF Star
  <2> QED
    BY <2>1, <2>2
<1> QED
  BY <1>1, <1>2, <1>3, <1>4 DEF OnStar

(* What onPeerInput relays: only r does.                                   *)
LEMMA RelayOnStar ==
    ASSUME NEW r \in Nodes, Star(r), TypeOK, RoutesOnStar(r), NetOnStar(r),
           NEW p \in net, OnPeerInput(p), NEW q \in net', q \notin net
    PROVE  OnStar(r, q)
<1>1. p \in Packet /\ OnStar(r, p)
  BY DEF TypeOK, NetOnStar
<1>2. /\ q \in Packet /\ ~Stops(p)
      /\ q.fid = p.fid /\ q.src = p.src /\ q.dst = p.dst /\ q.from = p.to
      /\ \/ /\ p.dst # Bcast /\ Known(TableAfter(p)[p.dst])
            /\ q.to = TableAfter(p)[p.dst].sock
         \/ /\ p.dst = Bcast /\ q.to # p.from
            /\ q.to # Core[p.to] => q.ttl = 0
            /\ q.to = Core[p.to] \/ \E m \in Macs :
                 Known(TableAfter(p)[m]) /\ TableAfter(p)[m].sock = q.to
  BY InputSends
<1>3. p.to = r /\ p.from = p.src /\ p.dst # r /\ p.dst # p.src
  BY <1>1, <1>2 DEF OnStar, Stops
<1>4. q.to \in Nodes /\ q.to # Core[r] /\ q.dst \in Keys
  BY <1>2, NodesAssumption DEF Packet, Star
<1>5. CASE p.dst # Bcast
  <2>1. q.to = p.dst
    BY <1>2, <1>3, <1>4, <1>5, StarLearned DEF Leads, Keys
  <2> QED
    BY <1>2, <1>3, <1>5, <2>1 DEF OnStar
<1>6. CASE p.dst = Bcast
  <2>1. q.to # r
    BY <1>2, <1>3, <1>4, <1>6, StarLearned DEF Leads
  <2> QED
    BY <1>2, <1>3, <1>4, <1>6, <2>1 DEF OnStar
<1> QED
  BY <1>5, <1>6

(* The switch's own steps keep routes and datagrams on the star.           *)
LEMMA StepOnStar ==
    ASSUME NEW r \in Nodes, Star(r), TypeOK, RoutesOnStar(r), NetOnStar(r), [Next]_vars
    PROVE  RoutesOnStar(r)' /\ NetOnStar(r)'
<1>1. ASSUME \A k \in Nodes, x \in Macs : Known(macMap'[k][x]) => macMap'[k][x] = macMap[k][x]
      PROVE  RoutesOnStar(r)'
  BY <1>1 DEF RoutesOnStar
<1>2. ASSUME net' \subseteq net PROVE NetOnStar(r)'
  BY <1>2 DEF NetOnStar, OnStar
<1>3. ASSUME NEW n \in Nodes, NEW dst \in Keys \ {n}, PollInterface(n, dst)
      PROVE  RoutesOnStar(r)' /\ NetOnStar(r)'
  <2>1. \A q \in net' : OnStar(r, q)
    BY <1>3, PollOnStar DEF NetOnStar
  <2> QED
    BY <1>1, <1>3, <2>1 DEF NetOnStar, OnStar, PollInterface
<1>4. ASSUME NEW p \in net, OnPeerInput(p)
      PROVE  RoutesOnStar(r)' /\ NetOnStar(r)'
  <2>1. \A q \in net' : OnStar(r, q)
    BY <1>4, RelayOnStar DEF NetOnStar
  <2>2. p.to \in Nodes
    BY DEF TypeOK, Packet
  <2>3. \A n \in Nodes : macMap'[n] = IF n = p.to THEN TableAfter(p) ELSE macMap[n]
    BY <1>4, <2>2 DEF OnPeerInput, TypeOK
  <2>4. RoutesOnStar(r)'
    BY <2>2, <2>3, StarLearned DEF RoutesOnStar
  <2> QED
    BY <2>1, <2>4 DEF NetOnStar, OnStar
<1>5. ASSUME NEW n \in Nodes, KeepAlive(n)
      PROVE  RoutesOnStar(r)' /\ NetOnStar(r)'
  <2>1. ASSUME NEW q \in net', q \notin net PROVE OnStar(r, q)
    <3>1. /\ q \in Packet /\ q.fid = 0 /\ q.src = n /\ q.from = n
          /\ q.to = Core[n] \/ \E m \in Macs : Known(macMap[n][m]) /\ macMap[n][m].sock = q.to
      BY <1>5, <2>1, KeepAliveSends
    <3>2. q.to \in Nodes /\ q.to # n
      BY <3>1, StarTarget DEF Packet
    <3> QED
      BY <3>1, <3>2 DEF OnStar, IsKeep
  <2> QED
    BY <1>1, <1>5, <2>1 DEF NetOnStar, OnStar, KeepAlive
<1>6. ASSUME NEW n \in Nodes, NEW m \in Macs, RemovePeer(n, m)
      PROVE  RoutesOnStar(r)' /\ NetOnStar(r)'
  <2>1. \A k \in Nodes, x \in Macs : Known(macMap'[k][x]) => macMap'[k][x] = macMap[k][x]
    BY <1>6 DEF RemovePeer, TypeOK, Known, NoPeer, Keys
  <2> QED
    BY <1>1, <1>2, <1>6, <2>1 DEF RemovePeer
<1>7. ASSUME NEW n \in Nodes, Restart(n)
      PROVE  RoutesOnStar(r)' /\ NetOnStar(r)'
  <2>1. \A m \in Macs : ~Known(FreshTable(n)[m])
    BY NodesAssumption DEF FreshTable, Keys, Known, NoPeer
  <2>2. \A k \in Nodes, x \in Macs : Known(macMap'[k][x]) => macMap'[k][x] = macMap[k][x]
    BY <1>7, <2>1 DEF Restart, TypeOK
  <2> QED
    BY <1>1, <1>2, <1>7, <2>2 DEF Restart
<1>8. ASSUME NEW p \in net, Lose(p)
      PROVE  RoutesOnStar(r)' /\ NetOnStar(r)'
  BY <1>1, <1>2, <1>8 DEF Lose
<1>9. CASE UNCHANGED vars
  BY <1>1, <1>2, <1>9 DEF vars
<1> QED
  BY <1>3, <1>4, <1>5, <1>6, <1>7, <1>8, <1>9 DEF Next

(* What the control helper learns: an empty response from r teaches a path *)
(* to r, for whatever MAC address.                                         *)
LEMMA EmptyOnStar ==
    ASSUME NEW r \in Nodes, TypeOK, RoutesOnStar(r), HelperOnStar(r),
           NEW c \in cmds, c.to \in Nodes, OnEmpty(c)
    PROVE  RoutesOnStar(r)'
<1>1. CASE UNCHANGED macMap
  BY <1>1 DEF RoutesOnStar
<1>2. ASSUME NEW m \in Macs \ {c.to},
             macMap' = [macMap EXCEPT ![c.to][m] = Learned(@, c.from, SendTtl)]
      PROVE  RoutesOnStar(r)'
  <2>1. c.from = r /\ c.to # r
    BY DEF OnEmpty, HelperOnStar, AskedOnStar
  <2>2. macMap[c.to] \in Table /\ m \in Keys
    BY DEF TypeOK, Table, Keys
  <2>3. \A n \in Nodes, x \in Macs :
           \/ macMap'[n][x] = macMap[n][x]
           \/ n = c.to /\ x = m /\ macMap'[n][x].sock = r
    BY <1>2, <2>1, <2>2 DEF TypeOK, Table, Keys, Learned
  <2> QED
    BY <2>1, <2>3 DEF RoutesOnStar, Leads
<1> QED
  BY <1>1, <1>2 DEF OnEmpty

LEMMA CtrlStepOnStar ==
    ASSUME NEW r \in Nodes, Star(r)
    PROVE  StarInv(r) /\ [CtrlNext]_ctrlVars => StarInv(r)'
<1> SUFFICES ASSUME StarInv(r), [CtrlNext]_ctrlVars
             PROVE  RoutesOnStar(r)' /\ NetOnStar(r)' /\ HelperOnStar(r)'
  BY CtrlStepTyped DEF StarInv
<1>1. TypeOK /\ RoutesOnStar(r) /\ NetOnStar(r) /\ HelperOnStar(r) /\ CtrlInv
  BY DEF StarInv, CtrlInv, CtrlTypeOK
<1>2. \A c \in cmds : c.from \in Nodes /\ c.to \in Nodes
  BY CmdTyped DEF StarInv, CtrlInv
<1>3. ASSUME UNCHANGED vars PROVE RoutesOnStar(r)' /\ NetOnStar(r)'
  BY <1>1, <1>3 DEF vars, RoutesOnStar, NetOnStar, OnStar
<1>4. CASE Next /\ UNCHANGED <<cmds, punching>>
  BY <1>1, <1>4, StepOnStar DEF HelperOnStar, AskedOnStar
<1>5. ASSUME NEW n \in Nodes, SendQueryPeers(n)
      PROVE  RoutesOnStar(r)' /\ NetOnStar(r)' /\ HelperOnStar(r)'
  <2> DEFINE c == [cmd |-> "QueryPeers", from |-> n, to |-> Core[n]]
  <2>1. AskedOnStar(r, c)
    BY <1>5 DEF SendQueryPeers, Star, AskedOnStar
  <2>2. cmds' = cmds \cup {c} /\ punching' = punching /\ UNCHANGED vars
    BY <1>5 DEF SendQueryPeers
  <2> HIDE DEF c
  <2> QED
    BY <1>1, <1>3, <2>1, <2>2 DEF HelperOnStar, AskedOnStar
<1>6. ASSUME NEW c \in cmds, OnQueryPeers(c)
      PROVE  RoutesOnStar(r)' /\ NetOnStar(r)' /\ HelperOnStar(r)'
  <2> DEFINE known == {m \in Macs : Known(macMap[c.to][m])}
             none == [cmd |-> "empty", from |-> c.to, to |-> c.from]
             answer(m) == [cmd |-> "ReQueryPeers", from |-> c.to, to |-> c.from, mac |-> m,
                           addr |-> macMap[c.to][m].sock]
  <2>1. c.from # r /\ c.to = r
    BY <1>1, <1>6 DEF OnQueryPeers, HelperOnStar, AskedOnStar
  <2>2. AskedOnStar(r, none)
    BY <2>1 DEF AskedOnStar
  <2>3. ASSUME NEW m \in known PROVE AskedOnStar(r, answer(m))
    BY <1>1, <2>1 DEF AskedOnStar, RoutesOnStar, Leads
  <2>4. cmds' \subseteq cmds \cup {none} \cup {answer(m) : m \in known}
    BY <1>6 DEF OnQueryPeers
  <2>5. punching' = punching /\ UNCHANGED vars
    BY <1>6 DEF OnQueryPeers
  <2> HIDE DEF known, none, answer
  <2> QED
    BY <1>1, <1>3, <2>2, <2>3, <2>4, <2>5 DEF HelperOnStar, AskedOnStar
<1>7. ASSUME NEW c \in cmds, OnQueryPeersResponse(c)
      PROVE  RoutesOnStar(r)' /\ NetOnStar(r)' /\ HelperOnStar(r)'
  <2> DEFINE t == [at |-> c.to, mac |-> c.mac, addr |-> c.addr, retry |-> Retry]
  <2>1. Punches(c.to, c.mac) => t.addr = t.mac /\ t.mac # t.at
    BY <1>1, <1>7 DEF OnQueryPeersResponse, Punches, HelperOnStar, AskedOnStar
  <2>2. /\ cmds' \subseteq cmds /\ UNCHANGED vars
        /\ punching' \subseteq punching \cup (IF Punches(c.to, c.mac) THEN {t} ELSE {})
    BY <1>7 DEF OnQueryPeersResponse
  <2> HIDE DEF t
  <2> QED
    BY <1>1, <1>3, <2>1, <2>2 DEF HelperOnStar, AskedOnStar
<1>8. ASSUME NEW c \in cmds, OnEmpty(c)
      PROVE  RoutesOnStar(r)' /\ NetOnStar(r)' /\ HelperOnStar(r)'
  <2>1. RoutesOnStar(r)'
    BY <1>1, <1>2, <1>8, EmptyOnStar
  <2> QED
    BY <1>1, <1>8, <2>1 DEF OnEmpty, NetOnStar, OnStar, HelperOnStar, AskedOnStar
<1>9. ASSUME NEW c \in cmds, LoseCmd(c)
      PROVE  RoutesOnStar(r)' /\ NetOnStar(r)' /\ HelperOnStar(r)'
  BY <1>1, <1>3, <1>9 DEF LoseCmd, HelperOnStar, AskedOnStar
<1>10. ASSUME NEW t \in punching, Punch(t)
       PROVE  RoutesOnStar(r)' /\ NetOnStar(r)' /\ HelperOnStar(r)'
  <2> DEFINE q == [fid |-> 0, src |-> t.at, dst |-> t.mac, from |-> t.at,
                   to |-> t.addr, ttl |-> 0, hops |-> 0]
  <2>1. t.addr = t.mac /\ t.mac # t.at /\ t \in Timer
    BY <1>1 DEF HelperOnStar, CtrlInv, CtrlTypeOK
  <2>2. OnStar(r, q)
    BY <2>1 DEF OnStar, IsKeep
  <2>3. \A u \in Again(t) : u.addr = u.mac /\ u.mac # u.at
    BY <2>1 DEF Again, Timer
  <2>4. /\ net' = net \cup {q} /\ macMap' = macMap /\ cmds' = cmds
        /\ punching' \subseteq punching \cup Again(t)
    BY <1>10 DEF Punch
  <2> HIDE DEF q
  <2> QED
    BY <1>1, <2>2, <2>3, <2>4 DEF RoutesOnStar, NetOnStar, OnStar, HelperOnStar, AskedOnStar
<1>11. CASE UNCHANGED ctrlVars
  BY <1>1, <1>3, <1>11 DEF ctrlVars, vars, HelperOnStar, AskedOnStar
<1> QED
  BY <1>4, <1>5, <1>6, <1>7, <1>8, <1>9, <1>10, <1>11 DEF CtrlNext

LEMMA InitOnStar ==
    ASSUME NEW r \in Nodes
    PROVE  CtrlInit => StarInv(r)
<1> SUFFICES ASSUME CtrlInit PROVE StarInv(r)
  OBVIOUS
<1>1. \A n \in Nodes, m \in Macs : macMap[n][m] = NoPeer
  BY NodesAssumption DEF CtrlInit, Init, FreshTable, Keys
<1>2. RoutesOnStar(r)
  BY <1>1 DEF RoutesOnStar, Known, NoPeer
<1> QED
  BY <1>2, InitTyped
     DEF CtrlInit, StarInv, CtrlInv, CtrlTypeOK, Reachable, Init, NetOnStar, HelperOnStar

(* On a star direct paths form no loop: nodes that know a MAC address know *)
(* it at its owner, or behind the core node, which knows it at its owner.  *)
THEOREM StarLoopFree ==
    ASSUME NEW r \in Nodes, Star(r)
    PROVE  CtrlSpec => []LoopFree
<1>1. StarInv(r) => LoopFree
  <2> SUFFICES ASSUME StarInv(r), NEW m \in Nodes,
                      NEW S \in SUBSET (Nodes \ {m}), S # {}
               PROVE  \E n \in S : macMap[n][m].sock \notin S
    BY DEF LoopFree
  <2>1. RoutesOnStar(r) /\ TypeOK /\ Unset \notin S /\ m \in Macs
    BY NodesAssumption DEF StarInv, CtrlInv, CtrlTypeOK, Addrs, Macs
  <2>2. CASE r \in S
    BY <2>1, <2>2 DEF RoutesOnStar, Leads, Known
  <2>3. CASE r \notin S
    BY <2>1, <2>3 DEF RoutesOnStar, Leads, Known
  <2> QED
    BY <2>2, <2>3
<1> QED
  BY <1>1, InitOnStar, CtrlStepOnStar, PTL DEF CtrlSpec

(* And a broadcast reaches the core node with all of its ttl, so that the  *)
(* comment on it in sendBroadcast is true of a star.                       *)
THEOREM StarUplinkTtl ==
    ASSUME NEW r \in Nodes, Star(r)
    PROVE  CtrlSpec => []UplinkTtl
<1>1. StarInv(r) => UplinkTtl
  BY NodesAssumption DEF StarInv, CtrlInv, CtrlTypeOK, TypeOK, Packet, NetOnStar, OnStar,
                         UplinkTtl, Star
<1> QED
  BY <1>1, InitOnStar, CtrlStepOnStar, PTL DEF CtrlSpec

(* Broadcasts keep to the star, whose paths are those from and to r.       *)
LEMMA StarBroadcasts ==
    ASSUME NEW r \in Nodes, Star(r), StarInv(r)
    PROVE  BroadcastsOnPath
<1> SUFFICES ASSUME NEW p \in net, ~IsKeep(p), p.dst = Bcast PROVE OnPath(p)
  BY DEF BroadcastsOnPath
<1>1. p \in Packet /\ OnStar(r, p)
  BY DEF StarInv, CtrlInv, CtrlTypeOK, TypeOK, NetOnStar
<1>2. p.from \in Nodes /\ p.to \in Nodes /\ p.src \in Nodes /\ Bcast \notin Nodes
  BY <1>1, NodesAssumption DEF Packet, Macs
<1>3. p.from # p.to /\ p.src # p.to /\ p.from \in {p.src, r} /\ (p.to = r \/ p.from = r)
  BY <1>1 DEF OnStar
<1>4. Adjacent(p.from, p.to)
  BY <1>2, <1>3 DEF Adjacent, Star
<1>5. Hop[p.to][p.src] = p.from
  <2>1. CASE p.from = p.src
    BY <1>2, <1>4, <2>1, Neighbours
  <2>2. CASE p.from = r
    <3>1. Adjacent(p.to, Hop[p.to][p.src]) /\ Hop[p.to][p.src] \in Nodes
      BY <1>2, <1>3, HopAssumption
    <3> QED
      BY <1>2, <1>3, <2>2, <3>1, NodesAssumption DEF Adjacent, Star
  <2> QED
    BY <1>3, <2>1, <2>2
<1> QED
  BY <1>2, <1>3, <1>4, <1>5 DEF OnPath

(* The control helper sends no frames.                                     *)
LEMMA CtrlKeepsCopies ==
    ASSUME Inv, BroadcastsOnPath', "dup" \notin Faults, [CtrlNext]_ctrlVars
    PROVE  CopiesSound' /\ [LAN!Next]_(LAN!vars)
<1>1. CASE [Next]_vars
  BY <1>1, StepKeepsCopies, StepImplementsLan
<1>2. CASE /\ \A q \in net' : q \in net \/ IsKeep(q)
           /\ frames' = frames /\ written' = written
  BY <1>2, QuietStepKeepsCopies DEF Inv, LAN!vars
<1> QED
  BY <1>1, <1>2, HelperQuiet

(* A star with direct paths whose network duplicates no datagram is a LAN  *)
(* to the hosts, as the tree without them is.                              *)
THEOREM StarImplementsLan ==
    ASSUME NEW r \in Nodes, Star(r), "dup" \notin Faults
    PROVE  CtrlSpec => LanSpec
<1>1. CtrlInit => CopiesSound /\ LAN!Init
  BY DEF CtrlInit, Init, CopiesSound, LAN!Init
<1>2. StarInv(r) => BroadcastsOnPath /\ TypeOK
  BY StarBroadcasts DEF StarInv, CtrlInv, CtrlTypeOK
<1>3. Inv /\ BroadcastsOnPath' /\ [CtrlNext]_ctrlVars => CopiesSound' /\ [LAN!Next]_(LAN!vars)
  BY CtrlKeepsCopies
<1> QED
  BY <1>1, <1>2, <1>3, InitOnStar, CtrlStepOnStar, PTL
     DEF CtrlSpec, Inv, LanSpec, LAN!Spec
=============================================================================

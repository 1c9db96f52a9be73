--------------------------- MODULE VSwitchProofs ---------------------------
(***************************************************************************)
(* Theorems of module VSwitch, for every network: any nodes, any core      *)
(* peers, any ttl, any number of frames, and every fault.                  *)
(***************************************************************************)
EXTENDS VSwitch, SequenceTheorems, TLAPS

USE DEF NodesAssumption, CoreAssumption, TtlAssumption, BoundsAssumption

Table == [Keys -> Peer]

(* A datagram, or a frame that pollInterface has just read. *)
Handled == [fid : 0..MaxFrames, src : Nodes, dst : Keys, from : Nodes \cup {Unset},
            to : Nodes, ttl : 0..255, hops : Nat]

(* uint8_t ttl-1 takes one off a ttl that is not used up. *)
LEMMA DecLemma ==
    ASSUME NEW t \in 0..255
    PROVE  /\ Dec(t) \in 0..255
           /\ t # 0 => Dec(t) = t - 1
BY DEF Dec

(* The table main starts a node with. *)
LEMMA FreshTableTyped ==
    ASSUME NEW n \in Nodes
    PROVE  FreshTable(n) \in Table /\ Wired(n, FreshTable(n))
<1>1. NoPeer \in Peer /\ [sock |-> Core[n], ttl |-> SendTtl] \in Peer
  BY CoreAssumption, TtlAssumption DEF NoPeer, Peer, Addrs
<1>2. FreshTable(n) \in Table
  BY <1>1 DEF FreshTable, Table
<1>3. Wired(n, FreshTable(n))
  BY NodesAssumption DEF FreshTable, Wired, Keys, NoPeer
<1> QED
  BY <1>2, <1>3

(* What addMacPeer leaves in the table of the node that reads p. *)
LEMMA TableAfterTyped ==
    ASSUME TypeOK, NEW p \in net
    PROVE  /\ p \in Packet
           /\ TableAfter(p) \in Table
           /\ Wired(p.to, TableAfter(p))
<1>1. p \in Packet
  BY DEF TypeOK
<1>2. macMap[p.to] \in Table /\ Wired(p.to, macMap[p.to]) /\ p.src \in Macs /\ p.src # Bcast
  BY <1>1, NodesAssumption DEF TypeOK, Packet, Table, Macs
<1>3. Learned(macMap[p.to][p.src], p.from, p.ttl) \in Peer
  BY <1>1, <1>2 DEF Learned, Peer, Packet, Table, Addrs, Keys
<1>4. Learned(macMap[p.to][p.src], p.from, p.ttl).sock \in Nodes \cup {Unset}
  BY <1>1, <1>2 DEF Learned, Wired, Packet
<1>5. CASE p.src = p.to
  BY <1>1, <1>2, <1>5 DEF TableAfter
<1>6. CASE p.src # p.to
  <2>1. TableAfter(p) = [macMap[p.to] EXCEPT ![p.src] =
                           Learned(macMap[p.to][p.src], p.from, p.ttl)]
    BY <1>6 DEF TableAfter
  <2>2. TableAfter(p) \in Table
    BY <2>1, <1>2, <1>3 DEF Table
  <2>3. \A m \in Keys : TableAfter(p)[m] =
            IF m = p.src THEN Learned(macMap[p.to][p.src], p.from, p.ttl)
                         ELSE macMap[p.to][m]
    BY <2>1, <1>2 DEF Table
  <2>4. Wired(p.to, TableAfter(p))
    BY <2>3, <1>2, <1>4 DEF Wired, Keys
  <2> QED
    BY <1>1, <2>2, <2>4
<1> QED
  BY <1>5, <1>6

(* The copies sendBroadcast makes of a frame. *)
LEMMA FanOutCopies ==
    ASSUME NEW n \in Nodes, NEW table \in Table, Wired(n, table),
           NEW p \in Handled, NEW hops \in Nat, NEW first \in BOOLEAN,
           NEW q \in FanOut(n, table, p, hops, first)
    PROVE  /\ q \in Packet
           /\ q.fid = p.fid /\ q.src = p.src /\ q.dst = p.dst
           /\ q.from = n /\ q.hops = hops
           /\ q.to # p.from /\ q.to \in Nodes
           /\ q.to = Core[n] \/ \E m \in Macs : Known(table[m]) /\ table[m].sock = q.to
           /\ q.ttl \in {0, Dec(p.ttl)} /\ (q.to # Core[n] => q.ttl = 0)
<1>1. PICK a \in Targets(table, p.from) :
        q = [p EXCEPT !.from = n, !.to = a, !.hops = hops,
                      !.ttl = IF a = table[Bcast].sock /\ first
                              THEN Dec(p.ttl) ELSE 0]
  BY DEF FanOut
<1>2. PICK m \in Keys : Known(table[m]) /\ a = table[m].sock
  BY DEF Targets
<1>3. a # p.from /\ a # NoAddr /\ a # Unset
  BY <1>2 DEF Targets, Known
<1>4. a \in Nodes /\ (a = Core[n] \/ m \in Macs)
  BY <1>2, <1>3, CoreAssumption DEF Wired, Keys, Addrs
<1>5. p.ttl \in 0..255 /\ Dec(p.ttl) \in 0..255
  BY DecLemma DEF Handled
<1>6. /\ q.fid = p.fid /\ q.src = p.src /\ q.dst = p.dst
      /\ q.from = n /\ q.hops = hops /\ q.to = a
      /\ q.ttl = IF a = table[Bcast].sock /\ first THEN Dec(p.ttl) ELSE 0
  BY <1>1 DEF Handled
<1>7. q = [fid |-> p.fid, src |-> p.src, dst |-> p.dst, from |-> n, to |-> a,
           ttl |-> q.ttl, hops |-> hops]
  BY <1>1, <1>6 DEF Handled
<1>8. q.ttl \in 0..255
  BY <1>5, <1>6
<1>9. q \in Packet
  BY <1>4, <1>7, <1>8 DEF Handled, Packet
<1> QED
  BY <1>2, <1>3, <1>4, <1>6, <1>9 DEF Wired

(* The datagram by which a frame for one node is relayed. *)
LEMMA ForwardCopies ==
    ASSUME NEW p \in Packet, ~Stops(p), p.dst # Bcast,
           TableAfter(p) \in Table, Wired(p.to, TableAfter(p)),
           NEW q \in Forward(p)
    PROVE  /\ q \in Packet
           /\ q.fid = p.fid /\ q.src = p.src /\ q.dst = p.dst
           /\ q.from = p.to /\ q.hops = p.hops + 1 /\ q.ttl = p.ttl - 1
           /\ Known(TableAfter(p)[p.dst]) /\ q.to = TableAfter(p)[p.dst].sock
<1>1. p.dst \in Macs /\ p.ttl \in 0..255 /\ p.ttl # 0
  BY DEF Packet, Keys, Stops
<1>2. Known(TableAfter(p)[p.dst])
  BY DEF Forward
<1>3. TableAfter(p)[p.dst].sock \in Nodes
  BY <1>1, <1>2 DEF Wired, Known
<1>4. q = [p EXCEPT !.from = p.to, !.to = TableAfter(p)[p.dst].sock,
                    !.ttl = Dec(p.ttl), !.hops = p.hops + 1]
  BY <1>2 DEF Forward
<1>5. Dec(p.ttl) \in 0..255 /\ Dec(p.ttl) = p.ttl - 1
  BY <1>1, DecLemma
<1>6. q = [fid |-> p.fid, src |-> p.src, dst |-> p.dst, from |-> p.to,
           to |-> TableAfter(p)[p.dst].sock, ttl |-> p.ttl - 1, hops |-> p.hops + 1]
  BY <1>4, <1>5 DEF Packet
<1>7. q \in Packet
  BY <1>3, <1>5, <1>6 DEF Packet
<1> QED
  BY <1>2, <1>6, <1>7

(* A step that reads a frame from the TAP interface of n puts into net     *)
(* only copies of the new frame that leave n and were not relayed yet.     *)
LEMMA PollSends ==
    ASSUME TypeOK, NEW n \in Nodes, NEW dst \in Keys \ {n}, PollInterface(n, dst),
           NEW q \in net', q \notin net
    PROVE  /\ q \in Packet
           /\ q.fid = Len(frames) + 1 /\ q.src = n /\ q.dst = dst
           /\ q.from = n /\ q.hops = 0 /\ q.ttl \in {0, SendTtl}
           /\ q.to = Core[n] \/ \E m \in Macs : Known(macMap[n][m]) /\ macMap[n][m].sock = q.to
           /\ dst # Bcast => q.to = GetMacPeer(macMap[n], dst)
           /\ dst = Bcast => IF Core[n] = NoAddr THEN q.ttl = 0
                             ELSE q.to = Core[n] /\ q.ttl = SendTtl
<1> DEFINE p == Frame(n, dst)
           peer == GetMacPeer(macMap[n], dst)
<1>1. p \in Handled
  BY TtlAssumption, BoundsAssumption DEF Frame, Handled, TypeOK, PollInterface
<1>2. macMap[n] \in Table /\ Wired(n, macMap[n])
  BY DEF TypeOK, Table
<1>3. CASE peer # NoAddr /\ q = [p EXCEPT !.from = n, !.to = peer]
  <2>1. \/ peer = Core[n]
        \/ dst \in Macs /\ Known(macMap[n][dst]) /\ peer = macMap[n][dst].sock
    BY <1>2 DEF GetMacPeer, Wired, Keys
  <2>2. peer \in Nodes
    BY <1>2, <1>3, <2>1, CoreAssumption DEF Wired, Addrs, Known
  <2>3. q = [fid |-> Len(frames) + 1, src |-> n, dst |-> dst, from |-> n, to |-> peer,
             ttl |-> SendTtl, hops |-> 0]
    BY <1>3 DEF Frame
  <2>4. q \in Packet
    BY <1>1, <2>2, <2>3 DEF Handled, Packet, Frame
  <2>5. dst = Bcast => peer = Core[n]
    BY <1>2 DEF GetMacPeer, Wired
  <2>6. q.fid = Len(frames) + 1 /\ q.src = n /\ q.dst = dst /\ q.from = n
        /\ q.to = peer /\ q.ttl = SendTtl /\ q.hops = 0
    BY <2>3
  <2>7. peer = GetMacPeer(macMap[n], dst)
    OBVIOUS
  <2> HIDE DEF p, peer
  <2> QED
    BY <1>3, <2>1, <2>4, <2>5, <2>6, <2>7
<1>4. ASSUME peer = NoAddr, dst = Bcast, NEW first \in BOOLEAN,
             q \in FanOut(n, macMap[n], p, 0, first)
      PROVE  /\ q \in Packet
             /\ q.fid = p.fid /\ q.src = p.src /\ q.dst = p.dst
             /\ q.from = n /\ q.hops = 0 /\ q.ttl = 0 /\ Core[n] = NoAddr
             /\ q.to = Core[n] \/ \E m \in Macs : Known(macMap[n][m]) /\ macMap[n][m].sock = q.to
  <2>1. Core[n] = NoAddr
    BY <1>2, <1>4 DEF GetMacPeer, Wired
  <2>2. q.to \in Nodes /\ NoAddr \notin Nodes
    BY <1>1, <1>2, <1>4, FanOutCopies, NodesAssumption
  <2> QED
    BY <1>1, <1>2, <1>4, <2>1, <2>2, FanOutCopies
<1>5. \/ peer # NoAddr /\ q = [p EXCEPT !.from = n, !.to = peer]
      \/ peer = NoAddr /\ dst = Bcast
         /\ \E first \in BOOLEAN : q \in FanOut(n, macMap[n], p, 0, first)
  BY DEF PollInterface, BcastFirst
<1>6. p.fid = Len(frames) + 1 /\ p.src = n /\ p.dst = dst
  BY DEF Frame
<1> QED
  BY <1>3, <1>4, <1>5, <1>6

(* A step that reads p puts into net only copies of its frame that leave   *)
(* p.to and were relayed once more, with less ttl than p had.              *)
LEMMA InputSends ==
    ASSUME TypeOK, NEW p \in net, OnPeerInput(p), NEW q \in net', q \notin net
    PROVE  /\ q \in Packet /\ ~Stops(p)
           /\ q.fid = p.fid /\ q.src = p.src /\ q.dst = p.dst
           /\ q.from = p.to /\ q.hops = p.hops + 1 /\ q.ttl < p.ttl
           /\ \/ /\ p.dst # Bcast /\ Known(TableAfter(p)[p.dst])
                 /\ q.to = TableAfter(p)[p.dst].sock
              \/ /\ p.dst = Bcast /\ q.to # p.from
                 /\ q.to # Core[p.to] => q.ttl = 0
                 /\ q.to = Core[p.to] \/ \E m \in Macs :
                      Known(TableAfter(p)[m]) /\ TableAfter(p)[m].sock = q.to
<1>1. p \in Packet /\ TableAfter(p) \in Table /\ Wired(p.to, TableAfter(p))
  BY TableAfterTyped
<1>2. p \in Handled
  BY <1>1 DEF Packet, Handled
<1>3. ~Stops(p)
  BY DEF OnPeerInput, Left
<1>4. p.ttl \in 0..255 /\ p.ttl # 0 /\ p.to \in Nodes /\ p.hops + 1 \in Nat
  BY <1>1, <1>3 DEF Packet, Stops
<1>5. CASE p.dst # Bcast
  <2>1. q \in Forward(p)
    BY <1>3, <1>5 DEF OnPeerInput, Left
  <2> QED
    BY <1>1, <1>3, <1>4, <1>5, <2>1, ForwardCopies
<1>6. CASE p.dst = Bcast
  <2>1. PICK first \in BOOLEAN :
          q \in FanOut(p.to, TableAfter(p), p, p.hops + 1, first)
    BY <1>3, <1>6 DEF OnPeerInput, Left, BcastFirst
  <2>2. Dec(p.ttl) = p.ttl - 1
    BY <1>4, DecLemma
  <2>3. /\ q \in Packet
        /\ q.fid = p.fid /\ q.src = p.src /\ q.dst = p.dst
        /\ q.from = p.to /\ q.hops = p.hops + 1 /\ q.to # p.from
        /\ q.ttl \in {0, Dec(p.ttl)} /\ (q.to # Core[p.to] => q.ttl = 0)
        /\ q.to = Core[p.to] \/ \E m \in Macs :
              Known(TableAfter(p)[m]) /\ TableAfter(p)[m].sock = q.to
    BY <1>1, <1>2, <1>4, <2>1, FanOutCopies
  <2> QED
    BY <1>3, <1>4, <1>6, <2>2, <2>3
<1> QED
  BY <1>5, <1>6

(* A step of the link keeper puts into net only keepalives.                *)
LEMMA KeepAliveSends ==
    ASSUME TypeOK, NEW n \in Nodes, KeepAlive(n), NEW q \in net', q \notin net
    PROVE  /\ q \in Packet /\ q.fid = 0 /\ q.src = n /\ q.from = n
           /\ q.hops = 0 /\ q.ttl = 0
           /\ q.to = Core[n] \/ \E m \in Macs : Known(macMap[n][m]) /\ macMap[n][m].sock = q.to
<1>1. PICK m \in Keys : macMap[n][m].sock \in Nodes /\ q = Keepalive(n, m)
  BY DEF KeepAlive
<1>2. Wired(n, macMap[n])
  BY DEF TypeOK
<1>3. Known(macMap[n][m])
  BY <1>1, NodesAssumption DEF Known, Addrs
<1>4. q = [fid |-> 0, src |-> n, dst |-> m, from |-> n, to |-> macMap[n][m].sock,
           ttl |-> 0, hops |-> 0]
  BY <1>1 DEF Keepalive
<1>5. 0 \in 0..MaxFrames /\ 0 \in 0..255 /\ 0 \in Nat
  BY BoundsAssumption
<1>6. q \in Packet
  BY <1>1, <1>4, <1>5 DEF Packet
<1> QED
  BY <1>1, <1>2, <1>3, <1>4, <1>6 DEF Keys, Wired

-----------------------------------------------------------------------------
LEMMA InitTyped == Init => TypeOK
<1> SUFFICES ASSUME Init PROVE TypeOK
  OBVIOUS
<1>1. macMap \in [Nodes -> Table] /\ \A n \in Nodes : Wired(n, macMap[n])
  BY FreshTableTyped DEF Init
<1>2. frames \in Seq([src : Nodes, dst : Keys]) /\ Len(frames) <= MaxFrames
  BY BoundsAssumption DEF Init
<1> QED
  BY <1>1, <1>2 DEF Init, TypeOK, Table

(* Every step of the switch keeps the types.                               *)
LEMMA StepTyped == TypeOK /\ [Next]_vars => TypeOK'
<1> SUFFICES ASSUME TypeOK, [Next]_vars PROVE TypeOK'
  OBVIOUS
<1>1. ASSUME NEW n \in Nodes, NEW dst \in Keys \ {n}, PollInterface(n, dst)
      PROVE  TypeOK'
  <2>1. net' \subseteq Packet
    <3> SUFFICES ASSUME NEW q \in net', q \notin net PROVE q \in Packet
      BY DEF TypeOK
    <3> QED
      BY <1>1, PollSends
  <2>2. [src |-> n, dst |-> dst] \in [src : Nodes, dst : Keys]
    OBVIOUS
  <2>3. frames' \in Seq([src : Nodes, dst : Keys]) /\ Len(frames') = Len(frames) + 1
    BY <1>1, <2>2, AppendProperties DEF TypeOK, PollInterface
  <2>4. Len(frames') <= MaxFrames
    BY <1>1, <2>3, BoundsAssumption DEF TypeOK, PollInterface
  <2> QED
    BY <1>1, <2>1, <2>3, <2>4 DEF TypeOK, PollInterface
<1>2. ASSUME NEW p \in net, OnPeerInput(p)
      PROVE  TypeOK'
  <2>1. p \in Packet /\ TableAfter(p) \in Table /\ Wired(p.to, TableAfter(p))
    BY TableAfterTyped
  <2>2. net' \subseteq Packet
    <3> SUFFICES ASSUME NEW q \in net', q \notin net PROVE q \in Packet
      BY DEF TypeOK
    <3> QED
      BY <1>2, InputSends
  <2>3. macMap' \in [Nodes -> Table] /\ \A n \in Nodes : Wired(n, macMap'[n])
    BY <1>2, <2>1 DEF OnPeerInput, TypeOK, Table, Packet
  <2>4. \A w \in 0..2 : Count(w) \in 0..2
    BY DEF Count
  <2>5. written' \in [Nodes -> [1..MaxFrames -> 0..2]]
    BY <1>2, <2>4 DEF OnPeerInput, TypeOK
  <2> QED
    BY <1>2, <2>2, <2>3, <2>5 DEF OnPeerInput, TypeOK, Table
<1>3. ASSUME NEW n \in Nodes, KeepAlive(n)
      PROVE  TypeOK'
  <2>1. net' \subseteq Packet
    <3> SUFFICES ASSUME NEW q \in net', q \notin net PROVE q \in Packet
      BY DEF TypeOK
    <3> QED
      BY <1>3, KeepAliveSends
  <2> QED
    BY <1>3, <2>1 DEF KeepAlive, TypeOK
<1>4. ASSUME NEW n \in Nodes, NEW m \in Macs, RemovePeer(n, m)
      PROVE  TypeOK'
  <2>1. NoPeer \in Peer /\ m # Bcast
    BY NodesAssumption DEF NoPeer, Peer
  <2>2. macMap' = [macMap EXCEPT ![n] = [macMap[n] EXCEPT ![m] = NoPeer]]
    BY <1>4 DEF RemovePeer, TypeOK
  <2>3. macMap' \in [Nodes -> Table]
    BY <2>1, <2>2 DEF TypeOK, Table
  <2>4. \A k \in Nodes : Wired(k, macMap'[k])
    BY <2>1, <2>2 DEF TypeOK, Wired, NoPeer, Keys
  <2> QED
    BY <1>4, <2>3, <2>4 DEF RemovePeer, TypeOK, Table
<1>5. ASSUME NEW n \in Nodes, Restart(n)
      PROVE  TypeOK'
  <2>1. macMap' \in [Nodes -> Table] /\ \A k \in Nodes : Wired(k, macMap'[k])
    BY <1>5, FreshTableTyped DEF Restart, TypeOK, Table
  <2> QED
    BY <1>5, <2>1 DEF Restart, TypeOK, Table
<1>6. ASSUME NEW p \in net, Lose(p)
      PROVE  TypeOK'
  BY <1>6 DEF Lose, TypeOK
<1>7. CASE UNCHANGED vars
  BY <1>7 DEF vars, TypeOK
<1> QED
  BY <1>1, <1>2, <1>3, <1>4, <1>5, <1>6, <1>7 DEF Next

(* Tables, datagrams and histories have their types in every reachable     *)
(* state, and every table keeps the entry main gave it for broadcasts.     *)
THEOREM TypeCorrect == Spec => []TypeOK
  BY InitTyped, StepTyped, PTL DEF Spec

(* And no step puts a datagram into net that was relayed too often.        *)
LEMMA StepBounded == TypeOK /\ HopBound /\ [Next]_vars => HopBound'
<1> SUFFICES ASSUME TypeOK, HopBound, [Next]_vars, NEW q \in net', q \notin net
             PROVE  q.hops + q.ttl <= SendTtl
  BY DEF HopBound
<1>1. ASSUME NEW n \in Nodes, NEW dst \in Keys \ {n}, PollInterface(n, dst)
      PROVE  q.hops + q.ttl <= SendTtl
  <2>1. q.hops = 0 /\ q.ttl \in {0, SendTtl}
    BY <1>1, PollSends
  <2> QED
    BY <2>1, TtlAssumption
<1>2. ASSUME NEW p \in net, OnPeerInput(p)
      PROVE  q.hops + q.ttl <= SendTtl
  <2>1. p \in Packet /\ q \in Packet /\ q.hops = p.hops + 1 /\ q.ttl < p.ttl
    BY <1>2, InputSends DEF TypeOK
  <2>2. p.hops + p.ttl <= SendTtl
    BY DEF HopBound
  <2>3. p.hops \in Nat /\ p.ttl \in Nat /\ q.ttl \in Nat /\ SendTtl \in Nat
    BY <2>1, TtlAssumption DEF Packet
  <2>4. q.hops = p.hops + 1 /\ q.ttl < p.ttl
    BY <1>2, InputSends
  <2> QED
    BY <2>2, <2>3, <2>4
<1>3. ASSUME NEW n \in Nodes, KeepAlive(n)
      PROVE  q.hops + q.ttl <= SendTtl
  BY <1>3, KeepAliveSends, TtlAssumption
<1> QED
  BY <1>1, <1>2, <1>3 DEF Next, RemovePeer, Restart, Lose, vars

(* Whatever network the core peers form, and whatever happens to the       *)
(* datagrams and the nodes, no frame is relayed more than SendTtl times.   *)
THEOREM HopsBounded == Spec => []HopBound
<1>1. Init => HopBound
  BY DEF Init, HopBound
<1> QED
  BY <1>1, StepBounded, TypeCorrect, PTL DEF Spec

(* What travels is what was sent.                                          *)
Carried ==
    \A p \in net : ~IsKeep(p) =>
        p.fid <= Len(frames) /\ frames[p.fid] = [src |-> p.src, dst |-> p.dst]

LEMMA InitCarries == Init => Carried /\ OnlyAddressed
BY DEF Init, Carried, OnlyAddressed

(* Steps that touch neither the frames nor the writes, and send nothing    *)
(* but keepalives.                                                         *)
LEMMA QuietStepCarries ==
    ASSUME Carried, OnlyAddressed, \A q \in net' : q \in net \/ IsKeep(q),
           frames' = frames, written' = written
    PROVE  Carried' /\ OnlyAddressed'
BY DEF Carried, OnlyAddressed, IsKeep

LEMMA StepCarries ==
    ASSUME TypeOK, Carried, OnlyAddressed, [Next]_vars
    PROVE  Carried' /\ OnlyAddressed'
<1>1. ASSUME NEW n \in Nodes, NEW dst \in Keys \ {n}, PollInterface(n, dst)
      PROVE  Carried' /\ OnlyAddressed'
  <2> DEFINE f == Len(frames) + 1
  <2>1. frames \in Seq([src : Nodes, dst : Keys]) /\ Len(frames) \in Nat
    BY DEF TypeOK
  <2>2. /\ Len(frames') = f
        /\ \A i \in 1..Len(frames) : frames'[i] = frames[i]
        /\ frames'[f] = [src |-> n, dst |-> dst]
        /\ written' = written
    BY <1>1, <2>1 DEF PollInterface
  <2>3. ASSUME NEW q \in net', q \notin net
        PROVE  q.fid = f /\ q.src = n /\ q.dst = dst
    BY <1>1, <2>3, PollSends
  <2>4. ASSUME NEW q \in net, ~IsKeep(q)
        PROVE  q.fid \in 1..Len(frames)
    <3>1. q.fid \in 0..MaxFrames /\ q.fid # 0 /\ q.fid <= Len(frames)
      BY <2>4 DEF Carried, TypeOK, Packet, IsKeep
    <3> QED
      BY <2>1, <3>1, BoundsAssumption
  <2>5. Carried'
    BY <2>1, <2>2, <2>3, <2>4 DEF Carried, IsKeep
  <2>6. ASSUME NEW k \in Nodes, NEW g \in 1..MaxFrames, written'[k][g] # 0
        PROVE  /\ g <= Len(frames') /\ frames'[g].src # k
               /\ frames'[g].dst \in {k, Bcast}
    <3>1. g \in 1..Len(frames) /\ frames[g].src # k /\ frames[g].dst \in {k, Bcast}
      BY <2>1, <2>2, <2>6, BoundsAssumption DEF OnlyAddressed
    <3>2. frames'[g] = frames[g] /\ g <= Len(frames')
      BY <2>1, <2>2, <3>1
    <3> QED
      BY <3>1, <3>2
  <2> QED
    BY <2>5, <2>6 DEF OnlyAddressed
<1>2. ASSUME NEW p \in net, OnPeerInput(p)
      PROVE  Carried' /\ OnlyAddressed'
  <2>1. p \in Packet /\ frames' = frames
    BY <1>2 DEF TypeOK, OnPeerInput
  <2>2. ASSUME NEW q \in net', q \notin net
        PROVE  q.fid = p.fid /\ q.src = p.src /\ q.dst = p.dst
    BY <1>2, <2>2, InputSends
  <2>3. Carried'
    BY <2>1, <2>2 DEF Carried, IsKeep
  <2>4. ASSUME NEW k \in Nodes, NEW g \in 1..MaxFrames, written'[k][g] # written[k][g]
        PROVE  Writes(p) /\ k = p.to /\ g = p.fid
    BY <1>2, <2>1, <2>4 DEF OnPeerInput, TypeOK, Packet
  <2>5. ASSUME Writes(p)
        PROVE  /\ p.fid <= Len(frames) /\ frames[p.fid].src # p.to
               /\ frames[p.fid].dst \in {p.to, Bcast}
    <3>1. p.dst \in {p.to, Bcast} /\ p.src # p.to /\ ~IsKeep(p)
      BY <2>5 DEF Writes
    <3>2. p.fid <= Len(frames) /\ frames[p.fid] = [src |-> p.src, dst |-> p.dst]
      BY <3>1 DEF Carried
    <3> QED
      BY <3>1, <3>2
  <2>6. OnlyAddressed'
    <3> SUFFICES ASSUME NEW k \in Nodes, NEW g \in 1..MaxFrames, written'[k][g] # 0
                 PROVE  /\ g <= Len(frames) /\ frames[g].src # k
                        /\ frames[g].dst \in {k, Bcast}
      BY <2>1 DEF OnlyAddressed
    <3>1. CASE written'[k][g] = written[k][g]
      BY <3>1 DEF OnlyAddressed
    <3>2. CASE written'[k][g] # written[k][g]
      BY <2>4, <2>5, <3>2
    <3> QED
      BY <3>1, <3>2
  <2> QED
    BY <2>3, <2>6
<1>3. ASSUME NEW n \in Nodes, KeepAlive(n)
      PROVE  Carried' /\ OnlyAddressed'
  <2>1. \A q \in net' : q \in net \/ IsKeep(q)
    BY <1>3, KeepAliveSends DEF IsKeep
  <2> QED
    BY <1>3, <2>1, QuietStepCarries DEF KeepAlive
<1>4. CASE net' \subseteq net /\ UNCHANGED <<frames, written>>
  BY <1>4, QuietStepCarries
<1> QED
  BY <1>1, <1>2, <1>3, <1>4 DEF Next, RemovePeer, Restart, Lose, vars

(* In every network, a ring of core peers included, where a broadcast does *)
(* come back to its sender, and whatever is lost, duplicated, reordered or *)
(* forgotten, a host is handed only frames that are addressed to it and    *)
(* that it did not send.                                                   *)
THEOREM HandedOnlyToAddressed == Spec => []OnlyAddressed
  BY InitCarries, StepCarries, TypeCorrect, PTL DEF Spec

-----------------------------------------------------------------------------
(***************************************************************************)
(* How many copies of a frame there are.                                   *)
(***************************************************************************)

(* A copy of a broadcast is determined by where it goes. *)
LEMMA FanOutOnce ==
    ASSUME NEW n, NEW table, NEW p \in Handled, NEW hops, NEW first \in BOOLEAN,
           NEW q \in FanOut(n, table, p, hops, first),
           NEW r \in FanOut(n, table, p, hops, first), q.to = r.to
    PROVE  q = r
<1> DEFINE copy(a) == [p EXCEPT !.from = n, !.to = a, !.hops = hops,
                                !.ttl = IF a = table[Bcast].sock /\ first
                                        THEN Dec(p.ttl) ELSE 0]
<1>1. \A a : copy(a).to = a
  BY DEF Handled
<1>2. (\E a : q = copy(a)) /\ (\E a : r = copy(a))
  BY DEF FanOut
<1> QED
  BY <1>1, <1>2

(* Two copies that one step sends differ in where they go. *)
LEMMA PollSendsOnce ==
    ASSUME TypeOK, NEW n \in Nodes, NEW dst \in Keys \ {n}, PollInterface(n, dst),
           NEW q \in net', q \notin net, NEW r \in net', r \notin net,
           dst # Bcast \/ q.to = r.to
    PROVE  q = r
<1> DEFINE p == Frame(n, dst)
           peer == GetMacPeer(macMap[n], dst)
<1>1. CASE peer # NoAddr
  BY <1>1 DEF PollInterface
<1>2. CASE peer = NoAddr
  <2>1. PICK first \in BOOLEAN : net' = net \cup FanOut(n, macMap[n], p, 0, first)
    BY <1>2 DEF PollInterface, BcastFirst
  <2>2. dst = Bcast
    BY <1>2 DEF PollInterface
  <2>3. p \in Handled
    BY TtlAssumption, BoundsAssumption DEF Frame, Handled, TypeOK, PollInterface
  <2>4. q \in FanOut(n, macMap[n], p, 0, first) /\ r \in FanOut(n, macMap[n], p, 0, first)
    BY <2>1
  <2> QED
    BY <2>2, <2>3, <2>4, FanOutOnce
<1> QED
  BY <1>1, <1>2

(* The same for the copies that are relayed. *)
LEMMA InputSendsOnce ==
    ASSUME TypeOK, NEW p \in net, OnPeerInput(p),
           NEW q \in net', q \notin net, NEW r \in net', r \notin net,
           p.dst # Bcast \/ q.to = r.to
    PROVE  q = r
<1>1. p \in Handled /\ ~Stops(p)
  BY InputSends DEF TypeOK, Packet, Handled
<1>2. CASE p.dst # Bcast
  <2>1. q \in Forward(p) /\ r \in Forward(p)
    BY <1>1, <1>2 DEF OnPeerInput, Left
  <2> QED
    BY <2>1 DEF Forward
<1>3. CASE p.dst = Bcast
  <2> DEFINE copies(first) == FanOut(p.to, TableAfter(p), p, p.hops + 1, first)
  <2>1. PICK first \in BOOLEAN : q \in copies(first) /\ r \in copies(first)
    BY <1>1, <1>3 DEF OnPeerInput, Left, BcastFirst
  <2> QED
    BY <1>1, <1>3, <2>1, FanOutOnce
<1> QED
  BY <1>2, <1>3

(* A datagram that was read is gone: the copies relayed have more hops. *)
LEMMA InputTakes ==
    ASSUME TypeOK, "dup" \notin Faults, NEW p \in net, OnPeerInput(p)
    PROVE  p \notin net'
<1>1. p \in Packet /\ TableAfter(p) \in Table /\ Wired(p.to, TableAfter(p))
  BY TableAfterTyped
<1>2. p.hops \in Nat /\ p.hops + 1 \in Nat /\ p.hops # p.hops + 1 /\ p \in Handled /\ p.to \in Nodes
  BY <1>1 DEF Packet, Handled
<1>3. ASSUME ~Stops(p), p.dst # Bcast PROVE p \notin Forward(p)
  BY <1>1, <1>2, <1>3, ForwardCopies
<1>4. ASSUME NEW first \in BOOLEAN
      PROVE  p \notin FanOut(p.to, TableAfter(p), p, p.hops + 1, first)
  BY <1>1, <1>2, FanOutCopies
<1> QED
  BY <1>3, <1>4 DEF OnPeerInput, Left, BcastFirst


(* There is one copy of a frame for one node, and none once it was handed  *)
(* over; so it is handed over once.                                        *)
OneCopy ==
    \A p \in net : ~IsKeep(p) /\ p.dst # Bcast =>
        /\ \A n \in Nodes : written[n][p.fid] = 0
        /\ \A q \in net : q.fid = p.fid => q = p

UnicastOnce ==
    \A n \in Nodes, f \in 1..MaxFrames :
        f <= Len(frames) /\ frames[f].dst # Bcast => written[n][f] <= 1

UnicastInv == Carried /\ OnlyAddressed /\ OneCopy /\ UnicastOnce

LEMMA InitUnicast == Init => UnicastInv
BY DEF Init, UnicastInv, Carried, OnlyAddressed, OneCopy, UnicastOnce

LEMMA QuietStepUnicast ==
    ASSUME UnicastInv, \A q \in net' : q \in net \/ IsKeep(q),
           frames' = frames, written' = written
    PROVE  UnicastInv'
<1>1. OneCopy'
  BY DEF UnicastInv, OneCopy, IsKeep
<1> QED
  BY <1>1, QuietStepCarries DEF UnicastInv, UnicastOnce

LEMMA PollUnicast ==
    ASSUME TypeOK, UnicastInv, NEW n \in Nodes, NEW dst \in Keys \ {n}, PollInterface(n, dst)
    PROVE  OneCopy' /\ UnicastOnce'
<1> DEFINE f == Len(frames) + 1
<1>1. frames \in Seq([src : Nodes, dst : Keys]) /\ Len(frames) \in Nat /\ f \in 1..MaxFrames
  BY BoundsAssumption DEF TypeOK, PollInterface
<1>2. /\ Len(frames') = f
      /\ \A i \in 1..Len(frames) : frames'[i] = frames[i]
      /\ written' = written
  BY <1>1 DEF PollInterface
<1>3. \A k \in Nodes, g \in 1..MaxFrames : g > Len(frames) => written[k][g] = 0
  BY <1>1, BoundsAssumption DEF UnicastInv, OnlyAddressed
<1>4. ASSUME NEW q \in net PROVE q.fid # f
  <2>1. q.fid = 0 \/ q.fid <= Len(frames)
    BY DEF UnicastInv, Carried, IsKeep
  <2> QED
    BY <1>1, <2>1
<1>5. ASSUME NEW q \in net', q \notin net
      PROVE  q.fid = f /\ q.dst = dst
  BY <1>5, PollSends
<1>6. ASSUME NEW q \in net', ~IsKeep(q), q.dst # Bcast
      PROVE  /\ \A k \in Nodes : written'[k][q.fid] = 0
             /\ \A r \in net' : r.fid = q.fid => r = q
  <2>1. CASE q \in net
    <3>1. \A r \in net' : r.fid = q.fid => r \in net
      BY <1>4, <1>5, <2>1
    <3> QED
      BY <1>2, <1>6, <2>1, <3>1 DEF UnicastInv, OneCopy
  <2>2. CASE q \notin net
    <3>1. q.fid = f /\ dst # Bcast
      BY <1>5, <1>6, <2>2
    <3>2. \A r \in net' : r.fid = f => r \notin net
      BY <1>4
    <3>3. \A r \in net' : r.fid = f => r = q
      BY <2>2, <3>1, <3>2, PollSendsOnce
    <3>4. \A k \in Nodes : written'[k][f] = 0
      BY <1>1, <1>2, <1>3
    <3> QED
      BY <3>1, <3>3, <3>4
  <2> QED
    BY <2>1, <2>2
<1>7. ASSUME NEW k \in Nodes, NEW g \in 1..MaxFrames, frames'[g].dst # Bcast
      PROVE  written'[k][g] <= 1
  <2>1. CASE g <= Len(frames)
    BY <1>1, <1>2, <1>7, <2>1 DEF UnicastInv, UnicastOnce
  <2>2. CASE g > Len(frames)
    BY <1>2, <1>3, <2>2
  <2> QED
    BY <1>1, <2>1, <2>2, BoundsAssumption
<1> QED
  BY <1>6, <1>7 DEF OneCopy, UnicastOnce, IsKeep

LEMMA InputUnicast ==
    ASSUME TypeOK, UnicastInv, "dup" \notin Faults, NEW p \in net, OnPeerInput(p)
    PROVE  OneCopy' /\ UnicastOnce'
<1> DEFINE f == p.fid
<1>1. p \in Packet /\ p.to \in Nodes /\ frames' = frames
  BY DEF TypeOK, Packet, OnPeerInput
<1>2. p \notin net'
  BY InputTakes
<1>3. ASSUME NEW k \in Nodes, NEW g \in 1..MaxFrames, written'[k][g] # written[k][g]
      PROVE  Writes(p) /\ k = p.to /\ g = f /\ written'[k][g] = Count(written[k][g])
  BY <1>1, <1>3 DEF OnPeerInput, TypeOK, Packet
<1>4. ASSUME NEW q \in net', q \notin net
      PROVE  ~Stops(p) /\ q.fid = f /\ q.dst = p.dst
  BY <1>4, InputSends
<1>5. ASSUME NEW q \in net', ~IsKeep(q), q.dst # Bcast
      PROVE  /\ \A k \in Nodes : written'[k][q.fid] = 0
             /\ \A r \in net' : r.fid = q.fid => r = q
  <2>1. CASE q \in net
    <3>1. q.fid \in 1..MaxFrames
      BY <1>5, <2>1, BoundsAssumption DEF TypeOK, Packet, IsKeep
    <3>2. /\ \A k \in Nodes : written[k][q.fid] = 0
          /\ \A r \in net : r.fid = q.fid => r = q
      BY <1>5, <2>1 DEF UnicastInv, OneCopy
    <3>3. q.fid # f
      BY <1>2, <3>2
    <3> QED
      BY <1>3, <1>4, <3>1, <3>2, <3>3
  <2>2. CASE q \notin net
    <3>1. ~Stops(p) /\ q.fid = f /\ p.dst # Bcast /\ ~IsKeep(p)
      BY <1>4, <1>5, <2>2 DEF Stops
    <3>2. ~Writes(p)
      BY <3>1 DEF Writes, Stops
    <3>3. /\ \A k \in Nodes : written[k][f] = 0
          /\ \A r \in net : r.fid = f => r = p
      BY <3>1 DEF UnicastInv, OneCopy
    <3>4. f \in 1..MaxFrames
      BY <1>1, <3>1, BoundsAssumption DEF Packet, IsKeep
    <3>5. \A k \in Nodes : written'[k][f] = 0
      BY <1>3, <3>2, <3>3, <3>4
    <3>6. \A r \in net' : r.fid = f => r = q
      BY <1>2, <2>2, <3>1, <3>3, InputSendsOnce
    <3> QED
      BY <3>1, <3>5, <3>6
  <2> QED
    BY <2>1, <2>2
<1>6. ASSUME NEW k \in Nodes, NEW g \in 1..MaxFrames, g <= Len(frames), frames[g].dst # Bcast
      PROVE  written'[k][g] <= 1
  <2>1. CASE written'[k][g] = written[k][g]
    BY <1>6, <2>1 DEF UnicastInv, UnicastOnce
  <2>2. CASE written'[k][g] # written[k][g]
    <3>1. Writes(p) /\ g = f /\ written'[k][g] = Count(written[k][g])
      BY <1>3, <2>2
    <3>2. ~IsKeep(p) /\ p.dst # Bcast
      <4>1. ~IsKeep(p)
        BY <3>1 DEF Writes
      <4>2. frames[f] = [src |-> p.src, dst |-> p.dst]
        BY <4>1 DEF UnicastInv, Carried
      <4> QED
        BY <1>6, <3>1, <4>1, <4>2
    <3>3. written[k][g] = 0
      BY <3>1, <3>2 DEF UnicastInv, OneCopy
    <3> QED
      BY <3>1, <3>3 DEF Count
  <2> QED
    BY <2>1, <2>2
<1> QED
  BY <1>1, <1>5, <1>6 DEF OneCopy, UnicastOnce, IsKeep

LEMMA StepUnicast ==
    ASSUME TypeOK, UnicastInv, "dup" \notin Faults, [Next]_vars
    PROVE  UnicastInv'
<1>1. Carried' /\ OnlyAddressed'
  BY StepCarries DEF UnicastInv
<1>2. ASSUME NEW n \in Nodes, NEW dst \in Keys \ {n}, PollInterface(n, dst)
      PROVE  UnicastInv'
  BY <1>1, <1>2, PollUnicast DEF UnicastInv
<1>3. ASSUME NEW p \in net, OnPeerInput(p)
      PROVE  UnicastInv'
  BY <1>1, <1>3, InputUnicast DEF UnicastInv
<1>4. ASSUME NEW n \in Nodes, KeepAlive(n)
      PROVE  UnicastInv'
  <2>1. \A q \in net' : q \in net \/ IsKeep(q)
    BY <1>4, KeepAliveSends DEF IsKeep
  <2> QED
    BY <1>4, <2>1, QuietStepUnicast DEF KeepAlive
<1>5. CASE net' \subseteq net /\ UNCHANGED <<frames, written>>
  BY <1>5, QuietStepUnicast
<1> QED
  BY <1>2, <1>3, <1>4, <1>5 DEF Next, RemovePeer, Restart, Lose, vars

(* In every network that duplicates no datagram, a frame for one node is   *)
(* handed over at most once: only broadcasts multiply.                     *)
THEOREM UnicastHandedOnce ==
    ASSUME "dup" \notin Faults
    PROVE  Spec => []UnicastOnce
<1>1. TypeOK /\ UnicastInv /\ [Next]_vars => UnicastInv'
  BY StepUnicast
<1>2. UnicastInv => UnicastOnce
  BY DEF UnicastInv
<1> QED
  BY <1>1, <1>2, InitUnicast, TypeCorrect, PTL DEF Spec
=============================================================================

---------------------------- MODULE MacMapProofs ----------------------------
(***************************************************************************)
(* Theorems of module MacMap, for every set of MAC addresses, socket       *)
(* addresses and ttls, every timeout and every core peer.                  *)
(***************************************************************************)
EXTENDS MacMap, TLAPS

(* The table has its type in every reachable state.                        *)
THEOREM TypeCorrect == Spec => []TypeOK
<1> USE KeysAssumption, AddrsAssumption, TtlsAssumption, TimeoutAssumption
        DEF KeysAssumption, AddrsAssumption, TtlsAssumption, TimeoutAssumption
<1>1. Init => TypeOK
  <2> SUFFICES ASSUME Init PROVE TypeOK
    OBVIOUS
  <2> DEFINE E == [sock : Addrs \cup {CorePeer, Unset}, ttl : 0..255]
  <2>1. NoPeer \in E /\ [sock |-> CorePeer, ttl |-> SendTtl] \in E
    BY DEF NoPeer
  <2>2. macMap \in [Keys -> E]
    BY <2>1 DEF Init
  <2> QED
    <3>1. age \in [Keys -> Ages]
      BY DEF Init, Ages
    <3> QED
      BY <2>2, <3>1 DEF E, Init, TypeOK
<1>2. TypeOK /\ [Next]_vars => TypeOK'
  <2> SUFFICES ASSUME TypeOK, [Next]_vars PROVE TypeOK'
    OBVIOUS
  <2> USE DEF TypeOK, Keys, Ages
  <2>1. ASSUME NEW m \in Macs, NEW a \in Addrs, NEW t \in Ttls, AddMacPeer(m, a, t)
        PROVE  TypeOK'
    <3>1. t \in 0..255
      OBVIOUS
    <3>2. Learned(macMap[m], a, t) \in [sock : Addrs \cup {CorePeer, Unset}, ttl : 0..255]
      BY <3>1 DEF Learned
    <3>3. macMap' \in [Keys -> [sock : Addrs \cup {CorePeer, Unset}, ttl : 0..255]]
      BY <2>1, <3>2 DEF AddMacPeer
    <3>4. age' \in [Keys -> Ages]
      BY <2>1 DEF AddMacPeer
    <3>5. heard' \in [Macs -> Addrs \cup {Unset}]
      BY <2>1 DEF AddMacPeer
    <3> QED
      <4>1. due' = due /\ verdicts' = verdicts
        BY <2>1 DEF AddMacPeer
      <4> QED
        BY <3>3, <3>4, <3>5, <4>1
  <2>2. CASE Tick
    BY <2>2 DEF Tick, Older
  <2>3. CASE CheckMac
    <3>1. \A m \in Keys : [mac |-> m, time |-> age[m]] \in Verdict
      BY DEF Verdict
    <3>2. verdicts' \subseteq Verdict
      BY <2>3, <3>1 DEF CheckMac
    <3>3. due' = FALSE /\ UNCHANGED <<macMap, age, heard>>
      BY <2>3 DEF CheckMac
    <3> QED
      BY <3>2, <3>3
  <2>4. ASSUME NEW v \in verdicts, RunTask(v)
        PROVE  TypeOK'
    <3>1. NoPeer \in [sock : Addrs \cup {CorePeer, Unset}, ttl : 0..255]
      BY DEF NoPeer
    <3>2. CASE ~Expired(v)
      BY <2>4, <3>2 DEF RunTask
    <3>3. CASE Expired(v)
      <4>1. macMap' = [macMap EXCEPT ![v.mac] = NoPeer] /\ age' = [age EXCEPT ![v.mac] = 0]
        BY <2>4, <3>3 DEF RunTask
      <4>2. macMap' \in [Keys -> [sock : Addrs \cup {CorePeer, Unset}, ttl : 0..255]]
        BY <3>1, <4>1
      <4>3. 0 \in Ages
        OBVIOUS
      <4>4. age' \in [Keys -> Ages]
        BY <4>1, <4>3
      <4> QED
        BY <2>4, <4>2, <4>4 DEF RunTask
    <3> QED
      BY <3>2, <3>3
  <2>5. CASE UNCHANGED vars
    BY <2>5 DEF vars
  <2> QED
    BY <2>1, <2>2, <2>3, <2>4, <2>5 DEF Next
<1>3. QED
  BY <1>1, <1>2, PTL DEF Spec

(* An entry without an address is as good as none: it has no ttl a path    *)
(* would be measured against.  This, with the types, is what a step needs  *)
(* to be one of RouteTable.                                                *)
Filled ==
    \A m \in Keys : macMap[m].sock = Unset => macMap[m] = NoPeer

(* Entries are filled in or removed as a whole. *)
LEMMA AlwaysFilled == Spec => []Filled
<1>1. Init => Filled
  BY AddrsAssumption DEF Init, Filled
<1>2. TypeOK /\ TypeOK' /\ Filled /\ [Next]_vars => Filled'
  <2> SUFFICES ASSUME TypeOK, Filled, [Next]_vars PROVE Filled'
    OBVIOUS
  <2> USE AddrsAssumption DEF TypeOK, Filled
  <2>1. ASSUME NEW m \in Macs, NEW a \in Addrs, NEW t \in Ttls, AddMacPeer(m, a, t)
        PROVE  Filled'
    BY <2>1 DEF AddMacPeer, Learned, Keys
  <2>2. CASE Tick
    BY <2>2 DEF Tick
  <2>3. CASE CheckMac
    BY <2>3 DEF CheckMac
  <2>4. ASSUME NEW v \in verdicts, RunTask(v)
        PROVE  Filled'
    BY <2>4 DEF RunTask
  <2>5. CASE UNCHANGED vars
    BY <2>5 DEF vars
  <2> QED
    BY <2>1, <2>2, <2>3, <2>4, <2>5 DEF Next
<1>3. QED
  BY <1>1, <1>2, TypeCorrect, PTL DEF Spec

(* The table and its check implement the abstract route table: no path is  *)
(* exchanged for a longer one, and the core peer's entry never changes.    *)
THEOREM RefinesRouteTable == Spec => RouteTableSpec
<1> USE KeysAssumption, AddrsAssumption
<1>1. Init => RT!Init
  BY DEF Init, RT!Init, RT!NoRoute, NoPeer, Keys
<1>2. TypeOK /\ Filled /\ [Next]_vars => [RT!Next]_macMap
  <2> SUFFICES ASSUME TypeOK, Filled, [Next]_vars, macMap' # macMap
               PROVE  RT!Next
    BY DEF TypeOK
  <2>1. ASSUME NEW m \in Macs, NEW a \in Addrs, NEW t \in Ttls, AddMacPeer(m, a, t)
        PROVE  RT!Next
    <3>1. m \in Keys /\ macMap \in [Keys -> [sock : Addrs \cup {CorePeer, Unset}, ttl : 0..255]]
      BY DEF Keys, TypeOK
    <3>2. Replaces(macMap[m], a, t)
      BY <2>1, <3>1 DEF AddMacPeer, Learned
    <3>3. t \in Nat /\ macMap[m].ttl \in Nat
      BY <3>1, TtlsAssumption
    <3>4. macMap' = [macMap EXCEPT ![m] = [sock |-> a, ttl |-> t]]
      BY <2>1, <3>2 DEF AddMacPeer, Learned
    <3>5. RT!Exchange(m, a, t)
      BY <3>2, <3>3, <3>4 DEF Replaces, RT!Exchange
    <3> QED
      BY <3>5 DEF RT!Next
  <2>2. CASE Tick
    BY <2>2 DEF Tick
  <2>3. CASE CheckMac
    BY <2>3 DEF CheckMac
  <2>4. ASSUME NEW v \in verdicts, RunTask(v)
        PROVE  RT!Next
    <3>1. Expired(v)
      BY <2>4 DEF RunTask
    <3>2. v.mac \in Macs
      BY <3>1 DEF Expired, TypeOK, Verdict, Keys
    <3>3. RT!Forget(v.mac)
      BY <2>4, <3>1 DEF RunTask, RT!Forget, RT!NoRoute, NoPeer
    <3> QED
      BY <3>2, <3>3 DEF RT!Next
  <2>5. CASE UNCHANGED vars
    BY <2>5 DEF vars
  <2> QED
    BY <2>1, <2>2, <2>3, <2>4, <2>5 DEF Next
<1>3. QED
  BY <1>1, <1>2, TypeCorrect, AlwaysFilled, PTL DEF Spec, RouteTableSpec, RT!Spec
=============================================================================

------------------------ MODULE SendBroadcastProofs ------------------------
(***************************************************************************)
(* Theorems of module SendBroadcast, for every table, every source and     *)
(* every order of the tasks.  compareSockAddr finds every pair of forms    *)
(* that is one endpoint, so that no endpoint is sent two copies; it takes  *)
(* some addresses for one that are two, so that an endpoint may be left    *)
(* out, and only those.                                                    *)
(***************************************************************************)
EXTENDS SendBroadcast, TLAPS

Addrs == V4 \cup V6

(* The types of an address, by its form. *)
LEMMA Forms ==
    ASSUME NEW addr \in Addrs
    PROVE  /\ addr # NoFamily
           /\ \/ /\ addr.family = "inet" /\ ~V4Mapped(addr) /\ Endpoint(addr) = addr
                 /\ addr = Inet(addr.ip[1], addr.port)
              \/ /\ addr.family = "inet6" /\ V4Mapped(addr)
                 /\ Endpoint(addr) = Inet(addr.ip[4], addr.port)
                 /\ addr = Mapped(addr.ip[4], addr.port)
              \/ /\ addr.family = "inet6" /\ ~V4Mapped(addr) /\ Endpoint(addr) = addr
<1>1. CASE addr \in V4
  <2>1. addr.family = "inet" /\ addr.ip \in [1..1 -> Words]
    BY <1>1 DEF V4
  <2>2. addr.ip = <<addr.ip[1]>>
    BY <2>1
  <2>3. addr = [family |-> addr.family, ip |-> addr.ip, port |-> addr.port]
    BY <1>1 DEF V4
  <2>4. addr = Inet(addr.ip[1], addr.port)
    BY <2>1, <2>2, <2>3 DEF Inet
  <2> QED
    BY <2>1, <2>4 DEF V4Mapped, Endpoint, NoFamily
<1>2. CASE addr \in V6
  <2>1. addr.family = "inet6" /\ addr.ip \in [1..4 -> Words]
    BY <1>2 DEF V6
  <2>2. addr = [family |-> addr.family, ip |-> addr.ip, port |-> addr.port]
    BY <1>2 DEF V6
  <2>3. ASSUME V4Mapped(addr) PROVE addr = Mapped(addr.ip[4], addr.port)
    <3>1. addr.ip = <<0, 0, FFFF, addr.ip[4]>>
      BY <2>1, <2>3 DEF V4Mapped
    <3> QED
      BY <2>1, <2>2, <3>1 DEF Mapped
  <2> QED
    BY <2>1, <2>3 DEF V4Mapped, Endpoint, NoFamily
<1> QED
  BY <1>1, <1>2 DEF Addrs

(* compareSockAddr is the equality of endpoints, but for these.            *)
LEMMA Comparison ==
    ASSUME NEW addr1 \in Addrs, NEW addr2 \in Addrs
    PROVE  /\ SameEndpoint(addr1, addr2) => compareSockAddr(addr1, addr2)
           /\ compareSockAddr(addr1, addr2) =>
                \/ SameEndpoint(addr1, addr2)
                \/ Confused(addr1, addr2) \/ Confused(addr2, addr1)
<1> DEFINE inet(a) == /\ a.family = "inet" /\ ~V4Mapped(a) /\ Endpoint(a) = a
                      /\ a = Inet(a.ip[1], a.port)
           mapped(a) == /\ a.family = "inet6" /\ V4Mapped(a)
                        /\ Endpoint(a) = Inet(a.ip[4], a.port)
                        /\ a = Mapped(a.ip[4], a.port)
           native(a) == a.family = "inet6" /\ ~V4Mapped(a) /\ Endpoint(a) = a
           same == SameEndpoint(addr1, addr2)
           found == compareSockAddr(addr1, addr2)
<1>1. (inet(addr1) \/ mapped(addr1) \/ native(addr1)) /\ addr1 # NoFamily
  BY Forms
<1>2. (inet(addr2) \/ mapped(addr2) \/ native(addr2)) /\ addr2 # NoFamily
  BY Forms
<1>3. same <=> Endpoint(addr1) = Endpoint(addr2)
  BY <1>1 DEF SameEndpoint
<1>4. \A v, w, x, y : /\ Inet(v, x) = Inet(w, y) <=> v = w /\ x = y
                      /\ Inet(v, x).family = "inet"
  BY DEF Inet
<1>5. CASE inet(addr1) /\ inet(addr2)
  <2>1. found <=> addr1.ip = addr2.ip /\ addr1.port = addr2.port
    BY <1>5 DEF compareSockAddr
  <2>2. addr1.ip = <<addr1.ip[1]>> /\ addr2.ip = <<addr2.ip[1]>>
    BY <1>5 DEF Inet
  <2> QED
    BY <1>3, <1>4, <1>5, <2>1, <2>2
<1>6. CASE inet(addr1) /\ mapped(addr2)
  <2>1. found <=> addr1.ip[1] = addr2.ip[4] /\ addr1.port = addr2.port
    BY <1>6 DEF compareSockAddr
  <2> QED
    BY <1>3, <1>4, <1>6, <2>1
<1>7. CASE mapped(addr1) /\ inet(addr2)
  <2>1. found <=> addr1.ip[4] = addr2.ip[1] /\ addr1.port = addr2.port
    BY <1>7 DEF compareSockAddr
  <2> QED
    BY <1>3, <1>4, <1>7, <2>1
<1>8. CASE (inet(addr1) /\ native(addr2)) \/ (native(addr1) /\ inet(addr2))
  <2>1. ~found
    BY <1>8 DEF compareSockAddr
  <2>2. ~same
    BY <1>3, <1>8
  <2> QED
    BY <2>1, <2>2
<1>9. CASE mapped(addr1) /\ mapped(addr2)
  <2>1. found <=> addr1.ip = addr2.ip /\ addr1.port = addr2.port
    BY <1>9 DEF compareSockAddr
  <2>2. /\ addr1.ip = <<0, 0, FFFF, addr1.ip[4]>>
        /\ addr2.ip = <<0, 0, FFFF, addr2.ip[4]>>
    BY <1>9 DEF Mapped
  <2>3. addr1.ip = addr2.ip <=> addr1.ip[4] = addr2.ip[4]
    BY <2>2
  <2> QED
    BY <1>3, <1>4, <1>9, <2>1, <2>3
<1>10. CASE mapped(addr1) /\ native(addr2)
  <2>1. found => Confused(addr1, addr2)
    BY <1>10 DEF compareSockAddr, Confused
  <2>2. ~same
    BY <1>3, <1>4, <1>10
  <2> QED
    BY <2>1, <2>2
<1>11. CASE native(addr1) /\ mapped(addr2)
  <2>1. found => Confused(addr2, addr1)
    BY <1>11 DEF compareSockAddr, Confused
  <2>2. ~same
    BY <1>3, <1>4, <1>11
  <2> QED
    BY <2>1, <2>2
<1>12. CASE native(addr1) /\ native(addr2)
  <2>1. found <=> addr1.ip = addr2.ip /\ addr1.port = addr2.port
    BY <1>12 DEF compareSockAddr
  <2>2. /\ addr1 = [family |-> "inet6", ip |-> addr1.ip, port |-> addr1.port]
        /\ addr2 = [family |-> "inet6", ip |-> addr2.ip, port |-> addr2.port]
    BY <1>12 DEF Addrs, V4, V6
  <2>3. addr1 = addr2 <=> addr1.ip = addr2.ip /\ addr1.port = addr2.port
    BY <2>2
  <2> QED
    BY <1>3, <1>12, <2>1, <2>3
<1> HIDE DEF inet, mapped, native
<1> QED
  BY <1>1, <1>2, <1>5, <1>6, <1>7, <1>8, <1>9, <1>10, <1>11, <1>12
-----------------------------------------------------------------------------

(* What the tasks remember are the addresses that were sent a copy.        *)
Remembered ==
    /\ pktRecvPeer \in Addrs \cup {NoFamily}
    /\ posted \subseteq Task
    /\ \A x \in copies : x.task.addr \in Addrs
    /\ sendPeers = {x.task.addr : x \in copies}

Inv == Remembered /\ OneCopyEach /\ NoEcho

LEMMA TaskAddress ==
    ASSUME NEW t \in Task
    PROVE  t.addr \in Addrs
  BY AddressesAssumption DEF Task, Addrs

(* Where a frame came from may be nowhere, which no address equals.        *)
LEMMA SourceComparison ==
    ASSUME NEW addr \in Addrs, NEW source \in Addrs \cup {NoFamily}
    PROVE  /\ SameEndpoint(addr, source) => compareSockAddr(source, addr)
           /\ compareSockAddr(source, addr) =>
                \/ SameEndpoint(addr, source)
                \/ Confused(source, addr) \/ Confused(addr, source)
<1>1. addr # NoFamily
  BY Forms
<1>2. CASE source = NoFamily
  <2>1. source.family = "unspec" /\ ~V4Mapped(source) /\ Endpoint(source) = source
    BY <1>2 DEF NoFamily, V4Mapped, Endpoint
  <2>2. ~compareSockAddr(source, addr)
    BY <2>1 DEF compareSockAddr
  <2>3. Endpoint(addr).family # "unspec"
    BY Forms DEF Inet
  <2> QED
    BY <2>1, <2>2, <2>3 DEF SameEndpoint
<1>3. CASE source \in Addrs /\ source # NoFamily
  BY <1>1, <1>3, Comparison DEF SameEndpoint
<1> QED
  BY <1>2, <1>3, Forms

(* One task keeps the invariant: its address is no endpoint that was sent  *)
(* a copy, and not the source's.                                           *)
LEMMA TaskKeepsInv ==
    ASSUME Inv, NEW t \in posted, RunTask(t)
    PROVE  Inv'
<1> DEFINE new == [task |-> t, ttl |-> CopyTtl(t)]
<1>1. t \in Task /\ t.addr \in Addrs
  BY TaskAddress DEF Inv, Remembered
<1>2. pktRecvPeer' = pktRecvPeer /\ posted' \subseteq posted
  BY DEF RunTask
<1>3. CASE Served(t) \/ FromSource(t)
  <2>1. sendPeers' = sendPeers /\ copies' = copies
    BY <1>3 DEF RunTask
  <2> QED
    BY <1>2, <2>1 DEF Inv, Remembered, OneCopyEach, NoEcho
<1>4. CASE ~Served(t) /\ ~FromSource(t)
  <2>1. sendPeers' = sendPeers \cup {t.addr} /\ copies' = copies \cup {new}
    BY <1>4 DEF RunTask
  <2> HIDE DEF new
  <2>2. new.task = t
    BY DEF new
  <2>3. Remembered'
    BY <1>1, <1>2, <2>1, <2>2 DEF Inv, Remembered
  <2>4. ~SameEndpoint(t.addr, pktRecvPeer)
    BY <1>1, <1>4, SourceComparison DEF FromSource, Inv, Remembered
  <2>5. NoEcho'
    BY <1>2, <2>1, <2>2, <2>4 DEF Inv, NoEcho
  <2>6. ASSUME NEW x \in copies
        PROVE  ~SameEndpoint(t.addr, x.task.addr) /\ ~SameEndpoint(x.task.addr, t.addr)
    <3>1. x.task.addr \in Addrs /\ x.task.addr \in sendPeers
      BY DEF Inv, Remembered
    <3>2. ~SameEndpoint(t.addr, x.task.addr)
      BY <1>1, <1>4, <3>1, Comparison DEF Served
    <3> QED
      BY <1>1, <3>1, <3>2, Forms DEF SameEndpoint
  <2>7. OneCopyEach'
    BY <2>1, <2>2, <2>6 DEF Inv, OneCopyEach
  <2> QED
    BY <2>3, <2>5, <2>7 DEF Inv
<1> QED
  BY <1>3, <1>4

LEMMA InitInv == Init => Inv
<1> SUFFICES ASSUME Init PROVE Inv
  OBVIOUS
<1>1. posted \subseteq Task
  BY DEF Init, Task, Keys
<1>2. pktRecvPeer \in Addrs \cup {NoFamily}
  BY AddressesAssumption DEF Init, Addrs
<1> QED
  BY <1>1, <1>2 DEF Init, Inv, Remembered, OneCopyEach, NoEcho

THEOREM Invariance == Spec => []Inv
<1>1. Inv /\ [Next]_vars => Inv'
  <2> SUFFICES ASSUME Inv, [Next]_vars PROVE Inv'
    OBVIOUS
  <2>1. CASE Next
    BY <2>1, TaskKeepsInv DEF Next
  <2>2. CASE UNCHANGED vars
    BY <2>2 DEF vars, Inv, Remembered, OneCopyEach, NoEcho
  <2> QED
    BY <2>1, <2>2
<1> QED
  BY InitInv, <1>1, PTL DEF Spec

(* Whatever the table holds and in whatever order sendBroadcast's tasks    *)
(* run, no endpoint is sent two copies of the frame, in either form.       *)
THEOREM NoSecondCopy == Spec => []OneCopyEach
<1>1. Inv => OneCopyEach
  BY DEF Inv
<1> QED
  BY <1>1, Invariance, PTL

(* Nor is the endpoint the frame came from sent one.                       *)
THEOREM NoCopyBack == Spec => []NoEcho
<1>1. Inv => NoEcho
  BY DEF Inv
<1> QED
  BY <1>1, Invariance, PTL

(* Without such addresses a task sends nothing only if its endpoint was    *)
(* sent a copy or is the sender's: nobody is left out.                     *)
THEOREM EveryoneServed ==
    ASSUME Distinguished
    PROVE  Spec => NoneLeftOut
<1> DEFINE A(t) == \/ SameEndpoint(t.addr, pktRecvPeer)
                   \/ \E x \in copies' : SameEndpoint(x.task.addr, t.addr)
<1> DEFINE Known == /\ pktRecvPeer \in Addresses \cup {NoFamily}
                    /\ sendPeers \subseteq Core \cup Addresses
<1>1. Init => Known
  BY DEF Init
<1>2. Inv /\ Known /\ [Next]_vars => Known'
  <2> SUFFICES ASSUME Inv, Known, [Next]_vars PROVE Known'
    OBVIOUS
  <2>1. ASSUME NEW t \in posted, RunTask(t) PROVE Known'
    <3>1. t.addr \in Core \cup Addresses
      BY DEF Inv, Remembered, Task
    <3> QED
      BY <2>1, <3>1 DEF RunTask
  <2> QED
    BY <2>1 DEF Next, vars
<1>3. ASSUME Inv, Known, Inv', Next, NEW t \in posted \ posted'
      PROVE  A(t)
  <2>1. RunTask(t)
    <3>1. PICK u \in posted : RunTask(u)
      BY <1>3 DEF Next
    <3>2. posted' = posted \ {u}
      BY <3>1 DEF RunTask
    <3> QED
      BY <3>1, <3>2
  <2>2. t \in Task /\ t.addr \in Addrs /\ t.addr \in Core \cup Addresses
    BY <1>3, TaskAddress DEF Inv, Remembered, Task
  <2>3. CASE FromSource(t)
    <3>1. compareSockAddr(pktRecvPeer, t.addr) /\ pktRecvPeer \in Addrs \cup {NoFamily}
      BY <1>3, <2>3 DEF FromSource, Inv, Remembered
    <3>2. ~Confused(pktRecvPeer, t.addr) /\ ~Confused(t.addr, pktRecvPeer)
      <4>1. CASE pktRecvPeer = NoFamily
        BY <4>1 DEF Confused, NoFamily, V4Mapped
      <4>2. CASE pktRecvPeer \in Addresses
        BY <1>3, <2>2, <4>2 DEF Distinguished
      <4> QED
        BY <1>3, <4>1, <4>2
    <3> QED
      BY <2>2, <3>1, <3>2, SourceComparison
  <2>4. CASE Served(t)
    <3>1. PICK addr \in sendPeers : compareSockAddr(t.addr, addr)
      BY <2>4 DEF Served
    <3>2. addr \in Addrs /\ addr \in Core \cup Addresses
      BY <1>3 DEF Inv, Remembered
    <3>3. SameEndpoint(t.addr, addr)
      BY <1>3, <2>2, <3>1, <3>2, Comparison DEF Distinguished
    <3>4. SameEndpoint(addr, t.addr)
      BY <2>2, <3>2, <3>3, Forms DEF SameEndpoint
    <3>5. PICK x \in copies : x.task.addr = addr
      BY <1>3 DEF Inv, Remembered
    <3>6. x \in copies'
      BY <2>1 DEF RunTask
    <3> QED
      BY <3>4, <3>5, <3>6
  <2>5. CASE ~FromSource(t) /\ ~Served(t)
    <3> DEFINE new == [task |-> t, ttl |-> CopyTtl(t)]
    <3>1. new \in copies' /\ new.task = t
      BY <2>1, <2>5 DEF RunTask
    <3>2. SameEndpoint(t.addr, t.addr)
      BY <2>2, Forms DEF SameEndpoint
    <3> QED
      BY <3>1, <3>2
  <2> QED
    BY <2>3, <2>4, <2>5
<1> HIDE DEF Known
<1>4. Inv /\ Inv' /\ Known /\ [Next]_vars => [\A t \in posted \ posted' : A(t)]_vars
  BY <1>3
<1>5. Spec => [][\A t \in posted \ posted' : A(t)]_vars
  BY <1>1, <1>2, <1>4, Invariance, PTL DEF Spec
<1> QED
  BY <1>5 DEF NoneLeftOut
=============================================================================

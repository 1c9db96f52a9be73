---------------------------- MODULE ArpMapProofs ----------------------------
(***************************************************************************)
(* Theorems about modules ThreadPool and ArpMap: every task of the pool    *)
(* has a permit, and the watch records the last sender of each address,    *)
(* whatever the addresses, the hosts and the length of the queue.  The     *)
(* lemmas about the pool hold for any number of threads.                   *)
(***************************************************************************)
EXTENDS ArpMap, FiniteSetTheorems, SequenceTheorems, TLAPS

PoolTypeOK ==
    /\ count \in Nat /\ posting \in BOOLEAN /\ closed \in BOOLEAN
    /\ at \in [Workers -> Places]

(* A worker ends only when the destructor has run.                         *)
NoneEnded == ~closed => \A w \in Workers : at[w] # "ended"

PoolInv == PoolTypeOK /\ NoneEnded /\ PermitsMatch

-----------------------------------------------------------------------------
(* The pool.                                                               *)
LEMMA Counts ==
  /\ IsFiniteSet(Holding) /\ Cardinality(Holding) \in Nat
  /\ IsFiniteSet(Alive) /\ Cardinality(Alive) \in Nat
  /\ Cardinality(Workers) \in Nat
  /\ Cardinality({w \in Workers : at[w] = "running"}) \in Nat
<1>1. IsFiniteSet(Workers)
  BY WorkersAssumption
<1>2. \A T \in SUBSET Workers : IsFiniteSet(T) /\ Cardinality(T) \in Nat
  BY <1>1, FS_Subset, FS_CardinalityType
<1> QED
  BY <1>2 DEF Holding, Alive

(* A worker that moves is counted among those that hold a permit, and      *)
(* among those that have not ended, by where it moves to.                  *)
LEMMA Moves ==
  ASSUME at \in [Workers -> Places], NEW w \in Workers, NEW p \in Places,
         at' = [at EXCEPT ![w] = p]
  PROVE  /\ Cardinality(Holding') =
               CASE at[w] = "taking" /\ p # "taking" -> Cardinality(Holding) - 1
                 [] at[w] # "taking" /\ p = "taking" -> Cardinality(Holding) + 1
                 [] OTHER -> Cardinality(Holding)
         /\ Cardinality(Alive') =
               CASE at[w] # "ended" /\ p = "ended" -> Cardinality(Alive) - 1
                 [] at[w] = "ended" /\ p # "ended" -> Cardinality(Alive) + 1
                 [] OTHER -> Cardinality(Alive)
<1>1. Holding' = IF p = "taking" THEN Holding \cup {w} ELSE Holding \ {w}
  BY DEF Holding
<1>2. Alive' = IF p = "ended" THEN Alive \ {w} ELSE Alive \cup {w}
  BY DEF Alive
<1>3. w \in Holding <=> at[w] = "taking"
  BY DEF Holding
<1>4. w \in Alive <=> at[w] # "ended"
  BY DEF Alive
<1>5. /\ Cardinality(Holding \cup {w}) = IF w \in Holding THEN Cardinality(Holding)
                                                         ELSE Cardinality(Holding) + 1
      /\ Cardinality(Holding \ {w}) = IF w \in Holding THEN Cardinality(Holding) - 1
                                                      ELSE Cardinality(Holding)
  <2>1. IsFiniteSet(Holding)
    BY Counts
  <2> QED
    BY <2>1, FS_AddElement, FS_RemoveElement
<1>6. /\ Cardinality(Alive \cup {w}) = IF w \in Alive THEN Cardinality(Alive)
                                                     ELSE Cardinality(Alive) + 1
      /\ Cardinality(Alive \ {w}) = IF w \in Alive THEN Cardinality(Alive) - 1
                                                  ELSE Cardinality(Alive)
  <2>1. IsFiniteSet(Alive)
    BY Counts
  <2> QED
    BY <2>1, FS_AddElement, FS_RemoveElement
<1>7. Cardinality(Holding) \in Nat /\ Cardinality(Alive) \in Nat
  BY Counts
<1> QED
  BY <1>1, <1>2, <1>3, <1>4, <1>5, <1>6, <1>7

(* Permits given wake workers that wait, and no other.                     *)
LEMMA SemPostMoves ==
  ASSUME at \in [Workers -> Places], count \in Nat, NEW n \in Nat, SemPost(n)
  PROVE  /\ at' \in [Workers -> Places]
         /\ \A w \in Workers : at'[w] = at[w] \/ (at[w] = "waiting" /\ at'[w] = "ready")
         /\ count' = count + n /\ count' \in Nat
         /\ Holding' = Holding /\ Alive' = Alive
<1>1. PICK woken \in Notified(n) :
        at' = [w \in Workers |-> IF w \in woken THEN "ready" ELSE at[w]]
  BY DEF SemPost
<1>2. \A w \in woken : w \in Workers /\ at[w] = "waiting"
  BY DEF Notified
<1>3. at' \in [Workers -> Places]
  BY <1>1 DEF Places
<1>4. \A w \in Workers : at'[w] = at[w] \/ (at[w] = "waiting" /\ at'[w] = "ready")
  BY <1>1, <1>2
<1>5. Holding' = Holding /\ Alive' = Alive
  BY <1>4 DEF Holding, Alive
<1> QED
  BY <1>3, <1>4, <1>5 DEF SemPost

LEMMA Typing ==
  /\ {"ready", "waiting", "taking", "running", "ended"} = Places
  /\ PoolInv => at \in [Workers -> Places]
BY DEF PoolInv, PoolTypeOK, Places

LEMMA PoolInitOK == ASSUME PoolInit PROVE PoolInv
<1>1. Holding = {} /\ Cardinality(Holding) = 0
  BY FS_EmptySet DEF PoolInit, Holding
<1>2. /\ queue = <<>> /\ count = 0 /\ posting = FALSE /\ closed = FALSE
      /\ \A w \in Workers : at[w] = "ready"
  BY DEF PoolInit
<1>3. PoolTypeOK
  BY DEF PoolInit, PoolTypeOK, Places
<1>4. PermitsMatch
  BY <1>1, <1>2 DEF PermitsMatch
<1> QED
  BY <1>2, <1>3, <1>4 DEF PoolInv, NoneEnded

LEMMA PushKeeps ==
  ASSUME PoolInv, NEW S, queue \in Seq(S), NEW task \in S, Push(task)
  PROVE  PoolInv'
<1>1. Len(queue') = Len(queue) + 1 /\ Len(queue) \in Nat
  BY DEF Push
<1>2. Holding' = Holding /\ Alive' = Alive
  BY DEF Push, Holding, Alive
<1> QED
  BY <1>1, <1>2, Counts DEF Push, PoolInv, PoolTypeOK, NoneEnded, PermitsMatch

LEMMA PostKeeps ==
  ASSUME PoolInv, NEW S, queue \in Seq(S), Post
  PROVE  PoolInv'
<1>1. SemPost(1) /\ posting /\ ~posting' /\ UNCHANGED <<queue, closed>> /\ posting' \in BOOLEAN
  BY DEF Post
<1>2. /\ at' \in [Workers -> Places]
      /\ \A w \in Workers : at'[w] = at[w] \/ (at[w] = "waiting" /\ at'[w] = "ready")
      /\ count' = count + 1 /\ count' \in Nat
      /\ Holding' = Holding /\ Alive' = Alive
  BY <1>1, SemPostMoves DEF PoolInv, PoolTypeOK
<1>3. PermitsMatch'
  BY <1>1, <1>2, Counts DEF PoolInv, PoolTypeOK, PermitsMatch
<1> QED
  BY <1>1, <1>2, <1>3 DEF PoolInv, PoolTypeOK, NoneEnded

(* The destructor runs while no worker has ended: there are as many        *)
(* permits as workers alive.                                               *)
LEMMA CloseKeeps ==
  ASSUME PoolInv, NEW S, queue \in Seq(S), Close
  PROVE  PoolInv'
<1>1. SemPost(Cardinality(Workers)) /\ ~closed /\ closed' = TRUE /\ UNCHANGED <<queue, posting>>
  BY DEF Close, ExitPermits
<1>2. /\ at' \in [Workers -> Places]
      /\ count' = count + Cardinality(Workers) /\ count' \in Nat
      /\ Holding' = Holding /\ Alive' = Alive
  BY <1>1, SemPostMoves, Counts DEF PoolInv, PoolTypeOK
<1>3. Alive = Workers
  BY <1>1 DEF PoolInv, NoneEnded, Alive
<1>4. PermitsMatch'
  BY <1>1, <1>2, <1>3, Counts DEF PoolInv, PoolTypeOK, PermitsMatch
<1> QED
  BY <1>1, <1>2, <1>4 DEF PoolInv, PoolTypeOK, NoneEnded

LEMMA WaitKeeps ==
  ASSUME PoolInv, NEW S, queue \in Seq(S), NEW w \in Workers, Wait(w)
  PROVE  PoolInv'
<1>1. UNCHANGED <<queue, posting, closed>> /\ at[w] = "ready"
  BY DEF Wait
<1>2. CASE count = 0
  <2>1. at' = [at EXCEPT ![w] = "waiting"] /\ count' = count
    BY <1>2 DEF Wait
  <2>2. Cardinality(Holding') = Cardinality(Holding) /\ Cardinality(Alive') = Cardinality(Alive)
    BY <1>1, <2>1, Typing, Moves
  <2> QED
    BY <1>1, <2>1, <2>2 DEF PoolInv, PoolTypeOK, NoneEnded, PermitsMatch, Places
<1>3. CASE count # 0
  <2>1. at' = [at EXCEPT ![w] = "taking"] /\ count' = count - 1
    BY <1>3 DEF Wait
  <2>2. Cardinality(Holding') = Cardinality(Holding) + 1 /\ Cardinality(Alive') = Cardinality(Alive)
    BY <1>1, <2>1, Typing, Moves
  <2>3. PoolTypeOK'
    BY <1>1, <1>3, <2>1 DEF PoolInv, PoolTypeOK, Places
  <2>4. PermitsMatch'
    <3>1. /\ count' + Cardinality(Holding)' = count + Cardinality(Holding)
          /\ Cardinality(Alive)' = Cardinality(Alive)
          /\ count' \in Nat /\ Cardinality(Holding)' \in Nat
      BY <1>3, <2>1, <2>2, Counts DEF PoolInv, PoolTypeOK
    <3> QED
      BY <1>1, <3>1, Counts DEF PoolInv, PoolTypeOK, PermitsMatch
  <2> QED
    BY <1>1, <2>1, <2>3, <2>4 DEF PoolInv, NoneEnded
<1> QED
  BY <1>2, <1>3

(* A worker that finds no task holds a permit all the same, so that the    *)
(* destructor has run.                                                     *)
LEMMA TakeKeeps ==
  ASSUME PoolInv, NEW S, queue \in Seq(S), NEW w \in Workers, Take(w)
  PROVE  PoolInv'
<1>1. UNCHANGED <<count, posting, closed>> /\ at[w] = "taking"
  BY DEF Take
<1>2. w \in Holding /\ w \in Alive
  BY <1>1 DEF Holding, Alive
<1>3. Cardinality(Holding) > 0
  BY <1>2, Counts, FS_EmptySet
<1>4. CASE queue = <<>>
  <2>1. at' = [at EXCEPT ![w] = "ended"] /\ queue' = <<>>
    BY <1>4 DEF Take
  <2>2. Cardinality(Holding') = Cardinality(Holding) - 1 /\ Cardinality(Alive') = Cardinality(Alive) - 1
    BY <1>1, <2>1, Typing, Moves
  <2>3. closed
    BY <1>3, <1>4, Counts DEF PoolInv, PoolTypeOK, PermitsMatch
  <2> QED
    BY <1>1, <1>4, <2>1, <2>2, <2>3, Counts DEF PoolInv, PoolTypeOK, NoneEnded, PermitsMatch, Places
<1>5. CASE queue # <<>>
  <2>1. at' = [at EXCEPT ![w] = "running"] /\ queue' = Tail(queue)
    BY <1>5 DEF Take
  <2>2. Cardinality(Holding') = Cardinality(Holding) - 1 /\ Cardinality(Alive') = Cardinality(Alive)
    BY <1>1, <2>1, Typing, Moves
  <2>3. Len(queue') = Len(queue) - 1 /\ Len(queue) \in Nat
    BY <1>5, <2>1, HeadTailProperties, LenProperties
  <2>4. PoolTypeOK'
    BY <1>1, <2>1 DEF PoolInv, PoolTypeOK, Places
  <2>5. PermitsMatch'
    <3>1. /\ Len(queue)' = Len(queue) - 1 /\ Len(queue) \in Nat
          /\ Cardinality(Holding)' = Cardinality(Holding) - 1
          /\ Cardinality(Alive)' = Cardinality(Alive)
      BY <2>2, <2>3
    <3>2. count' = count /\ posting' = posting /\ closed' = closed /\ count \in Nat
      BY <1>1 DEF PoolInv, PoolTypeOK
    <3>3. Cardinality(Holding) \in Nat /\ Cardinality(Alive) \in Nat
      BY Counts
    <3> QED
      BY <3>1, <3>2, <3>3 DEF PoolInv, PoolTypeOK, PermitsMatch
  <2> QED
    BY <1>1, <2>1, <2>4, <2>5 DEF PoolInv, NoneEnded
<1> QED
  BY <1>4, <1>5

LEMMA FinishKeeps ==
  ASSUME PoolInv, NEW S, queue \in Seq(S), NEW w \in Workers, Finish(w)
  PROVE  PoolInv'
<1>1. at' = [at EXCEPT ![w] = "ready"] /\ UNCHANGED <<queue, count, posting, closed>> /\ at[w] = "running"
  BY DEF Finish
<1>2. Cardinality(Holding') = Cardinality(Holding) /\ Cardinality(Alive') = Cardinality(Alive)
  BY <1>1, Typing, Moves
<1> QED
  BY <1>1, <1>2 DEF PoolInv, PoolTypeOK, NoneEnded, PermitsMatch, Places

-----------------------------------------------------------------------------
(* The watch.                                                              *)

(* What the watch can hear: an ARP frame whose sender has its own address, *)
(* or a probe, of which neither sender nor target is a valid binding.      *)
Heard(f) ==
    /\ f \in Frame
    /\ IsArp(f) => \/ f.senderIP \in Ips /\ f.senderMAC \in Macs
                   \/ f.senderIP = None /\ f.targetMAC = None

AllHeard ==
    /\ queue \in Seq({f \in Frame : Heard(f)}) /\ Len(queue) <= MaxTasks
    /\ job \in [Workers -> Frame \cup {Idle}]
    /\ \A w \in Workers : IF at[w] = "running" THEN Heard(job[w]) ELSE job[w] = Idle

(* Nothing is recorded for the addresses of nobody, which probes send, and *)
(* no host is.                                                             *)
NobodyRecorded ==
    \A ip \in AnyIp : arpMap[ip] # None => ip \in Ips /\ arpMap[ip] \in Macs

Bindings ==
    /\ arpMap \in [AnyIp -> AnyMac]
    /\ owner \in [Ips -> Macs]
    /\ announced \in [Ips -> Macs \cup {None}]
    /\ NobodyRecorded

Inv == PoolInv /\ AllHeard /\ Bindings

LEMMA FramesHeard == ASSUME owner \in [Ips -> Macs] PROVE \A f \in Frames : Heard(f)
<1>0. ASSUME NEW f \in Frames
      PROVE  \/ \E ip, target \in Ips : f = Request(ip, target) \/ f = Response(ip, target)
             \/ \E mac \in Macs, target \in Ips : f = Probe(mac, target)
             \/ \E ip \in Ips : f = Other(ip, ip)
  BY DEF Frames
<1> USE DEF Heard, Frame, IsArp, AnyIp, AnyMac
<1>1. ASSUME NEW ip \in Ips, NEW target \in Ips PROVE Heard(Request(ip, target))
  BY DEF Request
<1>2. ASSUME NEW ip \in Ips, NEW target \in Ips PROVE Heard(Response(ip, target))
  BY DEF Response, Request
<1>3. ASSUME NEW mac \in Macs, NEW target \in Ips PROVE Heard(Probe(mac, target))
  BY DEF Probe
<1>4. ASSUME NEW ip \in Ips PROVE Heard(Other(ip, ip))
  BY DEF Other, Request
<1> QED
  <2> HIDE DEF Heard, Frame, IsArp, AnyIp, AnyMac
  <2> QED
    BY <1>0, <1>1, <1>2, <1>3, <1>4

(* Of what was heard, only a host's binding is recorded.                   *)
LEMMA RecordedIs ==
  ASSUME NEW f, Heard(f)
  PROVE  \/ Recorded(arpMap, f) = arpMap /\ (IsArp(f) => f.senderIP \notin Ips)
         \/ /\ IsArp(f) /\ f.senderIP \in Ips /\ f.senderMAC \in Macs
            /\ Recorded(arpMap, f) = [arpMap EXCEPT ![f.senderIP] = f.senderMAC]
<1>1. CASE ~IsArp(f)
  BY <1>1 DEF Recorded
<1>2. CASE IsArp(f) /\ f.senderIP \in Ips /\ f.senderMAC \in Macs
  <2>1. Valid(f.senderIP, f.senderMAC)
    BY <1>2, AddressesAssumption DEF Valid
  <2> QED
    BY <1>2, <2>1 DEF Recorded
<1>3. CASE IsArp(f) /\ f.senderIP = None /\ f.targetMAC = None
  <2>1. ~Valid(f.senderIP, f.senderMAC) /\ ~Valid(f.targetIP, f.targetMAC)
    BY <1>3 DEF Valid
  <2> QED
    BY <1>3, <2>1, AddressesAssumption DEF Recorded
<1> QED
  BY <1>1, <1>2, <1>3 DEF Heard

LEMMA PoolStep ==
  ASSUME Inv, [Next]_vars
  PROVE  PoolInv'
<1> DEFINE S == {f \in Frame : Heard(f)}
<1>1. PoolInv /\ queue \in Seq(S)
  BY DEF Inv, AllHeard
<1>2. ASSUME NEW frame \in Frames, checkArp(frame), Push(frame) PROVE PoolInv'
  <2>1. frame \in S
    BY FramesHeard DEF Inv, Bindings, Heard
  <2> QED
    BY <1>1, <1>2, <2>1, PushKeeps
<1>3. CASE Post
  BY <1>1, <1>3, PostKeeps
<1>4. CASE Close
  BY <1>1, <1>4, CloseKeeps
<1>5. CASE UNCHANGED pool
  BY <1>1, <1>5 DEF pool, PoolInv, PoolTypeOK, NoneEnded, PermitsMatch, Holding, Alive
<1>6. ASSUME NEW w \in Workers, Wait(w) \/ Take(w) \/ Finish(w) PROVE PoolInv'
  BY <1>1, <1>6, WaitKeeps, TakeKeeps, FinishKeeps
<1> QED
  BY <1>2, <1>3, <1>4, <1>5, <1>6 DEF Next, checkArp, Takes, Run, Work, vars

LEMMA HeardStep ==
  ASSUME Inv, [Next]_vars
  PROVE  AllHeard'
<1> DEFINE S == {f \in Frame : Heard(f)}
<1>1. /\ queue \in Seq(S) /\ Len(queue) \in Nat /\ Len(queue) <= MaxTasks
      /\ \A w \in Workers : IF at[w] = "running" THEN Heard(job[w]) ELSE job[w] = Idle
      /\ at \in [Workers -> Places]
      /\ job \in [Workers -> Frame \cup {Idle}]
      /\ \A f \in S : f \in Frame /\ Heard(f)
  BY DEF Inv, AllHeard, PoolInv, PoolTypeOK, Heard
<1>2. ASSUME NEW frame \in Frames, checkArp(frame), Push(frame) PROVE AllHeard'
  <2>1. frame \in S
    BY FramesHeard DEF Inv, Bindings, Heard
  <2>2. Len(queue) < MaxTasks
    BY <1>1, <1>2, Counts, MaxTasksAssumption DEF checkArp
  <2>3. queue' = Append(queue, frame) /\ UNCHANGED <<at, job>>
    BY <1>2 DEF checkArp, Push
  <2>4. queue' \in Seq(S) /\ Len(queue') <= MaxTasks
    BY <1>1, <2>1, <2>2, <2>3, MaxTasksAssumption, AppendProperties
  <2> QED
    BY <1>1, <2>3, <2>4 DEF AllHeard
<1>3. CASE (Post \/ Close)
  <2>1. \E n \in Nat : SemPost(n)
    BY <1>3, Counts DEF Post, Close, ExitPermits
  <2>2. \A w \in Workers : at'[w] = at[w] \/ (at[w] = "waiting" /\ at'[w] = "ready")
    BY <2>1, SemPostMoves DEF Inv, PoolInv, PoolTypeOK
  <2>3. UNCHANGED <<queue, job>>
    BY <1>3 DEF Post, Close
  <2> QED
    BY <1>1, <2>2, <2>3 DEF AllHeard
<1>4. CASE UNCHANGED pool
  BY <1>1, <1>4 DEF pool, AllHeard
<1>5. ASSUME NEW w \in Workers, Wait(w) PROVE AllHeard'
  BY <1>1, <1>5 DEF Wait, AllHeard, Places
<1>6. ASSUME NEW w \in Workers, Take(w) PROVE AllHeard'
  <2>1. CASE queue = <<>>
    BY <1>1, <1>6, <2>1 DEF Take, AllHeard
  <2>2. CASE queue # <<>>
    <3>1. /\ job' = [job EXCEPT ![w] = Head(queue)] /\ queue' = Tail(queue)
          /\ at' = [at EXCEPT ![w] = "running"]
      BY <1>6, <2>2 DEF Take
    <3>2. Head(queue) \in S /\ Tail(queue) \in Seq(S) /\ Len(Tail(queue)) = Len(queue) - 1
      BY <1>1, <2>2, HeadTailProperties
    <3> QED
      BY <1>1, <3>1, <3>2, MaxTasksAssumption DEF AllHeard
  <2> QED
    BY <2>1, <2>2
<1>7. ASSUME NEW w \in Workers, Finish(w) PROVE AllHeard'
  BY <1>1, <1>7 DEF Finish, AllHeard
<1> QED
  BY <1>2, <1>3, <1>4, <1>5, <1>6, <1>7 DEF Next, checkArp, Takes, Run, Work, vars

LEMMA BindingsStep ==
  ASSUME Inv, [Next]_vars
  PROVE  Bindings'
<1> USE DEF Inv, Bindings
<1>1. ASSUME NEW frame \in Frames, checkArp(frame) PROVE Bindings'
  <2>1. UNCHANGED <<arpMap, owner>>
    BY <1>1 DEF checkArp
  <2>2. announced' \in [Ips -> Macs \cup {None}]
    <3>1. Heard(frame)
      BY FramesHeard
    <3>2. IsArp(frame) /\ frame.senderIP \in Ips => frame.senderMAC \in Macs
      BY <3>1, AddressesAssumption DEF Heard
    <3> QED
      BY <1>1, <3>2 DEF checkArp
  <2> QED
    BY <2>1, <2>2 DEF NobodyRecorded
<1>2. CASE UNCHANGED arp
  BY <1>2 DEF arp, NobodyRecorded
<1>3. ASSUME NEW ip \in Ips, NEW mac \in Macs, Takes(ip, mac) PROVE Bindings'
  BY <1>3 DEF Takes, NobodyRecorded
<1>4. ASSUME NEW w \in Workers, Run(w) PROVE Bindings'
  <2>1. Heard(job[w])
    BY <1>4 DEF AllHeard, Run, Finish
  <2>2. \/ arpMap' = arpMap
        \/ /\ job[w].senderIP \in Ips /\ job[w].senderMAC \in Macs
           /\ arpMap' = [arpMap EXCEPT ![job[w].senderIP] = job[w].senderMAC]
    BY <1>4, <2>1, RecordedIs DEF Run
  <2> QED
    BY <1>4, <2>2 DEF Run, NobodyRecorded, AnyIp, AnyMac
<1> QED
  BY <1>1, <1>2, <1>3, <1>4 DEF Next, Work, vars, arp

THEOREM Invariance == Spec => []Inv
<1>1. Init => Inv
  <2> SUFFICES ASSUME Init PROVE Inv
    OBVIOUS
  <2>1. PoolInv
    BY PoolInitOK DEF Init
  <2>2. AllHeard
    BY MaxTasksAssumption DEF Init, PoolInit, AllHeard
  <2>3. Bindings
    BY DEF Init, Bindings, NobodyRecorded, AnyIp, AnyMac
  <2> QED
    BY <2>1, <2>2, <2>3 DEF Inv
<1>2. Inv /\ [Next]_vars => Inv'
  BY PoolStep, HeardStep, BindingsStep DEF Inv
<1> QED
  BY <1>1, <1>2, PTL DEF Spec

(* Types: what workers have in hand and what waits are frames, and the     *)
(* queue keeps within its bound.                                           *)
THEOREM TypeCorrect == Spec => []TypeOK
<1>1. Inv => TypeOK
  <2> SUFFICES ASSUME Inv PROVE TypeOK
    OBVIOUS
  <2>1. queue \in Seq(Frame)
    <3>1. queue \in Seq({f \in Frame : Heard(f)}) /\ {f \in Frame : Heard(f)} \subseteq Frame
      BY DEF Inv, AllHeard
    <3> QED
      BY <3>1, SeqMonotonic, Zenon
  <2> QED
    BY <2>1 DEF Inv, AllHeard, Heard, PoolInv, PoolTypeOK, Bindings, TypeOK
<1> QED
  BY <1>1, Invariance, PTL

(* Every task of the pool has a permit, and after the destructor every     *)
(* worker has one more.                                                    *)
THEOREM TasksHavePermits == Spec => []PermitsMatch
<1>1. Inv => PermitsMatch
  BY DEF Inv, PoolInv
<1> QED
  BY <1>1, Invariance, PTL

(* The watch records hosts only, for the addresses hosts use.              *)
THEOREM HostsRecorded == Spec => []NobodyRecorded
<1>1. Inv => NobodyRecorded
  BY DEF Inv, Bindings
<1> QED
  BY <1>1, Invariance, PTL

-----------------------------------------------------------------------------
(* What is recorded, what the thread has in hand and what waits, in a row, *)
(* end with the last sender of each address.                               *)
Says(f, ip) == IsArp(f) /\ f.senderIP = ip

Unsaid(ip) == \A i \in 1..Len(queue) : ~Says(queue[i], ip)

LastWaits(ip) ==
    \E i \in 1..Len(queue) :
        /\ Says(queue[i], ip) /\ queue[i].senderMAC = announced[ip]
        /\ \A j \in (i + 1)..Len(queue) : ~Says(queue[j], ip)

LastInHand(ip) ==
    Unsaid(ip) /\ \E w \in Workers :
        at[w] = "running" /\ Says(job[w], ip) /\ job[w].senderMAC = announced[ip]

LastRecorded(ip) ==
    /\ Unsaid(ip)
    /\ \A w \in Workers : at[w] = "running" => ~Says(job[w], ip)
    /\ arpMap[ip] = announced[ip]

InOrder == ~closed => \A ip \in Ips : LastWaits(ip) \/ LastInHand(ip) \/ LastRecorded(ip)

LEMMA OneThread == \E w : Workers = {w}
BY OneThreadAssumption, WorkersAssumption, FS_Singleton

LEMMA OrderHeard ==
  ASSUME Inv, InOrder, NEW frame \in Frames, checkArp(frame), Push(frame)
  PROVE  InOrder'
<1>1. /\ queue' = Append(queue, frame) /\ UNCHANGED <<at, job, arpMap, closed>>
      /\ announced' = IF IsArp(frame) /\ frame.senderIP \in Ips
                      THEN [announced EXCEPT ![frame.senderIP] = frame.senderMAC]
                      ELSE announced
  BY DEF checkArp, Push
<1>2. /\ Len(queue) \in Nat /\ Len(queue') = Len(queue) + 1
      /\ \A i \in 1..Len(queue) : queue'[i] = queue[i]
      /\ queue'[Len(queue) + 1] = frame
  <2>1. queue \in Seq(Frame \cup {frame})
    <3>1. queue \in Seq({f \in Frame : Heard(f)})
      BY DEF Inv, AllHeard
    <3> QED
      BY <3>1, SeqMonotonic, Zenon
  <2> QED
    BY <1>1, <2>1, AppendProperties, LenProperties
<1> SUFFICES ASSUME ~closed, NEW ip \in Ips
             PROVE  (LastWaits(ip) \/ LastInHand(ip) \/ LastRecorded(ip))'
  BY <1>1 DEF InOrder
<1>3. CASE Says(frame, ip)
  <2>1. announced'[ip] = frame.senderMAC
    BY <1>1, <1>3 DEF Says, Inv, Bindings
  <2>2. LastWaits(ip)'
    BY <1>2, <1>3, <2>1 DEF LastWaits, Says, IsArp
  <2> QED
    BY <2>2
<1>4. CASE ~Says(frame, ip)
  <2>1. announced'[ip] = announced[ip]
    BY <1>1, <1>4 DEF Says, Inv, Bindings
  <2>2. CASE LastWaits(ip)
    <3>1. PICK i \in 1..Len(queue) :
            /\ Says(queue[i], ip) /\ queue[i].senderMAC = announced[ip]
            /\ \A j \in (i + 1)..Len(queue) : ~Says(queue[j], ip)
      BY <2>2 DEF LastWaits
    <3>2. \A j \in (i + 1)..Len(queue') : ~Says(queue'[j], ip)
      BY <1>2, <1>4, <3>1
    <3>3. LastWaits(ip)'
      BY <1>2, <2>1, <3>1, <3>2 DEF LastWaits, Says, IsArp
    <3> QED
      BY <3>3
  <2>3. Unsaid(ip) => Unsaid(ip)'
    BY <1>2, <1>4 DEF Unsaid, Says, IsArp
  <2> QED
    BY <1>1, <2>1, <2>2, <2>3 DEF InOrder, LastInHand, LastRecorded, Says, IsArp
<1> QED
  BY <1>3, <1>4

(* Nobody works on a frame before or after, and the order stays.           *)
LEMMA OrderKept ==
  ASSUME InOrder, UNCHANGED <<queue, announced, arpMap, closed, job>>,
         \A w \in Workers : at[w] = "running" <=> at'[w] = "running"
  PROVE  InOrder'
BY DEF InOrder, LastWaits, LastInHand, LastRecorded, Unsaid, Says, IsArp

LEMMA OrderTaken ==
  ASSUME Inv, InOrder, NEW w \in Workers, Take(w), UNCHANGED arp
  PROVE  InOrder'
<1>1. at[w] = "taking" /\ closed' = closed /\ announced' = announced /\ arpMap' = arpMap
  BY DEF Take, arp
<1>2. Workers = {w}
  BY OneThread
<1>3. at \in [Workers -> Places] /\ job \in [Workers -> Frame \cup {Idle}]
  BY DEF Inv, PoolInv, PoolTypeOK, AllHeard
<1>4. CASE queue = <<>>
  <2>1. at' = [at EXCEPT ![w] = "ended"] /\ UNCHANGED <<queue, job>>
    BY <1>4 DEF Take
  <2> QED
    BY <1>1, <1>2, <1>3, <2>1, OrderKept
<1>5. CASE queue # <<>>
  <2>1. /\ job' = [job EXCEPT ![w] = Head(queue)] /\ queue' = Tail(queue)
        /\ at' = [at EXCEPT ![w] = "running"]
    BY <1>5 DEF Take
  <2>2. /\ Len(queue) \in Nat \ {0} /\ Len(queue') = Len(queue) - 1
        /\ \A i \in 1..Len(queue') : queue'[i] = queue[i + 1]
        /\ Head(queue) = queue[1]
    <3>1. queue \in Seq({f \in Frame : Heard(f)})
      BY DEF Inv, AllHeard
    <3> QED
      BY <1>5, <2>1, <3>1, HeadTailProperties, EmptySeq
  <2>3. job'[w] = queue[1] /\ at'[w] = "running"
    BY <1>3, <2>1, <2>2
  <2> SUFFICES ASSUME ~closed, NEW ip \in Ips
               PROVE  (LastWaits(ip) \/ LastInHand(ip) \/ LastRecorded(ip))'
    BY <1>1 DEF InOrder
  <2>4. CASE LastWaits(ip)
    <3>1. PICK i \in 1..Len(queue) :
            /\ Says(queue[i], ip) /\ queue[i].senderMAC = announced[ip]
            /\ \A j \in (i + 1)..Len(queue) : ~Says(queue[j], ip)
      BY <2>4 DEF LastWaits
    <3>2. CASE i = 1
      <4>1. Unsaid(ip)'
        BY <2>2, <3>1, <3>2 DEF Unsaid, Says, IsArp
      <4>2. LastInHand(ip)'
        BY <1>1, <2>3, <3>1, <3>2, <4>1 DEF LastInHand, Says, IsArp
      <4> QED
        BY <4>2
    <3>3. CASE i # 1
      <4>1. i - 1 \in 1..Len(queue') /\ queue'[i - 1] = queue[i]
        BY <2>2, <3>3
      <4>2. \A j \in ((i - 1) + 1)..Len(queue') : ~Says(queue'[j], ip)
        <5>1. ASSUME NEW j \in ((i - 1) + 1)..Len(queue') PROVE ~Says(queue'[j], ip)
          <6>1. j \in 1..Len(queue') /\ j + 1 \in (i + 1)..Len(queue)
            BY <2>2, <5>1
          <6> QED
            BY <2>2, <3>1, <6>1
        <5> QED
          BY <5>1
      <4>3. LastWaits(ip)'
        BY <1>1, <3>1, <4>1, <4>2 DEF LastWaits, Says, IsArp
      <4> QED
        BY <4>3
    <3> QED
      BY <3>2, <3>3
  <2>5. CASE Unsaid(ip)
    <3>1. LastRecorded(ip)
      BY <1>1, <1>2, <2>5 DEF InOrder, LastWaits, LastInHand, Unsaid
    <3>2. Unsaid(ip)' /\ ~Says(queue[1], ip)
      BY <2>2, <2>5 DEF Unsaid, Says, IsArp
    <3>3. LastRecorded(ip)'
      BY <1>1, <1>2, <2>3, <3>1, <3>2 DEF LastRecorded, Says, IsArp
    <3> QED
      BY <3>3
  <2> QED
    BY <2>4, <2>5 DEF InOrder, LastInHand, LastRecorded
<1> QED
  BY <1>4, <1>5

LEMMA OrderRun ==
  ASSUME Inv, InOrder, NEW w \in Workers, Run(w)
  PROVE  InOrder'
<1>1. /\ at[w] = "running" /\ at' = [at EXCEPT ![w] = "ready"]
      /\ UNCHANGED <<queue, closed, announced>>
  BY DEF Run, Finish
<1>2. Workers = {w}
  BY OneThread
<1>3. at'[w] = "ready" /\ Heard(job[w])
  BY <1>1 DEF Inv, PoolInv, PoolTypeOK, AllHeard
<1> SUFFICES ASSUME ~closed, NEW ip \in Ips
             PROVE  (LastWaits(ip) \/ LastInHand(ip) \/ LastRecorded(ip))'
  BY <1>1 DEF InOrder
<1>4. CASE LastWaits(ip)
  <2>1. LastWaits(ip)'
    BY <1>1, <1>4 DEF LastWaits, Says, IsArp
  <2> QED
    BY <2>1
<1>5. CASE LastInHand(ip) \/ LastRecorded(ip)
  <2>1. Unsaid(ip)'
    BY <1>1, <1>5 DEF LastInHand, LastRecorded, Unsaid, Says, IsArp
  <2>2. arpMap' = Recorded(arpMap, job[w])
    BY DEF Run
  <2>3. IF Says(job[w], ip) THEN job[w].senderMAC = announced[ip] ELSE arpMap[ip] = announced[ip]
    BY <1>1, <1>2, <1>5 DEF LastInHand, LastRecorded
  <2>4. arpMap'[ip] = announced[ip]
    <3>1. arpMap \in [AnyIp -> AnyMac] /\ ip \in AnyIp
      BY DEF Inv, Bindings, AnyIp
    <3> QED
      BY <1>3, <2>2, <2>3, <3>1, RecordedIs DEF Says
  <2>5. LastRecorded(ip)'
    BY <1>1, <1>2, <1>3, <2>1, <2>4 DEF LastRecorded
  <2> QED
    BY <2>5
<1> QED
  BY <1>4, <1>5 DEF InOrder

(* Frames are handed to the pool on one thread and looked at on another:   *)
(* when that one has caught up, each address is recorded for the host that *)
(* sent from it last.                                                      *)
THEOREM LastSenderWins == Spec => []LastSenderRecorded
<1>1. Init => InOrder
  <2> SUFFICES ASSUME Init PROVE InOrder
    OBVIOUS
  <2>1. queue = <<>> /\ \A w \in Workers : at[w] = "ready"
    BY DEF Init, PoolInit
  <2>2. \A ip \in Ips : arpMap[ip] = announced[ip]
    BY DEF Init, AnyIp
  <2> QED
    BY <2>1, <2>2 DEF InOrder, LastRecorded, Unsaid
<1>2. Inv /\ InOrder /\ [Next]_vars => InOrder'
  <2> SUFFICES ASSUME Inv, InOrder, [Next]_vars PROVE InOrder'
    OBVIOUS
  <2>1. at \in [Workers -> Places]
    BY DEF Inv, PoolInv, PoolTypeOK
  <2>2. ASSUME NEW frame \in Frames, checkArp(frame) PROVE InOrder'
    <3>1. CASE Push(frame)
      BY <2>2, <3>1, OrderHeard
    <3>2. CASE Destroyed /\ UNCHANGED pool
      BY <3>2 DEF Destroyed, pool, InOrder
    <3> QED
      BY <2>2, <3>1, <3>2 DEF checkArp
  <2>3. CASE Post /\ UNCHANGED arp
    <3>1. SemPost(1) /\ UNCHANGED <<queue, job, closed, announced, arpMap>>
      BY <2>3 DEF Post, arp
    <3>2. \A w \in Workers : at'[w] = at[w] \/ (at[w] = "waiting" /\ at'[w] = "ready")
      BY <2>1, <3>1, SemPostMoves DEF Inv, PoolInv, PoolTypeOK
    <3> QED
      BY <3>1, <3>2, OrderKept
  <2>4. CASE Close
    BY <2>4 DEF Close, InOrder
  <2>5. CASE (\E ip \in Ips, mac \in Macs : Takes(ip, mac)) \/ UNCHANGED vars
    <3>1. UNCHANGED <<queue, announced, arpMap, closed, job, at>>
      BY <2>5 DEF Takes, vars, pool, arp
    <3> QED
      BY <3>1, OrderKept
  <2>6. ASSUME NEW w \in Workers, Wait(w), UNCHANGED arp PROVE InOrder'
    <3>1. UNCHANGED <<queue, announced, arpMap, closed, job>> /\ at[w] = "ready"
      BY <2>6 DEF Wait, arp
    <3>2. at' = [at EXCEPT ![w] = "waiting"] \/ at' = [at EXCEPT ![w] = "taking"]
      BY <2>6 DEF Wait
    <3> QED
      BY <2>1, <3>1, <3>2, OrderKept
  <2>7. ASSUME NEW w \in Workers, Take(w), UNCHANGED arp PROVE InOrder'
    BY <2>7, OrderTaken
  <2>8. ASSUME NEW w \in Workers, Run(w) PROVE InOrder'
    BY <2>8, OrderRun
  <2> QED
    BY <2>2, <2>3, <2>4, <2>5, <2>6, <2>7, <2>8 DEF Next, Work
<1>3. InOrder => LastSenderRecorded
  BY DEF InOrder, LastSenderRecorded, CaughtUp, LastWaits, LastInHand, LastRecorded
<1> QED
  BY <1>1, <1>2, <1>3, Invariance, PTL DEF Spec
=============================================================================

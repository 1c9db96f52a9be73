------------------------------- MODULE ArpMap -------------------------------
(***************************************************************************)
(* The ARP watch of one node (src/src/ArpMap.h): onPeerInput hands every   *)
(* frame to checkArp, which queues it for the one thread of a pool; that   *)
(* thread reads the bindings of IP to MAC addresses off ARP frames.        *)
(*                                                                         *)
(* The frames are those Ethernet hosts send: requests, with no target MAC  *)
(* address, and replies, for the addresses Owner gives at that time; a     *)
(* host may take over an IP address.  The pool is module ThreadPool.       *)
(***************************************************************************)
EXTENDS ThreadPool

CONSTANTS
    Ips,        \* the IP addresses hosts use
    Macs,       \* the MAC addresses of the hosts
    None,       \* 0, the IP or MAC address of nobody
    BcastIp, BcastMac,
    MaxTasks    \* bound: frames the pool has not done with

ASSUME AddressesAssumption == None \notin Ips \cup Macs /\ BcastIp \notin Ips /\ BcastMac \notin Macs
ASSUME MaxTasksAssumption == MaxTasks \in Nat
ASSUME OneThreadAssumption == Cardinality(Workers) = 1

VARIABLES
    arpMap,  \* the MAC address recorded for each IP address, or None
    owner,   \* environment: the host each IP address belongs to
    announced  \* history: for each IP address, the host that sent from it last

arp == <<arpMap, owner, announced>>
vars == <<pool, arp>>

AnyIp == Ips \cup {None, BcastIp}
AnyMac == Macs \cup {None, BcastMac}

(* type: the ethertype says ARP and the frame is long enough *)
Frame == [type : {"arp", "other"}, operation : {"request", "response", "other"},
          senderIP : AnyIp, senderMAC : AnyMac, targetIP : AnyIp, targetMAC : AnyMac]

(* IP addresses are recorded with MAC addresses, and the queue is bounded. *)
TypeOK ==
    /\ arpMap \in [AnyIp -> AnyMac]
    /\ queue \in Seq(Frame) /\ Len(queue) <= MaxTasks
    /\ count \in Nat /\ posting \in BOOLEAN /\ closed \in BOOLEAN
    /\ at \in [Workers -> Places]
    /\ \A w \in Workers : IF at[w] = "running" THEN job[w] \in Frame ELSE job[w] = Idle
    /\ owner \in [Ips -> Macs]
    /\ announced \in [Ips -> Macs \cup {None}]

Init ==
    /\ arpMap = [ip \in AnyIp |-> None]
    /\ PoolInit
    /\ owner \in [Ips -> Macs]
    /\ announced = [ip \in Ips |-> None]

(* What hosts put on the wire.  A probe asks for an IP address before its  *)
(* sender uses it, a gratuitous request asks for the sender's own.         *)
Request(ip, target) ==
    [type |-> "arp", operation |-> "request", senderIP |-> ip, senderMAC |-> owner[ip],
     targetIP |-> target, targetMAC |-> None]
Response(ip, target) ==
    [Request(ip, target) EXCEPT !.operation = "response", !.targetMAC = owner[target]]
Probe(mac, target) ==
    [type |-> "arp", operation |-> "request", senderIP |-> None, senderMAC |-> mac,
     targetIP |-> target, targetMAC |-> None]
Other(ip, target) == [Request(ip, target) EXCEPT !.type = "other"]

Frames ==
    (UNION {{Request(ip, target), Response(ip, target)} : ip, target \in Ips})
      \cup {Probe(mac, target) : mac \in Macs, target \in Ips}
      \cup {Other(ip, ip) : ip \in Ips}

IsArp(f) == f.type = "arp" /\ f.operation \in {"request", "response"}

(* The poller of the socket calls this until the process is gone: in a     *)
(* pool that is destroyed the frame is queued, or nothing is.              *)
checkArp(frame) ==
    /\ Len(queue) + Cardinality({w \in Workers : at[w] = "running"}) < MaxTasks
    /\ Push(frame) \/ (Destroyed /\ ~posting /\ UNCHANGED pool)
    /\ announced' = IF IsArp(frame) /\ frame.senderIP \in Ips
                    THEN [announced EXCEPT ![frame.senderIP] = frame.senderMAC]
                    ELSE announced
    /\ UNCHANGED <<arpMap, owner>>

(* Environment: a host takes over an IP address. *)
Takes(ip, mac) ==
    /\ owner[ip] # mac
    /\ owner' = [owner EXCEPT ![ip] = mac]
    /\ UNCHANGED <<pool, arpMap, announced>>

Valid(ip, mac) == ip \notin {None, BcastIp} /\ mac \notin {None, BcastMac}

(* Both guards lead to addArp of the sender's binding: the first for a     *)
(* valid sender, the second for a valid target.                            *)
RecordedIp(map, f) ==  \* mutant: the IP is recorded for the MAC
    IF IsArp(f) /\ Valid(f.senderIP, f.senderMAC)
    THEN [map EXCEPT ![f.senderIP] = f.senderIP] ELSE map

Recorded(map, f) ==
    IF IsArp(f) /\ (Valid(f.senderIP, f.senderMAC) \/ Valid(f.targetIP, f.targetMAC))
    THEN [map EXCEPT ![f.senderIP] = f.senderMAC]
    ELSE map

(* The map is constructed after the pool, by the first addArp, and so      *)
(* destroyed before it: what addArp does after that is undefined.          *)
Run(w) ==
    /\ Finish(w)
    /\ arpMap' \in {Recorded(arpMap, job[w])} \cup (IF closed THEN {arpMap} ELSE {})
    /\ UNCHANGED <<owner, announced>>

Work(w) == (Wait(w) \/ Take(w)) /\ UNCHANGED arp

Next ==
    \/ \E frame \in Frames : checkArp(frame)
    \/ Post /\ UNCHANGED arp
    \/ Close /\ UNCHANGED arp
    \/ \E ip \in Ips, mac \in Macs : Takes(ip, mac)
    \/ \E w \in Workers : Run(w) \/ Work(w)

Spec == Init /\ [][Next]_vars

(* The thread that queued a frame posts the semaphore, and a worker that   *)
(* can go on does.                                                         *)
Fairness ==
    /\ WF_vars(Post /\ UNCHANGED arp)
    /\ \A w \in Workers : WF_vars(Run(w) \/ Work(w))

FairSpec == Spec /\ Fairness

(* checkArp queues frames from the socket's thread for another one: when   *)
(* that thread has caught up, each IP address is recorded for the host     *)
(* that sent from it last, not for one it was taken over from.             *)
CaughtUp == queue = <<>> /\ \A w \in Workers : at[w] # "running"
LastSenderRecorded ==
    CaughtUp /\ ~closed => \A ip \in Ips : arpMap[ip] = announced[ip]

(* If the frames cease at last, then every one queued while the thread is  *)
(* there is looked at, one that waits when the destructor runs or is       *)
(* queued after it as well, and the destructor's join returns.  (While     *)
(* they keep coming the thread may find one each time, and not end; those  *)
(* queued when it has ended stay.)                                         *)
FramesCease == <>[][Len(queue') <= Len(queue)]_queue
PoolEnds == FramesCease => (Alive # {} ~> CaughtUp) /\ (closed ~> Alive = {})
=============================================================================

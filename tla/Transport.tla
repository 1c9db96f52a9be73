----------------------------- MODULE Transport -----------------------------
(***************************************************************************)
(* The UDP socket of a node (src/src/Transport.h, toolkit/src/Network:     *)
(* Socket.cpp, BufferSock.cpp) on its poller, from a datagram that arrives *)
(* to one that leaves.                                                     *)
(*                                                                         *)
(* A frame for one host goes to Transport::send: a task that compresses on *)
(* some poller, and from there one that sends on the poller of the socket. *)
(* A broadcast frame goes through MacMap::forEach first: one more task for *)
(* each peer, which calls Transport::send.  Tasks go to the current poller *)
(* or, from a thread that is none (TAP), to the least loaded one; pollers  *)
(* run them in order (TaskRunner).  A datagram the kernel has no room for  *)
(* waits, and epoll, edge-triggered, tells when there is room; when there  *)
(* is none for ten seconds the socket gives up.                            *)
(*                                                                         *)
(* A number is one datagram to send: a frame that goes to several peers is *)
(* as many numbers, in a row.                                              *)
(***************************************************************************)
EXTENDS Naturals, SequencesExt, FiniteSets

CONSTANTS
    Pollers, Home,  \* all pollers, and the one of the socket
    MaxIn,          \* bound: 1..MaxIn arrive to be relayed
    MaxTap,         \* bound: as many more the node sends of its own (TAP, commands)
    Bcast,          \* those sent from a task of MacMap::forEach
    Room            \* datagrams the kernel's send buffer holds

ASSUME PollersAssumption == Home \in Pollers
ASSUME BcastAssumption == Bcast \subseteq 1..MaxIn + MaxTap
ASSUME BoundsAssumption == MaxIn \in Nat /\ MaxTap \in Nat /\ Room \in Nat \ {0}

VARIABLES
    arrived, tapped,  \* environment: how many datagrams came so far
    bad,         \* environment: datagrams the kernel refuses (their address is 0.0.0.0:0)
    rx,          \* the kernel's receive buffer
    stopped,     \* history: reading ended early, and nothing arrived since
    kern,        \* datagrams in its send buffer
    edge,        \* epoll holds an event of the socket
    work,        \* work[p]: the tasks posted to poller p
    waiting,     \* _send_buf_waiting
    sending,     \* _send_buf_sending, what is left of the one batch in it
    sendable,    \* _sendable
    wantOut,     \* epoll watches for room
    watched,     \* epoll watches the socket at all
    late,        \* _send_flush_ticker is past _max_send_buffer_ms
    sent, dropped \* history: what the kernel took, in order; what was given up

environment == <<arrived, tapped, bad>>
inbox == <<rx, stopped>>
socket == <<waiting, sending, sendable, wantOut, watched, late, sent, dropped>>
vars == <<environment, inbox, kern, edge, work, socket>>

In == 1..MaxIn
Ids == 1..MaxIn + MaxTap

Init ==
    /\ arrived = 0 /\ tapped = 0 /\ bad \in SUBSET Ids
    /\ rx = <<>> /\ stopped = FALSE /\ kern = 0 /\ edge = TRUE
    /\ work = [p \in Pollers |-> <<>>]
    /\ waiting = <<>> /\ sending = <<>>
    /\ sendable = TRUE /\ wantOut = TRUE /\ watched = TRUE /\ late = FALSE
    /\ sent = <<>> /\ dropped = {}

Writable(n) == 2 * n <= Room   \* epoll's idea of room: half the buffer

-----------------------------------------------------------------------------
(* Environment: a datagram arrives; one leaves; ten seconds pass.          *)
Arrive ==
    /\ arrived < MaxIn
    /\ arrived' = arrived + 1
    /\ rx' = Append(rx, arrived')
    /\ edge' = TRUE /\ stopped' = FALSE
    /\ UNCHANGED <<tapped, bad, kern, work, socket>>

Transmit ==
    /\ kern > 0
    /\ kern' = kern - 1
    /\ edge' = (edge \/ Writable(kern'))
    /\ UNCHANGED <<environment, inbox, work, socket>>

Elapse ==
    /\ ~sendable /\ ~late
    /\ late' = TRUE
    /\ UNCHANGED <<environment, inbox, kern, edge, work, waiting, sending, sendable,
                   wantOut, watched, sent, dropped>>

(* The tasks of a datagram, the first one by where it is sent from.        *)
Task(what, n) == [do |-> what, id |-> n]
First(n) == Task(IF n \in Bcast THEN "each" ELSE "compress", n)
Firsts(s) == [i \in 1..Len(s) |-> First(s[i])]

(* The node sends of its own, on the TAP thread for one, where getPoller   *)
(* gives the least loaded poller.                                          *)

TapSend(p) ==
    /\ tapped < MaxTap
    /\ tapped' = tapped + 1
    /\ work' = [work EXCEPT ![p] = Append(@, First(MaxIn + tapped'))]
    /\ UNCHANGED <<arrived, bad, inbox, kern, edge, socket>>

(* A task of MacMap::forEach calls Transport::send, on the same poller.    *)
ForEach(p) ==
    /\ work[p] # <<>> /\ Head(work[p]).do = "each"
    /\ work' = [work EXCEPT ![p] = Append(Tail(@), Task("compress", Head(@).id))]
    /\ UNCHANGED <<environment, inbox, kern, edge, socket>>

(* A compress task posts the send task to the poller of the socket.        *)
Compress(p) ==
    /\ work[p] # <<>> /\ Head(work[p]).do = "compress"
    /\ LET rest == [work EXCEPT ![p] = Tail(@)] IN
       work' = [rest EXCEPT ![Home] = Append(@, Task("send", Head(work[p]).id))]
    /\ UNCHANGED <<environment, inbox, kern, edge, socket>>

-----------------------------------------------------------------------------
(* BufferSendMMsg::send: the datagrams of a batch that the kernel takes,   *)
(* up to the first it refuses or has no room for.                          *)
Taken(batch, room) ==
    CHOOSE k \in 0..Len(batch) :
        /\ k <= room /\ \A i \in 1..k : batch[i] \notin bad
        /\ k < Len(batch) => k = room \/ batch[k + 1] \in bad

(* One round of flushData.  A batch of which the kernel takes some is kept *)
(* from there on, and so is one it has no room for; one whose first        *)
(* datagram it refuses is dropped, all of it.                              *)
RefusedFull(batch, room) == batch # <<>> /\ Taken(batch, room) = 0  \* mutant: EAGAIN is an error
Refused(batch, room) == batch # <<>> /\ room > 0 /\ Taken(batch, room) = 0

RestAll(batch, room) == batch  \* mutant: the batch is not shortened
Rest(batch, room) == SubSeq(batch, Taken(batch, room) + 1, Len(batch))

Round(batch, room) ==
    [taken |-> SubSeq(batch, 1, Taken(batch, room)),
     left |-> IF Refused(batch, room) THEN <<>> ELSE Rest(batch, room),
     dropped |-> IF Refused(batch, room) THEN Range(batch) ELSE {}]

(* What one or two rounds did to the queues and the kernel.                *)
NoRound == [taken |-> <<>>, left |-> <<>>, dropped |-> {}]

Flushed(first, second, left, rest) ==
    /\ sent' = sent \o first.taken \o second.taken
    /\ kern' = kern + Len(first.taken) + Len(second.taken)
    /\ dropped' = dropped \cup first.dropped \cup second.dropped
    /\ sending' = left
    /\ waiting' = rest

(* start/stopWriteAbleEvent: epoll_ctl looks at the socket anew; it fails  *)
(* when the socket is not watched any more.                                *)
ModifyOff(out, ready) == wantOut' = FALSE /\ edge' = ready  \* mutant: the event is not asked for
Modify(out, ready) ==
    /\ wantOut' = out
    /\ edge' = (ready \/ (watched /\ (rx' # <<>> \/ (out /\ Writable(kern')))))

(* send_l and flushAll, on the poller of the socket: the datagram joins    *)
(* those that wait, and if the socket can be written, they go out.         *)
SendNow(queue) ==
    LET round == Round(queue, Room - kern) IN
    /\ sendable
    /\ Flushed(round, NoRound, round.left, <<>>)
    /\ late' = FALSE
    /\ sendable' = (round.left = <<>>)
    /\ IF sendable' THEN UNCHANGED <<wantOut, edge>> ELSE Modify(TRUE, edge)
    /\ UNCHANGED watched

SendLater(queue) ==
    /\ ~sendable /\ (~late \/ ~watched)
    /\ waiting' = queue
    /\ UNCHANGED <<kern, edge, sending, sendable, wantOut, watched, late, sent, dropped>>

(* "socket send timeout": emitErr, once, and its closeSock(false), which   *)
(* drops what waits and takes the socket off epoll, but leaves it open.    *)
GiveUp(queue) ==
    /\ ~sendable /\ late /\ watched
    /\ dropped' = dropped \cup Range(queue) \cup Range(sending)
    /\ waiting' = <<>> /\ sending' = <<>>
    /\ sendable' = TRUE /\ watched' = FALSE /\ late' = FALSE
    /\ UNCHANGED <<kern, edge, wantOut, sent>>

Send ==
    /\ work[Home] # <<>> /\ Head(work[Home]).do = "send"
    /\ work' = [work EXCEPT ![Home] = Tail(@)]
    /\ UNCHANGED inbox
    /\ LET queue == Append(waiting, Head(work[Home]).id) IN
       SendNow(queue) \/ SendLater(queue) \/ GiveUp(queue)
    /\ UNCHANGED environment

-----------------------------------------------------------------------------
(* onRead: what has arrived is read and handed to the callback, a batch    *)
(* after the other; the callback relays from here, the poller of the       *)
(* socket.  One that throws takes the rest of its batch with it, and a     *)
(* call that fails or returns 0 ends the reading: the first j of rx are    *)
(* relayed, those up to k are lost.  (One batch: 32 datagrams.)            *)
ReadOne ==  \* mutant: one datagram for each event
    IF rx = <<>> THEN UNCHANGED <<inbox, work>>
    ELSE /\ rx' = Tail(rx) /\ UNCHANGED stopped
         /\ work' = [work EXCEPT ![Home] = Append(@, First(Head(rx)))]

ReadSpread ==  \* mutant: getPoller does not prefer the current thread
    /\ rx' = <<>> /\ stopped' = FALSE
    /\ \E p \in Pollers : work' = [work EXCEPT ![p] = @ \o Firsts(rx)]

Read ==
    \E k \in 0..Len(rx) : \E j \in 0..k :
       /\ work' = [work EXCEPT ![Home] = @ \o Firsts(SubSeq(rx, 1, j))]
       /\ rx' = SubSeq(rx, k + 1, Len(rx))
       /\ stopped' = (k < Len(rx))

(* onWriteAble: first the rest of the batch, then, when that is gone, what *)
(* waits; when nothing is left the event is not needed any more.           *)
Write ==
    LET first == Round(sending, Room - kern)
        second == Round(waiting, Room - kern - Len(first.taken))
    IN IF first.left # <<>>
       THEN /\ Flushed(first, NoRound, first.left, waiting)
            /\ edge' = FALSE
            /\ UNCHANGED <<sendable, wantOut, late>>
       ELSE /\ Flushed(first, second, second.left, <<>>)
            /\ late' = FALSE
            /\ IF second.left # <<>>
               THEN edge' = FALSE /\ UNCHANGED <<sendable, wantOut>>
               ELSE sendable' = TRUE /\ Modify(FALSE, FALSE)

(* The loop of the poller is handed what the socket is ready for.          *)
SocketEvent ==
    LET room == wantOut /\ Writable(kern) IN
    /\ watched /\ edge
    /\ rx # <<>> \/ room
    /\ Read
    /\ \/ room /\ Write /\ UNCHANGED watched
       \/ ~room /\ edge' = FALSE /\ UNCHANGED <<kern, socket>>
    /\ UNCHANGED environment

Poll(p) == ForEach(p) \/ Compress(p) \/ (p = Home /\ (Send \/ SocketEvent))

Next ==
    \/ Arrive \/ Transmit \/ Elapse
    \/ \E p \in Pollers : TapSend(p)
    \/ \E p \in Pollers : Poll(p)

Spec == Init /\ [][Next]_vars

(* The pollers run what is posted to them, and handle events between the   *)
(* tasks; the kernel puts on the wire what it took.                        *)
Fairness ==
    /\ WF_vars(Transmit)
    /\ \A p \in Pollers : WF_vars(ForEach(p)) /\ WF_vars(Compress(p))
    /\ WF_vars(Send) /\ WF_vars(SocketEvent)

FairSpec == Spec /\ Fairness

-----------------------------------------------------------------------------
(* Relayed datagrams leave in the order in which they came, past two or    *)
(* three queues of tasks, a queue that waits and a batch the kernel took   *)
(* half of, but for one case: a copy of a broadcast takes one task more,   *)
(* and a frame for one host that came after it may get ahead of it.        *)
(* (Those that the node sends of its own may overtake each other.)         *)
RelayInOrder ==
    \A i, j \in 1..Len(sent) :
        i < j /\ sent[i] \in In /\ sent[j] \in In
            => sent[i] < sent[j] \/ (sent[i] \notin Bcast /\ sent[j] \in Bcast)

(* No datagram is sent twice, or sent after it was given up.               *)
OnceOnly ==
    LET all == sent \o sending \o waiting IN
    Len(all) = Cardinality(Range(all)) /\ Range(all) \cap dropped = {}

(* When a datagram that the kernel would take is lost, then because it     *)
(* waited for room: behind one the kernel refused, or until the socket     *)
(* gave up.                                                                *)
LostInQueueOnly ==
    [][\A n \in (dropped' \ dropped) \ bad :
          ~sendable /\ (~watched' \/ dropped' \cap bad # dropped \cap bad)]_vars

(* While the socket has not given up, what arrives is read, though epoll   *)
(* tells of it once (when a call failed, only after the next arrival), and *)
(* what is handed to it is sent or dropped, though the kernel tells once   *)
(* that there is room.                                                     *)
ArrivalsRead == (rx # <<>>) ~> (rx = <<>> \/ ~watched \/ stopped)

NothingStuck ==
    \A n \in Ids : (n \in Range(sending \o waiting))
                      ~> (n \in Range(sent) \cup dropped \/ ~watched)
=============================================================================

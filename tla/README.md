# TalusVSwitch in TLA+

TalusVSwitch joins hosts into one virtual Ethernet segment. Every node runs one
process that reads Ethernet frames from a TAP interface, sends them to other
nodes over UDP, relays the frames of others, and learns from what it receives
which node to send to. This directory holds TLA+ modules that model that
process and the network such processes form, TLC configurations that check the
modules on small networks, and proofs, checked by TLAPS, of theorems that hold
for every network.

Paths below are relative to the repository, whose sources are under `src/src/`
here (`src/` is the root of the repository). Line numbers are those of the
commit the models were written from.

## 1. Inventory

### Components

| component | code | state | operations |
|---|---|---|---|
| MAC table | `MacMap.h` | `macMap`: for each MAC address a socket address, a ttl and a ticker; a mutex | `addMacPeer`, `getMacPeer`, `forEach`, `removePeer`, `checkMac` |
| switch core | `VSwitch.cpp/.h` | `m_running`, the TAP thread | `start`, `stop`, `pollInterface`, the callback of `setupOnPeerInput`, `sendBroadcast` |
| link keeper | `LinkKeeper.h` | a timer | `start`, `sendKeepData` |
| transport | `Transport.h`, `toolkit/src/Network/Socket.cpp`, `BufferSock.cpp` | one UDP socket: its two send buffers, `_sendable`, what epoll watches | `start`, `setOnRead`, `send`; `onRead`, `flushAll`, `flushData`, `onWriteAble`, `emitErr` |
| address comparison | `Utils.h` 194-259 | none | `compareSockAddr` |
| ARP watch | `ArpMap.h` | `arpMap`, one pool thread, a mutex | `checkArp`, `addArp` (`getMac`, `delMac`, `delArp` are called by nothing) |
| control helper | `VSCtrlHelper.cpp/.h` | two timers, one timer per peer being punched, `Config::macCore`, `Config::coreIp` | `SendQueryPeers`, `OnQueryPeers`, `OnQueryPeersResponse`, the same for `PeerInfo` |
| daemon supervisor | `Utils.h` 261-302 | the pid of the child | `startDaemon` |
| lifecycle | `main.cpp` | `Config`, a semaphore | start-up order, SIGINT, exit |
| command line, `getMacAddress`, `compress`, `decompress` | `Utils.h` | none | pure functions and I/O |
| TAP interface | `TapInterface.h`, `libtuntap/` | external | `read`, `write` |
| pollers and pools | `toolkit/src/Poller/`, `toolkit/src/Thread/` (ZLToolKit, vendored) | task lists, a wake-up pipe, delay tasks; a queue and a semaphore | `async`, `doDelayTask`, the loop, `shutdown`; `ThreadPool::async`, `run`, the destructors |
| rest of the toolkit | `toolkit/` | - | TCP, HTTP, SQL (unused), logging |
| web api | `webapi/` | none, a stub | - |

### How they interact

* The **TAP thread** loops in `pollInterface`: a frame read from the TAP
  interface goes to the address `getMacPeer` gives for its destination, and
  otherwise to the core peer, which the table holds as the entry of the
  broadcast MAC address. A node without a core peer (port 0) sends a broadcast
  through `sendBroadcast` and drops a frame for an address it does not know.
* The **socket's poller** runs `setOnRead`, which takes the ttl off the first
  byte, decompresses, and calls the callback of `setupOnPeerInput`: watch ARP,
  write to the TAP interface, learn the source, relay with `ttl-1`.
  A frame that begins a command (`TVS_`) goes to the control helper, on another
  poller.
* `sendBroadcast`, the link keeper and `checkMac` iterate the table under its
  mutex but only post **one task per entry** to a poller; what the tasks do
  happens later, with the values the entry had.
* `Transport::send` compresses on one poller and sends on another, and a broadcast
  passes through `forEach` before: datagrams of one node may overtake each other
  even before the network.
* The ttl is the only measure of distance: an entry learned from a frame with a
  higher ttl is nearer to its owner; `addMacPeer` gives up a path only for one
  whose ttl is at least as high.

### What is hard, and what makes the parts correct

* MAC table: checks, removal tasks and learning run on several threads. A silent
  address must go, a live one must stay, a path must only be given up for one
  that is as good, and the core peer's entry must never change.
* Switch core: nodes learn from relayed, delayed, lost, repeated and reordered
  frames, forget, and restart, and there is no spanning tree protocol. Routes
  must lead to their owners, frames must not circulate, hosts must see an
  Ethernet segment.
* `sendBroadcast`: one copy for each endpoint, none for the one the frame came
  from, whatever the order of the table and the form of the addresses.
* ARP watch: bindings must follow the order in which frames arrived.
* Control helper: decisions taken from a response that is old, timers that
  outlive the reason for them, a table copied without its mutex.
* Supervisor and lifecycle: signals at any moment, handlers that are installed
  late and inherited, a thread that must end for the process to end.
* Pollers and pools: a list and its wake-up are changed in two steps, epoll tells
  once, timers and the tasks they run share a thread, destructors run while tasks
  wait.
* Transport: two tasks on two pollers for each datagram, a batch of which the
  kernel takes a part, a socket that tells once that it may be read or written.

`PROJECT.json` lists each hazard at its line, with the properties that cover it
or the reason why none does yet.

## 2. Modules

| module | models | kind |
|---|---|---|
| `MacPeer` | one entry of the table and the rule of `addMacPeer` | operators |
| `RouteTable` | what the table promises | abstract specification |
| `MacMap` | the table of one node, its ticker, check and removal tasks | specification |
| `MacMapProofs` | theorems about it | proofs |
| `Lan` | what the switch promises to the hosts | abstract specification |
| `VSwitch` | a network of nodes with any core peers | specification |
| `VSwitchTree` | the same when the core peers form a tree | properties, refinement |
| `MCVSwitch`, `MCVSwitchTree` | networks for TLC: a star, a chain, a tree, a ring | instances |
| `VSwitchProofs` | types, the bound on relays and who is handed what, for every network | proofs |
| `VSwitchTreeProofs` | routes, paths, loops and the LAN, for every tree; the network with direct paths, and the same on every star | proofs |
| `VSCtrl` | peer queries and direct datagrams, on top of `VSwitchTree` | specification |
| `MCVSCtrl` | a star for TLC | instance |
| `SockAddr` | `compareSockAddr`, and the equality it means | operators |
| `SendBroadcast` | one call of `sendBroadcast`, task by task | specification |
| `MCSendBroadcast` | addresses for TLC | instance |
| `SendBroadcastProofs` | one copy for each endpoint, for every table | proofs |
| `TaskRunner` | what a poller promises | abstract specification |
| `EventPoller` | one poller: posting, wake-up, timers, destruction | specification |
| `MCEventPoller` | tasks and timers for TLC | instance |
| `EventPollerProofs` | wake-ups, timers, the queue, the destructor, for any tasks and threads | proofs |
| `ThreadPool` | a pool: queue, semaphore, threads, destruction | actions |
| `ArpMap` | the ARP watch of one node, on a `ThreadPool` | specification |
| `ArpMapProofs` | permits and the last sender, for any addresses | proofs |
| `Transport` | the UDP socket and the tasks that send | specification |
| `TransportProofs` | order and losses, for any number of datagrams | proofs |
| `Process` | parent, switch, and SIGINT | specification |
| `ProcessProofs` | one switch, and it is told | proofs |

### MacMap

`macMap[m]` is the entry of `m`; no entry is the entry of a default-constructed
`MacPeer`, since `operator[]` makes one and `addMacPeer` always fills it in (its
ttl is 0). `age[m]` counts the periods of the check since the ticker was reset.
`Tick` lets a period pass and fires the timer, `CheckMac` is `checkMac`,
`RunTask` one of the tasks it posts: the verdict holds the age the check
measured, as the closure in the code does. `AddMacPeer` is `addMacPeer` for the
addresses `setupOnPeerInput` lets through; `Init` includes main's call for the
broadcast address.

### VSwitch

A node is one value, which stands for its MAC address and for its socket
address. `net` is the set of datagrams in flight. Actions: `PollInterface`
(`pollInterface`), `OnPeerInput` (the whole callback: write, learn, relay),
`KeepAlive` (link keeper), `RemovePeer` (the table's removal; `MacMap` says
when), `Restart` (the process ends and `main` runs again), `Lose` (UDP). With
`"dup"` in `Faults`, reading a datagram may leave it in flight.
`OnPeerInput` runs `sendBroadcast` in the same step: its tasks only send, with
addresses they took from the table in that step, and datagrams are delayed and
reordered at will anyway; `SendBroadcast` models the tasks one by one. In which
order the table is iterated is a choice (`BcastFirst`).

History variables: `hops` of a datagram (relays it went through), `frames`
(what was read from the TAP interfaces), `written` (what was written to them).

Hosts are taken to send from the MAC address of their node (the TAP interface is
not bridged), and `SendTtl` is the same at every node, as the default is.
`compareSockAddr` is equality there; `SockAddr` is about the difference.
Command frames are not part of the module, so that it is the program with
`-p2p 0` as far as the table goes (the other query never touches the table);
`VSCtrl` adds them.

### VSwitchTree

The constant `Hop[n][m]` is n's neighbour on the way to m. `HopAssumption` says
what that means on a tree, without speaking of paths: the way from h to s goes
through its neighbour n exactly if s is n or the way from n to s does not lead
back to h. TLC checks the assumption for the trees of run `tree` and the star of `p2p`.

### VSCtrl

Adds to the network the commands in flight (`cmds`) and the timers that send to
peers (`punching`). `SendQueryPeers`, `OnQueryPeers` and `OnQueryPeersResponse`
are the handlers; a response is one datagram per peer, since the code handles its
parts and their peers one by one, and each may be lost. `Punch` is one run of the
timer, which calls `LinkKeeper::sendKeepData` with ttl 0; the datagram is then one
of module `VSwitch`. `OnEmpty` is what becomes of an empty response: a datagram of no
bytes, of which `setOnRead` reads twelve. The response of an empty table is one, and
one may follow any other, when the last entry filled a part to 1000 bytes
(`VSCtrlHelper.cpp:96-102`). `doDelayTask` runs a
timer at the earliest a second later, `Punch` any time later, in either case
`Retry` times more. Addresses are the nodes' own (no NAT), and equal timers count
as one.

`LoopFree` says of the tables of all nodes together that no set of nodes passes
the frames for a MAC address round: with direct paths, `RouteSound` no longer
holds. On a star (one node without a core peer, the core peer of all others) it
holds, and so does `LanSpec`, whichever nodes ask: run `p2p` checks both on a star
of three in which all nodes ask, as the default has it, the theorems on every star.

On deeper trees neither holds of the code, no doc of the repository says that they
should, and no run of this project covers these cases:

* A node between two others asks. An empty response may teach it its core peer as
  the way to a node below it, while the core peer's way to that node leads back: the
  two pass its frames round until their ttl is used up. Three nodes in a chain, the
  middle one asking, are enough.
* A node above knows one below directly. With a and c under b under r, once r knows
  a directly, a broadcast of c reaches a from b and from r: it is handed over twice.

What does hold on every tree, with direct paths, is proved: the bound on relays
(`CtrlHopsBounded`), who is handed a frame (`CtrlHandedOnlyToAddressed`), and that a
frame for one host comes once (`CtrlUnicastHandedOnce`).

### SockAddr and SendBroadcast

An address is a family, 32-bit words and a port. The socket is bound to `::`, so
that an IPv4 peer is heard behind a mapped address, while the configured core
peer is an AF_INET address: one endpoint in two forms. `SameEndpoint` is the
equality that is meant, `compareSockAddr` the code's. `SendBroadcast` starts
with any small table and any source, and runs the posted tasks in any order,
each with the code's two tests in their order. `Confused` are the pairs of
addresses the two equalities differ on, `Distinguished` says that a call has none.

### TaskRunner and EventPoller

`TaskRunner` is what the rest of the program takes for granted: tasks posted to a
poller run once, one by one, in their order, urgent ones excepted. `EventPoller`
is the poller on Linux. `Async` and `WritePipe` are the two halves of `async_l`;
`ReadClock`, `Fire`, `Sleep` are `getMinDelay`, `flushDelayTask` and the call of
`epoll_wait`; `PipeEvent`, `Drain`, `Swap`, `RunTask`, `EndRun` are `onPipeEvent`;
`Shutdown`, `Leave`, `FlushTask`, `EndFlush` the destructor, which runs on another
thread (its name is `Exit`). `RunnerSpec` maps the two lists, in a row, to the
abstract queue. A tick is a unit of time: `due[d]` is what is left to a deadline,
`spent` the time since the clock was read. What a task posts to its own poller is
posted with `may_sync` false, as everywhere in `src/src`. A delay task runs between
the tasks of a list and posts as a thread does, list first and pipe second, so that
what one posts (the link keeper's timer, one task per entry of the table) is an
`Async` of a thread that finds the loop at `timers`. A delay task that throws is not
called again: `Fire` may drop even one that repeats.

Two odd things the model keeps: a remainder of 0 makes the loop sleep until
something wakes it, and the sleep is computed from the clock that was read before
the timers ran. `NoOversleep` states what is left: the loop never oversleeps by
more than the time those timers took. (The remainder is 0 only if a timer is set
for no delay, which the code does not do.)

### ThreadPool and ArpMap

`ThreadPool` is one pool: `Push` and `Post` are the two halves of `push_task`,
`Close` the destructor with its permits, `Wait`, `Take` and `Finish` a worker. Nothing
keeps a caller out while or after the destructor runs, nor the destructor from coming
between a caller's `Push` and `Post`, and the model does not either. The
semaphore is a counter with a condition variable (the POSIX one is disabled in
`semaphore.h`), and `Notified` the difference between one permit and many.

`ArpMap` extends it: `checkArp` pushes a frame, `Run` is the task. The frames are
those hosts send: requests, replies, gratuitous requests, probes, and frames that
are no ARP; a host may take over an IP address. The map is constructed after the
pool and destroyed before it, so that what a task does to it after `Close` is
undefined: either map. The poller of the socket calls `checkArp` until the process is
gone. A frame it queues while the thread is there is looked at, before or after
`push_exit`; one queued when the thread has ended stays, or is not queued at all, the
queue being destroyed. `PoolEnds` is stated for frames that cease (`FramesCease`): as
long as they come, each may keep the thread from the empty queue on which it ends.

### Transport

From a datagram that arrives (`Arrive`) or a frame of the TAP interface
(`TapSend`) to the wire (`Transmit`). A number is one datagram to be sent; a frame
that goes to several peers is several numbers in a row. `Compress` and `Send` are the
two tasks of `Transport::send`; the first runs on the poller `getPoller` gave, the
current one on a poller and any on the TAP thread, the second on that of the socket.
The copies of a broadcast (`Bcast`) are sent by tasks of `MacMap::forEach`, so that
each goes through one task more (`ForEach`), on the same poller. A poller
is its queue of tasks, which `EventPoller` justifies. `Read` is `onRead`: all that has
arrived is read and relayed, but for what an exception of the callback takes with it
(the rest of a batch of 32) and for what a call of `recvmmsg` that fails or returns
nothing leaves in the kernel; then `stopped` says that only the next arrival has it
read. `Write` is `onWriteAble`, `Send` is `send_l` with `flushAll` (`SendNow`, `SendLater`,
`GiveUp`). `Round` is one batch given to `sendmmsg`: what the kernel took, what is
kept, what is dropped. `Modify` is `modifyEvent`, after which epoll looks at the
socket anew. `bad` are datagrams the kernel refuses: a node without a core peer
sends each relayed broadcast to 0.0.0.0:0 as well.

`GiveUp` is one step, since `emitErr` posts with `may_sync` and runs on the
poller of the socket: the socket is taken off epoll (`watched`) and left open.

### Process

The parent's place in `startDaemon` is `sup`, a child's place in `main` is
`at[k]`. `Fork`, `Assign` and `Install` are three steps, because a signal may come
between them. `disp[k]` is what a SIGINT does to child k: the default, the
handler the child inherited, `main`'s own, nothing. `sent` are the processes that
were sent one; it is never taken back, since no disposition but the mutant's acts
on a second. `Start` is `main` up to `VSwitch::start`, `Handle` the handler, `Wait`
and `Sleep` the semaphore, `End` the destructors after `main`. In debug mode there
is a child with the default disposition and no parent.

## 3. Runs

| run | shows | bounds |
|---|---|---|
| `mac_table` | the table implements `RouteTable`; a silent address is forgotten; a node that moved is not kept behind the address it left | 1 MAC address, heard behind 2 addresses and through the core peer, 3 ttls, timeout 2 periods |
| `tree` | routes, paths, copies, LAN | a under b under r, c under r; two frames of ttl 3, one after the other; loss |
| `ring` | the ttl bounds every relay and ends every storm; no host is handed its own frame or another's | ring of 3, ttl 3, one frame among keepalives, forgetting and restarts |
| `delivery` | what can be relayed arrives | star of 3, two frames, ttl 1, duplicates |
| `uplink_ttl` | *violation*: the copy for the core peer may have ttl 0 | chain of 3 |
| `p2p` | on a star, direct paths form no loops and the hosts still see a LAN | a and b under r, all with `-p2p 1`; one frame of ttl 2, a timer that sends once per response, loss |
| `broadcast` | each endpoint but the sender gets one copy | up to 3 learned entries of 5 addresses, 3 core peers, ttl 0 |
| `poller` | the poller implements `TaskRunner`; it never sleeps over a task; timers fire; the destructor loses no task | 3 plain tasks, each posting the next, a repeating timer and a single one, 2 threads, a pipe of 2 bytes, 1 tick while the loop works |
| `arp` | the watch records the last sender of each address; permits match tasks; the pool ends if the frames do | 2 IP and 2 MAC addresses, 2 tasks, one thread as in the code; frames before, during and after the destructor |
| `transport` | relays leave once, and in order but for broadcasts a later frame overtakes; nothing is lost but behind a full buffer; nothing sticks | 3 datagrams relayed (broadcast, unicast, broadcast), 1 of the node's own, a buffer of 2, any of them refused, reads cut short, the timeout |
| `process` | one switch; it comes back; a settled parent tells it; a sleeping main wakes | 3 crashes and signals |
| `exit` | *violation*: a switch told to end does not end | 1 signal |

Why the bounds are enough. Entries of two MAC addresses never meet: the check
visits each, but reads and removes it alone. Three nodes in a chain are the least network in
which a route has two hops, a frame is relayed past a node on the way to its
destination, and a node's core peer is not the root; the fourth makes the root
fan its broadcasts out to two. Frames that overlap in `tree` are left to the
theorems, which are about any number of them. Two frames are what it takes for one to be
relayed by what the other taught. The ttl is the number of hops a frame may take
plus one where the run is about its end, and 0 in `broadcast`, where `ttl-1`
wraps. For the safety properties the theorems below do without the bounds on
nodes, ttl and datagrams.
`MaxInFlight` only keeps new frames and keepalives from starting; a broadcast in
flight fans out past it. `MaxFrames` bounds the frames of a behaviour. `MaxTasks`
bounds the frames the ARP pool has not done with, `Ages` stop counting one past
the timeout. In `poller`, three tasks of which each posts the next are the least
that show a list filled while another is run and what a destructor leaves
behind; deadlines stop counting one tick after they passed. In `transport`, four
datagrams are what it takes for one to be on the wire, two in a batch cut in two
and one waiting behind it; three that arrive, a frame for one host between two copies
of broadcasts, are the least in which it may overtake one and must not be overtaken by
the other; a kernel buffer of two is the least that epoll finds half empty. In `p2p`,
two nodes under a third are the least that can have a direct path beside the tree;
`Retry` is 0, since a timer that sends again does what the timer of a later response
does, and ttl 2 is enough for a copy of the core node to be passed on if it were not
sent with ttl 0. a and b may be exchanged (`Leaves`), which none of the properties
of the run tells apart. In `process`, a child costs a fault, so that three faults give up to
four children: one that crashed, one that inherited the handler, and one after it.

The deadlock check is off where the system may stop: `broadcast` (the tasks of the
call are done), `poller` (the poller is gone), `transport` (all datagrams of the
bound are sent), `process` and `exit` (all processes ended, or fork no more). All
others never stop (keepalives, time and hosts go on).

### Fairness

* `MacMap`: weak fairness of `Tick` (time passes), of `CheckMac` (the poller runs
  the timer that is due) and of each verdict's task (a poller runs what is posted
  to it). Nothing is assumed of frames.
* `VSwitch`: weak fairness of `ReadFrame(n, f)`, some copy of frame f that is on
  its way to n is read. It says that the network delivers and the socket is read;
  it is used in runs without `"lose"` alone, where it is what "not lost" means.
  Nothing is assumed of hosts, keepalives or the order of datagrams.

* `EventPoller`: the loop thread goes on, a thread that filled the list writes the
  pipe, time passes. Nobody has to post, no signal has to come.
* `ArpMap`: a thread that queued a frame posts its permit; workers go on. That frames
  cease is a premise of `PoolEnds`, not an assumption of the specification.
* `Transport`: pollers run what is posted to them, and handle events between the
  tasks (`EventPoller` shows both); the kernel sends what it took. Nothing has to
  arrive, reads may be cut short every time, and the ten seconds may or may not pass.
* `Process`: processes and pending signals make progress, and fork does not fail for
  ever (strong fairness: it is retried every second). Nothing has to crash.

### Findings

Two places where the code disagrees with what it says of itself; `PROJECT.json`
quotes the lines.

1. `VSwitch.cpp:102`: the ttl of the core peer's copy depends on which table entry
   with the core peer's address comes first. In a network of three levels the
   middle nodes learn addresses behind their core peer from its keepalives, and a
   broadcast of theirs may then not get past it.
2. `main.cpp:140`: after SIGINT, `main` returns, but nothing stops the TAP thread,
   which the destructor of `VSwitch::m_thread` joins. The process stays, deaf to
   further SIGINTs; its parent waits for it.

Other things seen while modelling, which no doc of the repository contradicts or
which need no model to be seen:

* `MacMap.h:128`: the removal task uses the age the check measured: a frame that
  arrives between check and task does not save the entry. The harm is a short
  detour through the core peer (or a flood), until the next frame.
* `Utils.h:244`: mapped and native IPv6 addresses are compared by four bytes: a peer
  whose IPv6 address begins with the bytes of another's IPv4 address is left out of
  broadcasts, or has that one left out. TLC finds it as soon as `Addresses` holds such
  a pair; `EveryoneServed` shows that there is no other way to be left out.
* `ArpMap.h:60`: the target's branch records the sender.
* `MacMap.h:114`: a relayed broadcast takes one task more than a frame for one host:
  the latter, read after it in the same batch, leaves before it. `RelayInOrder` allows
  that, and nothing else.
* `ArpMap.h:31`: the pool is destroyed at exit while the poller of the socket still
  hands it frames: one queued when the thread has ended is never looked at, and the
  queue is one that is destroyed or about to be.
* `Socket.cpp:291-310`: a read that fails for another reason than EAGAIN leaves what
  has arrived unread until more arrives.
* `Socket.cpp:417`: after a send timeout the socket is off epoll for good. The node
  hears nothing any more; it still sends until the kernel's buffer is full, and
  from then on `_send_buf_waiting` only grows.
* `Socket.cpp:760`: a datagram the kernel refuses takes the datagrams that wait
  behind it in its batch with it.
* `Utils.h:284-286`: between `fork` and `signal` a SIGINT ends the parent alone, and
  the switch lives on without it; in a child forked after the first, until
  `main.cpp:135`, the parent's handler signals the process group; after a failed
  fork it signals every process of the user.
* `main.cpp:138`: a SIGINT in the instructions between `semaphore::wait`'s look at the
  counter and its sleep is lost, and later ones are ignored.

## 4. Proofs

All theorems hold for every value of the constants that meets the named
assumptions; the assumptions are those the modules declare, and TLC evaluates
them in every run.

* `MacMapProofs!TypeCorrect`, `RefinesRouteTable`: `Spec => RouteTableSpec`. The
  inductive invariant is `TypeOK` with `Filled`: an entry without an address has
  ttl 0. Without it a step that learns a path for a removed entry need not be an
  `Exchange`, because the leftover ttl would still bar new paths.
* `VSwitchProofs!TypeCorrect`: types, and `Wired`: every table keeps the
  broadcast entry of `main`, and learned addresses are nodes. The lemmas
  `PollSends`, `InputSends` and `KeepAliveSends` say once what a step may put
  into `net`; every later proof cites them and none looks at an action again.
* `VSwitchProofs!HopsBounded`: on any network, rings included, `hops + ttl` never
  exceeds `SendTtl`. It is inductive with the types, because a datagram that is
  relayed has a ttl above 0 and `Dec` then does not wrap.
* `VSwitchProofs!HandedOnlyToAddressed`: in every network, and whatever the faults, a
  host is handed no frame of its own and none for another host. A relay could only
  break it by changing what it passes on; the invariant `Carried` says that every
  datagram of a frame carries the source and the destination the frame was read with.
* `VSwitchProofs!UnicastHandedOnce`: if the network duplicates nothing, a frame for one
  node is handed over at most once, in every network. `OneCopy` makes it inductive:
  there is at most one datagram of such a frame, and none once it was handed over. It
  needs that a step sends at most one datagram to one address (`FanOutOnce`), since
  datagrams in flight are a set.
* `VSwitchTreeProofs!RoutesFollowTree`: on every tree and under every fault,
  `RouteSound /\ PathSound`. Neither is inductive alone: what a node learns is
  right because the datagram came along the tree, and a datagram stays on the
  tree because what nodes learned is right. `RelayOnPath` is the heart: after a
  node learned from p, no address in its table but the source's own leads back
  to where p came from.
* `VSwitchTreeProofs!PathsFollowTree`: `PathSound`, from the former.
* `VSwitchTreeProofs!TreeLoopFree`: `LoopFree` without direct paths, on every finite
  tree. With each hop toward m a node has more nodes behind it and fewer ahead
  (`BehindGrows`, `AheadShrinks`); of the nodes said to pass the frames round, the one
  with the fewest ahead passes them to one with fewer. That there are finitely many
  nodes is a hypothesis of this theorem alone.
* `VSwitchTreeProofs!CopiesNeverMeet`, `ImplementsLan`: with no duplication below,
  `Spec => LanSpec`. The invariant `CopiesSound` says that a broadcast spreads
  from its source over the tree, each copy toward a node that was not handed the
  frame, from one that was, and that no two copies head for one node. That a
  `Deliver` is the node's first follows. Of the routes the proof needs only
  `BroadcastsOnPath`, that broadcasts keep to the tree, which follows from `PathSound`
  here and from the invariant of the star below.
* `VSwitchTreeProofs!CtrlTypeCorrect`, `CtrlHopsBounded`: the same types and the same
  bound on relays when the control helper adds direct paths, with which routes leave
  the tree and the ttl is all there is. `CtrlTypeOK` is not inductive: a timer that
  sent to port 0 would put into `net` what is no datagram. `Reachable` says that a
  response names peers by addresses that datagrams came from.
* `VSwitchTreeProofs!CtrlHandedOnlyToAddressed`, `CtrlUnicastHandedOnce`: the two
  theorems on who is handed what hold with direct paths on every tree, after responses
  of empty tables too. `HelperQuiet` says why: the control helper sends keepalives and
  commands, and only the former are datagrams of the switch.
* `VSwitchTreeProofs!StarLoopFree`, `StarImplementsLan`, `StarUplinkTtl`: with direct
  paths on every star, whichever nodes ask and whatever is lost, forgotten or
  restarted (and, but for the LAN, duplicated). `StarInv` says where everything is:
  the core node r knows the others at their own addresses, and these know each other
  there or behind r (`RoutesOnStar`), so that frames go to their owner or by r to it;
  a broadcast goes to r with all of its ttl and leaves r with none (`NetOnStar`), so
  that nobody passes on what r fans out, and a node that is known directly gets one
  copy; only r is asked, and it answers with what it knows (`HelperOnStar`), which is
  why an empty response, which names the node that sent it, leads to r. None is
  inductive without the others. The star is the hypothesis because the two ways in
  which a deeper tree fails (§2, `VSCtrl`) both need a node between two others.

* `SendBroadcastProofs!NoSecondCopy`, `NoCopyBack`: for any table, any source and any
  order of the tasks. `Comparison` splits by the three forms of an address:
  `compareSockAddr` finds each pair of forms of one endpoint, and takes a pair for
  one that is two only if it is `Confused`. `EveryoneServed` is therefore proved
  under `Distinguished`: nobody is left out of a call without such a pair. The
  instance of run `broadcast` has none, which TLC evaluates.

* `ProcessProofs!TypeCorrect`, `OneSwitchAtATime`, `ParentTells`: for any number of
  crashes and signals. The inductive invariant says that only the last child may
  live, and none while the parent is about to fork (`LastAlive`); that pid and
  handler are those of that child once the parent waits (`Settled`); that a child
  leaves main only on a SIGINT (`Handlers`); and that children are paid for by
  faults (`Paid`), without which their number would not be bounded by the model's
  constant.

* `EventPollerProofs!NoLostWakeUp`: for any threads, tasks, timers and any size of the
  pipe. `WakesUp` is not inductive: it speaks of the time in which the loop may go to
  sleep, and is true then because of what happened since the loop took the list. The
  invariant `Announced` says so from that moment on (whoever fills the list since then
  has yet to write the pipe, or the pipe holds something), `EdgeRaised` that what the
  pipe holds has raised an event unless the loop is about to read all of it.
* `EventPollerProofs!TypeCorrect`, `SleepsInTime`: `TimersAhead` says that every timer
  the loop is not about to fire is ahead of the clock that was read, until the loop
  sleeps, one that is set again meanwhile included. That the timeout is a number at
  all needs a least element in a set of deadlines; `LeastExists` gets it from the
  well-foundedness of the naturals. `TimeAssumption` has timers set for a delay, as
  all in `src/src` are.
* `EventPollerProofs!ImplementsRunner`: `Spec => RunnerSpec`, step by step. What the
  loop took is run before it goes on (`TakenFirst`), so that the two lists in a row
  are the abstract queue. That a task runs once needs it to be in one place (`Once`),
  and this in turn that what it posts was not there before it ran (`PostersRan`).
  Hence the part of `TasksAssumption` that a task is posted by one other task or by
  threads.
* `EventPollerProofs!NoTaskLost`: what the destructor leaves behind is of the third
  generation. The invariant `Generations` says which generation each list holds from
  the exit task on; `ExitRan` and `ExitFirst` place that task at the head of what it
  was posted with.

* `ArpMapProofs!TasksHavePermits`, `TypeCorrect`, `HostsRecorded`: permits are counted
  against tasks. `NoneEnded` makes it inductive: no worker ends before the
  destructor, so that its permits are one for each. The lemmas about the pool hold
  for any number of threads, though `ArpMap` assumes the code's one. `HostsRecorded`
  says that only hosts' bindings are recorded, whatever probes are heard.
* `ArpMapProofs!LastSenderWins`: the invariant `InOrder` says where the last word on an
  IP address is: in the last frame of the queue that tells of it, or, if none does, in
  the worker's hand, or, if it is not there, in the table. It needs the one thread:
  of two, the one with the second frame may be first.

* `TransportProofs!RelayedInOrder`, `SentOnce`, `LostWaiting`: for any number of
  datagrams, pollers and any room in the kernel. What was handed to the socket and not
  given up (`out`: on the wire, in the batch, behind it) is one sequence in which
  nothing comes twice and of two relayed datagrams the earlier comes first, unless it
  is a broadcast's copy and the other is none (`Before`, which is not transitive, so that
  the invariant is about all pairs and not about neighbours). A task in
  a poller's queue may be followed by up to two more (`Left`), each of which goes to
  the end of a queue; `InTurn` says which of two tasks may be ahead, such that each
  step of a task keeps it (`JobAdvanced`). `JobsRead` adds what one event hands over, of
  whatever length, cut short or not. `Places` says that each queue is ahead of what
  feeds it and that what was given up is nowhere. A step of the socket keeps the
  order of `out` and drops a part of it (`Flow`), which is where most of the proof goes. `Taken`, how many datagrams the
  kernel took, is a CHOOSE whose existence is proved as that of a least deadline is.
  `NothingWaits`, that nothing waits in a socket that can be written, keeps a datagram
  from passing those that wait.

Model-checked only: liveness (`SilentForgotten`, `OldPathGivenUp`, `StormDies`,
`RelayDelivers`, `EveryTaskRuns`, `TimersFire`, `PoolEnds`, `ArrivalsRead`,
`NothingStuck`, `ComesBack`, `SignalWakesMain`), which is out of the prover's reach.
`LoopFree` and `LanSpec` under `CtrlSpec` are proved for stars, of which run `p2p`
checks one; on every tree they do not hold.

## 5. Not modelled

* The text of the commands, and the query for the core peer's own address (nothing
  reads its result). `split` drops empty parts and `VSCtrlHelper.cpp:226` indexes
  them unchecked, which is seen without a model.
* Compression, the command line, reading the host's MAC address, logging: they hold
  no state of the switch. (The options the code reads are `remote_addr`,
  `remote_port` and `local_port`, not those of the README's examples.)
* Of the toolkit: TCP, TLS, HTTP, SQL, which the switch does not use; cancelling a
  delay task, which nothing in `src/src` does; the select and kqueue loops and the
  Windows build.
* jsoncpp and libtuntap, vendored; the stub under `webapi/`, used by nothing.

## 6. What is left to do

1. Proofs: direct paths on trees deeper than a star: which shapes, and which nodes
   that ask, keep `LoopFree` and `LanSpec`.
2. `VSCtrl` on larger trees: how often a broadcast arrives, and when a direct path
   is taken and kept (a relayed frame has more ttl than the datagrams sent to a
   peer), as a liveness property.
3. The text of the commands.

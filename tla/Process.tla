------------------------------ MODULE Process ------------------------------
(***************************************************************************)
(* The processes of a node (src/src/Utils.h: startDaemon, src/src/main.cpp)*)
(* A parent forks the switch, waits for it to end and forks it anew; on    *)
(* SIGINT it passes the signal on and exits.  The child starts the         *)
(* components and then sleeps on a semaphore, which its own handler posts. *)
(* Until the child has installed that handler it has the one its parent    *)
(* had when it forked.  (In debug mode there is a child and no parent.)    *)
(***************************************************************************)
EXTENDS Integers, FiniteSets

CONSTANT MaxFaults   \* bound: crashes of a child and SIGINTs from outside

ASSUME MaxFaultsAssumption == MaxFaults \in Nat

VARIABLES
    sup,     \* where the parent is in startDaemon
    pid,     \* startDaemon's static pid: 0, -1, or a child
    relays,  \* the parent's handler is installed
    forks,   \* the children so far are 1..forks
    at,      \* at[k]: where main is in child k
    disp,    \* disp[k]: what child k does on a SIGINT
    count,   \* count[k]: main's semaphore in child k
    running, \* the children in which m_running is set and the TAP thread loops
    sent,    \* the processes a SIGINT was sent to, the parent is 0
    faults   \* crashes and SIGINTs from outside so far

parent == <<sup, pid, relays, forks>>
child == <<at, disp, count, running>>
vars == <<parent, child, sent, faults>>

Children == 1..MaxFaults + 1
Alive == {k \in Children : at[k] \notin {"none", "ended"}}

Init ==
    /\ sup = "fork" /\ pid = 0 /\ relays = FALSE /\ forks = 0
    /\ at = [k \in Children |-> "none"]
    /\ disp = [k \in Children |-> "default"]
    /\ count = [k \in Children |-> 0]
    /\ running = {} /\ sent = {} /\ faults = 0

-----------------------------------------------------------------------------
(* startDaemon in the parent.  fork returns before pid is assigned, and    *)
(* the handler is installed after that; a child has the handler of before. *)
Fork ==
    /\ sup = "fork"
    /\ sup' = "assign"
    /\ forks' = forks + 1
    /\ at' = [at EXCEPT ![forks'] = "starting"]
    /\ disp' = [disp EXCEPT ![forks'] = IF relays THEN "inherited" ELSE "default"]
    /\ UNCHANGED <<pid, relays, count, running, sent, faults>>

ForkFails ==
    /\ sup = "fork"
    /\ sup' = "sleep" /\ pid' = -1
    /\ UNCHANGED <<relays, forks, child, sent, faults>>

Assign ==
    /\ sup = "assign"
    /\ sup' = "install" /\ pid' = forks
    /\ UNCHANGED <<relays, forks, child, sent, faults>>

Install ==
    /\ sup = "install"
    /\ sup' = "wait" /\ relays' = TRUE
    /\ UNCHANGED <<pid, forks, child, sent, faults>>

ReapedAny == TRUE  \* mutant: what waitpid returns is not looked at
Reaped == at[pid] = "ended"

Reap ==
    /\ sup = "wait" /\ Reaped
    /\ sup' = "sleep"
    /\ UNCHANGED <<pid, relays, forks, child, sent, faults>>

SleptWaits ==  \* mutant: waitpid is called again for the child that ended
    /\ sup = "sleep"
    /\ sup' = IF pid = -1 THEN "fork" ELSE "wait"
    /\ UNCHANGED <<pid, relays, forks, child, sent, faults>>

Slept ==
    /\ sup = "sleep"
    /\ sup' = "fork"
    /\ UNCHANGED <<pid, relays, forks, child, sent, faults>>

(* A SIGINT ends the parent: at once, or after kill(pid).  A pid that is   *)
(* no live child is none of this module's processes.                       *)
ToldNone == {}  \* mutant: it exits first
Told == IF relays THEN {pid} \cap Alive ELSE {}

ParentInterrupted ==
    /\ 0 \in sent /\ sup # "gone"
    /\ sup' = "gone"
    /\ sent' = sent \cup Told
    /\ UNCHANGED <<pid, relays, forks, child, faults>>

Parent == Fork \/ Assign \/ Install \/ Reap \/ Slept \/ ParentInterrupted

-----------------------------------------------------------------------------
(* main in child k: VSwitch::start, the handler, and semaphore::wait,      *)
(* which looks at the counter and then sleeps.                             *)
Go(k, from, to) == at[k] = from /\ at' = [at EXCEPT ![k] = to]

Start(k) ==
    /\ Go(k, "starting", "started")
    /\ running' = running \cup {k}
    /\ UNCHANGED <<parent, disp, count, sent, faults>>

Handle(k) ==
    /\ Go(k, "started", "ready")
    /\ disp' = [disp EXCEPT ![k] = "own"]
    /\ UNCHANGED <<parent, count, running, sent, faults>>

Wait(k) ==
    /\ IF count[k] = 0 THEN Go(k, "ready", "checked") /\ UNCHANGED count
       ELSE Go(k, "ready", "leaving") /\ count' = [count EXCEPT ![k] = @ - 1]
    /\ UNCHANGED <<parent, disp, running, sent, faults>>

Sleep(k) ==
    /\ Go(k, "checked", "asleep")
    /\ UNCHANGED <<parent, disp, count, running, sent, faults>>

(* The destructors after main or exit: that of m_thread joins the TAP      *)
(* thread, which loops while m_running; nothing calls VSwitch::stop.       *)
End(k) ==
    /\ k \notin running
    /\ Go(k, "leaving", "ended")
    /\ UNCHANGED <<parent, disp, count, running, sent, faults>>

(* A SIGINT in child k.  The inherited handler finds pid 0, its process    *)
(* group, parent included, or for an instant the pid of the child before;  *)
(* then it exits.  Main's own handler is run by the main thread, so that   *)
(* a notification between the look at the counter and the sleep is lost.   *)
Dies(k) ==
    /\ disp[k] = "default"
    /\ at' = [at EXCEPT ![k] = "ended"]
    /\ UNCHANGED <<disp, count, sent>>

Exits(k) ==
    /\ disp[k] = "inherited"
    /\ at' = [at EXCEPT ![k] = "leaving"]
    /\ sent' \in {sent, sent \cup {0}}
    /\ UNCHANGED <<disp, count>>

WokenNone(place) == place  \* mutant: the counter alone
Woken(place) == IF place = "asleep" THEN "ready" ELSE place

PostsAgain(k) ==  \* mutant: SIGINT is not ignored from then on
    /\ disp[k] = "own"
    /\ count' = [count EXCEPT ![k] = @ + 1]
    /\ at' = [at EXCEPT ![k] = Woken(@)]
    /\ UNCHANGED <<disp, sent>>

Posts(k) ==
    /\ disp[k] = "own"
    /\ disp' = [disp EXCEPT ![k] = "ignored"]
    /\ count' = [count EXCEPT ![k] = @ + 1]
    /\ at' = [at EXCEPT ![k] = Woken(@)]
    /\ UNCHANGED sent

ChildInterrupted(k) ==
    /\ k \in sent \cap Alive /\ at[k] # "leaving"
    /\ Dies(k) \/ Exits(k) \/ Posts(k)
    /\ UNCHANGED <<parent, running, faults>>

Child(k) == Start(k) \/ Handle(k) \/ Wait(k) \/ Sleep(k) \/ End(k) \/ ChildInterrupted(k)

-----------------------------------------------------------------------------
(* Environment: a child crashes; somebody sends SIGINT to one process, or  *)
(* the terminal to all.                                                    *)
Crash(k) ==
    /\ faults < MaxFaults /\ k \in Alive
    /\ faults' = faults + 1
    /\ at' = [at EXCEPT ![k] = "ended"]
    /\ UNCHANGED <<parent, disp, count, running, sent>>

Interrupt(targets) ==
    /\ faults < MaxFaults /\ targets # {}
    /\ faults' = faults + 1
    /\ sent' = sent \cup targets
    /\ UNCHANGED <<parent, child>>

Next ==
    \/ Parent \/ ForkFails
    \/ \E k \in Children : Child(k) \/ Crash(k)
    \/ \E targets \in SUBSET (Alive \cup {0}) : Interrupt(targets)

Spec == Init /\ [][Next]_vars

(* The processes and their signals make progress, and fork does not fail   *)
(* for ever.                                                               *)
Fairness ==
    /\ WF_vars(Parent) /\ SF_vars(Fork)
    /\ \A k \in Children : WF_vars(Child(k))

FairSpec == Spec /\ Fairness

-----------------------------------------------------------------------------
ParentOK ==
    /\ sup \in {"fork", "assign", "install", "wait", "sleep", "gone"}
    /\ forks \in 0..MaxFaults + 1 /\ pid \in -1..forks
    /\ relays \in BOOLEAN
    /\ running \subseteq 1..forks /\ sent \subseteq 0..forks
    /\ faults \in 0..MaxFaults

ChildOK ==
    /\ at \in [Children -> {"none", "starting", "started", "ready", "checked",
                            "asleep", "leaving", "ended"}]
    /\ \A k \in Children : at[k] = "none" <=> k > forks
    /\ disp \in [Children -> {"default", "inherited", "own", "ignored"}]
    /\ count \in [Children -> 0..1]

TypeOK == ParentOK /\ ChildOK

(* There is at most one switch at a time: one TAP interface and port.      *)
OneSwitch == Cardinality(Alive) <= 1

(* A parent that goes has told its child, unless it has not installed its  *)
(* handler for that child yet.                                             *)
TellsItsChild ==
    [][sup' = "gone" /\ sup \notin {"assign", "install", "gone"} => Alive' \subseteq sent']_vars

(* A switch that ended is replaced by one that serves, or was told to end, *)
(* while the parent lives.                                                 *)
ComesBack ==
    \A k \in Children : at[k] = "ended" ~>
        (sup = "gone" \/ \E j \in Children : j > k /\ at[j] \in {"asleep", "leaving"})

(* A SIGINT that finds main asleep wakes it: main leaves, once.            *)
SignalWakesMain ==
    \A k \in Children : (at[k] = "asleep" /\ disp[k] = "own" /\ k \in sent)
                            ~> at[k] \in {"leaving", "ended"}

(* src/src/main.cpp:133 "set up signal handling, graceful exit": a switch  *)
(* told to end ends.  It does not: the TAP thread is never stopped.        *)
SignalEndsSwitch ==
    \A k \in Children : at[k] = "leaving" ~> at[k] = "ended"
=============================================================================

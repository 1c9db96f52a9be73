------------------------------- MODULE MacMap -------------------------------
(***************************************************************************)
(* The MAC table of one node (class MacMap, src/src/MacMap.h): its entries *)
(* with the age of each, the check that a timer runs every 5 seconds, and  *)
(* the tasks by which the check removes what was silent for too long.      *)
(*                                                                         *)
(* The check measures every entry under the table's mutex and posts one    *)
(* task per entry, with the age it measured, to a poller thread; the task  *)
(* takes the mutex again.  Two checks may post to different pollers, so    *)
(* the tasks run in no particular order; equal tasks count as one.         *)
(* Time passes in steps of one period of the timer.                        *)
(***************************************************************************)
EXTENDS MacPeer

CONSTANTS
    Macs,      \* the MAC addresses of the other nodes
    Bcast,     \* MAC_BROADCAST
    Addrs,     \* the socket addresses they are heard behind
    CorePeer,  \* Config::corePeer
    SendTtl,   \* Config::sendTtl
    Ttls,      \* the ttls datagrams arrive with
    Timeout    \* 20 * 1000 ms, in periods of the check

Keys == Macs \cup {Bcast}

ASSUME KeysAssumption == Bcast \notin Macs
ASSUME AddrsAssumption == Unset \notin Addrs /\ CorePeer # Unset
ASSUME TtlsAssumption == SendTtl \in 0..255 /\ Ttls \subseteq 0..255
ASSUME TimeoutAssumption == Timeout \in Nat

Ages == 0..(Timeout + 1)  \* bound: older than Timeout is as old as can be

VARIABLES
    macMap,   \* the entry of every MAC address
    age,      \* periods since the ticker of the entry was reset
    due,      \* the timer has fired and the check has not run yet
    verdicts, \* the tasks the check has posted
    heard     \* history: the address a MAC address was last heard behind

vars == <<macMap, age, due, verdicts, heard>>

Verdict == [mac : Keys, time : Ages]

(* Every entry has its type, and ages and tasks stay within the bound. *)
TypeOK ==
    /\ macMap \in [Keys -> [sock : Addrs \cup {CorePeer, Unset}, ttl : 0..255]]
    /\ age \in [Keys -> Ages]
    /\ due \in BOOLEAN
    /\ verdicts \subseteq Verdict
    /\ heard \in [Macs -> Addrs \cup {Unset}]

(* main adds the core peer; the first call of addMacPeer arms the timer.   *)
Init ==
    /\ macMap = [m \in Keys |-> IF m = Bcast THEN [sock |-> CorePeer, ttl |-> SendTtl]
                                             ELSE NoPeer]
    /\ age = [m \in Keys |-> 0]
    /\ due = FALSE
    /\ verdicts = {}
    /\ heard = [m \in Macs |-> Unset]

(* Only the address of another node is ever added after that (VSwitch's    *)
(* onPeerInput leaves out its own and the broadcast address).              *)
AddMacPeer(mac, peer, ttl) ==
    /\ macMap' = [macMap EXCEPT ![mac] = Learned(@, peer, ttl)]
    /\ age' = [age EXCEPT ![mac] = IF Refreshes(macMap[mac], peer, ttl) THEN 0 ELSE @]
    /\ heard' = [heard EXCEPT ![mac] = peer]
    /\ UNCHANGED <<due, verdicts>>

Older(m) == IF Known(macMap[m]) /\ age[m] <= Timeout THEN age[m] + 1 ELSE age[m]

Tick ==
    /\ age' = [m \in Keys |-> Older(m)]
    /\ due' = TRUE
    /\ UNCHANGED <<macMap, verdicts, heard>>

CheckMac ==
    /\ due
    /\ due' = FALSE
    /\ verdicts' = verdicts \cup
                     {[mac |-> m, time |-> age[m]] : m \in {k \in Keys : Known(macMap[k])}}
    /\ UNCHANGED <<macMap, age, heard>>

(* The task: removePeer, if the age measured then is past the timeout.     *)
ExpiredUplink(v) == v.time > Timeout                   \* mutant: any entry
ExpiredSwapped(v) == v.time > Timeout /\ v.mac = Bcast \* mutant: = for #
Expired(v) == v.time > Timeout /\ v.mac # Bcast

RunTask(v) ==
    /\ verdicts' = verdicts \ {v}
    /\ macMap' = IF Expired(v) THEN [macMap EXCEPT ![v.mac] = NoPeer] ELSE macMap
    /\ age' = IF Expired(v) THEN [age EXCEPT ![v.mac] = 0] ELSE age
    /\ UNCHANGED <<due, heard>>

Next ==
    \/ \E m \in Macs, a \in Addrs, t \in Ttls : AddMacPeer(m, a, t)
    \/ Tick
    \/ CheckMac
    \/ \E v \in verdicts : RunTask(v)

Spec == Init /\ [][Next]_vars

(* Time passes, and the pollers run the timers and tasks posted to them.   *)
Fairness ==
    /\ WF_vars(Tick)
    /\ WF_vars(CheckMac)
    /\ \A v \in Verdict : WF_vars(v \in verdicts /\ RunTask(v))

FairSpec == Spec /\ Fairness
-----------------------------------------------------------------------------
(* The table implements the promise of RouteTable: a path is given up only *)
(* for one that is at least as short, or by removing the entry, and the    *)
(* broadcast entry keeps the core peer.                                    *)
RT == INSTANCE RouteTable WITH route <- macMap
RouteTableSpec == RT!Spec

Heard(m) == \E a \in Addrs, t \in Ttls : AddMacPeer(m, a, t)

(* checkMac: a MAC address that is not heard any more leaves the table.    *)
SilentForgotten ==
    \A m \in Macs : <>[][~Heard(m)]_vars => <>[](~Known(macMap[m]))

(* A node that moved and is heard behind one address only, at whatever     *)
(* ttl, is not kept behind an address it left: the frames the table does   *)
(* not take do not keep the old entry alive either.                        *)
OldPathGivenUp ==
    \A m \in Macs, a \in Addrs :
        <>[](heard[m] = a) => <>[](macMap[m].sock \in {a, Unset})
=============================================================================

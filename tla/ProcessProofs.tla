--------------------------- MODULE ProcessProofs ---------------------------
(***************************************************************************)
(* Theorems about module Process: for any number of crashes and signals,   *)
(* there is one switch at a time, and a parent that goes has told it.      *)
(***************************************************************************)
EXTENDS Process, FiniteSetTheorems, TLAPS

(* The only child that may live is the last, and none does while the       *)
(* parent is about to fork.                                                *)
LastAlive ==
    /\ Alive \subseteq {forks}
    /\ sup \in {"fork", "sleep"} => Alive = {}

(* Once the parent waits, pid and handler are those of the last child.     *)
Settled ==
    /\ sup \in {"assign", "install", "wait"} => forks > 0
    /\ sup \in {"install", "wait"} => pid = forks
    /\ sup = "wait" => relays

(* The semaphore is posted by main's own handler alone, on the one SIGINT  *)
(* it handles, and main leaves only on a SIGINT.                           *)
Handlers ==
    \A k \in Children :
        /\ at[k] \in {"none", "starting", "started"} => disp[k] \in {"default", "inherited"}
        /\ disp[k] # "ignored" => count[k] = 0
        /\ disp[k] = "ignored" \/ at[k] = "leaving" => k \in sent

(* A child that ended, or is told to, has cost a fault of its own.         *)
LastDone == forks > 0 /\ (at[forks] = "ended" \/ forks \in sent)
Paid ==
    /\ forks <= faults + 1
    /\ sup # "gone" /\ LastDone => forks <= faults

Inv == TypeOK /\ LastAlive /\ Settled /\ Handlers /\ Paid

LEMMA InitInv == Init => Inv
<1> SUFFICES ASSUME Init PROVE Inv
  OBVIOUS
<1> USE MaxFaultsAssumption DEF Init
<1>1. ParentOK
  <2>1. forks \in 0..MaxFaults + 1 /\ pid \in -1..forks /\ faults \in 0..MaxFaults
    OBVIOUS
  <2>2. running \subseteq 1..forks /\ sent \subseteq 0..forks /\ relays \in BOOLEAN
    OBVIOUS
  <2> QED
    BY <2>1, <2>2 DEF ParentOK
<1>2. ChildOK
  BY DEF ChildOK, Children
<1>3. LastAlive
  BY DEF LastAlive, Alive, Children
<1>4. Settled /\ Handlers /\ Paid
  BY DEF Settled, Handlers, Paid, LastDone
<1> QED
  BY <1>1, <1>2, <1>3, <1>4 DEF Inv, TypeOK

(* The steps of the parent that touch no child.                            *)
LEMMA ParentInv ==
  ASSUME Inv, ForkFails \/ Assign \/ Install \/ Reap \/ Slept \/ ParentInterrupted
  PROVE  Inv'
<1> USE MaxFaultsAssumption DEF Inv, TypeOK
<1>1. /\ UNCHANGED <<forks, at, disp, count, running, faults>>
      /\ sent \subseteq sent' /\ (sup' # "gone" => sent' = sent)
  BY DEF ForkFails, Assign, Install, Reap, Slept, ParentInterrupted, child
<1>2. ChildOK' /\ Handlers'
  BY <1>1 DEF ChildOK, Handlers, Children
<1>3. Told \subseteq {forks} /\ (Told # {} => forks > 0)
  BY DEF Told, LastAlive, Alive, Children, ParentOK
<1>4. ParentOK'
  <2>1. CASE ForkFails BY <1>1, <2>1 DEF ParentOK, ForkFails
  <2>2. CASE Assign BY <1>1, <2>2 DEF ParentOK, Assign
  <2>3. CASE Install BY <1>1, <2>3 DEF ParentOK, Install
  <2>4. CASE Reap \/ Slept BY <1>1, <2>4 DEF ParentOK, Reap, Slept
  <2>5. CASE ParentInterrupted BY <1>1, <1>3, <2>5 DEF ParentOK, ParentInterrupted
  <2> QED BY <2>1, <2>2, <2>3, <2>4, <2>5
<1>5. LastAlive'
  <2>1. Reap => Alive = {}
    BY DEF Reap, Reaped, LastAlive, Settled, Alive
  <2> QED
    BY <1>1, <2>1 DEF LastAlive, Alive, ForkFails, Assign, Install, Reap, Slept, ParentInterrupted
<1>6. Settled'
  BY <1>1 DEF Settled, ForkFails, Assign, Install, Reap, Slept, ParentInterrupted
<1>7. Paid'
  BY <1>1 DEF Paid, LastDone, ForkFails, Assign, Install, Reap, Slept, ParentInterrupted
<1> QED
  BY <1>2, <1>4, <1>5, <1>6, <1>7

LEMMA ForkInv == ASSUME Inv, Fork PROVE Inv'
<1> USE MaxFaultsAssumption DEF Inv, TypeOK, Fork
<1>1. forks <= faults
  BY DEF Paid, LastDone, LastAlive, Alive, ParentOK, ChildOK, Children
<1>2. forks' \in Children /\ forks' = forks + 1 /\ forks' \notin sent /\ at[forks'] = "none"
  BY <1>1 DEF ParentOK, ChildOK, Children
<1>3. ParentOK'
  BY <1>2 DEF ParentOK, Children
<1>4. ChildOK'
  BY <1>2 DEF ChildOK, ParentOK, Children
<1>5. LastAlive'
  BY <1>2 DEF LastAlive, Alive, ChildOK
<1>6. Settled' /\ Paid'
  BY <1>1, <1>2 DEF Settled, Paid, LastDone, ParentOK, ChildOK
<1>7. Handlers'
  BY <1>2 DEF Handlers, ChildOK
<1> QED
  BY <1>3, <1>4, <1>5, <1>6, <1>7

(* A step of a child: it lived before, so that it is the last one.         *)
LEMMA ChildInv == ASSUME Inv, NEW k \in Children, Child(k) PROVE Inv'
<1> USE MaxFaultsAssumption DEF Inv, TypeOK
<1>1. k = forks /\ k > 0 /\ at[k] \notin {"none", "ended"} /\ sup \notin {"fork", "sleep"}
  BY DEF LastAlive, Alive, Children, Child, Start, Handle, Wait, Sleep, End, Go, ChildInterrupted
<1>2. /\ UNCHANGED <<sup, pid, relays, forks, faults>>
      /\ running' \subseteq running \cup {k} /\ sent' \in {sent, sent \cup {0}}
  BY DEF Child, Start, Handle, Wait, Sleep, End, ChildInterrupted, Dies, Exits, Posts, parent
<1>3. \E to \in {"started", "ready", "checked", "asleep", "leaving", "ended"} :
         /\ at' = [at EXCEPT ![k] = to]
         /\ to = "ended" \/ (to = "leaving" /\ at[k] # "leaving") => k \in sent
  BY DEF Child, Start, Handle, Wait, Sleep, End, Go, ChildInterrupted, Dies, Exits, Posts,
     Woken, ChildOK, Handlers
<1>4. \E d \in {"default", "inherited", "own", "ignored"}, c \in 0..1 :
         disp' = [disp EXCEPT ![k] = d] /\ count' = [count EXCEPT ![k] = c]
  BY DEF Child, Start, Handle, Wait, Sleep, End, ChildInterrupted, Dies, Exits, Posts,
     ChildOK, Handlers
<1>5. ParentOK'
  BY <1>1, <1>2 DEF ParentOK
<1>6. ChildOK'
  BY <1>1, <1>2, <1>3, <1>4 DEF ChildOK
<1>7. LastAlive' /\ Settled' /\ Paid'
  BY <1>1, <1>2, <1>3 DEF LastAlive, Alive, Settled, Paid, LastDone, ChildOK, ParentOK
<1>8. Handlers'
  <2>1. \A j \in Children \ {k} : at'[j] = at[j] /\ disp'[j] = disp[j] /\ count'[j] = count[j]
    BY <1>3, <1>4 DEF ChildOK
  <2>2. /\ at'[k] \in {"none", "starting", "started"} => disp'[k] \in {"default", "inherited"}
        /\ disp'[k] # "ignored" => count'[k] = 0
        /\ disp'[k] = "ignored" \/ at'[k] = "leaving" => k \in sent
    BY DEF Child, Start, Handle, Wait, Sleep, End, Go, ChildInterrupted, Dies, Exits, Posts,
       Woken, ChildOK, Handlers
  <2> QED
    BY <1>2, <2>1, <2>2 DEF Handlers
<1> QED
  BY <1>5, <1>6, <1>7, <1>8

LEMMA FaultInv ==
  ASSUME Inv,
         \/ \E k \in Children : Crash(k)
         \/ \E targets \in SUBSET (Alive \cup {0}) : Interrupt(targets)
  PROVE  Inv'
<1> USE MaxFaultsAssumption DEF Inv, TypeOK
<1>1. ASSUME NEW k \in Children, Crash(k) PROVE Inv'
  <2>1. k = forks /\ k > 0 /\ at[k] \notin {"none", "ended"}
    BY <1>1 DEF LastAlive, Alive, Children, Crash
  <2>2. ParentOK' /\ ChildOK'
    BY <1>1, <2>1 DEF Crash, ParentOK, ChildOK, parent
  <2>3. LastAlive' /\ Settled'
    BY <1>1, <2>1 DEF Crash, LastAlive, Alive, Settled, ChildOK, parent
  <2>4. Handlers' /\ Paid'
    BY <1>1, <2>1 DEF Crash, Handlers, Paid, LastDone, ChildOK, ParentOK, parent
  <2> QED
    BY <2>2, <2>3, <2>4
<1>2. ASSUME NEW targets \in SUBSET (Alive \cup {0}), Interrupt(targets) PROVE Inv'
  <2>1. ParentOK' /\ ChildOK'
    BY <1>2 DEF Interrupt, ParentOK, ChildOK, LastAlive, parent, child
  <2>2. LastAlive' /\ Settled' /\ Handlers' /\ Paid'
    BY <1>2 DEF Interrupt, LastAlive, Alive, Settled, Handlers, Paid, LastDone, ParentOK,
       parent, child
  <2> QED
    BY <2>1, <2>2
<1> QED
  BY <1>1, <1>2

THEOREM Invariance == Spec => []Inv
<1>1. Inv /\ [Next]_vars => Inv'
  <2> SUFFICES ASSUME Inv, [Next]_vars PROVE Inv'
    OBVIOUS
  <2>1. CASE UNCHANGED vars
    BY <2>1 DEF vars, parent, child, Inv, TypeOK, ParentOK, ChildOK, LastAlive, Settled,
       Handlers, Paid, LastDone, Alive
  <2> QED
    BY <2>1, ParentInv, ForkInv, ChildInv, FaultInv DEF Next, Parent
<1> QED
  BY <1>1, InitInv, PTL DEF Spec

(* Types; there are no more children than faults can end, and one.         *)
THEOREM TypeCorrect == Spec => []TypeOK
  BY Invariance, PTL DEF Inv

(* However many crashes and signals there are, there is one switch.        *)
THEOREM OneSwitchAtATime == Spec => []OneSwitch
<1>1. Inv => OneSwitch
  <2> SUFFICES ASSUME Inv PROVE OneSwitch
    OBVIOUS
  <2>1. Alive = {} \/ Alive = {forks}
    BY DEF Inv, LastAlive
  <2>2. Cardinality({}) = 0 /\ Cardinality({forks}) = 1
    BY FS_EmptySet, FS_Singleton
  <2> QED
    BY <2>1, <2>2 DEF OneSwitch
<1> QED
  BY <1>1, Invariance, PTL

(* A parent that a SIGINT ends leaves no switch that was not told, unless  *)
(* it has not installed its handler for it yet.                            *)
THEOREM ParentTells == Spec => TellsItsChild
<1> DEFINE Tells ==
      sup' = "gone" /\ sup \notin {"assign", "install", "gone"} => Alive' \subseteq sent'
<1>1. Inv /\ [Next]_vars => Tells
  <2> SUFFICES ASSUME Inv, [Next]_vars, sup' = "gone", sup \notin {"assign", "install", "gone"}
               PROVE  Alive' \subseteq sent'
    OBVIOUS
  <2>1. ParentInterrupted
    BY DEF Next, vars, parent, Parent, Fork, ForkFails, Assign, Install, Reap, Slept,
       Child, Start, Handle, Wait, Sleep, End, ChildInterrupted, Crash, Interrupt
  <2>2. Alive' = Alive
    BY <2>1 DEF ParentInterrupted, child, Alive
  <2>3. CASE sup = "wait"
    BY <2>1, <2>2, <2>3 DEF ParentInterrupted, Told, Inv, Settled, LastAlive
  <2>4. CASE sup # "wait"
    BY <2>2, <2>4 DEF Inv, TypeOK, ParentOK, LastAlive
  <2> QED
    BY <2>3, <2>4
<1> QED
  BY <1>1, Invariance, PTL DEF Spec, TellsItsChild
=============================================================================

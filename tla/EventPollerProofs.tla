------------------------- MODULE EventPollerProofs -------------------------
(***************************************************************************)
(* Theorems about module EventPoller, whatever the number of threads, the  *)
(* tasks, the timers and the size of the pipe: no wake-up is lost, the     *)
(* loop does not sleep past a time line, the poller runs its tasks as a    *)
(* queue does, and its destructor loses none but the third generation.     *)
(***************************************************************************)
EXTENDS EventPoller, SequenceTheorems, WellFoundedInduction, TLAPS

Typed == list \in Seq(Tasks) /\ swap \in Seq(Tasks) /\ pipe \in 0..PipeSize

(* What is in the pipe has raised an event, unless the loop is about to    *)
(* read all of it.                                                         *)
EdgeRaised == pipe > 0 /\ loop # "draining" => edge

(* The list is empty when the loop starts to run what it took; from then   *)
(* until the next event, whoever fills it has yet to write the pipe, or    *)
(* the pipe holds something.                                               *)
Announced ==
    list # <<>> /\ loop \in {"running", "top", "timers", "asleep"} => waking # {} \/ pipe > 0

Inv == Typed /\ EdgeRaised /\ Announced

LEMMA EnqueuedTyped ==
  ASSUME list \in Seq(Tasks), NEW x \in Tasks
  PROVE  Enqueued(x) \in Seq(Tasks)
  BY DEF Enqueued

LEMMA WakeRaises ==
  ASSUME pipe \in 0..PipeSize, Wake
  PROVE  pipe' \in 0..PipeSize /\ pipe' > 0 /\ (edge' \/ (pipe > 0 /\ edge' = edge))
  BY TimeAssumption DEF Wake

(* A task that runs, on the loop or in the destructor.                     *)
LEMMA RunKeeps == ASSUME Inv, RunHead, UNCHANGED loop PROVE Inv'
<1> DEFINE x == Head(swap)
<1>1. x \in Tasks /\ swap' \in Seq(Tasks) /\ waking' = waking
  BY DEF RunHead, Inv, Typed
<1>2. CASE x \in Plain /\ Then[x] # <<>>
  <2>1. list' = list \o Then[x] /\ Wake
    BY <1>2 DEF RunHead
  <2>2. Then[x] \in Seq(Tasks)
    BY <1>2, TasksAssumption DEF Tasks
  <2>3. list' \in Seq(Tasks)
    BY <2>1, <2>2 DEF Inv, Typed
  <2>4. pipe' \in 0..PipeSize /\ pipe' > 0 /\ (edge' \/ (pipe > 0 /\ edge' = edge))
    BY <2>1, WakeRaises DEF Inv, Typed
  <2> QED
    BY <1>1, <2>3, <2>4 DEF Inv, Typed, EdgeRaised, Announced
<1>3. CASE ~(x \in Plain /\ Then[x] # <<>>)
  <2>1. UNCHANGED <<list, pipe, edge>>
    BY <1>3 DEF RunHead
  <2> QED
    BY <1>1, <2>1 DEF Inv, Typed, EdgeRaised, Announced
<1> QED
  BY <1>2, <1>3

THEOREM Invariance == Spec => []Inv
<1>1. Init => Inv
  BY TimeAssumption DEF Init, Inv, Typed, EdgeRaised, Announced
<1>2. Inv /\ [Next]_vars => Inv'
  <2> SUFFICES ASSUME Inv, [Next]_vars PROVE Inv'
    OBVIOUS
  <2> USE DEF Inv
  <2>1. ASSUME NEW t \in Threads, NEW x \in Posted \cup Delayed, Async(t, x) PROVE Inv'
    <3>1. list' \in Seq(Tasks)
      BY <2>1, EnqueuedTyped DEF Async, Typed, Tasks, Posted
    <3> QED
      BY <2>1, <3>1 DEF Async, Typed, EdgeRaised, Announced
  <2>2. ASSUME Shutdown PROVE Inv'
    <3>1. list' \in Seq(Tasks)
      BY <2>2, EnqueuedTyped DEF Shutdown, Typed, Tasks
    <3> QED
      BY <2>2, <3>1 DEF Shutdown, Typed, EdgeRaised, Announced
  <2>3. ASSUME NEW t \in Threads \cup {Exit}, WritePipe(t) PROVE Inv'
    <3>1. pipe' \in 0..PipeSize /\ pipe' > 0 /\ (edge' \/ (pipe > 0 /\ edge' = edge))
      BY <2>3, WakeRaises DEF WritePipe, Typed
    <3> QED
      BY <2>3, <3>1 DEF WritePipe, Typed, EdgeRaised, Announced
  <2>4. CASE Loop
    <3>1. CASE Leave \/ EndRun \/ EndFlush
      <4>1. UNCHANGED tasks /\ loop' # "draining" /\ loop # "draining"
        BY <3>1 DEF Leave, EndRun, EndFlush
      <4>2. loop' \in {"running", "top", "timers", "asleep"} => loop = "running"
        BY <3>1 DEF Leave, EndRun, EndFlush
      <4> QED
        BY <4>1, <4>2 DEF tasks, Typed, EdgeRaised, Announced
    <3>2. CASE ReadClock \/ (\E d \in Delayed : Fire(d)) \/ Sleep
      <4>1. UNCHANGED tasks /\ loop \in {"top", "timers"} /\ loop' \in {"timers", "asleep"}
        BY <3>2 DEF ReadClock, Fire, Sleep
      <4> QED
        BY <4>1 DEF tasks, Typed, EdgeRaised, Announced
    <3>3. CASE Drain
      <4>1. CASE pipe > 0
        <5>1. pipe' \in 0..PipeSize /\ loop = "draining" /\ loop' = "draining"
          BY <3>3, <4>1, TimeAssumption DEF Drain, Typed
        <5> QED
          BY <3>3, <5>1 DEF Drain, Typed, EdgeRaised, Announced
      <4>2. CASE ~(pipe > 0)
        BY <3>3, <4>2 DEF Drain, Typed, EdgeRaised, Announced
      <4> QED
        BY <4>1, <4>2
    <3>4. CASE Swap
      BY <3>4 DEF Swap, Typed, EdgeRaised, Announced
    <3>5. CASE PipeEvent \/ TimeoutEvent
      BY <3>5 DEF PipeEvent, TimeoutEvent, NoEvent, tasks, Typed, EdgeRaised, Announced
    <3>6. CASE RunTask \/ FlushTask
      BY <3>6, RunKeeps DEF RunTask, FlushTask
    <3> QED
      BY <2>4, <3>1, <3>2, <3>3, <3>4, <3>5, <3>6 DEF Loop
  <2>5. CASE Interrupted \/ Tick \/ UNCHANGED vars
    BY <2>5 DEF Interrupted, NoEvent, Tick, vars, tasks, Typed, EdgeRaised, Announced
  <2> QED
    BY <2>1, <2>2, <2>3, <2>4, <2>5 DEF Next
<1> QED
  BY <1>1, <1>2, PTL DEF Spec

(* The loop never sleeps, or goes to sleep, over a task for which nobody   *)
(* is about to wake it.                                                    *)
THEOREM NoLostWakeUp == Spec => []WakesUp
<1>1. Inv => WakesUp
  BY DEF Inv, Typed, EdgeRaised, Announced, WakesUp, Ready
<1> QED
  BY <1>1, Invariance, PTL

-----------------------------------------------------------------------------
(* Timers.                                                                 *)

(* What is not due when the clock is read stays ahead of that clock until  *)
(* the loop sleeps, also a timer that is set again meanwhile.              *)
TimersAhead == loop = "timers" => \A d \in armed \ firing : Left(d) > 0

TimersInv == TypeOK /\ TimersAhead /\ NoOversleep

LEMMA LeastExists ==
  ASSUME NEW S \in SUBSET Nat, S # {}
  PROVE  Least(S) \in S /\ \A m \in S : Least(S) <= m
<1> DEFINE R == OpToRel(<, Nat)
<1>1. IsWellFoundedOn(R, Nat)
  BY NatLessThanWellFounded
<1>2. \A x, y \in Nat : y < x => <<y, x>> \in R
  BY DEF OpToRel
<1> HIDE DEF R
<1>3. PICK n \in S : \A y \in S : ~(<<y, n>> \in R)
  BY <1>1, WFMin
<1>4. ASSUME NEW m \in S PROVE n <= m
  <2>1. ~(m < n) /\ m \in Nat /\ n \in Nat
    BY <1>2, <1>3
  <2> QED
    BY <2>1
<1> QED
  BY <1>4 DEF Least

LEMMA MinDelayIs ==
  ASSUME \A d \in armed : Left(d) \in Nat \ {0}
  PROVE  /\ MinDelay \in Int \cup {Forever}
         /\ \A d \in armed : MinDelay # Forever /\ MinDelay <= Left(d)
<1> DEFINE S == {Left(d) : d \in armed}
<1>1. CASE armed = {}
  BY <1>1 DEF MinDelay
<1>2. CASE armed # {}
  <2>1. Least(S) \in S /\ \A m \in S : Least(S) <= m
    <3>1. S \in SUBSET Nat /\ S # {}
      BY <1>2
    <3> HIDE DEF S
    <3> QED
      BY <3>1, LeastExists
  <2>2. Least(S) \in Nat \ {0}
    BY <2>1
  <2>3. MinDelay = Least(S)
    BY <1>2, <2>2, Zenon DEF MinDelay
  <2> QED
    BY <2>1, <2>2, <2>3, TimeAssumption
<1> QED
  BY <1>1, <1>2

(* Steps that neither move the clock nor touch the timers.                 *)
LEMMA TimersKept ==
  ASSUME TimersInv, UNCHANGED <<timers, exit>>,
         list' \in Seq(Tasks), swap' \in Seq(Tasks), done' \in Seq(Tasks),
         waking' \subseteq Threads \cup {Exit}, pipe' \in Bytes, edge' \in BOOLEAN,
         loop' \in Places, loop' \in {"timers", "asleep"} => loop' = loop
  PROVE  TimersInv'
BY DEF TimersInv, TypeOK, TimersAhead, NoOversleep, Left, timers

LEMMA RunTimers ==
  ASSUME TimersInv, RunHead, loop \in {"running", "flushing"}, UNCHANGED loop
  PROVE  TimersInv'
<1> DEFINE x == Head(swap)
<1>1. /\ x \in Tasks /\ swap' \in Seq(Tasks) /\ done' \in Seq(Tasks)
      /\ UNCHANGED <<waking, due, firing, timeout, spent>> /\ exit' \in BOOLEAN
      /\ armed' = IF x \in Delayed THEN armed \cup {x} ELSE armed
  BY DEF RunHead, TimersInv, TypeOK
<1>2. list' \in Seq(Tasks) /\ pipe' \in Bytes /\ edge' \in BOOLEAN
  <2>1. CASE x \in Plain /\ Then[x] # <<>>
    <3>1. Then[x] \in Seq(Tasks) /\ list' = list \o Then[x] /\ Wake
      BY <2>1, TasksAssumption DEF RunHead, Tasks
    <3>2. list' \in Seq(Tasks)
      BY <3>1 DEF TimersInv, TypeOK
    <3>3. pipe' \in Bytes
      BY <3>1, WakeRaises DEF TimersInv, TypeOK, Bytes
    <3>4. edge' \in BOOLEAN
      BY <3>1 DEF Wake, TimersInv, TypeOK
    <3> QED
      BY <3>2, <3>3, <3>4
  <2>2. CASE ~(x \in Plain /\ Then[x] # <<>>)
    BY <2>2 DEF RunHead, TimersInv, TypeOK
  <2> QED
    BY <2>1, <2>2
<1> QED
  BY <1>1, <1>2 DEF TimersInv, TypeOK, TimersAhead, NoOversleep, Left

LEMMA FireTimers ==
  ASSUME TimersInv, NEW d \in Delayed, Fire(d)
  PROVE  TimersInv'
<1>0. PICK again \in {FALSE, Repeats(d)} :
      /\ armed' = IF again THEN armed ELSE armed \ {d}
      /\ due' = [due EXCEPT ![d] = IF again THEN Period[d] - spent ELSE Delay[d]]
  BY DEF Fire
<1>1. due' \in [Delayed -> Int]
  <2>1. Period[d] - spent \in Int /\ Delay[d] \in Int /\ due \in [Delayed -> Int]
    BY TimeAssumption DEF TimersInv, TypeOK
  <2>2. CASE again
    BY <1>0, <2>1, <2>2
  <2>3. CASE ~again
    BY <1>0, <2>1, <2>3
  <2> QED
    BY <2>2, <2>3
<1>2. /\ firing' = firing \ {d} /\ d \in firing /\ UNCHANGED <<tasks, loop, exit, timeout, spent, done>>
      /\ loop = "timers"
  BY DEF Fire
<1>3. \A e \in armed' \ firing' : due'[e] + spent > 0
  <2> SUFFICES ASSUME NEW e \in armed' \ firing' PROVE due'[e] + spent > 0
    OBVIOUS
  <2>1. CASE e = d
    <3>1. CASE again
      <4>1. due' = [due EXCEPT ![d] = Period[d] - spent]
        BY <1>0, <3>1
      <4>2. due'[d] = Period[d] - spent
        BY <4>1 DEF TimersInv, TypeOK
      <4>3. Repeats(d)
        BY <1>0, <3>1
      <4>4. Period[d] \in Nat \ {0} /\ spent \in Nat
        BY <4>3, TimeAssumption DEF Repeats, TimersInv, TypeOK
      <4> QED
        BY <2>1, <4>2, <4>4
    <3>2. CASE ~again
      BY <1>0, <1>2, <2>1, <3>2
    <3> QED
      BY <3>1, <3>2
  <2>2. CASE e # d
    <3>1. due'[e] = due[e] /\ e \in armed \ firing
      BY <1>0, <1>2, <2>2 DEF TimersInv, TypeOK
    <3> QED
      BY <1>2, <3>1 DEF TimersInv, TimersAhead, Left
  <2> QED
    BY <2>1, <2>2
<1>4. armed' \in {armed, armed \ {d}}
  BY <1>0
<1> QED
  BY <1>1, <1>2, <1>3, <1>4 DEF TimersInv, TypeOK, TimersAhead, NoOversleep, Left, tasks

LEMMA SleepTimers ==
  ASSUME TimersInv, Sleep
  PROVE  TimersInv'
<1>1. \A d \in armed : Left(d) \in Nat \ {0}
  BY TimeAssumption DEF Sleep, TimersInv, TypeOK, TimersAhead, Left
<1>2. /\ MinDelay \in Int \cup {Forever}
      /\ \A d \in armed : MinDelay # Forever /\ MinDelay <= Left(d)
  BY <1>1, MinDelayIs
<1>3. timeout' = MinDelay /\ loop' = "asleep" /\ UNCHANGED <<tasks, exit, due, armed, firing, spent, done>>
  BY DEF Sleep
<1> QED
  BY <1>2, <1>3 DEF TimersInv, TypeOK, TimersAhead, NoOversleep, Left, tasks, Places

LEMMA TickTimers ==
  ASSUME TimersInv, Tick
  PROVE  TimersInv'
<1>1. /\ due' \in [Delayed -> Int] /\ spent' \in 0..MaxSpent
      /\ timeout' \in Int \cup {Forever} /\ UNCHANGED <<tasks, loop, exit, armed, firing, done>>
      /\ Late \in Int /\ Late <= 0
  BY TimeAssumption DEF Tick, TimersInv, TypeOK, Late
<1>2. \A d \in armed : /\ due[d] \in Int /\ due'[d] \in Int
                       /\ due'[d] = due[d] - 1 \/ (due'[d] = due[d] /\ due[d] = Late)
  BY <1>1 DEF Tick, TimersInv, TypeOK, Pending
<1>3. TypeOK'
  BY <1>1 DEF TimersInv, TypeOK, tasks
<1>4. TimersAhead'
  <2>1. CASE loop = "timers"
    <3>1. spent' = spent + 1 /\ spent \in Nat
      BY <2>1, TimeAssumption DEF Tick, TimersInv, TypeOK
    <3>2. ASSUME NEW d \in armed \ firing PROVE due'[d] + spent' > 0
      <4>1. due[d] + spent > 0
        BY <2>1 DEF TimersInv, TimersAhead, Left
      <4> QED
        BY <1>2, <3>1, <4>1
    <3> QED
      BY <1>1, <3>2 DEF TimersAhead, Left
  <2> QED
    BY <1>1, <2>1 DEF TimersAhead
<1>5. NoOversleep'
  <2>1. CASE loop = "asleep"
    <3> SUFFICES ASSUME NEW d \in armed
                 PROVE  timeout' # Forever /\ (timeout' <= due'[d] + spent' \/ timeout' <= 0)
      BY <1>1 DEF NoOversleep
    <3>1. timeout \in Int /\ (timeout <= due[d] + spent \/ timeout <= 0)
      BY <2>1, TimeAssumption DEF TimersInv, TypeOK, NoOversleep
    <3>2. spent' = spent /\ spent \in Nat
      BY <2>1, TimeAssumption DEF Tick, TimersInv, TypeOK
    <3>3. timeout' = timeout - 1 \/ (timeout' = timeout /\ timeout <= Late)
      BY <1>1, <2>1, <3>1, TimeAssumption DEF Tick
    <3>4. timeout' \in Int /\ timeout' # Forever
      BY <3>1, <3>3, TimeAssumption
    <3> QED
      BY <1>1, <1>2, <3>1, <3>2, <3>3, <3>4
  <2> QED
    BY <1>1, <2>1 DEF NoOversleep
<1> QED
  BY <1>3, <1>4, <1>5 DEF TimersInv

THEOREM TimersInvariance == Spec => []TimersInv
<1>1. Init => TimersInv
  <2>1. Delay \in [Delayed -> Int]
    BY TimeAssumption
  <2> QED
    <3> SUFFICES ASSUME Init PROVE TimersInv
      OBVIOUS
    <3>1. list \in Seq(Tasks) /\ swap \in Seq(Tasks) /\ done \in Seq(Tasks)
      BY DEF Init
    <3>2. pipe \in Bytes /\ spent \in 0..MaxSpent
      BY TimeAssumption DEF Init, Bytes
    <3>4. edge \in BOOLEAN /\ exit \in BOOLEAN
      BY Zenon DEF Init
    <3>3. loop = "top" /\ loop \in Places /\ waking = {} /\ firing = {} /\ armed = {}
      BY DEF Init, Places
    <3> QED
      BY <2>1, <3>1, <3>2, <3>3, <3>4 DEF Init, TimersInv, TypeOK, TimersAhead, NoOversleep
<1>2. TimersInv /\ [Next]_vars => TimersInv'
  <2> SUFFICES ASSUME TimersInv, [Next]_vars PROVE TimersInv'
    OBVIOUS
  <2> USE DEF TimersInv
  <2>1. ASSUME NEW t \in Threads, NEW x \in Posted \cup Delayed, Async(t, x) PROVE TimersInv'
    <3>1. list' \in Seq(Tasks)
      BY <2>1, EnqueuedTyped DEF Async, TypeOK, Tasks, Posted
    <3> QED
      BY <2>1, <3>1, TimersKept DEF Async, TypeOK
  <2>2. CASE Shutdown
    <3>1. list' \in Seq(Tasks)
      BY <2>2, EnqueuedTyped DEF Shutdown, TypeOK, Tasks
    <3> QED
      BY <2>2, <3>1, TimersKept DEF Shutdown, TypeOK
  <2>3. ASSUME NEW t \in Threads \cup {Exit}, WritePipe(t) PROVE TimersInv'
    <3>1. pipe' \in Bytes
      BY <2>3, WakeRaises DEF WritePipe, TypeOK, Bytes
    <3>2. edge' \in BOOLEAN
      BY <2>3 DEF WritePipe, Wake, TypeOK
    <3> QED
      BY <2>3, <3>1, <3>2, TimersKept DEF WritePipe, TypeOK
  <2>4. CASE Leave \/ EndRun \/ EndFlush \/ TimeoutEvent \/ Interrupted
    BY <2>4, TimersKept DEF Leave, EndRun, EndFlush, TimeoutEvent, Interrupted, NoEvent,
       tasks, TypeOK, Places
  <2>5. CASE ReadClock
    <3>1. /\ spent' = 0 /\ firing' = {d \in armed : due[d] <= 0} /\ loop' = "timers"
          /\ UNCHANGED <<tasks, exit, due, armed, timeout, done>>
      BY <2>5 DEF ReadClock
    <3>2. TypeOK'
      BY <3>1, TimeAssumption DEF tasks, TypeOK, Places
    <3>3. TimersAhead'
      BY <3>1 DEF TypeOK, TimersAhead, Left
    <3> QED
      BY <3>1, <3>2, <3>3 DEF NoOversleep
  <2>6. ASSUME NEW d \in Delayed, Fire(d) PROVE TimersInv'
    BY <2>6, FireTimers
  <2>7. CASE Sleep
    BY <2>7, SleepTimers
  <2>8. CASE PipeEvent \/ Drain \/ Swap
    <3>1. ASSUME PipeEvent PROVE TimersInv'
      BY <3>1, TimersKept DEF PipeEvent, TypeOK, Places
    <3>2. ASSUME Drain PROVE TimersInv'
      <4>1. pipe' \in Bytes
        BY <3>2, TimeAssumption DEF Drain, TypeOK, Bytes
      <4>2. loop' = "draining" \/ loop' = "drained"
        BY <3>2 DEF Drain
      <4>3. UNCHANGED <<list, swap, waking, edge, exit, timers, done>>
        BY <3>2 DEF Drain
      <4>4. /\ list' \in Seq(Tasks) /\ swap' \in Seq(Tasks) /\ done' \in Seq(Tasks)
            /\ waking' \subseteq Threads \cup {Exit} /\ edge' \in BOOLEAN
        BY <4>3 DEF TypeOK
      <4>5. loop' \in Places /\ loop' \notin {"timers", "asleep"}
        BY <4>2 DEF Places
      <4> QED
        BY <4>1, <4>3, <4>4, <4>5, TimersKept
    <3>3. ASSUME Swap PROVE TimersInv'
      BY <3>3, TimersKept DEF Swap, TypeOK, Places
    <3> QED
      BY <2>8, <3>1, <3>2, <3>3
  <2>9. CASE RunTask \/ FlushTask
    BY <2>9, RunTimers DEF RunTask, FlushTask
  <2>10. CASE Tick
    BY <2>10, TickTimers
  <2>11. CASE UNCHANGED vars
    BY <2>11, TimersKept DEF vars, tasks, TypeOK
  <2> QED
    BY <2>1, <2>2, <2>3, <2>4, <2>5, <2>6, <2>7, <2>8, <2>9, <2>10, <2>11 DEF Next, Loop
<1> QED
  BY <1>1, <1>2, PTL DEF Spec

(* Types; the timeout is a number, as long as timers are set for a delay.  *)
THEOREM TypeCorrect == Spec => []TypeOK
<1>1. TimersInv => TypeOK
  BY DEF TimersInv
<1> QED
  BY <1>1, TimersInvariance, PTL

(* The loop sleeps past no time line by more than the time it took from    *)
(* reading the clock to going to sleep.                                    *)
THEOREM SleepsInTime == Spec => []NoOversleep
<1>1. TimersInv => NoOversleep
  BY DEF TimersInv
<1> QED
  BY <1>1, TimersInvariance, PTL

-----------------------------------------------------------------------------
(* The poller is a queue of tasks.                                         *)
queue == swap \o list

(* What was taken is run before the loop goes on.                          *)
TakenFirst == loop \notin {"running", "flushing"} => swap = <<>>

Distinct(s) == \A i, j \in 1..Len(s) : s[i] = s[j] => i = j

(* A task is in one place; one that another posts is in none before that   *)
(* one ran.                                                                *)
Once ==
    /\ Distinct(queue)
    /\ Range(queue) \cap Range(done) = {}

PostersRan ==
    \A x \in Plain : \A y \in Range(Then[x]) :
        y \in Range(queue) \cup Range(done) => x \in Range(done)

QueueInv ==
    /\ list \in Seq(Tasks) /\ swap \in Seq(Tasks) /\ done \in Seq(Tasks)
    /\ TakenFirst /\ Once /\ PostersRan

(* Sequences.                                                              *)
LEMMA InRange ==
  ASSUME NEW S, NEW s \in Seq(S)
  PROVE  /\ \A i \in 1..Len(s) : s[i] \in Range(s)
         /\ \A x \in Range(s) : \E i \in 1..Len(s) : s[i] = x
BY DEF Range

LEMMA InsertedAt ==
  ASSUME NEW S, NEW s \in Seq(S), NEW t \in Seq(S), NEW x \in S
  PROVE  s \o (<<x>> \o t) = InsertAt(s \o t, Len(s) + 1, x)
<1> DEFINE u == s \o t
<1>1. u \in Seq(S) /\ Len(u) = Len(s) + Len(t) /\ Len(s) \in Nat /\ Len(t) \in Nat
  BY ConcatProperties, LenProperties
<1>2. SubSeq(u, 1, Len(s)) = s
  <2>1. /\ SubSeq(u, 1, Len(s)) \in Seq(S)
        /\ Len(SubSeq(u, 1, Len(s))) = Len(s)
        /\ \A i \in 1..Len(s) : SubSeq(u, 1, Len(s))[i] = u[i]
    BY <1>1, SubSeqProperties, ElementOfSeq
  <2>2. \A i \in 1..Len(s) : u[i] = s[i]
    BY <1>1, ConcatProperties
  <2> QED
    BY <2>1, <2>2, SeqEqual
<1>3. SubSeq(u, Len(s) + 1, Len(u)) = t
  <2>1. /\ SubSeq(u, Len(s) + 1, Len(u)) \in Seq(S)
        /\ Len(SubSeq(u, Len(s) + 1, Len(u))) = Len(t)
        /\ \A i \in 1..Len(t) : SubSeq(u, Len(s) + 1, Len(u))[i] = u[Len(s) + i]
    BY <1>1, SubSeqProperties, ElementOfSeq
  <2>2. \A i \in 1..Len(t) : u[Len(s) + i] = t[i]
    BY <1>1, ConcatProperties
  <2> QED
    BY <2>1, <2>2, SeqEqual
<1>4. InsertAt(u, Len(s) + 1, x) = SubSeq(u, 1, Len(s)) \o <<x>> \o SubSeq(u, Len(s) + 1, Len(u))
  <2>1. (Len(s) + 1) - 1 = Len(s)
    BY <1>1
  <2> QED
    BY <2>1 DEF InsertAt
<1>5. s \o (<<x>> \o t) = (s \o <<x>>) \o t
  BY ConcatAssociative
<1> QED
  BY <1>2, <1>3, <1>4, <1>5

LEMMA DistinctInserted ==
  ASSUME NEW S, NEW s \in Seq(S), NEW t \in Seq(S), NEW x \in S,
         Distinct(s \o t), x \notin Range(s \o t)
  PROVE  /\ Distinct(s \o (<<x>> \o t))
         /\ Range(s \o (<<x>> \o t)) = Range(s \o t) \cup {x}
<1> DEFINE q == s \o t
           r == s \o (<<x>> \o t)
<1>1. /\ q \in Seq(S) /\ Len(q) = Len(s) + Len(t) /\ Len(s) \in Nat /\ Len(t) \in Nat
      /\ \A i \in 1..Len(q) : q[i] = IF i <= Len(s) THEN s[i] ELSE t[i - Len(s)]
  BY ConcatProperties, LenProperties
<1>2. /\ <<x>> \o t \in Seq(S) /\ Len(<<x>> \o t) = Len(t) + 1
      /\ (<<x>> \o t)[1] = x
      /\ \A i \in 2..(Len(t) + 1) : (<<x>> \o t)[i] = t[i - 1]
  <2>1. <<x>> \in Seq(S) /\ Len(<<x>>) = 1 /\ <<x>>[1] = x
    OBVIOUS
  <2> QED
    BY <1>1, <2>1, ConcatProperties
<1>3. /\ r \in Seq(S) /\ Len(r) = Len(q) + 1
      /\ \A i \in 1..Len(r) : r[i] = IF i <= Len(s) THEN s[i] ELSE (<<x>> \o t)[i - Len(s)]
  BY <1>1, <1>2, ConcatProperties
<1>4. \A i \in 1..Len(s) : r[i] = q[i]
  BY <1>1, <1>3
<1>5. r[Len(s) + 1] = x
  BY <1>1, <1>2, <1>3
<1>6. \A i \in (Len(s) + 2)..Len(r) : r[i] = q[i - 1]
  <2> SUFFICES ASSUME NEW i \in (Len(s) + 2)..Len(r) PROVE r[i] = q[i - 1]
    OBVIOUS
  <2>1. r[i] = (<<x>> \o t)[i - Len(s)] /\ i - Len(s) \in 2..(Len(t) + 1)
    BY <1>1, <1>3
  <2>2. r[i] = t[(i - Len(s)) - 1]
    BY <1>2, <2>1
  <2>3. q[i - 1] = t[(i - 1) - Len(s)]
    BY <1>1, <1>3
  <2> QED
    BY <1>1, <2>2, <2>3
<1>7. \A i \in 1..Len(q) : q[i] # x
  BY <1>1, InRange
<1>8. \A k \in 1..Len(r) : \/ k \in 1..Len(s) /\ k \in 1..Len(q)
                           \/ k = Len(s) + 1
                           \/ k \in (Len(s) + 2)..Len(r) /\ k - 1 \in 1..Len(q) /\ k - 1 > Len(s)
  BY <1>1, <1>3
<1> HIDE DEF q, r
<1>11. /\ \A i \in 1..Len(q) : q[i] \in Range(q)
       /\ \A y \in Range(q) : \E i \in 1..Len(q) : q[i] = y
  BY <1>1, InRange
<1>12. /\ \A i \in 1..Len(r) : r[i] \in Range(r)
       /\ \A y \in Range(r) : \E i \in 1..Len(r) : r[i] = y
  BY <1>3, InRange
<1>9. Distinct(r)
  <2>1. Distinct(q)
    BY DEF q
  <2>2. ASSUME NEW k \in 1..Len(r), k # Len(s) + 1
        PROVE  \E m \in 1..Len(q) : r[k] = q[m] /\ m = IF k <= Len(s) THEN k ELSE k - 1
    <3>1. CASE k <= Len(s)
      BY <1>1, <1>3, <1>4, <3>1
    <3>2. CASE k > Len(s)
      <4>1. k \in (Len(s) + 2)..Len(r) /\ k - 1 \in 1..Len(q) /\ ~(k <= Len(s))
        BY <1>1, <1>3, <2>2, <3>2
      <4> QED
        BY <1>6, <4>1
    <3> QED
      BY <1>1, <3>1, <3>2
  <2> SUFFICES ASSUME NEW i \in 1..Len(r), NEW j \in 1..Len(r), r[i] = r[j] PROVE i = j
    BY DEF Distinct
  <2>3. CASE i = Len(s) + 1 \/ j = Len(s) + 1
    BY <1>5, <1>7, <2>2, <2>3
  <2>4. CASE i # Len(s) + 1 /\ j # Len(s) + 1
    <3>1. PICK m \in 1..Len(q) : r[i] = q[m] /\ m = IF i <= Len(s) THEN i ELSE i - 1
      BY <2>2, <2>4
    <3>2. PICK n \in 1..Len(q) : r[j] = q[n] /\ n = IF j <= Len(s) THEN j ELSE j - 1
      BY <2>2, <2>4
    <3>3. m = n
      BY <2>1, <3>1, <3>2 DEF Distinct
    <3>4. i \in Nat /\ j \in Nat /\ Len(s) \in Nat
      BY <1>1, <1>3
    <3>5. (i <= Len(s) /\ m = i) \/ (i > Len(s) + 1 /\ m = i - 1)
      BY <2>4, <3>1, <3>4
    <3>6. (j <= Len(s) /\ n = j) \/ (j > Len(s) + 1 /\ n = j - 1)
      BY <2>4, <3>2, <3>4
    <3> QED
      BY <3>3, <3>4, <3>5, <3>6
  <2> QED
    BY <2>3, <2>4
<1>10. Range(r) = Range(q) \cup {x}
  <2>1. ASSUME NEW y \in Range(r) PROVE y \in Range(q) \cup {x}
    <3>1. PICK i \in 1..Len(r) : r[i] = y
      BY <1>12
    <3> QED
      BY <1>4, <1>5, <1>6, <1>8, <1>11, <3>1
  <2>2. x \in Range(r)
    <3>1. Len(s) + 1 \in 1..Len(r)
      BY <1>1, <1>3
    <3> QED
      BY <1>5, <1>12, <3>1
  <2>3. ASSUME NEW y \in Range(q) PROVE y \in Range(r)
    <3>1. PICK k \in 1..Len(q) : q[k] = y
      BY <1>11
    <3>2. CASE k <= Len(s)
      <4>1. k \in 1..Len(s) /\ k \in 1..Len(r)
        BY <1>1, <1>3, <3>2
      <4> QED
        BY <1>4, <1>12, <3>1, <4>1
    <3>3. CASE k > Len(s)
      <4>1. k + 1 \in (Len(s) + 2)..Len(r) /\ k + 1 \in 1..Len(r) /\ (k + 1) - 1 = k
        BY <1>1, <1>3, <3>3
      <4> QED
        BY <1>6, <1>12, <3>1, <4>1
    <3> QED
      BY <1>1, <3>2, <3>3
  <2> QED
    BY <2>1, <2>2, <2>3
<1> QED
  BY <1>9, <1>10 DEF q, r

LEMMA DistinctTail ==
  ASSUME NEW S, NEW s \in Seq(S), s # <<>>, Distinct(s)
  PROVE  /\ Distinct(Tail(s)) /\ Head(s) \notin Range(Tail(s))
         /\ Head(s) \in Range(s) /\ Range(Tail(s)) \subseteq Range(s)
<1>1. /\ Tail(s) \in Seq(S) /\ Len(Tail(s)) = Len(s) - 1 /\ Len(s) \in Nat \ {0}
      /\ \A i \in 1..Len(Tail(s)) : Tail(s)[i] = s[i + 1]
      /\ Head(s) = s[1]
  BY HeadTailProperties, EmptySeq
<1>2. \A i \in 1..Len(Tail(s)) : i + 1 \in 1..Len(s) /\ i + 1 # 1
  BY <1>1
<1>3. Distinct(Tail(s))
  BY <1>1, <1>2 DEF Distinct
<1>7. /\ \A i \in 1..Len(s) : s[i] \in Range(s)
      /\ \A y \in Range(Tail(s)) : \E i \in 1..Len(Tail(s)) : Tail(s)[i] = y
  BY <1>1, InRange
<1>4. Head(s) \notin Range(Tail(s))
  <2> SUFFICES ASSUME Head(s) \in Range(Tail(s)) PROVE FALSE
    OBVIOUS
  <2>1. PICK i \in 1..Len(Tail(s)) : Tail(s)[i] = Head(s)
    BY <1>7
  <2>2. s[i + 1] = s[1] /\ 1 \in 1..Len(s)
    BY <1>1, <2>1
  <2> QED
    BY <1>2, <2>2 DEF Distinct
<1>5. Head(s) \in Range(s)
  BY <1>1, <1>7
<1>6. Range(Tail(s)) \subseteq Range(s)
  <2>1. ASSUME NEW y \in Range(Tail(s)) PROVE y \in Range(s)
    <3>1. PICK i \in 1..Len(Tail(s)) : Tail(s)[i] = y
      BY <1>7
    <3> QED
      BY <1>1, <1>2, <1>7, <3>1
  <2> QED
    BY <2>1
<1> QED
  BY <1>3, <1>4, <1>5, <1>6

LEMMA RangeConcat ==
  ASSUME NEW S, NEW s \in Seq(S), NEW t \in Seq(S)
  PROVE  Range(s \o t) = Range(s) \cup Range(t)
<1> DEFINE q == s \o t
<1>1. /\ q \in Seq(S) /\ Len(q) = Len(s) + Len(t) /\ Len(s) \in Nat /\ Len(t) \in Nat
      /\ \A i \in 1..Len(q) : q[i] = IF i <= Len(s) THEN s[i] ELSE t[i - Len(s)]
  BY ConcatProperties, LenProperties
<1> HIDE DEF q
<1>2. /\ \A i \in 1..Len(q) : q[i] \in Range(q)
      /\ \A i \in 1..Len(s) : s[i] \in Range(s)
      /\ \A i \in 1..Len(t) : t[i] \in Range(t)
  BY <1>1, InRange
<1>3. ASSUME NEW x \in Range(q) PROVE x \in Range(s) \cup Range(t)
  <2>1. PICK i \in 1..Len(q) : q[i] = x
    BY <1>1, InRange
  <2>2. CASE i <= Len(s)
    <3>1. i \in 1..Len(s) /\ x = s[i]
      BY <1>1, <2>1, <2>2
    <3> QED
      BY <1>2, <3>1
  <2>3. CASE ~(i <= Len(s))
    <3>1. i - Len(s) \in 1..Len(t) /\ x = t[i - Len(s)]
      BY <1>1, <2>1, <2>3
    <3> QED
      BY <1>2, <3>1
  <2> QED
    BY <2>2, <2>3
<1>4. ASSUME NEW x \in Range(s) PROVE x \in Range(q)
  <2>1. PICK i \in 1..Len(s) : s[i] = x
    BY InRange
  <2>2. i \in 1..Len(q) /\ q[i] = x
    BY <1>1, <2>1
  <2> QED
    BY <1>2, <2>2
<1>5. ASSUME NEW x \in Range(t) PROVE x \in Range(q)
  <2>1. PICK i \in 1..Len(t) : t[i] = x
    BY InRange
  <2>2. i + Len(s) \in 1..Len(q) /\ ~(i + Len(s) <= Len(s)) /\ (i + Len(s)) - Len(s) = i
    BY <1>1
  <2>3. q[i + Len(s)] = x
    BY <1>1, <2>1, <2>2
  <2> QED
    BY <1>2, <2>2, <2>3
<1> QED
  BY <1>3, <1>4, <1>5 DEF q

LEMMA RangeAppend ==
  ASSUME NEW S, NEW s \in Seq(S), NEW x \in S
  PROVE  Range(Append(s, x)) = Range(s) \cup {x}
<1> DEFINE u == <<x>>
<1>1. u \in Seq(S) /\ Range(u) = {x}
  BY DEF Range
<1>2. Append(s, x) = s \o u
  BY AppendIsConcat
<1> HIDE DEF u
<1>3. Range(s \o u) = Range(s) \cup Range(u)
  BY <1>1, RangeConcat
<1> QED
  BY <1>1, <1>2, <1>3, Zenon

LEMMA OneElement ==
  ASSUME NEW S, NEW s \in Seq(S), s # <<>>, Len(s) <= 1
  PROVE  \E y \in S : s = <<y>>
<1>1. Len(s) \in Nat \ {0}
  BY EmptySeq
<1>2. Len(s) = 1
  BY <1>1
<1>3. s[1] \in S
  BY <1>2, ElementOfSeq
<1>4. s = <<s[1]>>
  BY <1>2
<1> QED
  BY <1>3, <1>4

(* A new task at the end of the queue.                                     *)
LEMMA DistinctAppend ==
  ASSUME NEW S, NEW s \in Seq(S), NEW x \in S, Distinct(s), x \notin Range(s)
  PROVE  Distinct(Append(s, x)) /\ Range(Append(s, x)) = Range(s) \cup {x}
<1>1. /\ <<>> \in Seq(S) /\ s \o <<>> = s /\ <<x>> \in Seq(S) /\ <<x>> \o <<>> = <<x>>
      /\ Append(s, x) = s \o <<x>>
  BY ConcatEmptySeq, AppendIsConcat, EmptySeq
<1>2. Distinct(s \o <<>>) /\ x \notin Range(s \o <<>>)
  BY <1>1
<1>3. Distinct(s \o (<<x>> \o <<>>))
  BY <1>1, <1>2, DistinctInserted
<1>4. Range(Append(s, x)) = Range(s) \cup {x}
  BY RangeAppend, Zenon
<1>5. Distinct(Append(s, x))
  BY <1>1, <1>3, Zenon
<1> QED
  BY <1>4, <1>5

LEMMA InsertedHere ==
  ASSUME list \in Seq(Tasks), swap \in Seq(Tasks), NEW x \in Tasks
  PROVE  swap \o (<<x>> \o list) = InsertAt(swap \o list, Len(swap) + 1, x)
BY InsertedAt, Z3

(* A task that a thread posts, or that shutdown posts.                     *)
LEMMA PostStep ==
  ASSUME QueueInv, NEW x \in Tasks, x \notin Seen, x \notin Plain \/ x \in Posted,
         list' = Enqueued(x), UNCHANGED <<swap, done, loop>>
  PROVE  Runner!Post(x) /\ QueueInv'
<1>1. /\ list \in Seq(Tasks) /\ swap \in Seq(Tasks) /\ done \in Seq(Tasks)
      /\ queue \in Seq(Tasks) /\ Range(queue) = Range(swap) \cup Range(list)
  BY ConcatProperties, RangeConcat DEF QueueInv, queue
<1>2. x \notin Range(queue) /\ x \notin Range(done)
  BY <1>1 DEF Seen
<1>3. swap' = swap /\ done' = done /\ loop' = loop
  OBVIOUS
<1>4. Distinct(queue) /\ Range(queue) \cap Range(done) = {}
  BY DEF QueueInv, Once
<1>5. /\ list' \in Seq(Tasks)
      /\ IF x \in Delayed \cup {Exit}
         THEN \E i \in 1..Len(queue) + 1 : queue' = InsertAt(queue, i, x)
         ELSE queue' = Append(queue, x)
      /\ Distinct(queue') /\ Range(queue') = Range(queue) \cup {x}
  <2>1. CASE x \in Plain
    <3>1. list' = Append(list, x) /\ list' \in Seq(Tasks)
      BY <1>1, <2>1, AppendProperties DEF Enqueued
    <3>2. queue' = Append(queue, x)
      <4>1. list' = list \o <<x>> /\ <<x>> \in Seq(Tasks)
        BY <1>1, <3>1, AppendIsConcat
      <4>2. swap \o (list \o <<x>>) = (swap \o list) \o <<x>>
        BY <1>1, <4>1, ConcatAssociative
      <4>3. Append(queue, x) = queue \o <<x>>
        BY <1>1, AppendIsConcat
      <4> QED
        BY <1>3, <4>1, <4>2, <4>3 DEF queue
    <3>3. x \notin Delayed \cup {Exit}
      BY <2>1, TasksAssumption
    <3>4. Distinct(Append(queue, x)) /\ Range(Append(queue, x)) = Range(queue) \cup {x}
      BY <1>1, <1>2, <1>4, DistinctAppend
    <3>5. Distinct(queue') /\ Range(queue') = Range(queue) \cup {x}
      BY <3>2, <3>4, Zenon
    <3> QED
      BY <3>1, <3>2, <3>3, <3>5
  <2>2. CASE x \notin Plain
    <3>1. list' = <<x>> \o list /\ list' \in Seq(Tasks)
      BY <1>1, <2>2, ConcatProperties DEF Enqueued
    <3>2. queue' = swap \o (<<x>> \o list)
      BY <1>3, <3>1 DEF queue
    <3>3. queue' = InsertAt(queue, Len(swap) + 1, x)
      <4>1. swap \o (<<x>> \o list) = InsertAt(swap \o list, Len(swap) + 1, x)
        BY <1>1, InsertedHere, Zenon
      <4> QED
        BY <3>2, <4>1, Zenon DEF queue
    <3>4. Len(swap) + 1 \in 1..Len(queue) + 1
      BY <1>1, ConcatProperties, LenProperties DEF queue
    <3>5. Distinct(swap \o list) /\ x \notin Range(swap \o list)
      BY <1>2, <1>4 DEF queue
    <3>6. /\ Distinct(swap \o (<<x>> \o list))
          /\ Range(swap \o (<<x>> \o list)) = Range(swap \o list) \cup {x}
      BY <1>1, <3>5, DistinctInserted
    <3>7. x \in Delayed \cup {Exit}
      BY <2>2 DEF Tasks
    <3>8. Distinct(queue') /\ Range(queue') = Range(queue) \cup {x}
      BY <3>2, <3>6, Zenon DEF queue
    <3> QED
      BY <3>1, <3>3, <3>4, <3>7, <3>8
  <2> QED
    BY <2>1, <2>2
<1>6. Runner!Post(x)
  <2>1. /\ Runner!Range(queue) = Range(queue) /\ Runner!Range(done) = Range(done)
        /\ \A i : Runner!InsertAt(queue, i, x) = InsertAt(queue, i, x)
    BY DEF Runner!Range, Range, Runner!InsertAt, InsertAt
  <2>2. Runner!New(x)
    BY <1>2, <2>1 DEF Runner!New, queue
  <2> QED
    BY <1>3, <1>5, <2>1, <2>2, Zenon DEF Runner!Post, queue
<1>7. PostersRan'
  <2> SUFFICES ASSUME NEW z \in Plain, NEW y \in Range(Then[z]),
                      y \in Range(queue) \cup {x} \cup Range(done)
               PROVE  z \in Range(done)
    BY <1>3, <1>5 DEF PostersRan
  <2>1. CASE y = x
    <3>1. Then[z] \in Seq(Plain)
      BY TasksAssumption
    <3>2. x \in Plain
      BY <2>1, <3>1, InRange, ElementOfSeq
    <3> QED
      BY <2>1, <3>2 DEF Posted
  <2>2. CASE y # x
    BY <2>2 DEF QueueInv, PostersRan
  <2> QED
    BY <2>1, <2>2
<1>8. TakenFirst'
  BY <1>3 DEF QueueInv, TakenFirst
<1>9. Once'
  BY <1>2, <1>3, <1>4, <1>5 DEF Once
<1> QED
  BY <1>1, <1>3, <1>5, <1>6, <1>7, <1>8, <1>9 DEF QueueInv

(* A task that runs, and what it posts.                                    *)
LEMMA RunStep ==
  ASSUME QueueInv, RunHead, UNCHANGED loop, loop \in {"running", "flushing"}
  PROVE  (Runner!Run(<<>>) \/ \E y \in Tasks : Runner!Run(<<y>>)) /\ QueueInv'
<1> DEFINE x == Head(swap)
           r == Tail(queue)
<1>1. /\ list \in Seq(Tasks) /\ swap \in Seq(Tasks) /\ done \in Seq(Tasks) /\ swap # <<>>
      /\ queue \in Seq(Tasks) /\ Range(queue) = Range(swap) \cup Range(list)
  BY ConcatProperties, RangeConcat DEF QueueInv, RunHead, queue
<1>2. /\ queue # <<>> /\ Head(queue) = x /\ r = Tail(swap) \o list
      /\ x \in Tasks /\ Tail(swap) \in Seq(Tasks) /\ r \in Seq(Tasks)
  <2>1. x \in Tasks /\ Tail(swap) \in Seq(Tasks)
    BY <1>1, HeadTailProperties
  <2>2. queue # <<>> /\ Head(queue) = x /\ Tail(queue) = Tail(swap) \o list
    BY <1>1 DEF queue
  <2> QED
    BY <1>1, <2>1, <2>2, HeadTailProperties
<1>3. Distinct(queue) /\ Range(queue) \cap Range(done) = {}
  BY DEF QueueInv, Once
<1>4. /\ Distinct(r) /\ x \notin Range(r) /\ x \in Range(queue) /\ Range(r) \subseteq Range(queue)
  BY <1>1, <1>2, <1>3, DistinctTail
<1>5. /\ swap' = Tail(swap) /\ done' = Append(done, x) /\ loop' = loop
  BY DEF RunHead
<1> HIDE DEF x, r
<1>6. done' \in Seq(Tasks) /\ Range(done') = Range(done) \cup {x}
  <2>2. done \in Seq(Tasks) /\ x \in Tasks
    BY <1>1, <1>2
  <2>1. Range(Append(done, x)) = Range(done) \cup {x}
    BY <2>2, RangeAppend, Z3
  <2> QED
    BY <1>1, <1>2, <1>5, <2>1, AppendProperties
<1>7. Runner!Range(queue) = Range(queue) /\ Runner!Range(done) = Range(done)
  BY DEF Runner!Range, Range
<1>8. TakenFirst'
  BY <1>5 DEF TakenFirst
<1>9. CASE x \in Plain /\ Then[x] # <<>>
  <2>1. PICK y \in Plain : Then[x] = <<y>>
    <3>1. Then[x] \in Seq(Plain) /\ Len(Then[x]) <= 1 /\ Then[x] # <<>>
      BY <1>9, TasksAssumption
    <3> QED
      BY <3>1, OneElement, Z3
  <2>2. y \in Tasks /\ Range(Then[x]) = {y} /\ <<y>> \in Seq(Tasks)
    BY <2>1 DEF Tasks, Range
  <2>3. list' = list \o <<y>>
    BY <1>9, <2>1 DEF RunHead, x
  <2>4. queue' = r \o <<y>> /\ list' \in Seq(Tasks)
    <3>1. Tail(swap) \o (list \o <<y>>) = (Tail(swap) \o list) \o <<y>>
      BY <1>1, <1>2, <2>2, ConcatAssociative
    <3>2. list \o <<y>> \in Seq(Tasks)
      BY <1>1, <2>2, ConcatProperties
    <3> QED
      BY <1>2, <1>5, <2>3, <3>1, <3>2 DEF queue
  <2>5. y \notin Range(queue) /\ y \notin Range(done)
    BY <1>3, <1>4, <1>9, <2>2 DEF QueueInv, PostersRan
  <2>6. Distinct(queue') /\ Range(queue') = Range(r) \cup {y}
    <3>1. y \notin Range(r)
      BY <1>4, <2>5
    <3>4. r \in Seq(Tasks) /\ y \in Tasks /\ Distinct(r)
      BY <1>2, <1>4, <2>2
    <3>2. Distinct(Append(r, y)) /\ Range(Append(r, y)) = Range(r) \cup {y}
      BY <3>1, <3>4, DistinctAppend, Z3
    <3>3. Append(r, y) = r \o <<y>>
      BY <1>2, <2>2, AppendIsConcat
    <3> QED
      BY <2>4, <3>2, <3>3, Zenon
  <2>7. Runner!Run(<<y>>)
    <3>1. Runner!New(y) /\ \A z \in Runner!Range(<<y>>) : z = y
      BY <1>7, <2>5 DEF Runner!New, Runner!Range, queue
    <3> QED
      BY <1>2, <1>5, <2>2, <2>4, <3>1 DEF Runner!Run, queue, r
  <2>8. PostersRan'
    <3> SUFFICES ASSUME NEW z \in Plain, NEW u \in Range(Then[z]),
                        u \in Range(r) \cup {y} \cup Range(done) \cup {x}
                 PROVE  z \in Range(done) \cup {x}
      BY <1>6, <2>6 DEF PostersRan
    <3>1. CASE u = y
      BY <1>9, <2>2, <3>1, TasksAssumption
    <3>2. CASE u # y
      BY <1>4, <3>2 DEF QueueInv, PostersRan
    <3> QED
      BY <3>1, <3>2
  <2>9. Once'
    BY <1>3, <1>4, <1>6, <2>5, <2>6 DEF Once
  <2> QED
    BY <1>2, <1>5, <1>6, <1>8, <2>2, <2>4, <2>7, <2>8, <2>9 DEF QueueInv
<1>10. CASE ~(x \in Plain /\ Then[x] # <<>>)
  <2>1. list' = list
    BY <1>10 DEF RunHead, x
  <2>2. queue' = r
    BY <1>2, <1>5, <2>1 DEF queue
  <2>3. Runner!Run(<<>>)
    <3>1. r \o <<>> = r /\ Runner!Range(<<>>) = {}
      BY <1>2, ConcatEmptySeq DEF Runner!Range
    <3> QED
      BY <1>2, <1>5, <2>2, <3>1 DEF Runner!Run, queue, r
  <2>4. PostersRan'
    <3> SUFFICES ASSUME NEW z \in Plain, NEW u \in Range(Then[z]),
                        u \in Range(r) \cup Range(done) \cup {x}
                 PROVE  z \in Range(done) \cup {x}
      BY <1>6, <2>2 DEF PostersRan
    <3> QED
      BY <1>4 DEF QueueInv, PostersRan
  <2>5. Once'
    BY <1>3, <1>4, <1>6, <2>2 DEF Once
  <2> QED
    BY <1>1, <1>2, <1>5, <1>6, <1>8, <2>1, <2>3, <2>4, <2>5 DEF QueueInv
<1> QED
  BY <1>9, <1>10

(* What neither takes a task nor gives one.                                *)
LEMMA QueueKept ==
  ASSUME QueueInv, UNCHANGED <<list, swap, done>>, TakenFirst'
  PROVE  UNCHANGED Runner!vars /\ QueueInv'
<1>1. list' = list /\ swap' = swap /\ done' = done
  OBVIOUS
<1>2. queue' = queue
  BY <1>1 DEF queue
<1>3. UNCHANGED Runner!vars
  BY <1>1 DEF Runner!vars
<1>4. Once' /\ PostersRan'
  BY <1>1, <1>2 DEF QueueInv, Once, PostersRan
<1> QED
  BY <1>1, <1>3, <1>4 DEF QueueInv

LEMMA SwapStep ==
  ASSUME QueueInv, Swap
  PROVE  UNCHANGED Runner!vars /\ QueueInv'
<1>1. swap = <<>> /\ swap' = list /\ list' = <<>> /\ done' = done
  BY DEF QueueInv, TakenFirst, Swap
<1>2. loop' \in {"flushing", "running"}
  BY DEF Swap
<1>3. /\ list \in Seq(Tasks) /\ queue' = queue
      /\ <<>> \in Seq(Tasks) /\ (swap \o list)' = swap \o list
  BY <1>1, ConcatEmptySeq, EmptySeq DEF QueueInv, queue
<1>4. UNCHANGED Runner!vars
  BY <1>1, <1>3 DEF Runner!vars
<1>5. Once' /\ PostersRan' /\ TakenFirst'
  BY <1>1, <1>2, <1>3 DEF QueueInv, Once, PostersRan, TakenFirst
<1> QED
  BY <1>1, <1>3, <1>4, <1>5 DEF QueueInv

(* Every step is a step of the queue, or changes nothing of it.            *)
LEMMA QueueStep ==
  ASSUME QueueInv, [Next]_vars
  PROVE  (Runner!Next \/ UNCHANGED Runner!vars) /\ QueueInv'
<1>1. ASSUME NEW t \in Threads, NEW x \in Posted \cup Delayed, Async(t, x)
      PROVE  Runner!Next /\ QueueInv'
  <2>1. /\ x \in Tasks /\ x \notin Seen /\ (x \notin Plain \/ x \in Posted)
        /\ list' = Enqueued(x) /\ UNCHANGED <<swap, done, loop>>
    BY <1>1, TasksAssumption DEF Async, Tasks, Posted
  <2>2. Runner!Post(x) /\ QueueInv'
    BY <2>1, PostStep
  <2> QED
    BY <2>1, <2>2 DEF Runner!Next
<1>2. CASE Shutdown
  <2>1. /\ Exit \in Tasks /\ Exit \notin Seen /\ Exit \notin Plain
        /\ list' = Enqueued(Exit) /\ UNCHANGED <<swap, done, loop>>
    BY <1>2, TasksAssumption DEF Shutdown, Tasks
  <2>2. Runner!Post(Exit) /\ QueueInv'
    BY <2>1, PostStep
  <2> QED
    BY <2>1, <2>2 DEF Runner!Next
<1>3. CASE RunTask \/ FlushTask
  <2>1. RunHead /\ UNCHANGED loop /\ loop \in {"running", "flushing"}
    BY <1>3 DEF RunTask, FlushTask
  <2>2. (Runner!Run(<<>>) \/ \E y \in Tasks : Runner!Run(<<y>>)) /\ QueueInv'
    BY <2>1, RunStep
  <2> QED
    BY <2>2 DEF Runner!Next
<1>4. CASE Swap
  BY <1>4, SwapStep
<1>5. CASE EndRun \/ EndFlush
  BY <1>5, QueueKept DEF EndRun, EndFlush, tasks, TakenFirst
<1>6. ASSUME UNCHANGED <<list, swap, done>>,
             loop \notin {"running", "flushing"} \/ loop' = loop
      PROVE  UNCHANGED Runner!vars /\ QueueInv'
  <2>1. TakenFirst'
    BY <1>6 DEF QueueInv, TakenFirst
  <2> QED
    BY <1>6, <2>1, QueueKept
<1>7. ASSUME NEW t \in Threads \cup {Exit}, WritePipe(t)
      PROVE  UNCHANGED Runner!vars /\ QueueInv'
  BY <1>6, <1>7 DEF WritePipe
<1>8. CASE Leave \/ ReadClock \/ (\E d \in Delayed : Fire(d)) \/ Sleep
  BY <1>6, <1>8 DEF Leave, ReadClock, Fire, Sleep, tasks
<1>9. CASE PipeEvent \/ TimeoutEvent \/ Drain \/ Interrupted
  BY <1>6, <1>9 DEF PipeEvent, TimeoutEvent, Interrupted, NoEvent, Drain, tasks
<1>10. CASE Tick \/ UNCHANGED vars
  BY <1>6, <1>10 DEF Tick, vars, tasks
<1> QED
  BY <1>1, <1>2, <1>3, <1>4, <1>5, <1>7, <1>8, <1>9, <1>10 DEF Next, Loop

(* Every task that is posted runs once, one after the other, in the order  *)
(* in which they were posted, but for the urgent ones: whoever posts it,   *)
(* whichever thread runs it, over the end of the loop and the flush of the *)
(* destructor.                                                             *)
THEOREM ImplementsRunner == Spec => RunnerSpec
<1>1. Init => Runner!Init /\ QueueInv
  <2>1. <<>> \in Seq(Tasks) /\ Range(<<>>) = {} /\ Len(<<>>) = 0 /\ <<>> \o <<>> = <<>>
    BY EmptySeq DEF Range
  <2> QED
    BY <2>1 DEF Init, Runner!Init, QueueInv, TakenFirst, Once, PostersRan, Distinct, queue
<1>2. QueueInv /\ [Next]_vars => [Runner!Next]_(Runner!vars) /\ QueueInv'
  BY QueueStep
<1> QED
  BY <1>1, <1>2, PTL DEF Spec, RunnerSpec, Runner!Spec

-----------------------------------------------------------------------------
(* What the destructor leaves behind.                                      *)
AfterExit(s, z) ==
    /\ z \in Range(s) \cap Plain
    /\ \E i, j \in 1..Len(s) : i < j /\ s[i] = Exit /\ s[j] = z

PostedAfterExit(s, y) == \E z : AfterExit(s, z) /\ y \in Range(Then[z])

Third(s, x) ==
    \E y \in Range(s) \cap Plain : PostedAfterExit(s, y) /\ x \in Range(Then[y])

(* The loop is left when the exit task ran, and not before.                *)
ExitRan ==
    /\ exit <=> Exit \in Range(done)
    /\ loop \in {"left", "flushing", "gone"} => exit
    /\ exit => loop \in {"running", "top", "left", "flushing", "gone"}

(* Nothing is posted before the exit task while it waits, and nothing was  *)
(* posted since it was taken.                                              *)
ExitFirst ==
    /\ Exit \in Range(list) => list[1] = Exit
    /\ Exit \in Range(swap) => swap[1] = Exit /\ list = <<>>

Generations ==
    /\ exit /\ loop \in {"running", "top", "left"} =>
           \A x \in Range(list) : PostedAfterExit(done, x)
    /\ loop = "flushing" => \A x \in Range(swap) : PostedAfterExit(done, x)
    /\ loop \in {"flushing", "gone"} => \A x \in Range(list) : Third(done, x)

LastInv == QueueInv /\ ExitRan /\ ExitFirst /\ Generations

LEMMA AfterExitStays ==
  ASSUME NEW s \in Seq(Tasks), NEW x \in Tasks, NEW t, t = Append(s, x)
  PROVE  /\ t \in Seq(Tasks) /\ Range(t) = Range(s) \cup {x}
         /\ \A z : AfterExit(s, z) => AfterExit(t, z)
         /\ \A y : PostedAfterExit(s, y) => PostedAfterExit(t, y)
         /\ \A y : Third(s, y) => Third(t, y)
         /\ Exit \in Range(s) /\ x \in Plain => AfterExit(t, x)
<1>1. /\ t \in Seq(Tasks) /\ Len(t) = Len(s) + 1 /\ Len(s) \in Nat
      /\ t[Len(s) + 1] = x /\ \A i \in 1..Len(s) : t[i] = s[i]
  BY AppendProperties, LenProperties
<1>2. Range(t) = Range(s) \cup {x}
  BY RangeAppend, Z3
<1>3. ASSUME NEW z, AfterExit(s, z) PROVE AfterExit(t, z)
  <2>1. PICK i \in 1..Len(s), j \in 1..Len(s) : i < j /\ s[i] = Exit /\ s[j] = z
    BY <1>3 DEF AfterExit
  <2>2. /\ i \in 1..Len(t) /\ j \in 1..Len(t)
        /\ t[i] = Exit /\ t[j] = z /\ i < j
    BY <1>1, <2>1
  <2>3. z \in Range(t) \cap Plain
    BY <1>2, <1>3 DEF AfterExit
  <2> QED
    BY <2>2, <2>3 DEF AfterExit
<1>4. ASSUME Exit \in Range(s), x \in Plain PROVE AfterExit(t, x)
  <2>1. PICK i \in 1..Len(s) : s[i] = Exit
    BY <1>4, InRange
  <2>2. /\ i \in 1..Len(t) /\ Len(s) + 1 \in 1..Len(t) /\ i < Len(s) + 1
        /\ t[i] = Exit
    BY <1>1, <2>1
  <2>3. x \in Range(t) \cap Plain
    BY <1>2, <1>4
  <2> QED
    BY <1>1, <2>2, <2>3 DEF AfterExit
<1>5. ASSUME NEW y, PostedAfterExit(s, y) PROVE PostedAfterExit(t, y)
  BY <1>3, <1>5 DEF PostedAfterExit
<1>6. ASSUME NEW y, Third(s, y) PROVE Third(t, y)
  BY <1>2, <1>5, <1>6 DEF Third
<1> QED
  BY <1>1, <1>2, <1>3, <1>4, <1>5, <1>6

(* What the task that runs does to the places.                             *)
LEMMA HeadRuns ==
  ASSUME QueueInv, RunHead, UNCHANGED loop, loop \in {"running", "flushing"}
  PROVE  /\ Head(swap) \in Tasks /\ Head(swap) \in Range(swap) /\ swap # <<>>
         /\ Head(swap) \notin Range(Tail(swap)) /\ Range(Tail(swap)) \subseteq Range(swap)
         /\ swap' = Tail(swap) /\ done' = Append(done, Head(swap))
         /\ exit' = (exit \/ Head(swap) = Exit)
         /\ \/ list' = list
            \/ Head(swap) \in Plain /\ list # <<>> /\ list'[1] = list[1]
               /\ Range(list') = Range(list) \cup Range(Then[Head(swap)])
            \/ Head(swap) \in Plain /\ list = <<>>
               /\ Range(list') = Range(Then[Head(swap)])
<1> DEFINE x == Head(swap)
<1>1. /\ list \in Seq(Tasks) /\ swap \in Seq(Tasks) /\ swap # <<>> /\ Distinct(queue)
      /\ swap' = Tail(swap) /\ done' = Append(done, x) /\ exit' = (exit \/ x = Exit)
  BY DEF QueueInv, Once, RunHead
<1>2. Distinct(swap)
  <2>1. /\ Len(queue) = Len(swap) + Len(list) /\ Len(swap) \in Nat /\ Len(list) \in Nat
        /\ \A i \in 1..Len(swap) : queue[i] = swap[i]
    BY <1>1, ConcatProperties, LenProperties DEF queue
  <2> QED
    BY <1>1, <2>1 DEF Distinct
<1>3. /\ x \in Tasks /\ x \in Range(swap) /\ x \notin Range(Tail(swap))
      /\ Range(Tail(swap)) \subseteq Range(swap)
  <2>1. x \in Tasks
    BY <1>1, HeadTailProperties
  <2> QED
    BY <1>1, <1>2, <2>1, DistinctTail
<1> HIDE DEF x
<1>4. CASE x \in Plain /\ Then[x] # <<>>
  <2>1. list' = list \o Then[x] /\ Then[x] \in Seq(Plain)
    BY <1>4, TasksAssumption DEF RunHead, x
  <2>2. Then[x] \in Seq(Tasks)
    BY <2>1, SeqMonotonic DEF Tasks
  <2>3. Range(list') = Range(list) \cup Range(Then[x])
    BY <1>1, <2>1, <2>2, RangeConcat, Z3
  <2>4. CASE list = <<>>
    <3>1. Range(list) = {}
      BY <2>4 DEF Range
    <3> QED
      BY <1>1, <1>3, <1>4, <2>3, <2>4, <3>1 DEF x
  <2>5. CASE list # <<>>
    <3>1. 1 \in 1..Len(list) /\ Len(list) \in Nat
      BY <1>1, <2>5, EmptySeq
    <3>2. list'[1] = list[1]
      BY <1>1, <2>1, <2>2, <3>1, ConcatProperties
    <3> QED
      BY <1>1, <1>3, <1>4, <2>3, <2>5, <3>2 DEF x
  <2> QED
    BY <2>4, <2>5
<1>5. CASE ~(x \in Plain /\ Then[x] # <<>>)
  <2>1. list' = list
    BY <1>5 DEF RunHead, x
  <2> QED
    BY <1>1, <1>3, <2>1 DEF x
<1> QED
  BY <1>4, <1>5

LEMMA PostLast ==
  ASSUME LastInv, NEW x \in Tasks, Exit \notin Seen, UNCHANGED <<swap, done, loop, exit>>,
         list' = Enqueued(x), x \in Plain => x # Exit
  PROVE  ExitRan' /\ ExitFirst' /\ Generations'
<1>1. /\ swap' = swap /\ done' = done /\ loop' = loop /\ exit' = exit
      /\ list \in Seq(Tasks)
      /\ Exit \notin Range(list) /\ Exit \notin Range(swap) /\ Exit \notin Range(done)
  BY DEF LastInv, QueueInv, Seen
<1>2. ~exit /\ loop \notin {"left", "flushing", "gone"}
  BY <1>1 DEF LastInv, ExitRan
<1>3. ExitRan'
  BY <1>1 DEF LastInv, ExitRan
<1>4. Exit \in Range(list') => list'[1] = Exit
  <2>1. CASE x \in Plain
    <3>1. list' = Append(list, x)
      BY <2>1 DEF Enqueued
    <3>2. Range(list') = Range(list) \cup {x}
      BY <1>1, <3>1, RangeAppend, Z3
    <3> QED
      BY <1>1, <2>1, <3>2
  <2>2. CASE x \notin Plain
    <3>1. list' = <<x>> \o list /\ <<x>> \in Seq(Tasks)
      BY <2>2 DEF Enqueued
    <3>2. Range(list') = Range(list) \cup {x}
      <4> DEFINE u == <<x>>
      <4>1. Range(u) = {x}
        BY DEF Range
      <4>2. u \in Seq(Tasks) /\ list' = u \o list
        BY <3>1
      <4> HIDE DEF u
      <4> QED
        BY <1>1, <4>1, <4>2, RangeConcat
    <3>3. list'[1] = x
      BY <1>1, <3>1
    <3> QED
      BY <1>1, <3>2, <3>3
  <2> QED
    BY <2>1, <2>2
<1>5. ExitFirst'
  BY <1>1, <1>4 DEF ExitFirst
<1>6. Generations'
  BY <1>1, <1>2 DEF Generations
<1> QED
  BY <1>3, <1>5, <1>6

LEMMA RunLast ==
  ASSUME LastInv, RunHead, UNCHANGED loop, loop \in {"running", "flushing"}
  PROVE  ExitRan' /\ ExitFirst' /\ Generations'
<1> DEFINE x == Head(swap)
<1>1. QueueInv /\ loop' = loop
  BY DEF LastInv
<1>2. /\ x \in Tasks /\ x \in Range(swap) /\ swap # <<>>
      /\ x \notin Range(Tail(swap)) /\ Range(Tail(swap)) \subseteq Range(swap)
      /\ swap' = Tail(swap) /\ done' = Append(done, x)
  BY <1>1, HeadRuns
<1>3. exit' = (exit \/ x = Exit)
  BY <1>1, HeadRuns
<1>4. \/ list' = list
      \/ x \in Plain /\ list # <<>> /\ list'[1] = list[1]
         /\ Range(list') = Range(list) \cup Range(Then[x])
      \/ x \in Plain /\ list = <<>>
         /\ Range(list') = Range(Then[x])
  BY <1>1, HeadRuns
<1>5. swap[1] = x
  BY DEF x
<1>6. done \in Seq(Tasks) /\ swap \in Seq(Tasks) /\ list \in Seq(Tasks)
  BY <1>1 DEF QueueInv
<1> HIDE DEF x
<1>7. /\ Range(done') = Range(done) \cup {x}
      /\ \A y : PostedAfterExit(done, y) => PostedAfterExit(done', y)
      /\ \A y : Third(done, y) => Third(done', y)
      /\ Exit \in Range(done) /\ x \in Plain => AfterExit(done', x)
  BY <1>2, <1>6, AfterExitStays
<1>8. x \in Plain => x # Exit /\ Exit \notin Range(Then[x])
  <2> SUFFICES ASSUME x \in Plain PROVE x # Exit /\ Exit \notin Range(Then[x])
    OBVIOUS
  <2>1. Then[x] \in Seq(Plain) /\ Exit \notin Plain
    BY TasksAssumption
  <2>2. Range(Then[x]) \subseteq Plain
    BY <2>1, InRange, ElementOfSeq
  <2> QED
    BY <2>1, <2>2
<1>9. ExitRan'
  <2>1. exit' <=> Exit \in Range(done')
    BY <1>3, <1>7 DEF LastInv, ExitRan
  <2>2. exit => exit'
    BY <1>3
  <2> QED
    BY <1>1, <2>1, <2>2 DEF LastInv, ExitRan
<1>10. ExitFirst'
  <2>1. Exit \in Range(list') => list'[1] = Exit
    <3>1. CASE list' = list
      BY <3>1 DEF LastInv, ExitFirst
    <3>2. CASE x \in Plain /\ list # <<>> /\ list'[1] = list[1]
               /\ Range(list') = Range(list) \cup Range(Then[x])
      BY <1>8, <3>2 DEF LastInv, ExitFirst
    <3>3. CASE x \in Plain /\ list = <<>> /\ Range(list') = Range(Then[x])
      BY <1>8, <3>3
    <3> QED
      BY <1>4, <3>1, <3>2, <3>3
  <2>2. Exit \notin Range(swap')
    BY <1>2, <1>5 DEF LastInv, ExitFirst
  <2> QED
    BY <2>1, <2>2 DEF ExitFirst
<1>11. exit' /\ loop = "running" => \A y \in Range(list') : PostedAfterExit(done', y)
  <2> SUFFICES ASSUME exit', loop = "running", NEW y \in Range(list')
               PROVE  PostedAfterExit(done', y)
    OBVIOUS
  <2>1. CASE x = Exit
    <3>1. list = <<>> /\ list' = list
      BY <1>2, <1>4, <1>8, <2>1 DEF LastInv, ExitFirst
    <3> QED
      BY <3>1 DEF Range
  <2>2. CASE x # Exit
    <3>1. exit /\ Exit \in Range(done)
      BY <1>3, <2>2 DEF LastInv, ExitRan
    <3>2. ASSUME y \in Range(list) PROVE PostedAfterExit(done', y)
      BY <1>7, <3>1, <3>2 DEF LastInv, Generations
    <3>3. ASSUME x \in Plain, y \in Range(Then[x]) PROVE PostedAfterExit(done', y)
      <4>1. AfterExit(done', x)
        BY <1>7, <3>1, <3>3
      <4> QED
        BY <3>3, <4>1 DEF PostedAfterExit
    <3> QED
      BY <1>4, <3>2, <3>3
  <2> QED
    BY <2>1, <2>2
<1>12. loop = "flushing" => /\ \A y \in Range(swap') : PostedAfterExit(done', y)
                            /\ \A y \in Range(list') : Third(done', y)
  <2> SUFFICES ASSUME loop = "flushing"
               PROVE  /\ \A y \in Range(swap') : PostedAfterExit(done', y)
                      /\ \A y \in Range(list') : Third(done', y)
    OBVIOUS
  <2>1. \A y \in Range(swap) : PostedAfterExit(done, y) /\ PostedAfterExit(done', y)
    BY <1>7 DEF LastInv, Generations
  <2>2. ASSUME NEW y \in Range(list') PROVE Third(done', y)
    <3>1. ASSUME y \in Range(list) PROVE Third(done', y)
      BY <1>7, <3>1 DEF LastInv, Generations
    <3>2. ASSUME x \in Plain, y \in Range(Then[x]) PROVE Third(done', y)
      <4>1. x \in Range(done') \cap Plain /\ PostedAfterExit(done', x)
        BY <1>2, <1>7, <2>1, <3>2
      <4> QED
        BY <3>2, <4>1 DEF Third
    <3> QED
      BY <1>4, <3>1, <3>2
  <2> QED
    BY <1>2, <2>1, <2>2
<1>13. Generations'
  BY <1>1, <1>11, <1>12 DEF Generations
<1> QED
  BY <1>9, <1>10, <1>13

(* The list is taken: by the loop, or by the destructor when it was left.  *)
LEMMA SwapLast ==
  ASSUME LastInv, Swap
  PROVE  ExitRan' /\ ExitFirst' /\ Generations'
<1>1. /\ swap' = list /\ list' = <<>> /\ done' = done /\ exit' = exit
      /\ Range(list') = {}
  BY DEF Swap, vars, tasks, Range
<1>2. \/ loop = "left" /\ loop' = "flushing" /\ exit
      \/ loop = "drained" /\ loop' = "running" /\ ~exit
  BY DEF Swap, LastInv, ExitRan
<1>3. ExitRan'
  BY <1>1, <1>2 DEF LastInv, ExitRan
<1>4. ExitFirst'
  BY <1>1 DEF LastInv, ExitFirst
<1>5. Generations'
  BY <1>1, <1>2 DEF LastInv, Generations
<1> QED
  BY <1>3, <1>4, <1>5

(* The other steps move the loop, and the exit flag turns it to its end.   *)
LEMMA LoopLast ==
  ASSUME LastInv, UNCHANGED <<list, swap, done, exit>>,
         \/ loop' = loop
         \/ loop = "running" /\ loop' = "top"
         \/ loop = "top" /\ loop' = "left" /\ exit
         \/ loop = "flushing" /\ loop' = "gone"
         \/ ~exit /\ loop' \in {"top", "timers", "asleep", "draining", "drained"}
  PROVE  ExitRan' /\ ExitFirst' /\ Generations'
<1>1. list' = list /\ swap' = swap /\ done' = done /\ exit' = exit
  OBVIOUS
<1>2. ExitRan'
  BY <1>1 DEF LastInv, ExitRan
<1>3. ExitFirst'
  BY <1>1 DEF LastInv, ExitFirst
<1>4. Generations'
  BY <1>1 DEF LastInv, ExitRan, Generations
<1> QED
  BY <1>2, <1>3, <1>4

LEMMA LastStep ==
  ASSUME LastInv, [Next]_vars
  PROVE  ExitRan' /\ ExitFirst' /\ Generations'
<1>1. ASSUME NEW t \in Threads, NEW x \in Posted \cup Delayed, Async(t, x)
      PROVE  ExitRan' /\ ExitFirst' /\ Generations'
  <2>1. /\ x \in Tasks /\ Exit \notin Seen /\ (x \in Plain => x # Exit)
        /\ list' = Enqueued(x) /\ UNCHANGED <<swap, done, loop, exit>>
    BY <1>1, TasksAssumption DEF Async, Tasks, Posted
  <2> QED
    BY <2>1, PostLast
<1>2. CASE Shutdown
  <2>1. /\ Exit \in Tasks /\ Exit \notin Seen /\ (Exit \in Plain => Exit # Exit)
        /\ list' = Enqueued(Exit) /\ UNCHANGED <<swap, done, loop, exit>>
    BY <1>2, TasksAssumption DEF Shutdown, Tasks
  <2> QED
    BY <2>1, PostLast
<1>3. CASE RunTask \/ FlushTask
  BY <1>3, RunLast DEF RunTask, FlushTask
<1>4. CASE Swap
  BY <1>4, SwapLast
<1>5. ASSUME NEW t \in Threads \cup {Exit}, WritePipe(t)
      PROVE  ExitRan' /\ ExitFirst' /\ Generations'
  BY <1>5, LoopLast DEF WritePipe
<1>6. CASE EndRun \/ EndFlush
  BY <1>6, LoopLast DEF EndRun, EndFlush, tasks
<1>7. CASE Leave \/ ReadClock
  BY <1>7, LoopLast DEF Leave, ReadClock, tasks
<1>8. CASE Tick \/ UNCHANGED vars \/ (\E d \in Delayed : Fire(d))
  BY <1>8, LoopLast DEF Tick, Fire, vars, tasks
<1>9. ASSUME loop \in {"timers", "asleep", "draining"} PROVE ~exit
  BY <1>9 DEF LastInv, ExitRan
<1>10. CASE Sleep \/ PipeEvent
  BY <1>9, <1>10, LoopLast DEF Sleep, PipeEvent, tasks
<1>11. CASE TimeoutEvent \/ Interrupted
  BY <1>9, <1>11, LoopLast DEF TimeoutEvent, Interrupted, NoEvent, tasks
<1>12. CASE Drain
  BY <1>9, <1>12, LoopLast DEF Drain
<1> QED
  BY <1>1, <1>2, <1>3, <1>4, <1>5, <1>6, <1>7, <1>8, <1>10, <1>11, <1>12 DEF Next, Loop

(* The destructor runs what was posted before the poller was shut down and *)
(* what that posts; only the third generation is left behind.              *)
THEOREM NoTaskLost == Spec => []LeftBehind
<1>1. Init => LastInv
  <2>1. <<>> \in Seq(Tasks) /\ Range(<<>>) = {} /\ Len(<<>>) = 0 /\ <<>> \o <<>> = <<>>
    BY EmptySeq DEF Range
  <2>2. Init => QueueInv
    BY <2>1 DEF Init, QueueInv, TakenFirst, Once, PostersRan, Distinct, queue
  <2>3. Init => ExitRan /\ ExitFirst /\ Generations
    BY <2>1 DEF Init, ExitRan, ExitFirst, Generations
  <2> QED
    BY <2>2, <2>3 DEF LastInv
<1>2. LastInv /\ [Next]_vars => LastInv'
  BY QueueStep, LastStep DEF LastInv
<1>3. LastInv => LeftBehind
  <2> SUFFICES ASSUME LastInv, loop = "gone", NEW x \in Range(list)
               PROVE  \E y, z \in Range(done) \cap Plain :
                        /\ x \in Range(Then[y]) /\ y \in Range(Then[z])
                        /\ \E i, j \in 1..Len(done) : i < j /\ done[i] = Exit /\ done[j] = z
    BY DEF LeftBehind
  <2>1. Third(done, x)
    BY DEF LastInv, Generations
  <2> QED
    BY <2>1 DEF Third, PostedAfterExit, AfterExit
<1> QED
  BY <1>1, <1>2, <1>3, PTL DEF Spec
=============================================================================

----------------------------- MODULE EventPoller -----------------------------
(***************************************************************************)
(* One poller of the toolkit (toolkit/src/Poller/EventPoller.cpp, Linux):  *)
(* the loop thread, which runs timers and posted tasks, the threads that   *)
(* post to it, its wake-up pipe, and its destruction.                      *)
(*                                                                         *)
(* Posting is two steps: the list is changed under its mutex, the pipe is  *)
(* written after that.  The loop reads the pipe until it is empty and only *)
(* then takes the list.  epoll is edge-triggered.  Time is counted in      *)
(* ticks, and a deadline by the ticks that are left to it.                 *)
(***************************************************************************)
EXTENDS Integers, Sequences, SequencesExt

CONSTANTS
    Threads,   \* those that post to the poller
    Plain,     \* tasks given to async, each posted once
    Delayed,   \* tasks given to doDelayTask, each once
    Exit,      \* the task shutdown posts, which throws ExitException
    Forever,   \* the timeout -1 of epoll_wait
    Then,      \* Then[x]: the tasks that plain task x posts to its own poller
    Delay,     \* Delay[d]: delay_ms
    Period,    \* Period[d]: what the delay task d returns, 0 if it does not repeat
    PipeSize,  \* what fits into the pipe; a write to a full one does nothing
    MaxSpent   \* bound: ticks that pass while the loop does not sleep

Tasks == Plain \cup Delayed \cup {Exit}
Posted == Plain \ UNION {Range(Then[x]) : x \in Plain}

(* A task is one posting: it is posted by a thread or by one other task.   *)
ASSUME TasksAssumption ==
    /\ Plain \cap Delayed = {} /\ Exit \notin Plain \cup Delayed
    /\ \A x \in Plain : Then[x] \in Seq(Plain) /\ Len(Then[x]) <= 1
    /\ \A x, y \in Plain : x # y => Range(Then[x]) \cap Range(Then[y]) = {}
ASSUME TimeAssumption ==
    /\ Delay \in [Delayed -> Nat \ {0}] /\ Period \in [Delayed -> Nat]
    /\ Forever \notin Int /\ PipeSize \in Nat \ {0} /\ MaxSpent \in Nat

VARIABLES
    list,     \* _list_task
    swap,     \* _list_swap: what the loop took and has not run yet
    waking,   \* threads that changed the list and have not written the pipe
    pipe,     \* bytes in the pipe
    edge,     \* epoll holds an event of the pipe
    loop,     \* where the loop thread is
    exit,     \* _exit_flag
    due,      \* due[d]: ticks left to the time_line of d
    armed,    \* _delay_task_map
    firing,   \* tasks of flushDelayTask that are due and have not run yet
    timeout,  \* of epoll_wait, what is left of it
    spent,    \* ticks since getMinDelay read the clock, until the loop sleeps
    done      \* history: the tasks that ran

tasks == <<list, swap, waking, pipe, edge>>
timers == <<due, armed, firing, timeout, spent>>
vars == <<tasks, loop, exit, timers, done>>

Seen == Range(list) \cup Range(swap) \cup Range(done)
Pending == armed \cup (Delayed \cap (Range(list) \cup Range(swap)))
Late == -MaxSpent   \* bound: how long ago a deadline was is not told apart below

Init ==
    /\ list = <<>> /\ swap = <<>> /\ waking = {}
    /\ pipe = 0 /\ edge = FALSE
    /\ loop = "top" /\ exit = FALSE
    /\ due = Delay /\ armed = {} /\ firing = {}
    /\ timeout = Forever /\ spent = 0
    /\ done = <<>>

-----------------------------------------------------------------------------
(* One byte into the pipe.  The kernel raises an event when the pipe was   *)
(* empty, and may raise one when it was not.                               *)
Wake ==
    /\ pipe' = IF pipe = PipeSize THEN pipe ELSE pipe + 1
    /\ \/ edge' = TRUE
       \/ pipe > 0 /\ edge' = edge

(* async_l on another thread: the list, then the pipe.  doDelayTask sets   *)
(* the time line (Tick counts from now) and posts what will put its task   *)
(* into the map.  A thread that posts holds a reference: the poller is not *)
(* being destroyed.                                                        *)
EnqueuedFirst(x) == <<x>> \o list  \* mutant: always emplace_front
Enqueued(x) == IF x \in Plain THEN Append(list, x) ELSE <<x>> \o list

Async(t, x) ==
    /\ t \notin waking /\ x \notin Seen /\ Exit \notin Seen
    /\ list' = Enqueued(x)
    /\ waking' = waking \cup {t}
    /\ UNCHANGED <<swap, pipe, edge, loop, exit, timers, done>>

(* ~EventPoller, when nobody holds a reference any more.  The thread it    *)
(* runs on is named Exit.                                                  *)
Shutdown ==
    /\ waking = {} /\ Exit \notin Seen
    /\ list' = Enqueued(Exit)
    /\ waking' = {Exit}
    /\ UNCHANGED <<swap, pipe, edge, loop, exit, timers, done>>

WritePipe(t) ==
    /\ t \in waking
    /\ waking' = waking \ {t}
    /\ Wake
    /\ UNCHANGED <<list, swap, loop, exit, timers, done>>

-----------------------------------------------------------------------------
(* runLoop, top: leave, or read the clock and run what is due.             *)
Left(d) == due[d] + spent   \* it->first - now_time
Least(S) == CHOOSE n \in S : \A m \in S : n <= m
MinDelayLast ==  \* mutant: the last timer, not the first
    IF armed = {} THEN Forever ELSE CHOOSE n \in {Left(d) : d \in armed} :
                                      \A d \in armed : Left(d) <= n

MinDelayNone == Forever  \* mutant: what is left in the map is not looked at

MinDelay ==
    IF armed = {} THEN Forever
    ELSE LET n == Least({Left(d) : d \in armed}) IN IF n = 0 THEN Forever ELSE n

LeaveAtOnce ==  \* mutant: the destructor does not run the list
    /\ loop = "top" /\ exit
    /\ loop' = "gone"
    /\ UNCHANGED <<tasks, exit, timers, done>>

Leave ==
    /\ loop = "top" /\ exit
    /\ loop' = "left"
    /\ UNCHANGED <<tasks, exit, timers, done>>

ReadClock ==
    /\ loop = "top" /\ ~exit
    /\ spent' = 0
    /\ firing' = {d \in armed : due[d] <= 0}
    /\ loop' = "timers"
    /\ UNCHANGED <<tasks, exit, due, armed, timeout, done>>

Repeats(d) == Period[d] # 0   \* what the task returns is not 0

(* flushDelayTask: one task that is due; it goes back into the map if it   *)
(* returns a delay, counted from the clock that was read, and not if it    *)
(* throws.                                                                 *)
FireOnly(d) ==  \* mutant: the tasks that are not due are lost from the map
    /\ loop = "timers" /\ d \in firing
    /\ firing' = firing \ {d}
    /\ armed' = {}
    /\ due' = [due EXCEPT ![d] = IF Repeats(d) THEN Period[d] - spent ELSE Delay[d]]
    /\ UNCHANGED <<tasks, loop, exit, timeout, spent, done>>

Fire(d) ==
    /\ loop = "timers" /\ d \in firing
    /\ firing' = firing \ {d}
    /\ \E again \in {FALSE, Repeats(d)} :
          /\ armed' = IF again THEN armed ELSE armed \ {d}
          /\ due' = [due EXCEPT ![d] = IF again THEN Period[d] - spent ELSE Delay[d]]
    /\ UNCHANGED <<tasks, loop, exit, timeout, spent, done>>

Sleep ==
    /\ loop = "timers" /\ firing = {}
    /\ timeout' = MinDelay
    /\ loop' = "asleep"
    /\ UNCHANGED <<tasks, exit, due, armed, firing, spent, done>>

(* epoll_wait returns for the pipe, or else for its timeout or a signal.   *)
Ready == edge /\ pipe > 0

PipeEvent ==
    /\ loop = "asleep" /\ Ready
    /\ edge' = FALSE
    /\ loop' = "draining"
    /\ UNCHANGED <<list, swap, waking, pipe, exit, timers, done>>

NoEvent ==
    /\ loop = "asleep" /\ ~Ready
    /\ loop' = "top"
    /\ UNCHANGED <<tasks, exit, timers, done>>

TimeoutEvent == timeout # Forever /\ timeout <= 0 /\ NoEvent
Interrupted == NoEvent

(* onPipeEvent: read until EAGAIN, some bytes at a time, then take the     *)
(* list, then run it.                                                      *)
DrainOnce ==  \* mutant: one read
    /\ loop = "draining"
    /\ pipe' = pipe - 1 /\ loop' = "drained"
    /\ UNCHANGED <<list, swap, waking, edge, exit, timers, done>>

Drain ==
    /\ loop = "draining"
    /\ IF pipe > 0 THEN pipe' = pipe - 1 /\ UNCHANGED loop
                   ELSE UNCHANGED pipe /\ loop' = "drained"
    /\ UNCHANGED <<list, swap, waking, edge, exit, timers, done>>

Swap ==
    /\ loop = "drained" \/ (loop = "left" /\ Exit \notin waking)
    /\ swap' = list /\ list' = <<>>
    /\ loop' = IF loop = "left" THEN "flushing" ELSE "running"
    /\ UNCHANGED <<waking, pipe, edge, exit, timers, done>>

(* What a task does to the poller: it throws ExitException, puts a delay   *)
(* task into the map, or posts another task.                               *)
RunHead ==
    LET x == Head(swap) IN
    /\ swap # <<>>
    /\ swap' = Tail(swap)
    /\ done' = Append(done, x)
    /\ exit' = (exit \/ x = Exit)
    /\ armed' = IF x \in Delayed THEN armed \cup {x} ELSE armed
    /\ IF x \in Plain /\ Then[x] # <<>>
       THEN list' = list \o Then[x] /\ Wake
       ELSE UNCHANGED <<list, pipe, edge>>
    /\ UNCHANGED <<waking, due, firing, timeout, spent>>

RunTask == loop = "running" /\ RunHead /\ UNCHANGED loop

EndRunDrains ==  \* mutant: the pipe is read after the list was taken
    /\ loop = "running" /\ swap = <<>>
    /\ loop' = "top" /\ pipe' = 0 /\ edge' = FALSE
    /\ UNCHANGED <<list, swap, waking, exit, timers, done>>

EndRun ==
    /\ loop = "running" /\ swap = <<>>
    /\ loop' = "top"
    /\ UNCHANGED <<tasks, exit, timers, done>>

(* ~EventPoller, after the loop thread was joined: onPipeEvent(true)       *)
(* takes the list (Swap) and runs it on the thread of the destructor.      *)
FlushTask == loop = "flushing" /\ RunHead /\ UNCHANGED loop

EndFlush ==
    /\ loop = "flushing" /\ swap = <<>>
    /\ loop' = "gone"
    /\ UNCHANGED <<tasks, exit, timers, done>>

(* Time: at any moment while the loop sleeps, MaxSpent ticks at most while *)
(* it does something else.                                                 *)
Tick ==
    /\ loop \notin {"left", "flushing", "gone"}
    /\ \/ loop = "asleep" /\ UNCHANGED spent
       \/ loop # "asleep" /\ spent < MaxSpent /\ spent' = spent + 1
    /\ due' = [d \in Delayed |->
                 IF d \notin Pending \/ due[d] = Late THEN due[d] ELSE due[d] - 1]
    /\ timeout' = IF loop = "asleep" /\ timeout # Forever /\ timeout > Late
                  THEN timeout - 1 ELSE timeout
    /\ UNCHANGED <<tasks, loop, exit, armed, firing, done>>

Loop ==
    \/ Leave \/ ReadClock \/ (\E d \in Delayed : Fire(d)) \/ Sleep
    \/ PipeEvent \/ TimeoutEvent \/ Drain \/ Swap
    \/ RunTask \/ EndRun \/ FlushTask \/ EndFlush

Next ==
    \/ \E t \in Threads, x \in Posted \cup Delayed : Async(t, x)
    \/ Shutdown
    \/ \E t \in Threads \cup {Exit} : WritePipe(t)
    \/ Loop
    \/ Interrupted
    \/ Tick

Spec == Init /\ [][Next]_vars

(* The loop thread goes on, a thread that posts writes the pipe, time      *)
(* passes; nobody has to post, and no signal has to come.                  *)
Fairness ==
    /\ WF_vars(Loop)
    /\ \A t \in Threads \cup {Exit} : WF_vars(WritePipe(t))
    /\ WF_vars(Tick)

FairSpec == Spec /\ Fairness

-----------------------------------------------------------------------------
Bytes == 0..PipeSize
Places == {"top", "timers", "asleep", "draining", "drained", "running",
           "left", "flushing", "gone"}

(* Types: among them, that a task is in one place at most, and that only   *)
(* armed tasks are due to fire.                                            *)
TypeOK ==
    /\ list \in Seq(Tasks) /\ swap \in Seq(Tasks) /\ done \in Seq(Tasks)
    /\ waking \subseteq Threads \cup {Exit}
    /\ pipe \in Bytes /\ edge \in BOOLEAN /\ exit \in BOOLEAN
    /\ loop \in Places
    /\ due \in [Delayed -> Int]
    /\ firing \subseteq armed /\ armed \subseteq Delayed
    /\ timeout \in Int \cup {Forever} /\ spent \in 0..MaxSpent

(* async_l changes the list before it writes the pipe, and onPipeEvent     *)
(* empties the pipe before it takes the list: the loop never sleeps, or    *)
(* goes to sleep, over a task nobody is about to wake it for.              *)
WakesUp ==
    list # <<>> /\ loop \in {"top", "timers", "asleep"} =>
        waking # {} \/ Ready

(* The loop sleeps no longer than to the first time line of the map, but   *)
(* for the time it spent between reading the clock and going to sleep:     *)
(* flushDelayTask counts from the clock it was given, however long its     *)
(* tasks ran.                                                              *)
NoOversleep ==
    loop = "asleep" => \A d \in armed :
        timeout # Forever /\ (timeout <= due[d] + spent \/ timeout <= 0)

(* The destructor loses no task that was posted while the poller could be  *)
(* posted to, nor one that such a task posts: what it leaves behind is at  *)
(* the third remove, posted by a task that was posted after shutdown.      *)
LeftBehind ==
    loop = "gone" => \A x \in Range(list) :
        \E y, z \in Range(done) \cap Plain :
            /\ x \in Range(Then[y]) /\ y \in Range(Then[z])
            /\ \E i, j \in 1..Len(done) : i < j /\ done[i] = Exit /\ done[j] = z

(* Whoever posted it, from whatever thread, on whatever side of a wake-up  *)
(* or of the destructor, a task runs.                                      *)
EveryTaskRuns ==
    \A x \in Posted \cup Delayed : (x \in Range(list)) ~> (x \in Range(done))

(* A delay task in the map is called when its time has come, each time, if *)
(* the poller does not end before.                                         *)
TimersFire ==
    \A d \in Delayed : (d \in armed /\ due[d] <= 0) ~> (due[d] > 0 \/ exit)

(* The poller is a queue of tasks that run one by one, in order.           *)
Runner == INSTANCE TaskRunner WITH
    Tasks <- Tasks, Urgent <- Delayed \cup {Exit}, queue <- swap \o list
RunnerSpec == Runner!Spec
=============================================================================

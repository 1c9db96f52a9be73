----------------------------- MODULE ThreadPool -----------------------------
(***************************************************************************)
(* A pool of threads of the toolkit (toolkit/src/Thread: ThreadPool.h,     *)
(* TaskQueue.h, semaphore.h).  A caller puts a task into the queue under   *)
(* its mutex and then posts the semaphore; a worker waits for the          *)
(* semaphore and then takes a task under the mutex, and ends when there is *)
(* none.  The semaphore is a counter with a condition variable.            *)
(***************************************************************************)
EXTENDS Naturals, SequencesExt, FiniteSets

CONSTANTS Workers, Idle

ASSUME WorkersAssumption == IsFiniteSet(Workers) /\ Workers # {}

VARIABLES
    queue,    \* _queue
    count,    \* _count of the semaphore
    posting,  \* a caller has filled the queue and not posted the semaphore yet
    at,       \* at[w]: where worker w is
    job,      \* job[w]: the task it took, or Idle
    closed    \* the destructor has called push_exit

pool == <<queue, count, posting, at, job, closed>>

Places == {"ready", "waiting", "taking", "running", "ended"}

PoolInit ==
    /\ queue = <<>> /\ count = 0 /\ posting = FALSE
    /\ at = [w \in Workers |-> "ready"]
    /\ job = [w \in Workers |-> Idle]
    /\ closed = FALSE

(* semaphore::post(n): notify_one for one, notify_all for more.            *)
NotifiedNone(n) == {{}}  \* mutant: the counter alone
Notified(n) ==
    LET waiting == {w \in Workers : at[w] = "waiting"} IN
    IF n = 1 /\ waiting # {} THEN {{w} : w \in waiting} ELSE {waiting}

SemPost(n) ==
    /\ count' = count + n
    /\ \E woken \in Notified(n) :
          at' = [w \in Workers |-> IF w \in woken THEN "ready" ELSE at[w]]

(* ThreadPool::async, TaskQueue::push_task: the queue, then the semaphore, *)
(* by one caller at a time.  Nothing keeps it from running while or after  *)
(* the destructor does.                                                    *)
Push(task) ==
    /\ ~posting
    /\ queue' = Append(queue, task)
    /\ posting' = TRUE
    /\ UNCHANGED <<count, at, job, closed>>

Post ==
    /\ posting
    /\ posting' = FALSE
    /\ SemPost(1)
    /\ UNCHANGED <<queue, job, closed>>

(* ~ThreadPool: push_exit, one permit for each thread, then join them; a   *)
(* caller may be between queue and semaphore.                              *)
ExitNotified == 0  \* mutant: the threads are woken, but given no permit
ExitPermits == Cardinality(Workers)

Close ==
    /\ ~closed
    /\ closed' = TRUE
    /\ SemPost(ExitPermits)
    /\ UNCHANGED <<queue, posting, job>>

(* run: semaphore::wait, which sleeps while the counter is 0 ...           *)
Wait(w) ==
    /\ at[w] = "ready"
    /\ IF count = 0 THEN at' = [at EXCEPT ![w] = "waiting"] /\ UNCHANGED count
                    ELSE at' = [at EXCEPT ![w] = "taking"] /\ count' = count - 1
    /\ UNCHANGED <<queue, posting, job, closed>>

(* ... get_task ...                                                        *)
TakeLast(w) ==  \* mutant: the queue is a stack
    /\ at[w] = "taking"
    /\ IF queue = <<>> THEN at' = [at EXCEPT ![w] = "ended"] /\ UNCHANGED <<queue, job>>
       ELSE /\ job' = [job EXCEPT ![w] = Last(queue)] /\ queue' = Front(queue)
            /\ at' = [at EXCEPT ![w] = "running"]
    /\ UNCHANGED <<count, posting, closed>>

Take(w) ==
    /\ at[w] = "taking"
    /\ IF queue = <<>> THEN at' = [at EXCEPT ![w] = "ended"] /\ UNCHANGED <<queue, job>>
       ELSE /\ job' = [job EXCEPT ![w] = Head(queue)] /\ queue' = Tail(queue)
            /\ at' = [at EXCEPT ![w] = "running"]
    /\ UNCHANGED <<count, posting, closed>>

(* ... and the task, whose exceptions are caught.                          *)
Finish(w) ==
    /\ at[w] = "running"
    /\ job' = [job EXCEPT ![w] = Idle]
    /\ at' = [at EXCEPT ![w] = "ready"]
    /\ UNCHANGED <<queue, count, posting, closed>>

(* Every task has a permit, one of a caller about to post or one a worker  *)
(* holds included, and after push_exit every worker that has not ended has *)
(* one more: no worker ends while tasks wait, none waits for ever.         *)
Holding == {w \in Workers : at[w] = "taking"}
Alive == {w \in Workers : at[w] # "ended"}
Destroyed == closed /\ Alive = {}
PermitsMatch ==
    count + (IF posting THEN 1 ELSE 0) + Cardinality(Holding)
        = Len(queue) + (IF closed THEN Cardinality(Alive) ELSE 0)
=============================================================================

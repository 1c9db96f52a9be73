----------------------------- MODULE TaskRunner -----------------------------
(***************************************************************************)
(* What a poller promises to those that post tasks to it: every task runs  *)
(* once, one after the other, in the order in which they were posted; only *)
(* an urgent one (async_first) may run before some posted earlier.  A task *)
(* that runs may post others.                                              *)
(***************************************************************************)
EXTENDS Sequences, SequencesExt

CONSTANTS Tasks, Urgent

VARIABLES
    queue,  \* tasks that wait, the next one first
    done    \* tasks that ran, in order

vars == <<queue, done>>

Init == queue = <<>> /\ done = <<>>

New(x) == x \notin Range(queue) \cup Range(done)

Post(x) ==
    /\ x \in Tasks /\ New(x)
    /\ IF x \in Urgent THEN \E i \in 1..Len(queue) + 1 : queue' = InsertAt(queue, i, x)
                       ELSE queue' = Append(queue, x)
    /\ UNCHANGED done

Run(posts) ==
    /\ queue # <<>>
    /\ done' = Append(done, Head(queue))
    /\ \A x \in Range(posts) : x \in Tasks /\ New(x)
    /\ queue' = Tail(queue) \o posts

Next ==
    \/ \E x \in Tasks : Post(x)
    \/ Run(<<>>)
    \/ \E x \in Tasks : Run(<<x>>)

Spec == Init /\ [][Next]_vars
=============================================================================

--------------------------- MODULE MCEventPoller ---------------------------
(* A poller for TLC: tasks that post tasks, a timer that repeats and one   *)
(* that does not.                                                          *)
EXTENDS EventPoller

CONSTANTS p, q, r, d, e

Chain == [x \in Plain |-> CASE x = p -> <<q>> [] x = q -> <<r>> [] OTHER -> <<>>]
Delays == [x \in Delayed |-> IF x = d THEN 1 ELSE 2]
Periods == [x \in Delayed |-> IF x = d THEN 2 ELSE 0]
=============================================================================

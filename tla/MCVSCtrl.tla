------------------------------ MODULE MCVSCtrl ------------------------------
(* A small star for TLC. *)
EXTENDS VSCtrl, TLC

CONSTANTS a, b, r

(* a and b under r, the one like the other *)
Star == [n \in Nodes |-> IF n = r THEN NoAddr ELSE r]
StarHop == [n \in Nodes |-> [m \in Nodes |-> IF n \in {m, r} THEN m ELSE r]]
Leaves == Permutations({a, b})
=============================================================================

----------------------------- MODULE MCVSwitch -----------------------------
(* Small networks for TLC. *)
EXTENDS VSwitch

CONSTANTS a, b, c, r

(* Nodes under one that has no core peer *)
Star == [n \in Nodes |-> IF n = r THEN NoAddr ELSE r]

(* a under b under r, and c under r if it is a node *)
Chain == [n \in Nodes |-> IF n = r THEN NoAddr ELSE IF n = a THEN b ELSE r]

(* Every node has the next one as its core peer *)
Ring == [n \in Nodes |-> IF n = a THEN b ELSE IF n = b THEN r ELSE a]
=============================================================================

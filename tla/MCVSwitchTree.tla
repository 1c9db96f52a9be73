--------------------------- MODULE MCVSwitchTree ---------------------------
(* A small tree for TLC. *)
EXTENDS VSwitchTree

CONSTANTS a, b, c, r

(* a under b under r, and c under r if it is a node *)
Chain == [n \in Nodes |-> IF n = r THEN NoAddr ELSE IF n = a THEN b ELSE r]
ChainHop ==
    [n \in Nodes |-> [m \in Nodes |->
        CASE n = a -> b
          [] n = b -> IF m = a THEN a ELSE r
          [] n = r -> IF m = a THEN b ELSE m
          [] OTHER -> r]]
=============================================================================

-------------------------------- MODULE Lan --------------------------------
(***************************************************************************)
(* What the virtual switch promises to the hosts attached to it: an        *)
(* Ethernet segment that may lose frames, but hands a frame only to the    *)
(* nodes it is addressed to, never to its sender, and to none of them      *)
(* twice.                                                                  *)
(***************************************************************************)
EXTENDS Naturals, Sequences

CONSTANTS
    Nodes,      \* the nodes; a node stands for its own MAC address
    Ghosts,     \* MAC addresses that belong to no node
    Bcast,      \* the broadcast MAC address
    MaxFrames   \* bound: frames the hosts send in one behaviour

VARIABLES
    frames,     \* the frames sent, in order
    written     \* written[n][f]: how often node n was handed frame f

vars == <<frames, written>>

Addressed(f, n) == frames[f].src # n /\ frames[f].dst \in {n, Bcast}

Init ==
    /\ frames = <<>>
    /\ written = [n \in Nodes |-> [f \in 1..MaxFrames |-> 0]]

Send(n, dst) ==
    /\ Len(frames) < MaxFrames
    /\ frames' = Append(frames, [src |-> n, dst |-> dst])
    /\ UNCHANGED written

Deliver(n, f) ==
    /\ Addressed(f, n)
    /\ written[n][f] = 0
    /\ written' = [written EXCEPT ![n][f] = 1]
    /\ UNCHANGED frames

Next ==
    \/ \E n \in Nodes : \E dst \in (Nodes \cup Ghosts \cup {Bcast}) \ {n} :
          Send(n, dst)
    \/ \E n \in Nodes, f \in 1..Len(frames) : Deliver(n, f)

Spec == Init /\ [][Next]_vars
=============================================================================

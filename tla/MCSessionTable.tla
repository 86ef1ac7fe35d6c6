--------------------------- MODULE MCSessionTable ---------------------------
(* TLC runs SessionTable with the sets its configurations name. *)
EXTENDS SessionTable

CONSTANTS p1, p2

\* One peer opens its overlay again, or restarts; the other stays.
Reopens  == [p \in Peer |-> IF p = p1 THEN {{1, 2}} ELSE {}]
Restarts == [p \in Peer |-> IF p = p1 THEN {1..4} ELSE {}]
=============================================================================

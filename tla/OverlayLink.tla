---------------------------- MODULE OverlayLink ----------------------------
(***************************************************************************)
(* What the overlay of an agent is to the rest of it: it is ready or it is *)
(* not, and puts messages into a bounded queue while it is.                *)
(***************************************************************************)
EXTENDS Naturals

CONSTANT QueueLen

VARIABLES
    ready,  \* OverlayConn.Ready
    queue   \* number of messages nobody has read

Init == ready = FALSE /\ queue = 0

Change == ready' = ~ready /\ UNCHANGED queue

Deliver ==
    /\ ready /\ queue < QueueLen
    /\ queue' = queue + 1
    /\ UNCHANGED ready

Take == queue > 0 /\ queue' = queue - 1 /\ UNCHANGED ready

Next == Change \/ Deliver \/ Take

Spec == Init /\ [][Next]_<<ready, queue>>
=============================================================================

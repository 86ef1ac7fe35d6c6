--------------------------- MODULE Dissemination ---------------------------
(***************************************************************************)
(* What the server and the agents are together: versions come from those   *)
(* who submit them, to an agent first; the server publishes one that an    *)
(* agent has accepted; every agent may learn any of those, if newer than   *)
(* its own; and only the end of a process makes it go back.                *)
(***************************************************************************)
EXTENDS Naturals

CONSTANTS Agent, Version

VARIABLES
    has,     \* agent -> the version it has, 0 for none
    held,    \* the versions that some agent has accepted
    posted,  \* the versions that the server has accepted and not lost
    ends     \* how often a process has ended and come back

dvars == <<has, held, posted, ends>>

Init ==
    /\ has = [a \in Agent |-> 0]
    /\ held = {} /\ posted = {} /\ ends = 0

\* The agent that accepts the version may be one that is not followed.
Submit(v) ==
    /\ held' = held \union {v}
    /\ \/ \E a \in Agent : v > has[a] /\ has' = [has EXCEPT ![a] = v]
       \/ UNCHANGED has
    /\ UNCHANGED <<posted, ends>>

Publish(v) ==
    /\ v \in held /\ \A w \in posted : v > w
    /\ posted' = posted \union {v}
    /\ UNCHANGED <<has, held, ends>>

Learn(a, v) ==
    /\ v \in held /\ v > has[a]
    /\ has' = [has EXCEPT ![a] = v]
    /\ UNCHANGED <<held, posted, ends>>

AgentEnds(a) ==
    /\ \E v \in held \union {0} : v <= has[a] /\ has' = [has EXCEPT ![a] = v]
    /\ ends' = ends + 1
    /\ UNCHANGED <<held, posted>>

ServerEnds ==
    /\ \E v \in posted \union {0} : posted' = {w \in posted : w <= v}
    /\ ends' = ends + 1
    /\ UNCHANGED <<has, held>>

Next ==
    \/ \E v \in Version : Submit(v) \/ Publish(v)
    \/ \E a \in Agent : AgentEnds(a) \/ \E v \in Version : Learn(a, v)
    \/ ServerEnds

Spec == Init /\ [][Next]_dvars
=============================================================================

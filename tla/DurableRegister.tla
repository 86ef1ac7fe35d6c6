-------------------------- MODULE DurableRegister --------------------------
(***************************************************************************)
(* What a store of updates promises its clients: for every uuid a version  *)
(* that only grows while the store is alive, and that after a failure is   *)
(* again what it was when the store last made itself durable.              *)
(***************************************************************************)
EXTENDS Naturals

CONSTANTS UUID, Version

VARIABLES
    alive,   \* the store answers
    cur,     \* uuid -> the version it answers with, 0 for none
    stable   \* uuid -> the version it will come back with

rvars == <<alive, cur, stable>>

Nothing == [u \in UUID |-> 0]

Init == alive = TRUE /\ cur = Nothing /\ stable = Nothing

Put(u, v) ==
    /\ alive /\ cur[u] < v
    /\ cur' = [cur EXCEPT ![u] = v]
    /\ UNCHANGED <<alive, stable>>

Sync == alive /\ stable' = cur /\ UNCHANGED <<alive, cur>>

Fail == alive /\ alive' = FALSE /\ cur' = Nothing /\ UNCHANGED stable

Recover == ~alive /\ alive' = TRUE /\ cur' = stable /\ UNCHANGED stable

Next ==
    \/ \E u \in UUID, v \in Version : Put(u, v)
    \/ Sync
    \/ Fail
    \/ Recover

Spec == Init /\ [][Next]_rvars
=============================================================================

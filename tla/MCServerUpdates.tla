-------------------------- MODULE MCServerUpdates --------------------------
(* Values for TLC. *)
EXTENDS ServerUpdates

CONSTANTS shell, apk

Versions3 == 1..3

\* All but one notification verify.
AllButOne == Note \ {[uuid |-> apk, ver |-> 2]}
=============================================================================

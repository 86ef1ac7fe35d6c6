------------------------- MODULE MCUpdateLifecycle -------------------------
(***************************************************************************)
(* Instances of UpdateLifecycle for TLC: the sets the configurations give  *)
(* to the constants, and the symmetry of its interchangeable identities.   *)
(***************************************************************************)
EXTENDS UpdateLifecycle, TLC

Versions2 == 1 .. 2
Versions3 == 1 .. 3

\* All signatures verify; or, for uuids without a deployer, only those of v1.
AllVerify   == Note
ShellVerify == {n \in Note : n.uuid = UUIDShell \/ n.ver = 1}

\* One version of every uuid may come over the overlay, the others from the server.
HeardV1 == {n \in Note : n.ver = 1}

\* Objects are interchangeable, and so are handlers with the same requests.
Symmetry == Permutations(Obj) \union Permutations(Deleter)
              \union Permutations(Handler \ Deleter)
=============================================================================

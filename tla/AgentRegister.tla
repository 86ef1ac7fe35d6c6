--------------------------- MODULE AgentRegister ---------------------------
(***************************************************************************)
(* What an agent is to those who send it notifications: while it is up it  *)
(* takes over those that are genuine and newer than all it knows of their  *)
(* uuid. A failure may make it forget the newest ones it knew; what is     *)
(* left it keeps, with nothing added, until it is up again.                *)
(***************************************************************************)
EXTENDS Naturals

CONSTANTS
    UUID, Version,
    Verified         \* the notifications whose signature verifies

Note == [uuid : UUID, ver : Version]

VARIABLES
    state,  \* "down", "load" (started, not yet answering) or "up"
    known   \* the notifications that are no news to it

rvars == <<state, known>>

\* A version makes all older ones old news.
UpTo(n) == {m \in Note : m.uuid = n.uuid /\ m.ver <= n.ver}

Init == state = "load" /\ known = {}

TakeOver ==
    /\ state = "up"
    /\ \E n \in Verified \ known : known' = known \union UpTo(n)
    /\ UNCHANGED state

Begin  == state = "down" /\ state' = "load" /\ UNCHANGED known

ComeUp == state = "load" /\ state' = "up" /\ UNCHANGED known

Fail ==
    /\ state # "down" /\ state' = "down"
    /\ known' \subseteq known
    /\ \A n \in known' : UpTo(n) \subseteq known'

Next ==
    \/ TakeOver
    \/ Begin
    \/ ComeUp
    \/ Fail

Spec == Init /\ [][Next]_rvars
=============================================================================

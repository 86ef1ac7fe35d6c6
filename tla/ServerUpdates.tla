--------------------------- MODULE ServerUpdates ---------------------------
(***************************************************************************)
(* The update database of the server (server.go): the table s.updates that *)
(* GET answers with and POST changes, the two times that tell whether it   *)
(* has changed since it was saved, the goroutine that saves it, and the    *)
(* file, which survives a crash. GET, POST and the save exclude each other *)
(* with the server's lock; the save alone takes more than one step, as it  *)
(* truncates the file before it writes it.                                 *)
(***************************************************************************)
EXTENDS Naturals

CONSTANTS
    UUID, Version,   \* what notifications carry (submit sends no version 0,
                     \* which stands for a uuid without an entry)
    Verified,        \* the notifications whose signature verifies
    MaxCrashes,      \* bound on crashes
    MaxErrors        \* bound on writes that fail

Note == [uuid : UUID, ver : Version]

ASSUME StoreAssumption ==
    /\ Version \subseteq Nat \ {0}
    /\ Verified \subseteq Note
    /\ MaxCrashes \in Nat
    /\ MaxErrors \in Nat

VARIABLES
    phase,         \* of the process: "up" or "down"
    saver,         \* saveUpdates: "idle", or "writing" with the lock held
    updates,       \* uuid -> version in s.updates, 0 for none
    lastModified,  \* times, counted in modifications of this life
    lastSaved,
    db,            \* the file
    saved,         \* history: what the last save that ended wrote
    crashes, errors

vars == <<phase, saver, updates, lastModified, lastSaved, db, saved, crashes, errors>>

NoUpdates == [u \in UUID |-> 0]

Absent   == [state |-> "absent"]
Torn     == [state |-> "torn"]
Whole(t) == [state |-> "whole", table |-> t]
File     == {Absent, Torn} \union [state : {"whole"}, table : [UUID -> Version \union {0}]]

Init ==
    /\ phase = "up" /\ saver = "idle"
    /\ updates = NoUpdates
    /\ lastModified = 0 /\ lastSaved = 0
    /\ db = Absent /\ saved = NoUpdates
    /\ crashes = 0 /\ errors = 0

\* The lock is free: no save is under way.
Serving == phase = "up" /\ saver = "idle"

\* The database has no version of the uuid, or an older one.
Newer(n) == updates[n.uuid] < n.ver

\* servePostRequest of a notification that verifies and is newer: 200.
Post(n) ==
    /\ Serving /\ n \in Verified /\ Newer(n)
    /\ updates' = [updates EXCEPT ![n.uuid] = n.ver]
    /\ lastModified' = lastModified + 1
    /\ UNCHANGED <<phase, saver, lastSaved, db, saved, crashes, errors>>

\* The other answers: 400 (not verified), 409 (older) and 201 (the same).
PostRefused(n) ==
    /\ Serving /\ ~(n \in Verified /\ Newer(n))
    /\ UNCHANGED vars

\* Seeded fault: nothing is saved twice in one life.
DirtyFirst == lastModified > lastSaved /\ lastSaved = 0

Dirty == lastModified > lastSaved

\* saveUpdates: the file is created or truncated. (Where it cannot be opened, all
\* stays as it is, and the next tick tries again: no step.)
SaveOpen ==
    /\ Serving /\ Dirty
    /\ saver' = "writing"
    /\ db' = Torn
    /\ UNCHANGED <<phase, updates, lastModified, lastSaved, saved, crashes, errors>>

\* The table is written and the times agree again.
SaveWrite ==
    /\ saver = "writing"
    /\ saver' = "idle"
    /\ db' = Whole(updates) /\ saved' = updates
    /\ lastSaved' = lastModified
    /\ UNCHANGED <<phase, updates, lastModified, crashes, errors>>

\* Seeded fault: a failed save counts as one.
TimeOfFailureModified == lastModified

\* A save that failed leaves lastSaved as it was, so that it is tried again.
TimeOfFailure == lastSaved

\* The encoder returns an error, and the file holds part of the table at most.
SaveFails ==
    /\ saver = "writing" /\ errors < MaxErrors
    /\ saver' = "idle"
    /\ errors' = errors + 1
    /\ lastSaved' = TimeOfFailure
    /\ UNCHANGED <<phase, updates, lastModified, db, saved, crashes>>

Crash ==
    /\ phase = "up" /\ crashes < MaxCrashes
    /\ phase' = "down" /\ saver' = "idle"
    /\ updates' = NoUpdates
    /\ lastModified' = 0 /\ lastSaved' = 0
    /\ crashes' = crashes + 1
    /\ UNCHANGED <<db, saved, errors>>

\* Seeded fault: a file that cannot be decoded is taken for an empty one.
DecodableAny == TRUE

\* loadUpdates: a file that is there must decode.
Decodable == db # Torn

Loaded == IF db.state = "whole" THEN db.table ELSE NoUpdates

\* The service manager starts the server; NewServer fails unless loadUpdates
\* succeeds.
Restart ==
    /\ phase = "down" /\ Decodable
    /\ phase' = "up"
    /\ updates' = Loaded
    /\ UNCHANGED <<saver, lastModified, lastSaved, db, saved, crashes, errors>>

Save == SaveOpen \/ SaveWrite \/ SaveFails

Next ==
    \/ \E n \in Note : Post(n) \/ PostRefused(n)
    \/ Save
    \/ Crash
    \/ Restart

Spec == Init /\ [][Next]_vars

\* The ticker calls saveUpdates again and again, and a write ends; systemd
\* restarts the service whenever it ends (Restart=always).
LiveSpec == Spec /\ WF_vars(Save) /\ WF_vars(Restart)

-----------------------------------------------------------------------------
(* Properties *)

TypeOK ==
    /\ phase \in {"up", "down"}
    /\ saver \in {"idle", "writing"}
    /\ updates \in [UUID -> Version \union {0}]
    /\ lastModified \in Nat /\ lastSaved \in Nat
    /\ db \in File
    /\ saved \in [UUID -> Version \union {0}]
    /\ crashes \in Nat /\ errors \in Nat

\* When the times say that nothing needs saving, a restart would bring back
\* what is served now (saveUpdates): whatever has failed or crashed before.
CleanIsSaved ==
    Serving /\ ~Dirty => Decodable /\ updates = Loaded

\* The server keeps the promise of a durable register: versions served grow
\* within a life, and a life starts with what the last save that ended wrote.
Register == INSTANCE DurableRegister
    WITH alive <- phase = "up", cur <- updates, stable <- saved

Durable == Register!Spec

\* What was accepted gets into the file unless the server crashes first, also
\* when writes fail and while more is posted (saveUpdates tries again).
PostedSaved ==
    \A u \in UUID : \A v \in Version :
        (phase = "up" /\ updates[u] >= v)
          ~> (phase = "down" \/ (db.state = "whole" /\ db.table[u] >= v))
=============================================================================

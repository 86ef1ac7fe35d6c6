-------------------------- MODULE UpdateLifecycle --------------------------
(***************************************************************************)
(* The life of the updates of one agent (update.go, agent.go, api.go): the *)
(* table a.updates of the current update of every uuid, the Update objects *)
(* with their locks, the goroutine that monitors each of them, the threads *)
(* that start, replace and delete updates (the gossip goroutine and the    *)
(* handlers of the API), the torrent client, and the two directories that  *)
(* survive a crash: metadata and data.                                     *)
(*                                                                         *)
(* A step is what a goroutine does between two points where another one    *)
(* can see its effects: code that runs under one lock is one step unless   *)
(* it sleeps, waits for another lock, runs the update's script or touches  *)
(* the disk twice.                                                         *)
(***************************************************************************)
EXTENDS Naturals, FiniteSets

CONSTANTS
    UUID,              \* the uuids notifications may carry
    UUIDShell,         \* the one whose deployer is implemented
    Version,           \* the version numbers notifications may carry
    Verified,          \* the notifications whose signature verifies
    Heard,             \* the notifications messages of the overlay may carry
    Obj,               \* the *Update objects one process may allocate
    Gossip,            \* the goroutine that loads updates, then gossips
    Handler,           \* the goroutines that serve API requests
    Deleter,           \* the handlers that are sent DELETE requests
    DeployFailsLimit,  \* the constant of update.go
    Proxy,             \* Config.Proxy
    Overlays,          \* whether there may be an overlay (not Config.NoUDP)
    MaxCrashes,        \* bound on crashes
    None               \* nil

Note   == [uuid : UUID, ver : Version]
Thread == {Gossip} \union Handler

ASSUME ConstantsAssumption ==
    /\ Version \subseteq Nat
    /\ Verified \subseteq Note /\ Heard \subseteq Note
    /\ Deleter \subseteq Handler
    /\ Gossip \notin Handler
    /\ Thread \intersect Obj = {}
    /\ None \notin Thread \union Obj \union Note
    /\ DeployFailsLimit \in Nat
    /\ MaxCrashes \in Nat
    /\ Proxy \in BOOLEAN
    /\ Overlays \subseteq BOOLEAN

VARIABLES
    phase,     \* of the process: "down", "load" (NewAgent), "up", "panicked"
    overlay,   \* a.Overlay # nil, as configured for this life of the process
    todo,      \* metadata files loadUpdates has still to read
    updates,   \* a.updates: uuid -> object or None
    note,      \* object -> its Notification, None until allocated
    stopped, sent, deployed, fails, \* fields of the object
    torrent,   \* object -> u.torrent # nil
    holder,    \* object -> holder of its write lock (itself: its monitor)
    mon,       \* object -> where its monitor goroutine is
    linked,    \* object -> the file its Save opened has not been removed
    client,    \* torrent client: notification -> state of its torrent
    pc,        \* thread -> where it is
    req,       \* thread -> notification of the POST it serves
    new, old,  \* thread -> u and old of Start; old is the object of DELETE too
    data,      \* disk: the notifications whose payload is in dataDir
    meta,      \* disk: notification -> its metadata file
    sig,       \* object -> the signature in its Notification: "own"; "shared",
               \* that of bufNotification; or "lost", when a later message is
               \* in bufNotification
    done,      \* history: what has been deployed in this life of the process
    crashes    \* number of crashes so far

procVars   == <<phase, overlay, todo, sig, crashes>>
fieldVars  == <<stopped, sent, deployed, fails>>
threadVars == <<pc, req, new, old>>
diskVars   == <<data, meta>>
vars == <<phase, overlay, todo, updates, note, stopped, sent, deployed, fails, torrent,
          holder, mon, linked, client, pc, req, new, old, data, meta, sig, done,
          crashes>>

-----------------------------------------------------------------------------
\* What Save writes: the exported fields. Deployed is abstracted to whether
\* it is set, which is all monitor asks of it, and the signature of the
\* notification to whether it is its own.
Fields == [stopped : BOOLEAN, sent : BOOLEAN, deployed : BOOLEAN, fails : Nat,
           signed : BOOLEAN]

\* A metadata file: absent, truncated and not yet written, or whole.
Absent   == [state |-> "absent"]
Torn     == [state |-> "torn"]
Whole(s) == [state |-> "whole", fields |-> s]
File     == {Absent, Torn} \union [state : {"whole"}, fields : Fields]

IsWhole(n) == meta[n].state = "whole"

\* The metadata is whole and its notification verifies as it did when received.
Intact(n) == IsWhole(n) /\ meta[n].fields.signed

\* Seeded fault: a first failure is forgiven by starting below zero.
ReceivedBelowZero ==
    [stopped |-> TRUE, sent |-> FALSE, deployed |-> FALSE, fails |-> 0 - 1,
     signed |-> TRUE]

\* NewUpdate, for a notification the agent received.
Received == [stopped |-> TRUE, sent |-> FALSE, deployed |-> FALSE, fails |-> 0,
             signed |-> TRUE]

\* What requestPostUpdate decodes from the body that submitToAgent sends.
Posted == [Received EXCEPT !.stopped = FALSE]

Snapshot(o) == [stopped |-> stopped[o], sent |-> sent[o],
                deployed |-> deployed[o], fails |-> fails[o],
                signed |-> sig[o] # "lost"]

Free    == {o \in Obj : note[o] = None}

Init ==
    /\ phase = "load" /\ overlay \in Overlays /\ todo = {} /\ crashes = 0
    /\ updates = [u \in UUID |-> None]
    /\ note = [o \in Obj |-> None]
    /\ stopped = [o \in Obj |-> TRUE]
    /\ sent = [o \in Obj |-> FALSE]
    /\ deployed = [o \in Obj |-> FALSE]
    /\ fails = [o \in Obj |-> 0]
    /\ torrent = [o \in Obj |-> FALSE]
    /\ holder = [o \in Obj |-> None]
    /\ mon = [o \in Obj |-> "none"]
    /\ linked = [o \in Obj |-> FALSE]
    /\ client = [n \in Note |-> "none"]
    /\ pc = [t \in Thread |-> "idle"]
    /\ req = [t \in Thread |-> None]
    /\ new = [t \in Thread |-> None]
    /\ old = [t \in Thread |-> None]
    /\ data = {}
    /\ meta = [n \in Note |-> Absent]
    /\ sig = [o \in Obj |-> "own"]
    /\ done = {}

-----------------------------------------------------------------------------
(* Update.Start *)

\* Seeded fault: the version in the table is accepted again.
NewerOrSame(n) ==
    LET cur == updates[n.uuid] IN
    IF cur = None THEN TRUE ELSE note[cur].ver <= n.ver

\* addUpdate refuses a notification that is not newer than the table's.
Newer(n) ==
    LET cur == updates[n.uuid] IN
    IF cur = None THEN TRUE ELSE note[cur].ver < n.ver

Acceptable(n) == n \in Verified /\ Newer(n)

\* Seeded fault: only a uuid that is not there yet gets an entry.
AddIfAbsent(n, o) ==
    updates' = [updates EXCEPT ![n.uuid] = IF @ = None THEN o ELSE @]

AddToTable(n, o) == updates' = [updates EXCEPT ![n.uuid] = o]

\* Seeded fault: the version that is replaced is left running.
ActivateAtOnce(n) == "activate"

\* Start stops and deletes the object that addUpdate returns, if any.
AfterAdd(n) == IF updates[n.uuid] = None THEN "activate" ELSE "stopOld"

\* Seeded fault: nobody unlocks.
KeepLocked(o) == UNCHANGED holder

Unlock(o) == holder' = [holder EXCEPT ![o] = None]

\* Start locks the object, verifies it and puts it in the table; the lock is
\* then held until the torrent is added.
Accept(t, n, s) ==
    /\ Acceptable(n)
    /\ \E o \in Free :
         /\ note' = [note EXCEPT ![o] = n]
         /\ stopped' = [stopped EXCEPT ![o] = s.stopped]
         /\ sent' = [sent EXCEPT ![o] = s.sent]
         /\ deployed' = [deployed EXCEPT ![o] = s.deployed]
         /\ fails' = [fails EXCEPT ![o] = s.fails]
         /\ holder' = [holder EXCEPT ![o] = t]
         /\ new' = [new EXCEPT ![t] = o]
         /\ AddToTable(n, o)
    /\ old' = [old EXCEPT ![t] = updates[n.uuid]]
    /\ pc' = [pc EXCEPT ![t] = AfterAdd(n)]
    /\ UNCHANGED <<torrent, mon, linked, client, diskVars, done>>

\* A notification that Start returns an error for leaves no trace.
Ignore(n) == ~Acceptable(n) /\ UNCHANGED vars

\* Seeded fault: an incomplete torrent is not dropped.
DropComplete(o) ==
    IF torrent[o] /\ client[note[o]] = "complete"
      THEN /\ torrent' = [torrent EXCEPT ![o] = FALSE]
           /\ client' = [client EXCEPT ![note[o]] = "none"]
      ELSE UNCHANGED <<torrent, client>>

\* u.torrent.Drop(), and the wait until the torrent is closed.
Drop(o) ==
    IF torrent[o]
      THEN /\ torrent' = [torrent EXCEPT ![o] = FALSE]
           /\ client' = [client EXCEPT ![note[o]] = "none"]
      ELSE UNCHANGED <<torrent, client>>

\* old.Stop()
StopOld(t) ==
    LET o == old[t] IN
    /\ pc[t] = "stopOld" /\ holder[o] = None
    /\ stopped' = [stopped EXCEPT ![o] = TRUE]
    /\ Drop(o)
    /\ pc' = [pc EXCEPT ![t] = "removeData"]
    /\ UNCHANGED <<procVars, updates, note, sent, deployed, fails, holder, mon,
                   linked, req, new, old, diskVars, done>>

\* Where the thread goes when Delete returns: Start goes on, DELETE ends.
AfterDelete(t) == IF new[t] = None THEN "idle" ELSE "activate"

\* Seeded fault: everything whose name starts with the uuid goes.
PayloadOfUUID(o) == {n \in Note : n.uuid = note[o].uuid}

Payload(o) == {note[o]}

\* old.Delete(), up to the removal of the payload. An update that is not
\* stopped is left alone.
RemoveData(t) ==
    LET o == old[t] IN
    /\ pc[t] = "removeData" /\ holder[o] = None
    /\ IF stopped[o]
         THEN /\ holder' = [holder EXCEPT ![o] = t]
              /\ data' = data \ Payload(o)
              /\ pc' = [pc EXCEPT ![t] = "removeMeta"]
              /\ UNCHANGED old
         ELSE /\ pc' = [pc EXCEPT ![t] = AfterDelete(t)]
              /\ old' = [old EXCEPT ![t] = None]
              /\ UNCHANGED <<holder, data>>
    /\ UNCHANGED <<procVars, updates, note, fieldVars, torrent, mon, linked,
                   client, req, new, meta, done>>

\* The rest of old.Delete(): the metadata file goes, the lock is released.
RemoveMeta(t) ==
    LET o == old[t] IN
    /\ pc[t] = "removeMeta"
    /\ meta' = [meta EXCEPT ![note[o]] = Absent]
    /\ linked' = [p \in Obj |-> linked[p] /\ note[p] # note[o]]
    /\ Unlock(o)
    /\ pc' = [pc EXCEPT ![t] = AfterDelete(t)]
    /\ old' = [old EXCEPT ![t] = None]
    /\ UNCHANGED <<procVars, updates, note, fieldVars, torrent, mon, client,
                   req, new, data, done>>

\* The end of Start, where the lock is released.
Return(t) ==
    /\ pc[t] = "activate"
    /\ Unlock(new[t])
    /\ pc' = [pc EXCEPT ![t] = "idle"]
    /\ new' = [new EXCEPT ![t] = None]
    /\ UNCHANGED <<procVars, updates, note, sent, deployed, fails, linked,
                   req, old, diskVars, done>>

\* The torrent is added (the client returns the torrent it has when it knows
\* the infohash already) and the monitor is spawned.
Activate(t) ==
    LET o == new[t] IN
    /\ Return(t)
    /\ stopped' = [stopped EXCEPT ![o] = FALSE]
    /\ torrent' = [torrent EXCEPT ![o] = TRUE]
    /\ client' = IF client[note[o]] = "none"
                   THEN [client EXCEPT ![note[o]] = "added"] ELSE client
    /\ mon' = [mon EXCEPT ![o] = "fresh"]

\* The metainfo cannot be encoded or the client refuses it. The object stays
\* in the table, and the update it replaced is gone.
ActivateFails(t) ==
    /\ Return(t)
    /\ UNCHANGED <<stopped, torrent, client, mon>>

-----------------------------------------------------------------------------
(* Where updates come from: gossip, the API, the metadata directory *)

\* readTCP: what the server has is decoded into new notifications, and started.
Poll(n) ==
    /\ phase = "up" /\ pc[Gossip] = "idle"
    /\ \/ Accept(Gossip, n, Received) /\ UNCHANGED <<procVars, req>>
       \/ Ignore(n)

\* The signature of n is now in the map of signatures of bufNotification.
Overwrite(n) ==
    [o \in Obj |-> IF sig[o] = "own" THEN "own"
                   ELSE IF note[o] = n THEN "shared" ELSE "lost"]

\* readOverlay: every message is decoded into the same bufNotification. NewUpdate
\* copies its fields, so that the object gets no map of signatures of its own.
ReadOverlay(n) ==
    /\ phase = "up" /\ overlay /\ pc[Gossip] = "idle"
    /\ n \in Heard
    /\ UNCHANGED <<phase, overlay, todo, crashes, req>>
    /\ \/ /\ Accept(Gossip, n, Received)
          /\ sig' = [Overwrite(n) EXCEPT ![new'[Gossip]] = "shared"]
       \/ /\ ~Acceptable(n)
          /\ sig' = Overwrite(n)
          /\ UNCHANGED <<updates, note, fieldVars, torrent, holder, mon, linked,
                         client, pc, new, old, diskVars, done>>

\* requestPostUpdate first copies the payload into the data directory, with
\* no lock and before it knows whether the update will be accepted.
Post(t, n) ==
    /\ phase = "up" /\ pc[t] = "idle"
    /\ data' = data \union {n}
    /\ req' = [req EXCEPT ![t] = n]
    /\ pc' = [pc EXCEPT ![t] = "copied"]
    /\ UNCHANGED <<procVars, updates, note, fieldVars, torrent, holder, mon,
                   linked, client, new, old, meta, done>>

StartPosted(t) ==
    /\ pc[t] = "copied"
    /\ req' = [req EXCEPT ![t] = None]
    /\ UNCHANGED procVars
    /\ \/ Accept(t, req[t], Posted)
       \/ /\ ~Acceptable(req[t])
          /\ pc' = [pc EXCEPT ![t] = "idle"]
          /\ UNCHANGED <<updates, note, fieldVars, torrent, holder, mon, linked,
                         client, new, old, diskVars, done>>

\* Seeded fault: the entry stays.
KeepInTable(u) == UNCHANGED updates

TakeFromTable(u) == updates' = [updates EXCEPT ![u] = None]

\* requestDeleteUpdate takes the update out of the table, then stops and
\* deletes it.
Delete(t, u) ==
    /\ phase = "up" /\ pc[t] = "idle" /\ updates[u] # None
    /\ TakeFromTable(u)
    /\ old' = [old EXCEPT ![t] = updates[u]]
    /\ pc' = [pc EXCEPT ![t] = "stopOld"]
    /\ UNCHANGED <<procVars, note, fieldVars, torrent, holder, mon, linked,
                   client, req, new, diskVars, done>>

\* Seeded fault: updates that were deployed are not loaded.
LoadableUndeployed(n) == Intact(n) /\ ~meta[n].fields.deployed

Loadable(n) == Intact(n)

\* Seeded fault: the time of the deployment is not restored.
FieldsUndeployed(n) == [meta[n].fields EXCEPT !.deployed = FALSE]

\* The fields LoadUpdateFromFile decodes.
LoadedFields(n) == meta[n].fields

\* loadUpdates starts the update of every metadata file it can decode and
\* verify. The directory is sorted by name, in which v10 precedes v9: any order.
LoadFile(n) ==
    /\ phase = "load" /\ pc[Gossip] = "idle" /\ n \in todo
    /\ todo' = todo \ {n}
    /\ UNCHANGED <<phase, overlay, sig, crashes>>
    /\ \/ Loadable(n) /\ Accept(Gossip, n, LoadedFields(n)) /\ UNCHANGED req
       \/ /\ ~(Loadable(n) /\ Acceptable(n))
          /\ UNCHANGED <<updates, note, fieldVars, torrent, holder, mon, linked,
                         client, threadVars, diskVars, done>>

\* NewAgent starts the API and the gossip once loadUpdates has returned.
LoadDone ==
    /\ phase = "load" /\ pc[Gossip] = "idle" /\ todo = {}
    /\ phase' = "up"
    /\ UNCHANGED <<overlay, todo, sig, crashes, updates, note, fieldVars, torrent,
                   holder, mon, linked, client, threadVars, diskVars, done>>

-----------------------------------------------------------------------------
(* Update.monitor. The local variable toSave is TRUE at the start of the    *)
(* first pass ("fresh") and FALSE at the start of every other ("asleep").   *)

Sleeping(o) == mon[o] \in {"fresh", "asleep"} /\ holder[o] = None

\* The pass breaks out of the loop with the lock held: nobody releases it.
MonitorStop(o) ==
    /\ Sleeping(o) /\ (stopped[o] \/ ~torrent[o])
    /\ holder' = [holder EXCEPT ![o] = o]
    /\ mon' = [mon EXCEPT ![o] = "exited"]
    /\ UNCHANGED <<procVars, updates, note, fieldVars, torrent, linked, client,
                   threadVars, diskVars, done>>

\* A pass sends the notification unless that has been done. The write to the
\* overlay may fail; on the nil overlay of a NoUDP agent it panics.
Pass(o) ==
    /\ Sleeping(o) /\ ~stopped[o] /\ torrent[o]
    /\ overlay \/ sent[o]
    /\ sent' = [sent EXCEPT ![o] = TRUE] \/ UNCHANGED sent
    /\ UNCHANGED <<procVars, updates, note, stopped, torrent, linked,
                   threadVars, diskVars, done>>

\* After the pass the metadata is saved if something changed.
AfterPass(o, changed) ==
    mon' = [mon EXCEPT ![o] =
              IF changed \/ mon[o] = "fresh" \/ sent'[o] # sent[o]
                THEN "saving" ELSE "asleep"]

\* BytesMissing. A handle whose torrent another object dropped reports
\* whatever it last knew.
MayMiss(o)    == client[note[o]] # "complete"
MayBeWhole(o) == client[note[o]] \in {"complete", "none"}

\* Seeded fault: the failure that is about to be counted is forgotten.
TooManyFailsBefore(o) == fails[o] > DeployFailsLimit + 1

TooManyFails(o) == fails[o] > DeployFailsLimit

\* Seeded fault: a deployment that failed is not tried again.
DeployDueOnce(o) == ~Proxy /\ ~deployed[o] /\ fails[o] = 0

DeployDue(o) == ~Proxy /\ ~deployed[o]

\* Pieces are missing: download them.
MonitorDownload(o) ==
    /\ Pass(o) /\ MayMiss(o)
    /\ client' = [client EXCEPT ![note[o]] = IF @ = "none" THEN @ ELSE "wanted"]
    /\ AfterPass(o, FALSE)
    /\ UNCHANGED <<deployed, fails, holder>>

\* Nothing to do: a proxy, or deployed already.
MonitorSeed(o) ==
    /\ Pass(o) /\ MayBeWhole(o) /\ ~DeployDue(o)
    /\ AfterPass(o, FALSE)
    /\ UNCHANGED <<client, deployed, fails, holder>>

\* deploy gives up, yet the metadata is saved again.
MonitorRefuse(o) ==
    /\ Pass(o) /\ MayBeWhole(o) /\ DeployDue(o) /\ TooManyFails(o)
    /\ AfterPass(o, TRUE)
    /\ UNCHANGED <<client, deployed, fails, holder>>

\* An unknown uuid, or that of the unimplemented APK deployer.
MonitorUndeployable(o) ==
    /\ Pass(o) /\ MayBeWhole(o) /\ DeployDue(o) /\ ~TooManyFails(o)
    /\ note[o].uuid # UUIDShell
    /\ fails' = [fails EXCEPT ![o] = @ + 1]
    /\ AfterPass(o, TRUE)
    /\ UNCHANGED <<client, deployed, holder>>

\* The script runs, with the lock held.
MonitorDeploy(o) ==
    /\ Pass(o) /\ MayBeWhole(o) /\ DeployDue(o) /\ ~TooManyFails(o)
    /\ note[o].uuid = UUIDShell
    /\ holder' = [holder EXCEPT ![o] = o]
    /\ mon' = [mon EXCEPT ![o] = "deploying"]
    /\ UNCHANGED <<client, deployed, fails>>

\* Seeded fault: the outcome is not saved.
AfterDeployAsleep == "asleep"

\* monitor saves the metadata once deploy returns, whatever the outcome.
AfterDeploy == "saving"

\* The script has ended: the lock is released and the metadata will be saved.
DeployEnds(o) ==
    /\ mon[o] = "deploying"
    /\ Unlock(o)
    /\ mon' = [mon EXCEPT ![o] = AfterDeploy]
    /\ UNCHANGED <<procVars, updates, note, stopped, sent, torrent, linked,
                   client, threadVars, diskVars>>

DeploySucceeds(o) ==
    /\ DeployEnds(o) /\ note[o] \in data
    /\ fails' = [fails EXCEPT ![o] = 0]
    /\ deployed' = [deployed EXCEPT ![o] = TRUE]
    /\ done' = done \union {note[o]}

DeployFails(o) ==
    /\ DeployEnds(o)
    /\ fails' = [fails EXCEPT ![o] = @ + 1]
    /\ UNCHANGED <<deployed, done>>

\* Save opens the file, which creates or truncates it, with no lock held.
SaveOpen(o) ==
    /\ mon[o] = "saving"
    /\ meta' = [meta EXCEPT ![note[o]] = Torn]
    /\ linked' = [linked EXCEPT ![o] = TRUE]
    /\ mon' = [mon EXCEPT ![o] = "writing"]
    /\ UNCHANGED <<procVars, updates, note, fieldVars, torrent, holder, client,
                   threadVars, data, done>>

\* Save writes under the read lock; a file removed since stays removed.
SaveWrite(o) ==
    /\ mon[o] = "writing" /\ holder[o] = None
    /\ meta' = IF linked[o] THEN [meta EXCEPT ![note[o]] = Whole(Snapshot(o))] ELSE meta
    /\ linked' = [linked EXCEPT ![o] = FALSE]
    /\ mon' = [mon EXCEPT ![o] = "asleep"]
    /\ UNCHANGED <<procVars, updates, note, fieldVars, torrent, holder, client,
                   threadVars, data, done>>

-----------------------------------------------------------------------------
(* The environment: the torrent client, crashes and restarts *)

\* The torrent client has all the pieces, downloaded or found on disk.
Complete(n) ==
    /\ client[n] = "wanted" \/ (client[n] = "added" /\ n \in data)
    /\ client' = [client EXCEPT ![n] = "complete"]
    /\ data' = data \union {n}
    /\ UNCHANGED <<procVars, updates, note, fieldVars, torrent, holder, mon,
                   linked, threadVars, meta, done>>

\* All that the process held in memory is gone.
Lost ==
    /\ updates' = [u \in UUID |-> None]
    /\ note' = [o \in Obj |-> None]
    /\ stopped' = [o \in Obj |-> TRUE]
    /\ sent' = [o \in Obj |-> FALSE]
    /\ deployed' = [o \in Obj |-> FALSE]
    /\ fails' = [o \in Obj |-> 0]
    /\ torrent' = [o \in Obj |-> FALSE]
    /\ holder' = [o \in Obj |-> None]
    /\ mon' = [o \in Obj |-> "none"]
    /\ linked' = [o \in Obj |-> FALSE]
    /\ client' = [n \in Note |-> "none"]
    /\ pc' = [t \in Thread |-> "idle"]
    /\ req' = [t \in Thread |-> None]
    /\ new' = [t \in Thread |-> None]
    /\ old' = [t \in Thread |-> None]
    /\ todo' = {}
    /\ sig' = [o \in Obj |-> "own"]
    /\ done' = {}
    /\ UNCHANGED <<overlay, diskVars>>

\* A signal, a power failure, or the end of the service: whatever was being
\* done stops there.
Crash ==
    /\ phase \in {"load", "up"} /\ crashes < MaxCrashes
    /\ phase' = "down" /\ crashes' = crashes + 1
    /\ Lost

\* An agent that has no overlay dereferences nil: in the first pass of a monitor,
\* or for whoever requests the overlay's peers or a broadcast (PATCH, and the
\* rebroadcasts after a POST).
OverlayPanic ==
    /\ ~overlay
    /\ \/ \E o \in Obj : Sleeping(o) /\ ~stopped[o] /\ torrent[o] /\ ~sent[o]
       \/ phase = "up" /\ Handler # {}
    /\ phase' = "panicked" /\ UNCHANGED crashes
    /\ Lost

\* The service manager starts the agent again, with the configuration it then
\* has.
Restart ==
    /\ phase \in {"down", "panicked"}
    /\ phase' = "load"
    /\ overlay' \in Overlays
    /\ todo' = {n \in Note : meta[n] # Absent}
    /\ UNCHANGED <<sig, crashes, updates, note, fieldVars, torrent,
                   holder, mon, linked, client, threadVars, diskVars, done>>

-----------------------------------------------------------------------------
\* What a thread does once it is in Start or in a DELETE.
ThreadStep(t) ==
    \/ StopOld(t)
    \/ RemoveData(t)
    \/ RemoveMeta(t)
    \/ Activate(t)

MonitorStep(o) ==
    \/ MonitorStop(o)
    \/ MonitorDownload(o)
    \/ MonitorSeed(o)
    \/ MonitorRefuse(o)
    \/ MonitorUndeployable(o)
    \/ MonitorDeploy(o)
    \/ DeploySucceeds(o)
    \/ DeployFails(o)
    \/ SaveOpen(o)
    \/ SaveWrite(o)

Next ==
    \/ \E n \in Note : Poll(n) \/ ReadOverlay(n) \/ LoadFile(n) \/ Complete(n)
    \/ \E t \in Handler : StartPosted(t) \/ \E n \in Note : Post(t, n)
    \/ \E t \in Deleter, u \in UUID : Delete(t, u)
    \/ \E t \in Thread : ThreadStep(t) \/ ActivateFails(t)
    \/ \E o \in Obj : MonitorStep(o)
    \/ OverlayPanic
    \/ LoadDone
    \/ Crash
    \/ Restart

Spec == Init /\ [][Next]_vars

\* The Go scheduler runs every goroutine that can run, mutexes are not starved,
\* the service manager restarts the agent. That wanted pieces arrive is an
\* assumption on the peers.
Fairness ==
    /\ \A t \in Thread : WF_vars(ThreadStep(t))
    /\ \A t \in Handler : WF_vars(StartPosted(t))
    /\ \A o \in Obj : WF_vars(MonitorStep(o))
    /\ \A n \in Note : WF_vars(Complete(n))
    /\ WF_vars(LoadDone)
    /\ WF_vars(\E n \in Note : LoadFile(n))
    /\ WF_vars(Restart)

LiveSpec == Spec /\ Fairness

-----------------------------------------------------------------------------
(* Properties *)

\* Every variable holds a value of its type.
TypeOK ==
    /\ phase \in {"down", "load", "up", "panicked"}
    /\ overlay \in BOOLEAN
    /\ todo \subseteq Note
    /\ crashes \in Nat
    /\ updates \in [UUID -> Obj \union {None}]
    /\ note \in [Obj -> Note \union {None}]
    /\ stopped \in [Obj -> BOOLEAN]
    /\ sent \in [Obj -> BOOLEAN]
    /\ deployed \in [Obj -> BOOLEAN]
    /\ fails \in [Obj -> Nat]
    /\ torrent \in [Obj -> BOOLEAN]
    /\ holder \in [Obj -> Thread \union Obj \union {None}]
    /\ mon \in [Obj -> {"none", "fresh", "asleep", "deploying", "saving",
                        "writing", "exited"}]
    /\ linked \in [Obj -> BOOLEAN]
    /\ client \in [Note -> {"none", "added", "wanted", "complete"}]
    /\ pc \in [Thread -> {"idle", "copied", "stopOld", "removeData",
                          "removeMeta", "activate"}]
    /\ req \in [Thread -> Note \union {None}]
    /\ new \in [Thread -> Obj \union {None}]
    /\ old \in [Thread -> Obj \union {None}]
    /\ data \subseteq Note
    /\ meta \in [Note -> File]
    /\ sig \in [Obj -> {"own", "shared", "lost"}]
    /\ done \subseteq Note

\* An update somebody will still stop: it is in the table, or a thread that
\* took it out of the table is about to stop it.
Tracked(o) ==
    \/ \E u \in UUID : updates[u] = o
    \/ \E t \in Thread : pc[t] = "stopOld" /\ old[t] = o

\* No update runs on unseen: however starts and DELETEs interleave, an update
\* whose torrent is active is in the table or is about to be stopped (Start
\* and requestDeleteUpdate stop what addUpdate and deleteUpdate hand them).
NoOrphan == \A o \in Obj : torrent[o] => Tracked(o)

\* The torrent of an update that others of its notification share was dropped
\* when one of them was stopped.
TwinStopped(o) ==
    \E p \in Obj \ {o} : note[p] = note[o] /\ mon[p] # "none" /\ ~torrent[p]

\* Conversely, what the table refuses as existing and GET lists is being worked on:
\* an update in the table, unless it is still being started or AddTorrent failed
\* and it never had a monitor, is not stopped, has a monitor that goes on, and its
\* torrent is in the torrent client. The last need not hold for an update that was
\* POSTed again while the DELETE of the same version was under way: Stop drops the
\* torrent the two share.
TableIsServed ==
    \A u \in UUID : updates[u] # None =>
        LET o == updates[u] IN
        mon[o] # "none" =>
            /\ torrent[o] /\ ~stopped[o] /\ mon[o] # "exited"
            /\ client[note[o]] # "none" \/ TwinStopped(o)

\* A thread is stopping or deleting another object of the same notification.
TwinGoing(o) ==
    \E t \in Thread : old[t] \notin {None, o} /\ note[old[t]] = note[o]

\* The torrent, the payload and the metadata of a version that is in the table are
\* taken away only by the DELETE of that same version, if it was under way when
\* the version was POSTed again (requestDeleteUpdate stops and deletes by name
\* after it has left the table): by no other DELETE and by no replacement,
\* however many are under way.
TwinsOnly ==
    \A u \in UUID : updates[u] # None =>
        LET o == updates[u]
            n == note[o]
        IN  \/ TwinGoing(o)
            \/ /\ n \in data => n \in data'
               /\ meta[n] # Absent => meta'[n] # Absent
               /\ client[n] # "none" /\ phase' \in {"load", "up"}
                    => client'[n] # "none"

OnlyTwinsLose == [][TwinsOnly]_vars

\* An update is stopped and deleted by one thread only: addUpdate and
\* deleteUpdate never hand the same update to two threads.
OneStopper ==
    \A t1, t2 \in Thread : old[t1] # None /\ old[t1] = old[t2] => t1 = t2

\* Nobody waits for a lock in a circle, nor for one that was forgotten: the old
\* version a thread wants to stop or delete is locked by its monitor, which runs
\* the script or has left its loop, or by another thread that is starting it, and
\* which waits itself for a still older version at most. (Start locks the new
\* version before it waits for the old one's lock, in Stop and in Delete.)
LocksInOrder ==
    \A t \in Thread : pc[t] \in {"stopOld", "removeData"} =>
        LET o == old[t]
            h == holder[o]
        IN  \/ h = None
            \/ h = o /\ mon[o] \in {"deploying", "exited"}
            \/ /\ h \in Thread /\ h # t /\ new[h] = o
               /\ old[h] # None => /\ note[old[h]].uuid = note[o].uuid
                                  /\ note[old[h]].ver < note[o].ver

\* Two versions of an update are never deployed at the same time: a version is
\* activated after its predecessor's Stop has waited for the lock the
\* predecessor deploys under. (A DELETE breaks the chain of predecessors.)
ExclusiveDeploy ==
    \A o, p \in Obj :
        mon[o] = "deploying" /\ mon[p] = "deploying" /\ note[o].uuid = note[p].uuid
          => o = p

\* Within one life of the agent versions are deployed in increasing order, each
\* at most once: what runs is newer than all that has been deployed.
DeployedInOrder ==
    \A o \in Obj : mon[o] = "deploying" =>
        \A n \in done : n.uuid = note[o].uuid => n.ver < note[o].ver

\* Deleting the old version (Start) never takes away the payload or the metadata
\* of the version in the table.
KeepsLive ==
    \A u \in UUID : updates[u] # None =>
        LET n == note[updates[u]] IN
        /\ n \in data => n \in data'
        /\ meta[n] # Absent => meta'[n] # Absent

LivePayload == [][KeepsLive]_vars

\* An agent that has started up again works on versions at least as new as any
\* of those whose metadata it finds whole on its disk, and with the signature
\* they were received with.
LoadedNewest ==
    phase = "up" =>
        \A n \in Note : Intact(n) =>
            updates[n.uuid] # None /\ note[updates[n.uuid]].ver >= n.ver

\* The table has n or a newer version.
Covered(n) == updates[n.uuid] # None /\ n.ver <= note[updates[n.uuid]].ver

\* The metadata that loadUpdates has still to read, in this life or the next.
Unread == IF phase \in {"load", "up"} THEN todo ELSE Note

Known ==
    {n \in Note :
        Covered(n) \/ \E m \in Unread : Intact(m) /\ m.uuid = n.uuid /\ n.ver <= m.ver}

\* To the rest of the network the agent is an AgentRegister: loading takes nothing
\* over, whatever the order of the files, and makes nothing new again; a version
\* is replaced in one step, though its files and its monitor stay for longer; and
\* a crash, whatever was being saved, leaves it with some of what it knew.
Register == INSTANCE AgentRegister
              WITH state <- IF phase = "panicked" THEN "down" ELSE phase,
                   known <- Known
IsRegister == Register!Spec

\* A deployment that reached the disk is not repeated, whatever crashes: no
\* update is deploying that its metadata file says has been deployed (unless it
\* was saved with the signature of another one, which loadUpdates refuses).
PersistedOnce ==
    \A o \in Obj : mon[o] = "deploying" /\ Intact(note[o])
                     => ~meta[note[o]].fields.deployed

\* A deployment that keeps failing is given up, also by an agent that goes on from
\* what it had saved: no script runs after more than DeployFailsLimit failures in
\* a row, so that none, in memory or on disk, has more than one failure beyond.
FailsBounded ==
    /\ \A o \in Obj : /\ fails[o] <= DeployFailsLimit + 1
                      /\ mon[o] = "deploying" => fails[o] <= DeployFailsLimit
    /\ \A n \in Note : IsWhole(n) => meta[n].fields.fails <= DeployFailsLimit + 1

\* monitor keeps trying: an active update is deployed, or fails too often, or
\* is stopped.
Settled(o) == deployed[o] \/ TooManyFails(o) \/ ~torrent[o]
EventuallySettled == \A o \in Obj : (torrent[o] /\ ~Proxy) ~> Settled(o)

\* A deployment reaches the metadata file unless the update is replaced first.
DeploymentSaved ==
    \A o \in Obj : deployed[o] ~>
        \/ stopped[o]
        \/ IsWhole(note[o]) /\ meta[note[o]].fields.deployed

\* A lock that a monitor kept when it left its loop.
Leaked(o) == mon[o] = "exited" /\ holder[o] = o

\* Locks are waited for in the order of the versions, so a thread that deletes
\* an old version gets through unless a monitor left its loop with the lock.
OnlyLeaksBlock ==
    \A t \in Thread : (old[t] # None) ~> (old[t] = None \/ \E o \in Obj : Leaked(o))

\* "[x] delete older version of update" (TODO): the deletion of the old version
\* ends.
DeletionEnds == \A t \in Thread : (old[t] # None) ~> (old[t] = None)

\* "[x] delete older version of update" (TODO): while the agent is up, metadata
\* files are those of updates in the table or about to be deleted.
NoStaleMetadata ==
    phase = "up" =>
        \A n \in Note : meta[n] # Absent =>
            \E o \in Obj : /\ note[o] = n
                           /\ \/ updates[n.uuid] = o
                              \/ \E t \in Thread : old[t] = o

\* "[x] NoUDP option in config -- if true then overlay and torrent-DHT will be
\* deactivated" (TODO): an agent without overlay does not panic.
NeverPanics == phase # "panicked"
=============================================================================

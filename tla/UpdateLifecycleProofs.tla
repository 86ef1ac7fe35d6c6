----------------------- MODULE UpdateLifecycleProofs -----------------------
(***************************************************************************)
(* Theorems about UpdateLifecycle, for every value of its constants.       *)
(***************************************************************************)
EXTENDS UpdateLifecycle, TLAPS

-----------------------------------------------------------------------------
(* Type correctness *)

LEMMA AcceptType ==
    ASSUME TypeOK, NEW t \in Thread, NEW n \in Note, NEW s \in Fields,
           Accept(t, n, s)
    PROVE  /\ updates' \in [UUID -> Obj \union {None}]
           /\ note' \in [Obj -> Note \union {None}]
           /\ stopped' \in [Obj -> BOOLEAN]
           /\ sent' \in [Obj -> BOOLEAN]
           /\ deployed' \in [Obj -> BOOLEAN]
           /\ fails' \in [Obj -> Nat]
           /\ torrent' \in [Obj -> BOOLEAN]
           /\ holder' \in [Obj -> Thread \union Obj \union {None}]
           /\ UNCHANGED <<mon, linked, client, data, meta, done>>
           /\ pc' \in [Thread -> {"idle", "copied", "stopOld", "removeData",
                                  "removeMeta", "activate"}]
           /\ new' \in [Thread -> Obj \union {None}]
           /\ old' \in [Thread -> Obj \union {None}]
<1>1. PICK o \in Free :
        /\ note' = [note EXCEPT ![o] = n]
        /\ stopped' = [stopped EXCEPT ![o] = s.stopped]
        /\ sent' = [sent EXCEPT ![o] = s.sent]
        /\ deployed' = [deployed EXCEPT ![o] = s.deployed]
        /\ fails' = [fails EXCEPT ![o] = s.fails]
        /\ holder' = [holder EXCEPT ![o] = t]
        /\ new' = [new EXCEPT ![t] = o]
        /\ AddToTable(n, o)
  BY DEF Accept
<1>2. o \in Obj
  BY DEF Free
<1>3. n.uuid \in UUID
  BY DEF Note
<1>4. /\ s.stopped \in BOOLEAN /\ s.sent \in BOOLEAN
      /\ s.deployed \in BOOLEAN /\ s.fails \in Nat
  BY DEF Fields
<1>5. AfterAdd(n) \in {"stopOld", "activate"}
  BY DEF AfterAdd
<1> QED
  BY <1>1, <1>2, <1>3, <1>4, <1>5 DEF Accept, AddToTable, TypeOK, diskVars

LEMMA InitialFields == Received \in Fields /\ Posted \in Fields
  BY DEF Received, Posted, Fields

LEMMA InitType == Init => TypeOK
  BY ConstantsAssumption DEF Init, TypeOK, File, Absent, Note

LEMMA TypeStep == TypeOK /\ [Next]_vars => TypeOK'
<1> SUFFICES ASSUME TypeOK, [Next]_vars PROVE TypeOK'
  OBVIOUS
<1> USE DEF procVars, fieldVars, threadVars, diskVars
<1>0. ASSUME NEW n \in Note, ReadOverlay(n) PROVE TypeOK'
  <2>1. Overwrite(n) \in [Obj -> {"own", "shared", "lost"}]
    BY DEF Overwrite
  <2>2. CASE /\ Accept(Gossip, n, Received)
             /\ sig' = [Overwrite(n) EXCEPT ![new'[Gossip]] = "shared"]
    <3>1. sig' \in [Obj -> {"own", "shared", "lost"}]
      BY <2>1, <2>2
    <3> QED
      BY <1>0, <2>2, <3>1, AcceptType, InitialFields DEF ReadOverlay, TypeOK, Thread
  <2>3. CASE /\ sig' = Overwrite(n)
             /\ UNCHANGED <<updates, note, fieldVars, torrent, holder, mon, linked,
                            client, pc, new, old, diskVars, done>>
    BY <1>0, <2>1, <2>3 DEF ReadOverlay, TypeOK
  <2> QED
    BY <1>0, <2>2, <2>3 DEF ReadOverlay
<1>1. ASSUME NEW n \in Note, Poll(n) PROVE TypeOK'
  <2>1. CASE Accept(Gossip, n, Received) /\ UNCHANGED <<procVars, req>>
    BY <2>1, AcceptType, InitialFields DEF TypeOK, Thread
  <2>2. CASE Ignore(n)
    BY <2>2 DEF Ignore, TypeOK, vars
  <2> QED
    BY <1>1, <2>1, <2>2 DEF Poll
<1>2. ASSUME NEW n \in Note, LoadFile(n) PROVE TypeOK'
  <2>1. CASE Loadable(n) /\ Accept(Gossip, n, LoadedFields(n)) /\ UNCHANGED req
    <3>1. LoadedFields(n) \in Fields
      BY <2>1 DEF Loadable, Intact, IsWhole, LoadedFields, TypeOK, File, Absent, Torn
    <3> QED
      BY <1>2, <2>1, <3>1, AcceptType DEF LoadFile, TypeOK, Thread
  <2>2. CASE UNCHANGED <<updates, note, fieldVars, torrent, holder, mon, linked,
                         client, threadVars, diskVars, done>>
    BY <1>2, <2>2 DEF LoadFile, TypeOK
  <2> QED
    BY <1>2, <2>1, <2>2 DEF LoadFile
<1>3. ASSUME NEW n \in Note, Complete(n) PROVE TypeOK'
  BY <1>3 DEF Complete, TypeOK
<1>4. ASSUME NEW t \in Handler, StartPosted(t) PROVE TypeOK'
  <2>1. CASE Accept(t, req[t], Posted)
    <3>1. req[t] \in Note
      BY <2>1, ConstantsAssumption DEF Accept, Acceptable
    <3> QED
      BY <1>4, <2>1, <3>1, AcceptType, InitialFields DEF StartPosted, TypeOK, Thread
  <2>2. CASE /\ pc' = [pc EXCEPT ![t] = "idle"]
             /\ UNCHANGED <<updates, note, fieldVars, torrent, holder, mon, linked,
                            client, new, old, diskVars, done>>
    BY <1>4, <2>2 DEF StartPosted, TypeOK, Thread
  <2> QED
    BY <1>4, <2>1, <2>2 DEF StartPosted
<1>5. ASSUME NEW t \in Handler, NEW n \in Note, Post(t, n) PROVE TypeOK'
  BY <1>5 DEF Post, TypeOK, Thread
<1>6. ASSUME NEW t \in Deleter, NEW u \in UUID, Delete(t, u) PROVE TypeOK'
  BY <1>6, ConstantsAssumption DEF Delete, TakeFromTable, TypeOK, Thread
<1>7. ASSUME NEW t \in Thread, StopOld(t) PROVE TypeOK'
  BY <1>7 DEF StopOld, Drop, TypeOK
<1>8. ASSUME NEW t \in Thread, RemoveData(t) PROVE TypeOK'
  BY <1>8 DEF RemoveData, AfterDelete, Payload, TypeOK
<1>9. ASSUME NEW t \in Thread, RemoveMeta(t) PROVE TypeOK'
  BY <1>9 DEF RemoveMeta, Unlock, AfterDelete, TypeOK, File
<1>10. ASSUME NEW t \in Thread, Activate(t) PROVE TypeOK'
  BY <1>10 DEF Activate, Return, Unlock, TypeOK
<1>11. ASSUME NEW t \in Thread, ActivateFails(t) PROVE TypeOK'
  BY <1>11 DEF ActivateFails, Return, Unlock, TypeOK
<1>12. ASSUME NEW o \in Obj, MonitorStep(o) PROVE TypeOK'
  <2>1. CASE MonitorStop(o)
    BY <2>1 DEF MonitorStop, TypeOK
  <2>2. CASE MonitorDownload(o)
    BY <2>2 DEF MonitorDownload, Pass, AfterPass, TypeOK
  <2>3. CASE MonitorSeed(o)
    BY <2>3 DEF MonitorSeed, Pass, AfterPass, TypeOK
  <2>4. CASE MonitorRefuse(o)
    BY <2>4 DEF MonitorRefuse, Pass, AfterPass, TypeOK
  <2>5. CASE MonitorUndeployable(o)
    <3>1. fails' \in [Obj -> Nat]
      BY <2>5 DEF MonitorUndeployable, TypeOK
    <3>2. mon' \in [Obj -> {"none", "fresh", "asleep", "deploying", "saving",
                            "writing", "exited"}]
      BY <2>5 DEF MonitorUndeployable, AfterPass, TypeOK
    <3>3. sent' \in [Obj -> BOOLEAN]
      BY <2>5 DEF MonitorUndeployable, Pass, TypeOK
    <3> QED
      BY <2>5, <3>1, <3>2, <3>3 DEF MonitorUndeployable, Pass, TypeOK
  <2>6. CASE MonitorDeploy(o)
    BY <2>6 DEF MonitorDeploy, Pass, TypeOK
  <2>7. CASE DeploySucceeds(o)
    BY <2>7 DEF DeploySucceeds, DeployEnds, Unlock, AfterDeploy, TypeOK
  <2>8. CASE DeployFails(o)
    BY <2>8 DEF DeployFails, DeployEnds, Unlock, AfterDeploy, TypeOK
  <2>9. CASE SaveOpen(o)
    BY <2>9 DEF SaveOpen, TypeOK, File
  <2>10. CASE SaveWrite(o)
    <3>1. Whole(Snapshot(o)) \in File
      BY DEF Whole, Snapshot, File, Fields, TypeOK
    <3> QED
      BY <2>10, <3>1 DEF SaveWrite, TypeOK
  <2> QED
    BY <1>12, <2>1, <2>2, <2>3, <2>4, <2>5, <2>6, <2>7, <2>8, <2>9, <2>10
       DEF MonitorStep
<1>13. CASE OverlayPanic
  BY <1>13 DEF OverlayPanic, Lost, TypeOK
<1>14. CASE LoadDone
  BY <1>14 DEF LoadDone, TypeOK
<1>15. CASE Crash
  BY <1>15 DEF Crash, Lost, TypeOK
<1>16. CASE Restart
  BY <1>16, ConstantsAssumption DEF Restart, TypeOK
<1>17. CASE UNCHANGED vars
  BY <1>17 DEF vars, TypeOK
<1> QED
  BY <1>0, <1>1, <1>2, <1>3, <1>4, <1>5, <1>6, <1>7, <1>8, <1>9, <1>10, <1>11,
     <1>12, <1>13, <1>14, <1>15, <1>16, <1>17 DEF Next, ThreadStep

\* Every variable holds a value of its type in every reachable state.
THEOREM TypeCorrect == Spec => []TypeOK
  BY InitType, TypeStep, PTL DEF Spec

-----------------------------------------------------------------------------
(* Custody: who is responsible for an update. NoOrphan and OneStopper are  *)
(* not inductive; what makes them so is the discipline of the locks.       *)

Deleting == {"stopOld", "removeData", "removeMeta"}

\* A thread has an object to delete exactly while it deletes, and one to start
\* from addUpdate to the end of Start.
PcShape ==
    \A t \in Thread :
        /\ pc[t] \in Deleting <=> old[t] # None
        /\ new[t] # None => pc[t] \in Deleting \union {"activate"}
        /\ pc[t] = "activate" => new[t] # None

\* The object being started is locked by its starter and does nothing yet.
NewLocked ==
    \A t \in Thread : new[t] # None =>
        /\ note[new[t]] # None
        /\ holder[new[t]] = t
        /\ ~torrent[new[t]]
        /\ mon[new[t]] = "none"

\* The object being deleted is locked while its files go; once stopped it
\* stays stopped, for nobody starts it.
OldStopped ==
    \A t \in Thread :
        /\ pc[t] = "removeMeta" => holder[old[t]] = t
        /\ pc[t] \in {"removeData", "removeMeta"} =>
             /\ ~torrent[old[t]]
             /\ stopped[old[t]]
             /\ \A t2 \in Thread : new[t2] # old[t]

\* The table maps a uuid to an object of that uuid.
TableSound ==
    \A u \in UUID : updates[u] # None =>
        note[updates[u]] # None /\ note[updates[u]].uuid = u

\* The object being deleted is out of the table.
OldOut ==
    \A t \in Thread : old[t] # None =>
        note[old[t]] # None /\ \A u \in UUID : updates[u] # old[t]

FreeIdle ==
    \A o \in Free : ~torrent[o] /\ holder[o] = None /\ mon[o] = "none"

\* NoOrphan, extended to the objects that are about to become active.
AllTracked ==
    \A o \in Obj : (torrent[o] \/ \E t \in Thread : new[t] = o) => Tracked(o)

\* A script runs under the lock of an active update.
DeployLocked ==
    \A o \in Obj : mon[o] = "deploying" => holder[o] = o /\ torrent[o]

Custody ==
    /\ PcShape
    /\ NewLocked
    /\ OldStopped
    /\ TableSound
    /\ OldOut
    /\ FreeIdle
    /\ OneStopper
    /\ AllTracked
    /\ DeployLocked

LEMMA CustodyInit == Init => Custody
  BY ConstantsAssumption
     DEF Init, Custody, PcShape, NewLocked, OldStopped, TableSound, OldOut,
         FreeIdle, OneStopper, AllTracked, DeployLocked, Deleting, Free

LEMMA CustodyLost == TypeOK /\ Lost => Custody'
  BY ConstantsAssumption
     DEF Lost, Custody, PcShape, NewLocked, OldStopped, TableSound, OldOut,
         FreeIdle, OneStopper, AllTracked, DeployLocked, Deleting, Free

\* Steps that touch none of what Custody is about.
LEMMA CustodyFrame ==
    ASSUME Custody,
           UNCHANGED <<updates, note, stopped, torrent, holder, mon, pc, new, old>>
    PROVE  Custody'
  BY DEF Custody, PcShape, NewLocked, OldStopped, TableSound, OldOut,
         FreeIdle, OneStopper, AllTracked, DeployLocked, Free, Tracked

\* Steps of a monitor: it may take the lock that is free, keep it, or release
\* the one it holds.
LEMMA CustodyMonitor ==
    ASSUME TypeOK, Custody, NEW o \in Obj, NEW h, NEW m,
           UNCHANGED <<updates, note, stopped, torrent, pc, new, old>>,
           mon[o] # "none",
           mon' = [mon EXCEPT ![o] = m],
           holder' = [holder EXCEPT ![o] = h],
           m = "deploying" => h = o /\ torrent[o],
           holder[o] \in {None, o} \/ h = holder[o]
    PROVE  Custody'
<1>1. /\ holder[o] \notin Thread \/ h = holder[o]
  BY ConstantsAssumption
<1>2. PcShape' /\ TableSound' /\ OldOut' /\ OneStopper' /\ AllTracked'
  BY DEF Custody, PcShape, TableSound, OldOut, OneStopper, AllTracked, Tracked
<1>3. NewLocked'
  BY <1>1 DEF Custody, NewLocked, TypeOK
<1>4. OldStopped'
  BY <1>1 DEF Custody, OldStopped, PcShape, Deleting, TypeOK
<1>5. FreeIdle'
  BY DEF Custody, FreeIdle, Free, TypeOK
<1>6. DeployLocked'
  BY DEF Custody, DeployLocked, TypeOK
<1> QED
  BY <1>2, <1>3, <1>4, <1>5, <1>6 DEF Custody

LEMMA CustodyMonitorStep ==
    ASSUME TypeOK, Custody, NEW o \in Obj, MonitorStep(o)
    PROVE  Custody'
<1> USE DEF procVars, fieldVars, threadVars, diskVars, TypeOK
<1>1. CASE MonitorStop(o)
  BY <1>1, CustodyMonitor DEF MonitorStop, Sleeping
<1>2. ASSUME Pass(o), NEW c \in BOOLEAN, AfterPass(o, c), UNCHANGED holder
      PROVE Custody'
  <2>1. PICK m \in {"saving", "asleep"} : mon' = [mon EXCEPT ![o] = m]
    BY <1>2 DEF AfterPass
  <2>2. holder' = [holder EXCEPT ![o] = holder[o]]
    BY <1>2
  <2> QED
    BY <1>2, <2>1, <2>2, CustodyMonitor DEF Pass, Sleeping
<1>3. CASE MonitorDownload(o) \/ MonitorSeed(o) \/ MonitorRefuse(o)
             \/ MonitorUndeployable(o)
  BY <1>2, <1>3 DEF MonitorDownload, MonitorSeed, MonitorRefuse, MonitorUndeployable
<1>4. CASE MonitorDeploy(o)
  BY <1>4, CustodyMonitor DEF MonitorDeploy, Pass, Sleeping
<1>5. CASE DeploySucceeds(o) \/ DeployFails(o)
  BY <1>5, CustodyMonitor
     DEF DeploySucceeds, DeployFails, DeployEnds, Unlock, AfterDeploy, Custody, DeployLocked
<1>6. CASE SaveOpen(o)
  <2>1. holder' = [holder EXCEPT ![o] = holder[o]]
    BY <1>6 DEF SaveOpen
  <2> QED
    BY <1>6, <2>1, CustodyMonitor DEF SaveOpen
<1>7. CASE SaveWrite(o)
  <2>1. holder' = [holder EXCEPT ![o] = holder[o]]
    BY <1>7 DEF SaveWrite
  <2> QED
    BY <1>7, <2>1, CustodyMonitor DEF SaveWrite
<1> QED
  BY <1>1, <1>3, <1>4, <1>5, <1>6, <1>7 DEF MonitorStep

\* Start puts a free object in the table and takes the old one out.
LEMMA CustodyAccept ==
    ASSUME TypeOK, Custody, NEW t \in Thread, NEW n \in Note, NEW s \in Fields,
           old[t] = None, new[t] = None, Accept(t, n, s)
    PROVE  Custody'
<1>1. PICK o \in Free :
        /\ note' = [note EXCEPT ![o] = n]
        /\ stopped' = [stopped EXCEPT ![o] = s.stopped]
        /\ holder' = [holder EXCEPT ![o] = t]
        /\ new' = [new EXCEPT ![t] = o]
        /\ updates' = [updates EXCEPT ![n.uuid] = o]
  BY DEF Accept, AddToTable
<1>2. /\ o \in Obj /\ note[o] = None /\ n.uuid \in UUID /\ n # None /\ o # None
  BY ConstantsAssumption DEF Free, Note
<1>3. /\ old' = [old EXCEPT ![t] = updates[n.uuid]]
      /\ pc' = [pc EXCEPT ![t] = AfterAdd(n)]
      /\ UNCHANGED <<torrent, mon>>
  BY DEF Accept
<1>4. /\ ~torrent[o] /\ holder[o] = None /\ mon[o] = "none"
      /\ \A u \in UUID : updates[u] # o
      /\ \A t2 \in Thread : new[t2] # o /\ old[t2] # o
  BY <1>2 DEF Custody, FreeIdle, Free, TableSound, NewLocked, OldOut
<1>5. PcShape'
  BY <1>1, <1>2, <1>3 DEF Custody, PcShape, Deleting, AfterAdd, TypeOK
<1>6. NewLocked'
  BY <1>1, <1>2, <1>3, <1>4 DEF Custody, NewLocked, TypeOK
<1>7. OldStopped'
  <2> SUFFICES ASSUME NEW t1 \in Thread, pc'[t1] \in {"removeData", "removeMeta"}
               PROVE  /\ pc'[t1] = "removeMeta" => holder'[old'[t1]] = t1
                      /\ ~torrent'[old'[t1]]
                      /\ stopped'[old'[t1]]
                      /\ \A t2 \in Thread : new'[t2] # old'[t1]
    BY DEF OldStopped
  <2>1. t1 # t
    BY <1>3 DEF AfterAdd, TypeOK
  <2>2. old'[t1] = old[t1] /\ pc'[t1] = pc[t1] /\ old[t1] # o
    BY <2>1, <1>3, <1>4 DEF TypeOK
  <2> QED
    BY <1>1, <1>2, <1>3, <1>4, <2>1, <2>2 DEF Custody, OldStopped, TypeOK
<1>8. TableSound'
  BY <1>1, <1>2, <1>4 DEF Custody, TableSound, TypeOK
<1>9. OldOut'
  <2> SUFFICES ASSUME NEW t1 \in Thread, old'[t1] # None
               PROVE  /\ note'[old'[t1]] # None
                      /\ \A u \in UUID : updates'[u] # old'[t1]
    BY DEF OldOut
  <2>1. CASE t1 = t
    BY <2>1, <1>1, <1>2, <1>3, <1>4 DEF Custody, TableSound, TypeOK
  <2>2. CASE t1 # t
    BY <2>2, <1>1, <1>2, <1>3, <1>4 DEF Custody, OldOut, TypeOK
  <2> QED
    BY <2>1, <2>2
<1>10. FreeIdle'
  BY <1>1, <1>2, <1>3 DEF Custody, FreeIdle, Free, TypeOK
<1>11. OneStopper'
  BY <1>1, <1>2, <1>3 DEF Custody, OneStopper, OldOut, TypeOK
<1>12. AllTracked'
  <2> SUFFICES ASSUME NEW p \in Obj, torrent'[p] \/ \E t1 \in Thread : new'[t1] = p
               PROVE  Tracked(p)'
    BY DEF AllTracked
  <2>1. CASE p = o
    BY <2>1, <1>1, <1>2 DEF Tracked, TypeOK
  <2>2. CASE p # o
    <3>1. Tracked(p)
      BY <2>2, <1>1, <1>3 DEF Custody, AllTracked, TypeOK
    <3>2. CASE \E u \in UUID : updates[u] = p /\ u # n.uuid
      BY <3>2, <1>1, <1>2 DEF Tracked, TypeOK
    <3>3. CASE updates[n.uuid] = p
      <4>1. pc'[t] = "stopOld" /\ old'[t] = p
        BY <3>3, <1>2, <1>3, ConstantsAssumption DEF AfterAdd, TypeOK
      <4> QED
        BY <4>1 DEF Tracked
    <3>4. CASE \E t1 \in Thread : pc[t1] = "stopOld" /\ old[t1] = p
      <4>1. PICK t1 \in Thread : pc[t1] = "stopOld" /\ old[t1] = p
        BY <3>4
      <4>2. t1 # t
        BY <4>1, ConstantsAssumption DEF TypeOK
      <4> QED
        BY <4>1, <4>2, <1>3 DEF Tracked, TypeOK
    <3> QED
      BY <3>1, <3>2, <3>3, <3>4 DEF Tracked
  <2> QED
    BY <2>1, <2>2
<1>13. DeployLocked'
  BY <1>1, <1>2, <1>3, <1>4 DEF Custody, DeployLocked, TypeOK
<1> QED
  BY <1>5, <1>6, <1>7, <1>8, <1>9, <1>10, <1>11, <1>12, <1>13 DEF Custody

\* A thread that has nothing to start or delete moves on.
LEMMA CustodyMove ==
    ASSUME TypeOK, Custody, NEW t \in Thread, NEW c,
           UNCHANGED <<updates, note, stopped, torrent, holder, mon, new, old>>,
           pc[t] \in {"idle", "copied"}, c \in {"idle", "copied"},
           pc' = [pc EXCEPT ![t] = c]
    PROVE  Custody'
<1>1. PcShape'
  BY DEF Custody, PcShape, Deleting, TypeOK
<1>2. OldStopped'
  BY DEF Custody, OldStopped, TypeOK
<1>3. AllTracked'
  BY DEF Custody, AllTracked, Tracked, TypeOK
<1> QED
  BY <1>1, <1>2, <1>3
     DEF Custody, NewLocked, TableSound, OldOut, FreeIdle, Free, OneStopper, DeployLocked

LEMMA CustodyDelete ==
    ASSUME TypeOK, Custody, NEW t \in Handler, NEW u \in UUID, Delete(t, u)
    PROVE  Custody'
<1> DEFINE o == updates[u]
<1>1. /\ t \in Thread /\ pc[t] = "idle" /\ o # None /\ o \in Obj
      /\ updates' = [updates EXCEPT ![u] = None]
      /\ old' = [old EXCEPT ![t] = o]
      /\ pc' = [pc EXCEPT ![t] = "stopOld"]
      /\ UNCHANGED <<note, stopped, torrent, holder, mon, new>>
  BY DEF Delete, TakeFromTable, fieldVars, Thread, TypeOK
<1>2. old[t] = None /\ new[t] = None
  BY <1>1 DEF Custody, PcShape, Deleting
<1>3. /\ note[o] # None
      /\ \A v \in UUID : v # u => updates[v] # o
      /\ \A t1 \in Thread : old[t1] # o
  BY <1>1 DEF Custody, TableSound, OldOut
<1> HIDE DEF o
<1>4. PcShape'
  BY <1>1, <1>2 DEF Custody, PcShape, Deleting, TypeOK
<1>5. NewLocked' /\ FreeIdle' /\ DeployLocked'
  BY <1>1 DEF Custody, NewLocked, FreeIdle, Free, DeployLocked
<1>6. OldStopped'
  BY <1>1, <1>2 DEF Custody, OldStopped, TypeOK
<1>7. TableSound'
  BY <1>1 DEF Custody, TableSound, TypeOK
<1>8. OldOut'
  BY <1>1, <1>3 DEF Custody, OldOut, TypeOK
<1>9. OneStopper'
  BY <1>1, <1>3 DEF Custody, OneStopper, TypeOK
<1>10. AllTracked'
  <2> SUFFICES ASSUME NEW p \in Obj, Tracked(p) PROVE Tracked(p)'
    BY <1>1 DEF Custody, AllTracked
  <2>1. CASE p = o
    BY <2>1, <1>1 DEF Tracked, TypeOK
  <2>2. CASE \E v \in UUID : updates[v] = p /\ p # o
    BY <2>2, <1>1 DEF Tracked, TypeOK, o
  <2>3. CASE \E t1 \in Thread : pc[t1] = "stopOld" /\ old[t1] = p
    <3>1. PICK t1 \in Thread : pc[t1] = "stopOld" /\ old[t1] = p
      BY <2>3
    <3>2. t1 # t
      BY <3>1, <1>1
    <3> QED
      BY <3>1, <3>2, <1>1 DEF Tracked, TypeOK
  <2> QED
    BY <2>1, <2>2, <2>3 DEF Tracked
<1> QED
  BY <1>4, <1>5, <1>6, <1>7, <1>8, <1>9, <1>10 DEF Custody

LEMMA CustodyStopOld ==
    ASSUME TypeOK, Custody, NEW t \in Thread, StopOld(t)
    PROVE  Custody'
<1> DEFINE o == old[t]
<1>1. /\ pc[t] = "stopOld" /\ holder[o] = None
      /\ stopped' = [stopped EXCEPT ![o] = TRUE]
      /\ torrent' = [torrent EXCEPT ![o] = FALSE]
      /\ pc' = [pc EXCEPT ![t] = "removeData"]
      /\ UNCHANGED <<updates, note, holder, mon, new, old>>
  BY DEF StopOld, Drop, TypeOK
<1>2. o \in Obj
  BY <1>1 DEF Custody, PcShape, Deleting, TypeOK
<1>3. \A t1 \in Thread : new[t1] # o
  BY <1>1, <1>2, ConstantsAssumption DEF Custody, NewLocked
<1> HIDE DEF o
<1>4. PcShape'
  BY <1>1 DEF Custody, PcShape, Deleting, TypeOK
<1>5. NewLocked'
  BY <1>1, <1>2 DEF Custody, NewLocked, TypeOK
<1>6. OldStopped'
  BY <1>1, <1>2, <1>3 DEF Custody, OldStopped, TypeOK, o
<1>7. TableSound' /\ OldOut' /\ OneStopper'
  BY <1>1 DEF Custody, TableSound, OldOut, OneStopper
<1>8. FreeIdle'
  BY <1>1 DEF Custody, FreeIdle, Free, TypeOK
<1>9. AllTracked'
  <2> SUFFICES ASSUME NEW p \in Obj, p # o, Tracked(p) PROVE Tracked(p)'
    BY <1>1, <1>2, <1>3 DEF Custody, AllTracked, TypeOK
  <2> QED
    BY <1>1 DEF Tracked, TypeOK, o
<1>10. DeployLocked'
  BY <1>1, <1>2, ConstantsAssumption DEF Custody, DeployLocked, TypeOK
<1> QED
  BY <1>4, <1>5, <1>6, <1>7, <1>8, <1>9, <1>10 DEF Custody

LEMMA CustodyRemoveData ==
    ASSUME TypeOK, Custody, NEW t \in Thread, RemoveData(t)
    PROVE  Custody'
<1> DEFINE o == old[t]
<1>1. /\ pc[t] = "removeData" /\ holder[o] = None /\ o \in Obj /\ stopped[o]
      /\ \A t1 \in Thread : new[t1] # o
  BY DEF RemoveData, Custody, PcShape, OldStopped, Deleting, TypeOK
<1>2. /\ holder' = [holder EXCEPT ![o] = t]
      /\ pc' = [pc EXCEPT ![t] = "removeMeta"]
      /\ UNCHANGED <<updates, note, stopped, torrent, mon, new, old>>
  BY <1>1 DEF RemoveData, fieldVars
<1>3. \A t1 \in Thread : t1 # t => old[t1] # o
  BY <1>1, ConstantsAssumption DEF Custody, OneStopper, TypeOK
<1>4. note[o] # None
  BY <1>1, ConstantsAssumption DEF Custody, OldOut
<1> HIDE DEF o
<1>5. PcShape'
  BY <1>1, <1>2 DEF Custody, PcShape, Deleting, TypeOK
<1>6. NewLocked'
  BY <1>1, <1>2 DEF Custody, NewLocked, TypeOK
<1>7. OldStopped'
  BY <1>1, <1>2, <1>3 DEF Custody, OldStopped, TypeOK, o
<1>8. TableSound' /\ OldOut' /\ OneStopper'
  BY <1>2 DEF Custody, TableSound, OldOut, OneStopper
<1>9. FreeIdle'
  BY <1>1, <1>2, <1>4 DEF Custody, FreeIdle, Free, TypeOK
<1>10. AllTracked'
  BY <1>1, <1>2 DEF Custody, AllTracked, Tracked, TypeOK
<1>11. DeployLocked'
  BY <1>1, <1>2, ConstantsAssumption DEF Custody, DeployLocked, TypeOK
<1> QED
  BY <1>5, <1>6, <1>7, <1>8, <1>9, <1>10, <1>11 DEF Custody

LEMMA CustodyRemoveMeta ==
    ASSUME TypeOK, Custody, NEW t \in Thread, RemoveMeta(t)
    PROVE  Custody'
<1> DEFINE o == old[t]
<1>1. /\ pc[t] = "removeMeta" /\ holder[o] = t /\ o \in Obj
      /\ \A t1 \in Thread : new[t1] # o
  BY DEF RemoveMeta, Custody, PcShape, OldStopped, Deleting, TypeOK
<1>2. /\ holder' = [holder EXCEPT ![o] = None]
      /\ pc' = [pc EXCEPT ![t] = AfterDelete(t)]
      /\ old' = [old EXCEPT ![t] = None]
      /\ UNCHANGED <<updates, note, stopped, torrent, mon, new>>
  BY DEF RemoveMeta, Unlock, fieldVars
<1>3. \A t1 \in Thread : t1 # t => old[t1] # o
  BY <1>1, ConstantsAssumption DEF Custody, OneStopper, TypeOK
<1> HIDE DEF o
<1>4. PcShape'
  BY <1>1, <1>2, ConstantsAssumption DEF Custody, PcShape, Deleting, AfterDelete, TypeOK
<1>5. NewLocked'
  BY <1>1, <1>2 DEF Custody, NewLocked, TypeOK
<1>6. OldStopped'
  <2> SUFFICES ASSUME NEW t1 \in Thread, pc'[t1] \in {"removeData", "removeMeta"}
               PROVE  t1 # t /\ pc'[t1] = pc[t1] /\ old'[t1] = old[t1]
    BY <1>1, <1>2, <1>3 DEF Custody, OldStopped, TypeOK
  <2> QED
    BY <1>2 DEF AfterDelete, TypeOK
<1>7. TableSound'
  BY <1>2 DEF Custody, TableSound
<1>8. OldOut' /\ OneStopper'
  BY <1>2 DEF Custody, OldOut, OneStopper, TypeOK
<1>9. FreeIdle'
  BY <1>1, <1>2 DEF Custody, FreeIdle, Free, TypeOK
<1>10. AllTracked'
  <2> SUFFICES ASSUME NEW p \in Obj, Tracked(p) PROVE Tracked(p)'
    BY <1>2 DEF Custody, AllTracked
  <2> QED
    BY <1>1, <1>2 DEF Tracked, TypeOK
<1>11. DeployLocked'
  BY <1>1, <1>2, ConstantsAssumption DEF Custody, DeployLocked, TypeOK
<1> QED
  BY <1>4, <1>5, <1>6, <1>7, <1>8, <1>9, <1>10, <1>11 DEF Custody

\* The end of Start, whether the torrent was added or not.
LEMMA CustodyReturn ==
    ASSUME TypeOK, Custody, NEW t \in Thread, Activate(t) \/ ActivateFails(t)
    PROVE  Custody'
<1> DEFINE o == new[t]
<1>1. /\ pc[t] = "activate" /\ o \in Obj /\ o # None /\ holder[o] = t
      /\ note[o] # None /\ ~torrent[o] /\ mon[o] = "none" /\ old[t] = None
  BY DEF Activate, ActivateFails, Return, Custody, PcShape, NewLocked, Deleting, TypeOK
<1>2. /\ holder' = [holder EXCEPT ![o] = None]
      /\ pc' = [pc EXCEPT ![t] = "idle"]
      /\ new' = [new EXCEPT ![t] = None]
      /\ UNCHANGED <<updates, note, old>>
  BY DEF Activate, ActivateFails, Return, Unlock
<1>3. \/ /\ stopped' = [stopped EXCEPT ![o] = FALSE]
         /\ torrent' = [torrent EXCEPT ![o] = TRUE]
         /\ mon' = [mon EXCEPT ![o] = "fresh"]
      \/ UNCHANGED <<stopped, torrent, mon>>
  BY DEF Activate, ActivateFails
<1>4. \A t1 \in Thread : t1 # t => new[t1] # o
  BY <1>1 DEF Custody, NewLocked
<1>5. \A t1 \in Thread : pc[t1] \in {"removeData", "removeMeta"} => old[t1] # o
  BY <1>1 DEF Custody, OldStopped
<1>6. Tracked(o)
  BY <1>1 DEF Custody, AllTracked
<1> HIDE DEF o
<1>7. PcShape'
  BY <1>1, <1>2 DEF Custody, PcShape, Deleting, TypeOK
<1>8. NewLocked'
  BY <1>1, <1>2, <1>3, <1>4 DEF Custody, NewLocked, TypeOK
<1>9. OldStopped'
  <2> SUFFICES ASSUME NEW t1 \in Thread, pc'[t1] \in {"removeData", "removeMeta"}
               PROVE  /\ pc'[t1] = "removeMeta" => holder'[old[t1]] = t1
                      /\ ~torrent'[old[t1]]
                      /\ stopped'[old[t1]]
                      /\ \A t2 \in Thread : new'[t2] # old[t1]
    BY <1>2 DEF OldStopped
  <2>1. pc[t1] = pc'[t1] /\ old[t1] # o
    BY <1>2, <1>5 DEF TypeOK
  <2>2. old[t1] # None
    BY <2>1 DEF Custody, PcShape, Deleting
  <2> QED
    BY <1>1, <1>2, <1>3, <2>1, <2>2 DEF Custody, OldStopped, TypeOK
<1>10. TableSound' /\ OldOut' /\ OneStopper'
  BY <1>2 DEF Custody, TableSound, OldOut, OneStopper
<1>11. FreeIdle'
  BY <1>1, <1>2, <1>3 DEF Custody, FreeIdle, Free, TypeOK
<1>12. AllTracked'
  <2> SUFFICES ASSUME NEW p \in Obj, Tracked(p) PROVE Tracked(p)'
    <3> SUFFICES ASSUME NEW p \in Obj, torrent'[p] \/ \E t1 \in Thread : new'[t1] = p
                 PROVE  Tracked(p)
      BY DEF AllTracked
    <3>1. CASE p = o
      BY <3>1, <1>6
    <3>2. CASE p # o
      <4>1. torrent[p] \/ \E t1 \in Thread : new[t1] = p
        BY <3>2, <1>2, <1>3, ConstantsAssumption DEF TypeOK
      <4> QED
        BY <4>1 DEF Custody, AllTracked
    <3> QED
      BY <3>1, <3>2
  <2> QED
    BY <1>1, <1>2 DEF Tracked, TypeOK
<1>13. DeployLocked'
  BY <1>1, <1>2, <1>3 DEF Custody, DeployLocked, TypeOK
<1> QED
  BY <1>7, <1>8, <1>9, <1>10, <1>11, <1>12, <1>13 DEF Custody

LEMMA CustodyStep == TypeOK /\ Custody /\ [Next]_vars => Custody'
<1> SUFFICES ASSUME TypeOK, Custody, [Next]_vars PROVE Custody'
  OBVIOUS
<1> USE DEF procVars, fieldVars, threadVars, diskVars
<1>1. \A t \in Thread : pc[t] \in {"idle", "copied"} => old[t] = None /\ new[t] = None
  BY DEF Custody, PcShape, Deleting
<1>2. ASSUME NEW n \in Note, Poll(n) \/ ReadOverlay(n) PROVE Custody'
  <2>1. CASE Accept(Gossip, n, Received)
    BY <1>1, <1>2, <2>1, CustodyAccept, InitialFields DEF Poll, ReadOverlay, Thread
  <2>2. CASE UNCHANGED <<updates, note, fieldVars, torrent, holder, mon, pc, new, old>>
    BY <2>2, CustodyFrame
  <2> QED
    BY <1>2, <2>1, <2>2 DEF Poll, ReadOverlay, Ignore, vars
<1>3. ASSUME NEW n \in Note, LoadFile(n) PROVE Custody'
  <2>1. CASE Loadable(n) /\ Accept(Gossip, n, LoadedFields(n))
    <3>1. LoadedFields(n) \in Fields
      BY <2>1 DEF Loadable, Intact, IsWhole, LoadedFields, TypeOK, File, Absent, Torn
    <3> QED
      BY <1>1, <1>3, <2>1, <3>1, CustodyAccept DEF LoadFile, Thread
  <2>2. CASE UNCHANGED <<updates, note, fieldVars, torrent, holder, mon, threadVars>>
    BY <2>2, CustodyFrame
  <2> QED
    BY <1>3, <2>1, <2>2 DEF LoadFile
<1>4. ASSUME NEW t \in Handler, StartPosted(t) PROVE Custody'
  <2>1. CASE Accept(t, req[t], Posted)
    <3>1. req[t] \in Note
      BY <2>1, ConstantsAssumption DEF Accept, Acceptable
    <3> QED
      BY <1>1, <1>4, <2>1, <3>1, CustodyAccept, InitialFields DEF StartPosted, Thread
  <2>2. CASE /\ pc' = [pc EXCEPT ![t] = "idle"]
             /\ UNCHANGED <<updates, note, fieldVars, torrent, holder, mon, new, old>>
    BY <1>4, <2>2, CustodyMove DEF StartPosted, Thread
  <2> QED
    BY <1>4, <2>1, <2>2 DEF StartPosted
<1>5. ASSUME NEW t \in Handler, NEW n \in Note, Post(t, n) PROVE Custody'
  BY <1>5, CustodyMove DEF Post, Thread
<1>6. ASSUME NEW t \in Deleter, NEW u \in UUID, Delete(t, u) PROVE Custody'
  BY <1>6, CustodyDelete, ConstantsAssumption
<1>7. ASSUME NEW t \in Thread, ThreadStep(t) \/ ActivateFails(t) PROVE Custody'
  BY <1>7, CustodyStopOld, CustodyRemoveData, CustodyRemoveMeta, CustodyReturn
     DEF ThreadStep
<1>8. ASSUME NEW o \in Obj, MonitorStep(o) PROVE Custody'
  BY <1>8, CustodyMonitorStep
<1>9. CASE Crash \/ OverlayPanic
  BY <1>9, CustodyLost DEF Crash, OverlayPanic
<1>10. CASE LoadDone \/ Restart \/ (\E n \in Note : Complete(n)) \/ UNCHANGED vars
  BY <1>10, CustodyFrame DEF LoadDone, Restart, Complete, vars
<1> QED
  BY <1>2, <1>3, <1>4, <1>5, <1>6, <1>7, <1>8, <1>9, <1>10 DEF Next

LEMMA CustodyHolds == Spec => [](TypeOK /\ Custody)
<1>1. Init => TypeOK /\ Custody
  BY InitType, CustodyInit
<1>2. TypeOK /\ Custody /\ [Next]_vars => (TypeOK /\ Custody)'
  BY TypeStep, CustodyStep
<1> QED
  BY <1>1, <1>2, PTL DEF Spec

\* No update runs on unseen: one whose torrent is active is in the table or
\* about to be stopped, however starts, DELETEs and crashes interleave.
THEOREM NoOrphanHolds == Spec => []NoOrphan
<1>1. TypeOK /\ Custody => NoOrphan
  BY DEF Custody, AllTracked, NoOrphan
<1> QED
  BY <1>1, CustodyHolds, PTL

\* No update is ever stopped and deleted by two threads.
THEOREM OneStopperHolds == Spec => []OneStopper
<1>1. TypeOK /\ Custody => OneStopper
  BY DEF Custody
<1> QED
  BY <1>1, CustodyHolds, PTL

-----------------------------------------------------------------------------
(* What the table holds is served: with Custody and ActiveRuns,            *)
(* TableIsServed is inductive.                                             *)

\* A torrent is added when the monitor is spawned.
ActiveRuns == \A o \in Obj : torrent[o] => mon[o] # "none"

LEMMA ActiveRunsStep == TypeOK /\ ActiveRuns /\ [Next]_vars => ActiveRuns'
<1> SUFFICES ASSUME TypeOK, ActiveRuns, [Next]_vars PROVE ActiveRuns'
  OBVIOUS
<1>1. CASE /\ \A o \in Obj : torrent'[o] => torrent[o]
           /\ \A o \in Obj : mon[o] # "none" => mon'[o] # "none"
  BY <1>1 DEF ActiveRuns
<1>2. CASE \E n \in Note : Poll(n) \/ ReadOverlay(n) \/ LoadFile(n) \/ Complete(n)
  BY <1>1, <1>2 DEF Poll, ReadOverlay, LoadFile, Complete, Accept, Ignore, vars
<1>3. CASE \E t \in Handler : StartPosted(t) \/ \E n \in Note : Post(t, n)
  BY <1>1, <1>3 DEF StartPosted, Post, Accept
<1>4. ASSUME NEW t \in Thread, ThreadStep(t) \/ ActivateFails(t) PROVE ActiveRuns'
  <2>1. CASE StopOld(t)
    BY <1>1, <2>1 DEF StopOld, Drop, TypeOK
  <2>2. CASE RemoveData(t) \/ RemoveMeta(t) \/ ActivateFails(t)
    BY <1>1, <2>2 DEF RemoveData, RemoveMeta, ActivateFails, Return
  <2>3. CASE Activate(t)
    BY <2>3 DEF Activate, Return, ActiveRuns, TypeOK
  <2> QED
    BY <1>4, <2>1, <2>2, <2>3 DEF ThreadStep
<1>5. ASSUME NEW o \in Obj, MonitorStep(o) PROVE ActiveRuns'
  BY <1>1, <1>5
     DEF MonitorStep, MonitorStop, MonitorDownload, MonitorSeed, MonitorRefuse,
         MonitorUndeployable, MonitorDeploy, DeploySucceeds, DeployFails, DeployEnds,
         AfterDeploy, SaveOpen, SaveWrite, Pass, AfterPass, TypeOK
<1>6. CASE Crash \/ OverlayPanic
  BY <1>6 DEF Crash, OverlayPanic, Lost, ActiveRuns
<1>7. CASE \/ LoadDone \/ Restart \/ UNCHANGED vars
           \/ (\E t \in Deleter, u \in UUID : Delete(t, u))
  BY <1>1, <1>7 DEF LoadDone, Restart, Delete, vars
<1> QED
  BY <1>2, <1>3, <1>4, <1>5, <1>6, <1>7 DEF Next

\* Nothing happens to an update that is in the table but what its monitor does,
\* and its torrent stays in the torrent client.
LEMMA ServedFrame ==
    ASSUME Custody, TableIsServed, UNCHANGED <<note, stopped, torrent>>,
           \A n \in Note : client[n] # "none" => client'[n] # "none",
           \A o \in Obj : mon[o] # "none" => mon'[o] # "none",
           \A u \in UUID : updates'[u] # None =>
             /\ updates'[u] = updates[u]
             /\ note[updates[u]] \in Note
             /\ \/ mon'[updates[u]] = mon[updates[u]]
                \/ mon[updates[u]] # "none" /\ mon'[updates[u]] # "exited"
    PROVE  TableIsServed'
  BY DEF TableIsServed, TwinStopped

LEMMA TableNotes ==
    ASSUME TypeOK, Custody, NEW u \in UUID, updates[u] # None
    PROVE  updates[u] \in Obj /\ note[updates[u]] \in Note
  BY DEF TypeOK, Custody, TableSound

LEMMA ServedAccept ==
    ASSUME TypeOK, Custody, TableIsServed, NEW t \in Thread, NEW n \in Note, NEW s,
           Accept(t, n, s)
    PROVE  TableIsServed'
<1>1. PICK o \in Free :
        /\ updates' = [updates EXCEPT ![n.uuid] = o]
        /\ note' = [note EXCEPT ![o] = n]
        /\ stopped' = [stopped EXCEPT ![o] = s.stopped]
        /\ UNCHANGED <<torrent, mon, client>>
  BY DEF Accept, AddToTable
<1>2. o \in Obj /\ mon[o] = "none" /\ note[o] = None
  BY DEF Custody, FreeIdle, Free
<1>3. \A u \in UUID : updates[u] # None =>
         /\ updates[u] # o /\ updates[u] \in Obj
         /\ stopped'[updates[u]] = stopped[updates[u]]
         /\ note'[updates[u]] = note[updates[u]]
  BY <1>1, <1>2, TableNotes DEF Custody, TableSound, TypeOK
<1>4. ASSUME NEW q \in Obj, note[q] # None, TwinStopped(q)
      PROVE  TwinStopped(q)'
  <2>1. PICK p \in Obj \ {q} : note[p] = note[q] /\ mon[p] # "none" /\ ~torrent[p]
    BY <1>4 DEF TwinStopped
  <2>2. note'[p] = note[p] /\ note'[q] = note[q]
    BY <2>1, <1>1, <1>2, <1>4 DEF TypeOK
  <2> QED
    BY <2>1, <2>2, <1>1 DEF TwinStopped
<1>5. ASSUME NEW u \in UUID, NEW q \in Obj, q = updates'[u], mon'[q] # "none"
      PROVE  /\ torrent'[q] /\ ~stopped'[q] /\ mon'[q] # "exited"
             /\ client'[note'[q]] # "none" \/ TwinStopped(q)'
  <2>1. q # o /\ updates[u] = q
    BY <1>1, <1>2, <1>5 DEF TypeOK
  <2>2. note[q] # None /\ stopped'[q] = stopped[q] /\ note'[q] = note[q]
    BY <2>1, <1>3, <1>5, ConstantsAssumption, TableNotes DEF Custody, TableSound
  <2>3. client[note[q]] # "none" \/ TwinStopped(q)
    BY <2>1, <1>1, <1>5, ConstantsAssumption DEF TableIsServed
  <2>4. torrent[q] /\ ~stopped[q] /\ mon[q] # "exited"
    BY <2>1, <1>1, <1>5, ConstantsAssumption DEF TableIsServed
  <2> QED
    BY <2>2, <2>3, <2>4, <1>1, <1>4
<1>6. updates' \in [UUID -> Obj \union {None}]
  BY <1>1, <1>2 DEF TypeOK
<1> QED
  BY <1>5, <1>6 DEF TableIsServed

\* Only an update that is out of the table is stopped, and only one that has
\* a monitor from then on is activated.
LEMMA ServedThread ==
    ASSUME TypeOK, Custody, ActiveRuns, TableIsServed, NEW t \in Thread, ThreadStep(t) \/ ActivateFails(t)
    PROVE  TableIsServed'
<1> USE DEF fieldVars
<1>0. ASSUME UNCHANGED <<updates, note, stopped, torrent, mon, client>>
      PROVE  TableIsServed'
  BY <1>0, ServedFrame, TableNotes
<1>1. CASE StopOld(t)
  <2>1. old[t] # None /\ old[t] \in Obj /\ \A u \in UUID : updates[u] # old[t]
    BY <1>1 DEF StopOld, Custody, PcShape, Deleting, OldOut, TypeOK
  <2>2. \A o \in Obj \ {old[t]} : torrent'[o] = torrent[o] /\ stopped'[o] = stopped[o]
    BY <1>1 DEF StopOld, Drop, TypeOK
  <2>3. UNCHANGED <<updates, mon, note>>
    BY <1>1 DEF StopOld
  <2>4. \A o \in Obj : ~torrent[o] => ~torrent'[o]
    BY <1>1 DEF StopOld, Drop, TypeOK
  <2>5. ~torrent'[old[t]]
    BY <2>1, <1>1 DEF StopOld, Drop, TypeOK
  <2>6. \/ client' = client
        \/ torrent[old[t]] /\ client' = [client EXCEPT ![note[old[t]]] = "none"]
    BY <1>1 DEF StopOld, Drop
  <2>7. torrent[old[t]] => mon[old[t]] # "none"
    BY <2>1 DEF ActiveRuns
  <2>8. ASSUME NEW u \in UUID, NEW q \in Obj, q = updates'[u], mon'[q] # "none"
        PROVE  /\ torrent'[q] /\ ~stopped'[q] /\ mon'[q] # "exited"
               /\ client'[note'[q]] # "none" \/ TwinStopped(q)'
    <3>1. q = updates[u] /\ q # old[t] /\ q # None /\ note[q] \in Note
      BY <2>1, <2>3, <2>8, ConstantsAssumption, TableNotes
    <3>2. /\ torrent[q] /\ ~stopped[q] /\ mon[q] # "exited"
          /\ client[note[q]] # "none" \/ TwinStopped(q)
      BY <3>1, <2>3, <2>8 DEF TableIsServed
    <3>3. TwinStopped(q) => TwinStopped(q)'
      BY <2>3, <2>4 DEF TwinStopped
    <3>4. CASE client[note[q]] # "none" /\ client'[note[q]] = "none"
      <4>1. note[old[t]] = note[q] /\ torrent[old[t]]
        BY <3>4, <3>1, <2>6 DEF TypeOK
      <4>2. TwinStopped(q)'
        BY <4>1, <3>1, <2>1, <2>3, <2>5, <2>7 DEF TwinStopped
      <4> QED
        BY <4>2, <3>1, <3>2, <2>2, <2>3
    <3> QED
      BY <3>1, <3>2, <3>3, <3>4, <2>2, <2>3
  <2>9. updates' \in [UUID -> Obj \union {None}]
    BY <2>3 DEF TypeOK
  <2> QED
    BY <2>8, <2>9 DEF TableIsServed
<1>2. CASE RemoveData(t) \/ RemoveMeta(t) \/ ActivateFails(t)
  BY <1>0, <1>2 DEF RemoveData, RemoveMeta, ActivateFails, Return
<1>3. CASE Activate(t)
  <2>1. /\ updates' = updates /\ note' = note
        /\ stopped' = [stopped EXCEPT ![new[t]] = FALSE]
        /\ torrent' = [torrent EXCEPT ![new[t]] = TRUE]
        /\ mon' = [mon EXCEPT ![new[t]] = "fresh"]
    BY <1>3 DEF Activate, Return
  <2>2. new[t] \in Obj /\ note[new[t]] \in Note /\ mon[new[t]] = "none"
    BY <1>3 DEF Activate, Return, Custody, PcShape, NewLocked, TypeOK
  <2>3. /\ client'[note[new[t]]] # "none"
        /\ \A n \in Note : client[n] # "none" => client'[n] # "none"
    BY <1>3, <2>2 DEF Activate, TypeOK
  <2>4. ASSUME NEW q \in Obj, TwinStopped(q) PROVE TwinStopped(q)'
    <3>1. PICK p \in Obj \ {q} : note[p] = note[q] /\ mon[p] # "none" /\ ~torrent[p]
      BY <2>4 DEF TwinStopped
    <3>2. p # new[t]
      BY <3>1, <2>2
    <3> QED
      BY <3>1, <3>2, <2>1 DEF TwinStopped, TypeOK
  <2>5. ASSUME NEW u \in UUID, NEW q \in Obj, q = updates'[u], mon'[q] # "none"
        PROVE  /\ torrent'[q] /\ ~stopped'[q] /\ mon'[q] # "exited"
               /\ client'[note'[q]] # "none" \/ TwinStopped(q)'
    <3>1. CASE q = new[t]
      BY <3>1, <2>1, <2>2, <2>3 DEF TypeOK
    <3>2. CASE q # new[t]
      <4>1. q = updates[u] /\ mon[q] # "none" /\ note[q] \in Note /\ q # None
        BY <3>2, <2>1, <2>5, TableNotes, ConstantsAssumption DEF TypeOK
      <4>2. /\ torrent[q] /\ ~stopped[q] /\ mon[q] # "exited"
            /\ client[note[q]] # "none" \/ TwinStopped(q)
        BY <4>1 DEF TableIsServed
      <4> QED
        BY <3>2, <4>1, <4>2, <2>1, <2>3, <2>4 DEF TypeOK
    <3> QED
      BY <3>1, <3>2
  <2>6. updates' \in [UUID -> Obj \union {None}]
    BY <2>1 DEF TypeOK
  <2> QED
    BY <2>5, <2>6 DEF TableIsServed
<1> QED
  BY <1>1, <1>2, <1>3 DEF ThreadStep

\* A monitor leaves its loop only when its update has been stopped.
LEMMA ServedMonitor ==
    ASSUME TypeOK, Custody, TableIsServed, NEW o \in Obj, MonitorStep(o)
    PROVE  TableIsServed'
<1> USE DEF fieldVars
<1>0. /\ \A n \in Note : client[n] # "none" => client'[n] # "none"
      /\ \A p \in Obj : mon[p] # "none" => mon'[p] # "none"
  BY DEF MonitorStep, MonitorStop, MonitorDownload, MonitorSeed, MonitorRefuse,
         MonitorUndeployable, MonitorDeploy, DeploySucceeds, DeployFails, DeployEnds,
         AfterDeploy, SaveOpen, SaveWrite, Pass, AfterPass, TypeOK
<1>1. UNCHANGED <<updates, note, stopped, torrent>>
  BY DEF MonitorStep, MonitorStop, MonitorDownload, MonitorSeed, MonitorRefuse,
         MonitorUndeployable, MonitorDeploy, DeploySucceeds, DeployFails, DeployEnds,
         SaveOpen, SaveWrite, Pass
<1>2. CASE MonitorStop(o)
  <2>1. /\ mon[o] # "none" /\ (stopped[o] \/ ~torrent[o])
        /\ mon' = [mon EXCEPT ![o] = "exited"]
    BY <1>2 DEF MonitorStop, Sleeping
  <2>2. \A u \in UUID : updates[u] # None => updates[u] # o
    BY <2>1 DEF TableIsServed
  <2> QED
    BY <1>0, <1>1, <2>1, <2>2, ServedFrame, TableNotes DEF TypeOK
<1>3. CASE ~MonitorStop(o)
  <2>1. /\ mon[o] # "none" /\ mon'[o] # "exited"
        /\ \A p \in Obj \ {o} : mon'[p] = mon[p]
    BY <1>3 DEF MonitorStep, MonitorDownload, MonitorSeed, MonitorRefuse,
         MonitorUndeployable, MonitorDeploy, DeploySucceeds, DeployFails, DeployEnds,
         AfterDeploy, SaveOpen, SaveWrite, Pass, AfterPass, Sleeping, TypeOK
  <2>2. \A p \in Obj : mon'[p] = mon[p] \/ (mon[p] # "none" /\ mon'[p] # "exited")
    BY <2>1
  <2> QED
    BY <1>0, <1>1, <2>2, ServedFrame, TableNotes DEF TypeOK
<1> QED
  BY <1>2, <1>3

LEMMA ServedStep ==
    TypeOK /\ Custody /\ ActiveRuns /\ TableIsServed /\ [Next]_vars => TableIsServed'
<1> SUFFICES ASSUME TypeOK, Custody, ActiveRuns, TableIsServed, [Next]_vars PROVE TableIsServed'
  OBVIOUS
<1> USE DEF fieldVars
<1>1. CASE /\ UNCHANGED <<updates, note, stopped, torrent, mon>>
           /\ \A n \in Note : client[n] # "none" => client'[n] # "none"
  BY <1>1, ServedFrame, TableNotes
<1>2. ASSUME NEW n \in Note, Poll(n) \/ ReadOverlay(n) \/ LoadFile(n) PROVE TableIsServed'
  <2>1. ASSUME NEW s, Accept(Gossip, n, s) PROVE TableIsServed'
    BY <2>1, ServedAccept DEF Thread
  <2> QED
    BY <1>1, <1>2, <2>1 DEF Poll, ReadOverlay, LoadFile, Ignore, vars
<1>3. ASSUME NEW t \in Handler, StartPosted(t) PROVE TableIsServed'
  <2>1. CASE Accept(t, req[t], Posted)
    <3>1. req[t] \in Note /\ t \in Thread
      BY <2>1, ConstantsAssumption DEF Accept, Acceptable, Thread
    <3> QED
      BY <2>1, <3>1, ServedAccept
  <2> QED
    BY <1>1, <1>3, <2>1 DEF StartPosted
<1>4. ASSUME NEW t \in Deleter, NEW u \in UUID, Delete(t, u) PROVE TableIsServed'
  <2>1. /\ updates' = [updates EXCEPT ![u] = None]
        /\ UNCHANGED <<note, stopped, torrent, mon, client>>
    BY <1>4 DEF Delete, TakeFromTable
  <2> QED
    BY <2>1, ServedFrame, TableNotes DEF TypeOK
<1>5. ASSUME NEW t \in Thread, ThreadStep(t) \/ ActivateFails(t) PROVE TableIsServed'
  BY <1>5, ServedThread
<1>6. ASSUME NEW o \in Obj, MonitorStep(o) PROVE TableIsServed'
  BY <1>6, ServedMonitor
<1>7. CASE Crash \/ OverlayPanic
  BY <1>7 DEF Crash, OverlayPanic, Lost, TableIsServed
<1>8. CASE \/ \E t \in Handler, n \in Note : Post(t, n)
           \/ \E n \in Note : Complete(n)
           \/ LoadDone \/ Restart \/ UNCHANGED vars
  BY <1>1, <1>8 DEF Post, Complete, LoadDone, Restart, vars, TypeOK
<1> QED
  BY <1>2, <1>3, <1>4, <1>5, <1>6, <1>7, <1>8 DEF Next

\* What the table holds, and Start therefore refuses, has a monitor that goes on and
\* a torrent that is in the torrent client, with any DELETEs, unless it is being
\* started or AddTorrent failed, or it shared its torrent with an update of the
\* same notification that was stopped.
THEOREM TableIsServedHolds == Spec => []TableIsServed
<1>1. Init => TableIsServed /\ ActiveRuns
  BY DEF Init, TableIsServed, ActiveRuns
<1> QED
  BY <1>1, ServedStep, ActiveRunsStep, CustodyHolds, PTL DEF Spec

-----------------------------------------------------------------------------
(* What is taken from the table's versions when updates are DELETEd, too    *)

LEMMA TwinsOnlyStep ==
    ASSUME TypeOK, Custody, [Next]_vars
    PROVE  TwinsOnly
<1> SUFFICES ASSUME NEW u \in UUID, NEW p \in Obj, p = updates[u], ~TwinGoing(p)
             PROVE  /\ note[p] \in data => note[p] \in data'
                    /\ meta[note[p]] # Absent => meta'[note[p]] # Absent
                    /\ client[note[p]] # "none" /\ phase' \in {"load", "up"}
                         => client'[note[p]] # "none"
  BY DEF TwinsOnly, TypeOK
<1> USE DEF diskVars
<1>1. note[p] \in Note
  BY ConstantsAssumption DEF Custody, TableSound, TypeOK
<1>2. ASSUME NEW t \in Thread, old[t] # None PROVE note[old[t]] # note[p]
  BY <1>2 DEF Custody, OldOut, TwinGoing
<1>3. ASSUME NEW t \in Thread, StopOld(t) \/ RemoveData(t) \/ RemoveMeta(t)
      PROVE  /\ data' = data \/ data' = data \ {note[old[t]]}
             /\ meta' = meta \/ meta' = [meta EXCEPT ![note[old[t]]] = Absent]
             /\ client' = client \/ client' = [client EXCEPT ![note[old[t]]] = "none"]
             /\ old[t] # None
  BY <1>3 DEF StopOld, Drop, RemoveData, RemoveMeta, Payload, Custody, PcShape, Deleting
<1>4. CASE \E t \in Thread : StopOld(t) \/ RemoveData(t) \/ RemoveMeta(t)
  BY <1>1, <1>2, <1>3, <1>4 DEF TypeOK
<1>5. CASE /\ data \subseteq data'
           /\ meta' = meta
           /\ \A n \in Note : client[n] # "none" => client'[n] # "none"
  BY <1>1, <1>5
<1>6. ASSUME NEW o \in Obj, MonitorStep(o)
      PROVE  /\ data' = data
             /\ \A n \in Note : meta[n] # Absent => meta'[n] # Absent
             /\ \A n \in Note : client[n] # "none" => client'[n] # "none"
  <2>1. CASE MonitorStop(o)
    BY <2>1 DEF MonitorStop
  <2>2. CASE MonitorDownload(o) \/ MonitorSeed(o) \/ MonitorRefuse(o)
    BY <2>2 DEF MonitorDownload, MonitorSeed, MonitorRefuse, Pass, TypeOK
  <2>3. CASE MonitorUndeployable(o) \/ MonitorDeploy(o)
    BY <2>3 DEF MonitorUndeployable, MonitorDeploy, Pass
  <2>4. CASE DeploySucceeds(o) \/ DeployFails(o)
    BY <2>4 DEF DeploySucceeds, DeployFails, DeployEnds
  <2>5. CASE SaveOpen(o)
    BY <2>5 DEF SaveOpen, Torn, Absent, TypeOK
  <2>6. CASE SaveWrite(o)
    BY <2>6 DEF SaveWrite, Whole, Absent, TypeOK
  <2> QED
    BY <1>6, <2>1, <2>2, <2>3, <2>4, <2>5, <2>6 DEF MonitorStep
<1>7. CASE \E o \in Obj : MonitorStep(o)
  BY <1>1, <1>6, <1>7
<1>8. CASE \E n \in Note : Poll(n) \/ ReadOverlay(n) \/ LoadFile(n) \/ Complete(n)
  BY <1>5, <1>8 DEF Poll, ReadOverlay, LoadFile, Complete, Accept, Ignore, vars, TypeOK
<1>9. CASE \E t \in Handler : StartPosted(t) \/ \E n \in Note : Post(t, n)
  BY <1>5, <1>9 DEF StartPosted, Post, Accept
<1>10. ASSUME NEW t \in Thread, Activate(t) \/ ActivateFails(t)
       PROVE  /\ data' = data /\ meta' = meta
              /\ \A n \in Note : client[n] # "none" => client'[n] # "none"
  BY <1>10 DEF Activate, ActivateFails, Return, TypeOK
<1>11. CASE \E t \in Thread : Activate(t) \/ ActivateFails(t)
  BY <1>5, <1>10, <1>11
<1>12. CASE Crash \/ OverlayPanic
  BY <1>12 DEF Crash, OverlayPanic, Lost
<1>13. CASE \/ LoadDone \/ Restart \/ UNCHANGED vars
            \/ (\E t \in Deleter, v \in UUID : Delete(t, v))
  BY <1>5, <1>13 DEF LoadDone, Restart, Delete, vars
<1> QED
  BY <1>4, <1>7, <1>8, <1>9, <1>11, <1>12, <1>13 DEF Next, ThreadStep

\* However starts and DELETEs interleave, the torrent and the files of a version in
\* the table are taken away only by the DELETE of that same version that was under
\* way when it was POSTed again.
THEOREM OnlyTwinsLoseHolds == Spec => OnlyTwinsLose
<1>1. TypeOK /\ Custody /\ [Next]_vars => TwinsOnly
  BY TwinsOnlyStep
<1> QED
  BY <1>1, CustodyHolds, PTL DEF Spec, OnlyTwinsLose

-----------------------------------------------------------------------------
(* Locks: whoever holds one can be told from what it is doing, and a thread *)
(* that waits for one while it holds another goes from newer to older.      *)

Older(q, o) == /\ note[q] # None
               /\ note[q].uuid = note[o].uuid
               /\ note[q].ver < note[o].ver

LEMMA VersionIsNat ==
    ASSUME TypeOK, NEW o \in Obj, note[o] # None
    PROVE  note[o] \in Note /\ note[o].uuid \in UUID /\ note[o].ver \in Nat
  BY ConstantsAssumption DEF TypeOK, Note

\* A lock is held by the monitor that runs the script or has left its loop, by
\* the thread that starts the update, or by the one that deletes its files.
LockHeld ==
    \A o \in Obj :
        \/ holder[o] = None
        \/ holder[o] = o /\ mon[o] \in {"deploying", "exited"}
        \/ \E t \in Thread : /\ holder[o] = t
                             /\ new[t] = o \/ (pc[t] = "removeMeta" /\ old[t] = o)

NewerThanOld ==
    \A t \in Thread : new[t] # None /\ old[t] # None => Older(old[t], new[t])

Locks == LockHeld /\ NewerThanOld

LEMMA LocksInit == Init => Locks
  BY DEF Init, Locks, LockHeld, NewerThanOld

LEMMA LocksLost == Lost => Locks'
  BY DEF Lost, Locks, LockHeld, NewerThanOld

LEMMA LocksFrame ==
    ASSUME Locks, UNCHANGED <<note, holder, mon, new, old>>,
           \A t \in Thread : pc[t] = "removeMeta" => pc'[t] = "removeMeta"
    PROVE  Locks'
  BY DEF Locks, LockHeld, NewerThanOld, Older

\* A monitor takes its lock, keeps it or releases it, and leaves alone what a
\* thread holds.
LEMMA LocksMonitor ==
    ASSUME TypeOK, Custody, Locks, NEW o \in Obj, MonitorStep(o)
    PROVE  Locks'
<1> USE DEF procVars, fieldVars, threadVars, diskVars, TypeOK
<1>1. UNCHANGED <<note, pc, new, old>>
  BY DEF MonitorStep, MonitorStop, MonitorDownload, MonitorSeed, MonitorRefuse,
         MonitorUndeployable, MonitorDeploy, DeploySucceeds, DeployFails, DeployEnds, Pass,
         SaveOpen, SaveWrite
<1>2. /\ \A p \in Obj : p # o => holder'[p] = holder[p] /\ mon'[p] = mon[p]
      /\ \/ holder'[o] = None
         \/ holder'[o] = o /\ mon'[o] \in {"deploying", "exited"}
         \/ holder'[o] = holder[o] /\ mon[o] = "saving"
  <2>1. CASE MonitorStop(o)
    BY <2>1 DEF MonitorStop
  <2>2. CASE MonitorDownload(o) \/ MonitorSeed(o) \/ MonitorRefuse(o)
               \/ MonitorUndeployable(o)
    BY <2>2 DEF MonitorDownload, MonitorSeed, MonitorRefuse, MonitorUndeployable, Pass,
                Sleeping, AfterPass
  <2>3. CASE MonitorDeploy(o)
    BY <2>3 DEF MonitorDeploy
  <2>4. CASE DeploySucceeds(o) \/ DeployFails(o)
    BY <2>4 DEF DeploySucceeds, DeployFails, DeployEnds, Unlock
  <2>5. CASE SaveOpen(o) \/ SaveWrite(o)
    BY <2>5 DEF SaveOpen, SaveWrite
  <2> QED
    BY <2>1, <2>2, <2>3, <2>4, <2>5 DEF MonitorStep
<1>3. LockHeld'
  <2> SUFFICES ASSUME NEW p \in Obj
               PROVE  \/ holder'[p] = None
                      \/ holder'[p] = p /\ mon'[p] \in {"deploying", "exited"}
                      \/ \E t \in Thread : /\ holder'[p] = t
                                           /\ new[t] = p \/ (pc[t] = "removeMeta" /\ old[t] = p)
    BY <1>1 DEF LockHeld
  <2>1. CASE p # o
    BY <2>1, <1>2 DEF Locks, LockHeld
  <2>2. CASE p = o
    BY <2>2, <1>2 DEF Locks, LockHeld
  <2> QED
    BY <2>1, <2>2
<1> QED
  BY <1>1, <1>3 DEF Locks, NewerThanOld, Older

\* Start locks the new version, and waits for the one it takes out of the table.
LEMMA LocksAccept ==
    ASSUME TypeOK, Custody, Locks, NEW t \in Thread, NEW n \in Note, NEW s \in Fields,
           pc[t] \in {"idle", "copied"}, Accept(t, n, s)
    PROVE  Locks'
<1>1. PICK o \in Free :
        /\ note' = [note EXCEPT ![o] = n]
        /\ holder' = [holder EXCEPT ![o] = t]
        /\ new' = [new EXCEPT ![t] = o]
  BY DEF Accept
<1>2. /\ o \in Obj /\ note[o] = None /\ n # None /\ o # None /\ n.uuid \in UUID
      /\ old' = [old EXCEPT ![t] = updates[n.uuid]]
      /\ pc' = [pc EXCEPT ![t] = AfterAdd(n)]
      /\ mon' = mon
  BY ConstantsAssumption DEF Accept, Free, Note
<1>3. old[t] = None /\ new[t] = None
  BY DEF Custody, PcShape, Deleting
<1>4. \A t1 \in Thread : old[t1] # o /\ new[t1] # o
  BY <1>2 DEF Custody, OldOut, NewLocked
<1>5. LockHeld'
  <2> SUFFICES ASSUME NEW p \in Obj
               PROVE  \/ holder'[p] = None
                      \/ holder'[p] = p /\ mon'[p] \in {"deploying", "exited"}
                      \/ \E t1 \in Thread :
                           /\ holder'[p] = t1
                           /\ new'[t1] = p \/ (pc'[t1] = "removeMeta" /\ old'[t1] = p)
    BY DEF LockHeld
  <2>1. CASE p = o
    <3>1. holder'[p] = t /\ new'[t] = p
      BY <2>1, <1>1, <1>2 DEF TypeOK
    <3> QED
      BY <3>1
  <2>2. CASE p # o
    <3>1. holder'[p] = holder[p] /\ mon'[p] = mon[p]
      BY <2>2, <1>1, <1>2 DEF TypeOK
    <3>2. ASSUME NEW t1 \in Thread, holder[p] = t1,
                 new[t1] = p \/ (pc[t1] = "removeMeta" /\ old[t1] = p)
          PROVE  new'[t1] = p \/ (pc'[t1] = "removeMeta" /\ old'[t1] = p)
      <4>1. t1 # t
        BY <3>2, <1>3, ConstantsAssumption
      <4> QED
        BY <3>2, <4>1, <1>1, <1>2 DEF TypeOK
    <3> QED
      BY <3>1, <3>2 DEF Locks, LockHeld
  <2> QED
    BY <2>1, <2>2
<1>6. NewerThanOld'
  <2> SUFFICES ASSUME NEW t1 \in Thread, new'[t1] # None, old'[t1] # None
               PROVE  Older(old[t1], new[t1])'
    BY DEF NewerThanOld
  <2>1. CASE t1 = t
    <3>1. PICK cur \in Obj : cur = updates[n.uuid] /\ cur # None
      BY <2>1, <1>2 DEF TypeOK
    <3>2. note[cur] # None /\ note[cur].uuid = n.uuid /\ note[cur].ver < n.ver
      BY <3>1, <1>2 DEF Accept, Acceptable, Newer, Custody, TableSound
    <3>3. cur # o /\ new'[t] = o /\ old'[t] = cur
      BY <3>1, <3>2, <1>1, <1>2 DEF TypeOK
    <3> QED
      BY <2>1, <3>2, <3>3, <1>1, <1>2 DEF Older, TypeOK
  <2>2. CASE t1 # t
    <3>1. new'[t1] = new[t1] /\ old'[t1] = old[t1]
      BY <2>2, <1>1, <1>2 DEF TypeOK
    <3>2. new[t1] # o /\ old[t1] # o
      BY <1>4
    <3> QED
      BY <3>1, <3>2, <1>1 DEF Locks, NewerThanOld, Older, TypeOK
  <2> QED
    BY <2>1, <2>2
<1> QED
  BY <1>5, <1>6 DEF Locks

LEMMA LocksThread ==
    ASSUME TypeOK, Custody, Locks, NEW t \in Thread, ThreadStep(t) \/ ActivateFails(t)
    PROVE  Locks'
<1> USE DEF TypeOK, fieldVars, procVars
<1>1. CASE StopOld(t)
  BY <1>1, LocksFrame DEF StopOld
<1>2. CASE RemoveData(t)
  <2>1. PICK o \in Obj : /\ o = old[t] /\ stopped[o] /\ pc[t] = "removeData"
                         /\ holder' = [holder EXCEPT ![o] = t]
                         /\ pc' = [pc EXCEPT ![t] = "removeMeta"]
                         /\ UNCHANGED <<note, mon, new, old>>
    BY <1>2 DEF RemoveData, Custody, PcShape, OldStopped, Deleting
  <2> QED
    BY <2>1 DEF Locks, LockHeld, NewerThanOld, Older
<1>3. CASE RemoveMeta(t)
  <2>1. PICK o \in Obj : /\ o = old[t]
                         /\ holder' = [holder EXCEPT ![o] = None]
                         /\ pc' = [pc EXCEPT ![t] = AfterDelete(t)]
                         /\ old' = [old EXCEPT ![t] = None]
                         /\ UNCHANGED <<note, mon, new>>
    BY <1>3 DEF RemoveMeta, Unlock, Custody, PcShape, Deleting
  <2>2. LockHeld'
    <3> SUFFICES ASSUME NEW p \in Obj, p # o, holder[p] # None, holder[p] # p
                 PROVE  \E t1 \in Thread :
                          /\ holder'[p] = t1
                          /\ new'[t1] = p \/ (pc'[t1] = "removeMeta" /\ old'[t1] = p)
      BY <2>1 DEF Locks, LockHeld
    <3>1. PICK t1 \in Thread : /\ holder[p] = t1
                               /\ new[t1] = p \/ (pc[t1] = "removeMeta" /\ old[t1] = p)
      BY DEF Locks, LockHeld
    <3> QED
      BY <2>1, <3>1
  <2>3. NewerThanOld'
    BY <2>1 DEF Locks, NewerThanOld, Older
  <2> QED
    BY <2>2, <2>3 DEF Locks
<1>4. CASE Activate(t) \/ ActivateFails(t)
  <2>1. PICK o \in Obj : /\ o = new[t] /\ pc[t] = "activate" /\ holder[o] = t
                         /\ holder' = [holder EXCEPT ![o] = None]
                         /\ pc' = [pc EXCEPT ![t] = "idle"]
                         /\ new' = [new EXCEPT ![t] = None]
                         /\ UNCHANGED <<note, old>>
                         /\ \A p \in Obj : p # o => mon'[p] = mon[p]
    BY <1>4 DEF Activate, ActivateFails, Return, Unlock, Custody, PcShape, NewLocked
  <2>2. LockHeld'
    <3> SUFFICES ASSUME NEW p \in Obj, p # o, holder[p] # None, holder[p] # p
                 PROVE  \E t1 \in Thread :
                          /\ holder'[p] = t1
                          /\ new'[t1] = p \/ (pc'[t1] = "removeMeta" /\ old'[t1] = p)
      BY <2>1 DEF Locks, LockHeld
    <3>1. PICK t1 \in Thread : /\ holder[p] = t1
                               /\ new[t1] = p \/ (pc[t1] = "removeMeta" /\ old[t1] = p)
      BY DEF Locks, LockHeld
    <3>2. t1 # t
      BY <2>1, <3>1
    <3> QED
      BY <2>1, <3>1, <3>2
  <2>3. NewerThanOld'
    BY <2>1 DEF Locks, NewerThanOld, Older
  <2> QED
    BY <2>2, <2>3 DEF Locks
<1> QED
  BY <1>1, <1>2, <1>3, <1>4 DEF ThreadStep

\* DELETE has no lock when it takes an update out of the table.
LEMMA LocksDelete ==
    ASSUME TypeOK, Custody, Locks, NEW t \in Handler, NEW u \in UUID, Delete(t, u)
    PROVE  Locks'
<1>1. /\ t \in Thread /\ pc[t] = "idle" /\ pc' = [pc EXCEPT ![t] = "stopOld"]
      /\ old' = [old EXCEPT ![t] = updates[u]]
      /\ UNCHANGED <<note, holder, mon, new>>
  BY DEF Delete, Thread
<1>2. new[t] = None /\ old[t] = None
  BY <1>1 DEF Custody, PcShape, Deleting
<1>3. LockHeld'
  <2> SUFFICES ASSUME NEW t1 \in Thread, pc[t1] = "removeMeta"
               PROVE  pc'[t1] = "removeMeta" /\ old'[t1] = old[t1]
    BY <1>1 DEF Locks, LockHeld
  <2> QED
    BY <1>1 DEF TypeOK
<1>4. NewerThanOld'
  BY <1>1, <1>2 DEF Locks, NewerThanOld, Older, TypeOK
<1> QED
  BY <1>3, <1>4 DEF Locks

LEMMA LocksStep == TypeOK /\ Custody /\ Locks /\ [Next]_vars => Locks'
<1> SUFFICES ASSUME TypeOK, Custody, Locks, [Next]_vars PROVE Locks'
  OBVIOUS
<1> USE DEF procVars, fieldVars, threadVars, diskVars
<1>1. ASSUME NEW n \in Note, Poll(n) \/ ReadOverlay(n) PROVE Locks'
  <2>1. CASE Accept(Gossip, n, Received)
    BY <1>1, <2>1, LocksAccept, InitialFields DEF Poll, ReadOverlay, Thread
  <2>2. CASE UNCHANGED <<note, holder, mon, pc, new, old>>
    BY <2>2, LocksFrame
  <2> QED
    BY <1>1, <2>1, <2>2 DEF Poll, ReadOverlay, Ignore, vars
<1>2. ASSUME NEW n \in Note, LoadFile(n) PROVE Locks'
  <2>1. CASE Loadable(n) /\ Accept(Gossip, n, LoadedFields(n))
    <3>1. LoadedFields(n) \in Fields
      BY <2>1 DEF Loadable, Intact, IsWhole, LoadedFields, TypeOK, File, Absent, Torn
    <3> QED
      BY <1>2, <2>1, <3>1, LocksAccept DEF LoadFile, Thread
  <2>2. CASE UNCHANGED <<note, holder, mon, threadVars>>
    BY <2>2, LocksFrame
  <2> QED
    BY <1>2, <2>1, <2>2 DEF LoadFile
<1>3. ASSUME NEW t \in Handler, StartPosted(t) PROVE Locks'
  <2>1. CASE Accept(t, req[t], Posted)
    <3>1. req[t] \in Note
      BY <2>1, ConstantsAssumption DEF Accept, Acceptable
    <3> QED
      BY <1>3, <2>1, <3>1, LocksAccept, InitialFields DEF StartPosted, Thread
  <2>2. CASE pc' = [pc EXCEPT ![t] = "idle"] /\ UNCHANGED <<note, holder, mon, new, old>>
    BY <1>3, <2>2, LocksFrame DEF StartPosted, TypeOK
  <2> QED
    BY <1>3, <2>1, <2>2 DEF StartPosted
<1>4. ASSUME NEW t \in Handler, NEW n \in Note, Post(t, n) PROVE Locks'
  BY <1>4, LocksFrame DEF Post, TypeOK
<1>5. ASSUME NEW t \in Deleter, NEW u \in UUID, Delete(t, u) PROVE Locks'
  BY <1>5, LocksDelete, ConstantsAssumption
<1>6. ASSUME NEW t \in Thread, ThreadStep(t) \/ ActivateFails(t) PROVE Locks'
  BY <1>6, LocksThread
<1>7. ASSUME NEW o \in Obj, MonitorStep(o) PROVE Locks'
  BY <1>7, LocksMonitor
<1>8. CASE Crash \/ OverlayPanic
  BY <1>8, LocksLost DEF Crash, OverlayPanic
<1>9. CASE LoadDone \/ Restart \/ (\E n \in Note : Complete(n)) \/ UNCHANGED vars
  BY <1>9, LocksFrame DEF LoadDone, Restart, Complete, vars
<1> QED
  BY <1>1, <1>2, <1>3, <1>4, <1>5, <1>6, <1>7, <1>8, <1>9 DEF Next

LEMMA LocksHold == Spec => [](TypeOK /\ Custody /\ Locks)
<1>1. Init => Locks
  BY LocksInit
<1> QED
  BY <1>1, LocksStep, CustodyHolds, PTL DEF Spec

\* Nobody ever waits in a circle, or for a lock that was forgotten: a thread waits
\* for the script of the old version, for a monitor that left its loop with the
\* lock, or for a thread that starts that version and waits for an older one at
\* most. With any number of threads, versions, DELETEs and crashes.
THEOREM LocksInOrderHolds == Spec => []LocksInOrder
<1>1. TypeOK /\ Custody /\ Locks => LocksInOrder
  <2> SUFFICES ASSUME TypeOK, Custody, Locks, NEW t \in Thread,
                      pc[t] \in {"stopOld", "removeData"},
                      NEW o \in Obj, o = old[t], NEW h, h = holder[o],
                      h # None, ~(h = o /\ mon[o] \in {"deploying", "exited"})
               PROVE  /\ h \in Thread /\ h # t /\ new[h] = o
                      /\ old[h] # None => /\ note[old[h]].uuid = note[o].uuid
                                          /\ note[old[h]].ver < note[o].ver
    BY DEF LocksInOrder, Custody, PcShape, Deleting, TypeOK
  <2>1. h \in Thread /\ (new[h] = o \/ (pc[h] = "removeMeta" /\ old[h] = o))
    BY DEF Locks, LockHeld
  <2>2. old[t] # None
    BY DEF Custody, PcShape, Deleting
  <2>3. new[h] = o
    BY <2>1, <2>2 DEF Custody, OneStopper
  <2>4. h # t
    <3>1. ~Older(o, o)
      BY VersionIsNat DEF Older
    <3> QED
      BY <2>2, <2>3, <3>1, ConstantsAssumption DEF Locks, NewerThanOld
  <2> QED
    BY <2>1, <2>2, <2>3, <2>4 DEF Locks, NewerThanOld, Older
<1> QED
  BY <1>1, LocksHold, PTL

-----------------------------------------------------------------------------
(* Lineage: without DELETE requests the versions of a uuid form a chain,   *)
(* in which a version becomes active only when all older ones are dead.    *)

Pending(o) == \E t \in Thread : new[t] = o

Dead(o) == ~torrent[o] /\ ~Pending(o)

OlderDead(o) == \A q \in Obj : Older(q, o) => Dead(q)

\* The table has the newest version of every uuid, and versions do not recur.
TableNewest ==
    \A o \in Obj : note[o] # None =>
        /\ updates[note[o].uuid] # None
        /\ note[o].ver <= note[updates[note[o].uuid]].ver

OneEach == \A o, p \in Obj : note[o] # None /\ note[o] = note[p] => o = p

\* An object that has been started, or has nobody left to stop, succeeds only
\* dead ones.
StartedAlone ==
    \A o \in Obj : note[o] # None /\ ~Pending(o) => OlderDead(o)

StoppedAlone ==
    \A t \in Thread :
        new[t] # None /\ pc[t] \in {"removeData", "removeMeta", "activate"}
          => OlderDead(new[t])

\* What Start is about to stop is the immediate predecessor.
Predecessor ==
    \A t \in Thread : pc[t] = "stopOld" =>
        /\ new[t] # None
        /\ Older(old[t], new[t])
        /\ \A q \in Obj : Older(q, new[t]) => note[q].ver <= note[old[t]].ver

Lineage ==
    /\ TableNewest
    /\ OneEach
    /\ StartedAlone
    /\ StoppedAlone
    /\ Predecessor

LEMMA LineageInit == Init => Lineage
  BY ConstantsAssumption
     DEF Init, Lineage, TableNewest, OneEach, StartedAlone, StoppedAlone, Predecessor

LEMMA LineageLost == Lost => Lineage'
  BY ConstantsAssumption
     DEF Lost, Lineage, TableNewest, OneEach, StartedAlone, StoppedAlone, Predecessor

\* Steps that change neither the table nor what is active, and in which no
\* thread gets nearer to the activation of an update.
LEMMA LineageFrame ==
    ASSUME Lineage, UNCHANGED <<updates, note, torrent, new, old>>,
           \A t \in Thread : pc'[t] = pc[t] \/ pc'[t] \in {"idle", "copied"}
    PROVE  Lineage'
<1>1. \A o \in Obj : OlderDead(o) <=> OlderDead(o)'
  BY DEF OlderDead, Older, Dead, Pending
<1>2. TableNewest' /\ OneEach'
  BY DEF Lineage, TableNewest, OneEach
<1>3. StartedAlone'
  BY <1>1 DEF Lineage, StartedAlone, Pending
<1>4. StoppedAlone'
  BY DEF Lineage, StoppedAlone, OlderDead, Older, Dead, Pending
<1>5. Predecessor'
  BY DEF Lineage, Predecessor, Older
<1> QED
  BY <1>2, <1>3, <1>4, <1>5 DEF Lineage

LEMMA LineageAccept ==
    ASSUME TypeOK, Custody, Lineage, NEW t \in Thread, NEW n \in Note,
           NEW s \in Fields, old[t] = None, new[t] = None, Accept(t, n, s)
    PROVE  Lineage'
<1> DEFINE cur == updates[n.uuid]
<1>1. PICK o \in Free :
        /\ note' = [note EXCEPT ![o] = n]
        /\ new' = [new EXCEPT ![t] = o]
        /\ updates' = [updates EXCEPT ![n.uuid] = o]
  BY DEF Accept, AddToTable
<1>2. /\ o \in Obj /\ note[o] = None /\ n # None /\ o # None
      /\ n.uuid \in UUID /\ n.ver \in Nat
  BY ConstantsAssumption DEF Free, Note
<1>3. /\ old' = [old EXCEPT ![t] = cur]
      /\ pc' = [pc EXCEPT ![t] = IF cur = None THEN "activate" ELSE "stopOld"]
      /\ torrent' = torrent
  BY DEF Accept, AfterAdd
<1>4. /\ ~torrent[o]
      /\ \A t1 \in Thread : new[t1] # o /\ old[t1] # o
      /\ \A u \in UUID : updates[u] # o
  BY <1>2 DEF Custody, FreeIdle, Free, TableSound, NewLocked, OldOut
<1>5. cur # None => /\ cur \in Obj /\ note[cur] # None /\ note[cur].uuid = n.uuid
                    /\ note[cur].ver < n.ver
  BY <1>2 DEF Accept, Acceptable, Newer, Custody, TableSound, TypeOK
<1>6. \A q \in Obj : note[q] # None /\ note[q].uuid = n.uuid =>
         /\ cur # None /\ note[q].ver <= note[cur].ver /\ note[q].ver < n.ver
  BY <1>2, <1>5, VersionIsNat DEF Lineage, TableNewest
<1>7. \A p \in Obj : p # o => note'[p] = note[p]
  BY <1>1, <1>2 DEF TypeOK
<1>8. note'[o] = n
  BY <1>1, <1>2 DEF TypeOK
<1>9. \A p \in Obj : p # o => (Pending(p)' <=> Pending(p))
  <2>1. \A t1 \in Thread : t1 # t => new'[t1] = new[t1]
    BY <1>1 DEF TypeOK
  <2>2. new'[t] = o
    BY <1>1 DEF TypeOK
  <2> QED
    BY <2>1, <2>2, ConstantsAssumption DEF Pending
<1> HIDE DEF cur
<1>10. ASSUME NEW p \in Obj, p # o, note[p] # None, OlderDead(p)
       PROVE  OlderDead(p)'
  <2> SUFFICES ASSUME NEW q \in Obj, Older(q, p)' PROVE Dead(q)'
    BY DEF OlderDead
  <2>1. q # o
    <3>1. note'[p] = note[p]
      BY <1>7, <1>10
    <3> QED
      BY <3>1, <1>2, <1>6, <1>8, <1>10, VersionIsNat DEF Older
  <2>2. Older(q, p)
    BY <2>1, <1>7, <1>10 DEF Older
  <2> QED
    BY <2>1, <2>2, <1>3, <1>9, <1>10 DEF OlderDead, Dead
<1>11. TableNewest'
  <2> SUFFICES ASSUME NEW p \in Obj, note'[p] # None
               PROVE  /\ updates'[note'[p].uuid] # None
                      /\ note'[p].ver <= note'[updates'[note'[p].uuid]].ver
    BY DEF TableNewest
  <2>1. updates'[n.uuid] = o
    BY <1>1, <1>2 DEF TypeOK
  <2>2. CASE note'[p].uuid = n.uuid
    BY <2>1, <2>2, <1>2, <1>6, <1>7, <1>8, VersionIsNat
  <2>3. CASE note'[p].uuid # n.uuid
    <3>1. p # o /\ note'[p] = note[p] /\ note[p].uuid \in UUID
      BY <2>3, <1>7, <1>8, VersionIsNat
    <3>2. updates'[note[p].uuid] = updates[note[p].uuid]
      BY <2>3, <3>1, <1>1 DEF TypeOK
    <3>3. updates[note[p].uuid] \in Obj
      BY <3>1 DEF Lineage, TableNewest, TypeOK
    <3>4. updates[note[p].uuid] # o
      BY <3>1, <1>4
    <3> QED
      BY <3>1, <3>2, <3>3, <3>4, <1>7 DEF Lineage, TableNewest
  <2> QED
    BY <2>2, <2>3
<1>12. OneEach'
  <2>1. ASSUME NEW p \in Obj, p # o, note'[p] = n PROVE FALSE
    BY <2>1, <1>2, <1>6, <1>7
  <2> QED
    BY <2>1, <1>7, <1>8 DEF Lineage, OneEach
<1>13. StartedAlone'
  <2> SUFFICES ASSUME NEW p \in Obj, note'[p] # None, ~Pending(p)'
               PROVE  OlderDead(p)'
    BY DEF StartedAlone
  <2>1. p # o
    BY <1>1 DEF Pending, TypeOK
  <2> QED
    BY <2>1, <1>7, <1>9, <1>10 DEF Lineage, StartedAlone
<1>14. StoppedAlone'
  <2> SUFFICES ASSUME NEW t1 \in Thread, new'[t1] # None,
                      pc'[t1] \in {"removeData", "removeMeta", "activate"}
               PROVE  OlderDead(new[t1])'
    BY DEF StoppedAlone
  <2>1. CASE t1 = t
    <3>1. new'[t1] = o /\ cur = None
      BY <2>1, <1>1, <1>3 DEF TypeOK
    <3>2. \A q \in Obj : ~Older(q, o)'
      BY <3>1, <1>2, <1>6, <1>7, <1>8 DEF Older
    <3> QED
      BY <3>1, <3>2 DEF OlderDead, Older
  <2>2. CASE t1 # t
    <3>1. new'[t1] = new[t1] /\ pc'[t1] = pc[t1]
      BY <2>2, <1>1, <1>3 DEF TypeOK
    <3>2. new[t1] \in Obj /\ new[t1] # o /\ note[new[t1]] # None
      BY <3>1, <1>4 DEF TypeOK, Custody, NewLocked
    <3>3. OlderDead(new[t1])
      BY <3>1 DEF Lineage, StoppedAlone
    <3>4. PICK p \in Obj : p = new[t1]
      BY <3>2
    <3>5. OlderDead(p)'
      BY <3>2, <3>3, <3>4, <1>10 DEF OlderDead, Older
    <3> QED
      BY <3>1, <3>4, <3>5 DEF OlderDead, Older
  <2> QED
    BY <2>1, <2>2
<1>15. Predecessor'
  <2> SUFFICES ASSUME NEW t1 \in Thread, pc'[t1] = "stopOld"
               PROVE  /\ new'[t1] # None
                      /\ Older(old[t1], new[t1])'
                      /\ \A q \in Obj : Older(q, new[t1])'
                            => note'[q].ver <= note'[old'[t1]].ver
    BY DEF Predecessor
  <2>1. CASE t1 = t
    <3>1. new'[t1] = o /\ old'[t1] = cur /\ cur # None
      BY <2>1, <1>1, <1>3 DEF TypeOK
    <3>2. cur # o /\ note'[cur] = note[cur]
      BY <3>1, <1>2, <1>5, <1>7
    <3> QED
      BY <3>1, <3>2, <1>2, <1>5, <1>6, <1>7, <1>8 DEF Older
  <2>2. CASE t1 # t
    <3>1. new'[t1] = new[t1] /\ old'[t1] = old[t1] /\ pc[t1] = "stopOld"
      BY <2>2, <1>1, <1>3 DEF TypeOK
    <3>2. /\ new[t1] \in Obj /\ new[t1] # o /\ note[new[t1]] # None
          /\ old[t1] \in Obj /\ old[t1] # o
      BY <3>1, <1>4 DEF TypeOK, Lineage, Predecessor, Custody, NewLocked, PcShape, Deleting
    <3>3. note'[new[t1]] = note[new[t1]] /\ note'[old[t1]] = note[old[t1]]
      BY <3>2, <1>7
    <3>4. ~Older(o, new[t1])'
      BY <3>1, <3>2, <3>3, <1>2, <1>6, <1>8, VersionIsNat DEF Older
    <3>5. \A q \in Obj : q # o => (Older(q, new[t1])' <=> Older(q, new[t1]))
      BY <3>1, <3>3, <1>7 DEF Older
    <3> QED
      BY <3>1, <3>2, <3>3, <3>4, <3>5, <1>7 DEF Lineage, Predecessor
  <2> QED
    BY <2>1, <2>2
<1> QED
  BY <1>11, <1>12, <1>13, <1>14, <1>15 DEF Lineage

\* Whatever was dead stays dead when a thread stops or deletes an object.
LEMMA LineageStopOld ==
    ASSUME TypeOK, Custody, Lineage, NEW t \in Thread, StopOld(t)
    PROVE  Lineage'
<1>1. PICK o \in Obj : o = old[t]
  BY DEF StopOld, Custody, PcShape, Deleting, TypeOK
<1>2. /\ pc[t] = "stopOld" /\ holder[o] = None
      /\ torrent' = [torrent EXCEPT ![o] = FALSE]
      /\ pc' = [pc EXCEPT ![t] = "removeData"]
      /\ UNCHANGED <<updates, note, new, old>>
  BY <1>1 DEF StopOld, Drop, TypeOK
<1>3. ~Pending(o)
  BY <1>2, ConstantsAssumption DEF Pending, Custody, NewLocked
<1>4. \A q \in Obj : Dead(q) => Dead(q)'
  BY <1>2 DEF Dead, Pending, TypeOK
<1>5. Dead(o)'
  BY <1>2, <1>3 DEF Dead, Pending, TypeOK
<1>6. \A p, q \in Obj : Older(q, p)' <=> Older(q, p)
  BY <1>2 DEF Older
<1>7. \A p \in Obj : OlderDead(p) => OlderDead(p)'
  BY <1>4, <1>6 DEF OlderDead
<1>8. TableNewest' /\ OneEach'
  BY <1>2 DEF Lineage, TableNewest, OneEach
<1>9. StartedAlone'
  BY <1>2, <1>7 DEF Lineage, StartedAlone, Pending
<1>10. PICK p \in Obj : p = new[t]
  BY <1>2 DEF Lineage, Predecessor, TypeOK
<1>11. OlderDead(p)'
  <2> SUFFICES ASSUME NEW q \in Obj, Older(q, p) PROVE Dead(q)'
    BY <1>6 DEF OlderDead
  <2>1. /\ Older(o, p) /\ note[q].ver <= note[o].ver /\ note[p] # None
    BY <1>1, <1>2, <1>10 DEF Lineage, Predecessor, Custody, NewLocked
  <2>2. CASE note[q].ver = note[o].ver
    <3>1. note[q] = note[o]
      BY <2>1, <2>2, VersionIsNat DEF Older, Note
    <3> QED
      BY <3>1, <1>5 DEF Older, Lineage, OneEach
  <2>3. CASE note[q].ver # note[o].ver
    <3>1. Older(q, o)
      BY <2>1, <2>3, VersionIsNat DEF Older
    <3> QED
      BY <3>1, <2>1, <1>3, <1>4 DEF Older, Lineage, StartedAlone, OlderDead
  <2> QED
    BY <2>2, <2>3
<1>12. StoppedAlone'
  <2> SUFFICES ASSUME NEW t1 \in Thread, new[t1] # None,
                      pc'[t1] \in {"removeData", "removeMeta", "activate"}
               PROVE  OlderDead(new[t1])'
    BY <1>2 DEF StoppedAlone
  <2>1. PICK x \in Obj : x = new[t1]
    BY DEF TypeOK
  <2>2. OlderDead(x)'
    BY <2>1, <1>2, <1>7, <1>10, <1>11 DEF Lineage, StoppedAlone, TypeOK,
                                          OlderDead, Older
  <2> QED
    BY <2>1, <2>2, <1>2 DEF OlderDead, Older
<1>13. Predecessor'
  BY <1>2 DEF Lineage, Predecessor, Older, TypeOK
<1> QED
  BY <1>8, <1>9, <1>12, <1>13 DEF Lineage

LEMMA LineageRemove ==
    ASSUME TypeOK, Custody, Lineage, NEW t \in Thread,
           RemoveData(t) \/ RemoveMeta(t)
    PROVE  Lineage'
<1>1. /\ UNCHANGED <<updates, note, torrent, new>>
      /\ pc[t] \in {"removeData", "removeMeta"}
      /\ pc' = [pc EXCEPT ![t] = pc'[t]]
      /\ pc'[t] \in {"removeMeta", "activate", "idle"}
      /\ \A t1 \in Thread : t1 # t => old'[t1] = old[t1]
  BY DEF RemoveData, RemoveMeta, AfterDelete, TypeOK
<1>2. TableNewest' /\ OneEach'
  BY <1>1 DEF Lineage, TableNewest, OneEach
<1>3. StartedAlone' /\ StoppedAlone'
  BY <1>1 DEF Lineage, StartedAlone, StoppedAlone, OlderDead, Older, Dead, Pending, TypeOK
<1>4. Predecessor'
  BY <1>1 DEF Lineage, Predecessor, Older, TypeOK
<1> QED
  BY <1>2, <1>3, <1>4 DEF Lineage

LEMMA LineageReturn ==
    ASSUME TypeOK, Custody, Lineage, NEW t \in Thread,
           Activate(t) \/ ActivateFails(t)
    PROVE  Lineage'
<1>1. PICK o \in Obj : o = new[t]
  BY DEF Activate, ActivateFails, Return, Custody, PcShape, TypeOK
<1>2. /\ pc[t] = "activate" /\ note[o] # None
      /\ pc' = [pc EXCEPT ![t] = "idle"]
      /\ new' = [new EXCEPT ![t] = None]
      /\ UNCHANGED <<updates, note, old>>
      /\ \A q \in Obj : q # o => torrent'[q] = torrent[q]
  BY <1>1, ConstantsAssumption
     DEF Activate, ActivateFails, Return, Custody, NewLocked, TypeOK
<1>3. \A t1 \in Thread : t1 # t => new'[t1] = new[t1] /\ new[t1] # o
  BY <1>1, <1>2, ConstantsAssumption DEF Custody, NewLocked, TypeOK
<1>4. new'[t] = None
  BY <1>2 DEF TypeOK
<1>5. \A q \in Obj : q # o => (Pending(q)' <=> Pending(q))
  BY <1>1, <1>3, <1>4, ConstantsAssumption DEF Pending
<1>6. ASSUME NEW p \in Obj, OlderDead(p) PROVE OlderDead(p)'
  <2> SUFFICES ASSUME NEW q \in Obj, Older(q, p) PROVE Dead(q)'
    BY <1>2 DEF OlderDead, Older
  <2>1. Dead(q)
    BY <1>6 DEF OlderDead
  <2>2. q # o
    BY <2>1, <1>1 DEF Dead, Pending
  <2> QED
    BY <2>1, <2>2, <1>2, <1>5 DEF Dead
<1>7. TableNewest' /\ OneEach'
  BY <1>2 DEF Lineage, TableNewest, OneEach
<1>8. OlderDead(o)
  BY <1>1, <1>2, ConstantsAssumption DEF Lineage, StoppedAlone, OlderDead, Older
<1>9. StartedAlone'
  <2> SUFFICES ASSUME NEW p \in Obj, note[p] # None, ~Pending(p)'
               PROVE  OlderDead(p)'
    BY <1>2 DEF StartedAlone
  <2> QED
    BY <1>5, <1>6, <1>8 DEF Lineage, StartedAlone
<1>10. StoppedAlone'
  <2> SUFFICES ASSUME NEW t1 \in Thread, new'[t1] # None,
                      pc'[t1] \in {"removeData", "removeMeta", "activate"}
               PROVE  OlderDead(new[t1])'
    BY DEF StoppedAlone
  <2>1. t1 # t /\ new'[t1] = new[t1] /\ pc'[t1] = pc[t1]
    BY <1>2, <1>3, <1>4 DEF TypeOK
  <2>2. PICK p \in Obj : p = new[t1]
    BY <2>1 DEF TypeOK
  <2>3. OlderDead(p)
    BY <2>1, <2>2 DEF Lineage, StoppedAlone, OlderDead, Older
  <2> QED
    BY <2>1, <2>2, <2>3, <1>6 DEF OlderDead, Older
<1>11. Predecessor'
  BY <1>2, <1>3 DEF Lineage, Predecessor, Older, TypeOK
<1> QED
  BY <1>7, <1>9, <1>10, <1>11 DEF Lineage

LEMMA LineageMonitor ==
    ASSUME Lineage, NEW o \in Obj, MonitorStep(o)
    PROVE  Lineage'
<1> USE DEF threadVars
<1>1. UNCHANGED <<updates, note, torrent, new, old, pc>>
  <2>1. CASE MonitorStop(o) \/ SaveOpen(o) \/ SaveWrite(o)
    BY <2>1 DEF MonitorStop, SaveOpen, SaveWrite
  <2>2. CASE MonitorDownload(o) \/ MonitorSeed(o) \/ MonitorRefuse(o)
    BY <2>2 DEF MonitorDownload, MonitorSeed, MonitorRefuse, Pass
  <2>3. CASE MonitorUndeployable(o) \/ MonitorDeploy(o)
    BY <2>3 DEF MonitorUndeployable, MonitorDeploy, Pass
  <2>4. CASE DeploySucceeds(o) \/ DeployFails(o)
    BY <2>4 DEF DeploySucceeds, DeployFails, DeployEnds
  <2> QED
    BY <2>1, <2>2, <2>3, <2>4 DEF MonitorStep
<1> QED
  BY <1>1, LineageFrame

LEMMA LineageStep ==
    ASSUME Deleter = {}
    PROVE  TypeOK /\ Custody /\ Lineage /\ [Next]_vars => Lineage'
<1> SUFFICES ASSUME TypeOK, Custody, Lineage, [Next]_vars PROVE Lineage'
  OBVIOUS
<1> USE DEF procVars, fieldVars, threadVars, diskVars
<1>1. \A t \in Thread : pc[t] \in {"idle", "copied"} => old[t] = None /\ new[t] = None
  BY DEF Custody, PcShape, Deleting
<1>2. ASSUME NEW n \in Note, Poll(n) \/ ReadOverlay(n) PROVE Lineage'
  <2>1. CASE Accept(Gossip, n, Received)
    BY <1>1, <1>2, <2>1, LineageAccept, InitialFields DEF Poll, ReadOverlay, Thread
  <2>2. CASE UNCHANGED <<updates, note, fieldVars, torrent, holder, mon, pc, new, old>>
    BY <2>2, LineageFrame
  <2> QED
    BY <1>2, <2>1, <2>2 DEF Poll, ReadOverlay, Ignore, vars
<1>3. ASSUME NEW n \in Note, LoadFile(n) PROVE Lineage'
  <2>1. CASE Loadable(n) /\ Accept(Gossip, n, LoadedFields(n))
    <3>1. LoadedFields(n) \in Fields
      BY <2>1 DEF Loadable, Intact, IsWhole, LoadedFields, TypeOK, File, Absent, Torn
    <3> QED
      BY <1>1, <1>3, <2>1, <3>1, LineageAccept DEF LoadFile, Thread
  <2>2. CASE UNCHANGED <<updates, note, torrent, threadVars>>
    BY <2>2, LineageFrame
  <2> QED
    BY <1>3, <2>1, <2>2 DEF LoadFile
<1>4. ASSUME NEW t \in Handler, StartPosted(t) PROVE Lineage'
  <2>1. CASE Accept(t, req[t], Posted)
    <3>1. req[t] \in Note
      BY <2>1, ConstantsAssumption DEF Accept, Acceptable
    <3> QED
      BY <1>1, <1>4, <2>1, <3>1, LineageAccept, InitialFields DEF StartPosted, Thread
  <2>2. CASE /\ pc' = [pc EXCEPT ![t] = "idle"]
             /\ UNCHANGED <<updates, note, torrent, new, old>>
    BY <2>2, LineageFrame DEF TypeOK
  <2> QED
    BY <1>4, <2>1, <2>2 DEF StartPosted
<1>5. ASSUME NEW t \in Handler, NEW n \in Note, Post(t, n) PROVE Lineage'
  BY <1>5, LineageFrame DEF Post, TypeOK
<1>6. ASSUME NEW t \in Thread, ThreadStep(t) \/ ActivateFails(t) PROVE Lineage'
  BY <1>6, LineageStopOld, LineageRemove, LineageReturn DEF ThreadStep
<1>7. ASSUME NEW o \in Obj, MonitorStep(o) PROVE Lineage'
  BY <1>7, LineageMonitor
<1>8. CASE Crash \/ OverlayPanic
  BY <1>8, LineageLost DEF Crash, OverlayPanic
<1>9. CASE LoadDone \/ Restart \/ (\E n \in Note : Complete(n)) \/ UNCHANGED vars
  BY <1>9, LineageFrame DEF LoadDone, Restart, Complete, vars
<1> QED
  BY <1>2, <1>3, <1>4, <1>5, <1>6, <1>7, <1>8, <1>9 DEF Next

LEMMA LineageHolds ==
    ASSUME Deleter = {}
    PROVE  Spec => [](TypeOK /\ Custody /\ Lineage)
<1>1. Init => TypeOK /\ Custody /\ Lineage
  BY InitType, CustodyInit, LineageInit
<1>2. TypeOK /\ Custody /\ Lineage /\ [Next]_vars => (TypeOK /\ Custody /\ Lineage)'
  BY TypeStep, CustodyStep, LineageStep
<1> QED
  BY <1>1, <1>2, PTL DEF Spec

LEMMA OneActive ==
    ASSUME TypeOK, Custody, Lineage, NEW o \in Obj, NEW p \in Obj,
           torrent[o], torrent[p], note[o].uuid = note[p].uuid
    PROVE  o = p
<1>1. /\ note[o] # None /\ ~Pending(o) /\ note[p] # None /\ ~Pending(p)
  BY ConstantsAssumption DEF Custody, FreeIdle, Free, NewLocked, Pending
<1>2. OlderDead(o) /\ OlderDead(p)
  BY <1>1 DEF Lineage, StartedAlone
<1>3. note[o].ver = note[p].ver
  BY <1>1, <1>2, VersionIsNat DEF OlderDead, Older, Dead
<1>4. note[o] = note[p]
  BY <1>1, <1>3, VersionIsNat DEF Note
<1> QED
  BY <1>1, <1>4 DEF Lineage, OneEach

\* Where updates are replaced but never DELETEd, two versions of an update are
\* never deployed at the same time, for any number of versions and threads.
THEOREM ExclusiveDeployHolds ==
    ASSUME Deleter = {}
    PROVE  Spec => []ExclusiveDeploy
<1>1. TypeOK /\ Custody /\ Lineage => ExclusiveDeploy
  BY OneActive DEF Custody, DeployLocked, ExclusiveDeploy
<1> QED
  BY <1>1, LineageHolds, PTL

LEMMA KeepsLiveStep ==
    ASSUME TypeOK, Custody, Lineage, [Next]_vars
    PROVE  KeepsLive
<1>1. ASSUME NEW u \in UUID, updates[u] # None PROVE ~TwinGoing(updates[u])
  BY <1>1, TableNotes, ConstantsAssumption DEF TwinGoing, Lineage, OneEach, TypeOK
<1> QED
  BY <1>1, TwinsOnlyStep DEF TwinsOnly, KeepsLive

\* Replacing updates never removes the payload or the metadata of the version
\* the table has.
THEOREM LivePayloadHolds ==
    ASSUME Deleter = {}
    PROVE  Spec => LivePayload
<1>1. TypeOK /\ Custody /\ Lineage /\ [Next]_vars => KeepsLive
  BY KeepsLiveStep
<1> QED
  BY <1>1, LineageHolds, PTL DEF Spec, LivePayload

\* Where updates are replaced but never DELETEd there is no such exception: every
\* update in the table that has been activated has its torrent in the torrent
\* client and a monitor that goes on.
THEOREM TableIsActive ==
    ASSUME Deleter = {}
    PROVE  Spec => [](\A u \in UUID :
                         updates[u] # None /\ mon[updates[u]] # "none" =>
                             /\ torrent[updates[u]] /\ mon[updates[u]] # "exited"
                             /\ client[note[updates[u]]] # "none")
<1>1. ASSUME TypeOK, Custody, Lineage, TableIsServed
      PROVE  \A u \in UUID :
                updates[u] # None /\ mon[updates[u]] # "none" =>
                    /\ torrent[updates[u]] /\ mon[updates[u]] # "exited"
                    /\ client[note[updates[u]]] # "none"
  <2>1. ASSUME NEW u \in UUID, updates[u] # None PROVE ~TwinStopped(updates[u])
    BY <1>1, <2>1, TableNotes, ConstantsAssumption DEF TwinStopped, Lineage, OneEach
  <2> QED
    BY <1>1, <2>1 DEF TableIsServed
<1> QED
  BY <1>1, LineageHolds, TableIsServedHolds, PTL

-----------------------------------------------------------------------------
(* Memory: what the agent knows of what is on its disk and of what it has  *)
(* deployed, in a life of the process and from one life to the next.       *)

NotesVerified == \A o \in Obj : note[o] # None => note[o] \in Verified

FilesVerified == \A n \in Note : IsWhole(n) => n \in Verified

\* LoadedNewest, while the metadata is being loaded.
FilesCovered ==
    phase \in {"load", "up"} =>
        \A n \in Note : Intact(n) => n \in todo \/ Covered(n)

AllLoaded == phase = "up" => todo = {}

\* Requests are served once the metadata is loaded.
RequestsUp == \A t \in Handler : pc[t] = "copied" => phase = "up"

\* An update knows of the deployment its metadata tells of.
FilesKnown ==
    \A o \in Obj : note[o] # None /\ Intact(note[o]) /\ meta[note[o]].fields.deployed
                     => deployed[o]

DeploysOnce == \A o \in Obj : mon[o] = "deploying" => ~deployed[o]

DoneKnown ==
    \A n \in done : \E o \in Obj : note[o] = n /\ deployed[o] /\ mon[o] # "none"

Memory ==
    /\ NotesVerified
    /\ FilesVerified
    /\ FilesCovered
    /\ AllLoaded
    /\ RequestsUp
    /\ FilesKnown
    /\ DeploysOnce
    /\ DoneKnown

LEMMA MemoryInit == Init => Memory
  BY ConstantsAssumption
     DEF Init, Memory, NotesVerified, FilesVerified, FilesCovered, AllLoaded,
         RequestsUp, FilesKnown, DeploysOnce, DoneKnown, Intact, IsWhole, Absent,
         Thread

\* The end of the process leaves nothing but the disk.
LEMMA MemoryLost ==
    ASSUME Memory, Lost, phase' \in {"down", "panicked"}
    PROVE  Memory'
  BY ConstantsAssumption
     DEF Lost, Memory, NotesVerified, FilesVerified, FilesCovered, AllLoaded,
         RequestsUp, FilesKnown, DeploysOnce, DoneKnown, Intact, IsWhole, Thread,
         diskVars

\* Steps that change neither the table nor what has been deployed, and after
\* which no more metadata is whole than before.
LEMMA MemoryFrame ==
    ASSUME TypeOK, Memory,
           UNCHANGED <<phase, todo, updates, note, deployed, done>>,
           \A n \in Note : meta'[n] = meta[n] \/ ~IsWhole(n)',
           \A o \in Obj : /\ mon'[o] = "deploying" => mon[o] = "deploying" \/ ~deployed[o]
                          /\ mon[o] # "none" => mon'[o] # "none",
           \A t \in Handler : pc'[t] = "copied" => pc[t] = "copied" \/ phase = "up"
    PROVE  Memory'
<1>1. \A n \in Note : (IsWhole(n)' => meta'[n] = meta[n]) /\ (IsWhole(n)' => IsWhole(n))
  BY DEF IsWhole
<1>2. \A n \in Note : Intact(n)' => Intact(n) /\ meta'[n] = meta[n]
  BY <1>1 DEF Intact
<1>3. NotesVerified' /\ AllLoaded' /\ RequestsUp'
  BY DEF Memory, NotesVerified, AllLoaded, RequestsUp
<1>4. FilesVerified'
  BY <1>1 DEF Memory, FilesVerified
<1>5. FilesCovered'
  BY <1>2 DEF Memory, FilesCovered, Covered
<1>6. FilesKnown'
  <2> SUFFICES ASSUME NEW o \in Obj, note[o] # None, Intact(note[o])',
                      meta'[note[o]].fields.deployed
               PROVE  deployed[o]
    BY DEF FilesKnown, Intact, IsWhole
  <2>1. note[o] \in Note
    BY DEF TypeOK
  <2> QED
    BY <1>2, <2>1 DEF Memory, FilesKnown
<1>7. DeploysOnce' /\ DoneKnown'
  BY DEF Memory, DeploysOnce, DoneKnown
<1> QED
  BY <1>3, <1>4, <1>5, <1>6, <1>7 DEF Memory

\* Start puts a notification in the table that no whole metadata is newer than
\* or tells of a deployment of, unless it has just been loaded from there.
LEMMA MemoryAccept ==
    ASSUME TypeOK, Custody, Lineage, Memory, NEW t \in Thread, NEW n \in Note,
           NEW s \in Fields, new[t] = None, Accept(t, n, s), phase' = phase,
           \/ phase = "up" /\ todo' = todo
           \/ phase = "load" /\ todo' = todo \ {n} /\ t \notin Handler
                /\ Intact(n) /\ s.deployed = meta[n].fields.deployed
    PROVE  Memory'
<1> DEFINE cur == updates[n.uuid]
<1>1. PICK o \in Free :
        /\ note' = [note EXCEPT ![o] = n]
        /\ deployed' = [deployed EXCEPT ![o] = s.deployed]
        /\ updates' = [updates EXCEPT ![n.uuid] = o]
  BY DEF Accept, AddToTable
<1>2. /\ o \in Obj /\ note[o] = None /\ n # None /\ o # None
      /\ n.uuid \in UUID /\ n.ver \in Nat
  BY ConstantsAssumption DEF Free, Note
<1>3. /\ UNCHANGED <<mon, meta, done>>
      /\ pc' = [pc EXCEPT ![t] = AfterAdd(n)] /\ AfterAdd(n) # "copied"
  BY DEF Accept, AfterAdd, diskVars
<1>4. n \in Verified /\ Newer(n)
  BY DEF Accept, Acceptable
<1>5. cur # None => /\ cur \in Obj /\ cur # o /\ note[cur] \in Note
                    /\ note[cur].ver \in Nat /\ note[cur].ver < n.ver
  BY <1>2, <1>4, VersionIsNat DEF Newer, TypeOK, Custody, TableSound
<1>6. mon[o] = "none"
  BY <1>2 DEF Custody, FreeIdle, Free
<1>7. \A m \in Note : Intact(m)' <=> Intact(m)
  BY <1>3 DEF Intact, IsWhole
<1>8. ASSUME NEW m \in Note, Covered(m) PROVE Covered(m)'
  <2>1. m.uuid \in UUID /\ m.ver \in Nat
    BY ConstantsAssumption DEF Note
  <2>2. CASE m.uuid = n.uuid
    <3>1. updates'[m.uuid] = o /\ note'[o] = n
      BY <2>2, <1>1, <1>2 DEF TypeOK
    <3>2. m.ver <= n.ver
      BY <2>1, <2>2, <1>2, <1>5, <1>8 DEF Covered
    <3> QED
      BY <3>1, <3>2, <1>2 DEF Covered
  <2>3. CASE m.uuid # n.uuid
    <3>1. updates'[m.uuid] = updates[m.uuid] /\ updates[m.uuid] \in Obj
      BY <2>1, <2>3, <1>1, <1>8 DEF Covered, TypeOK
    <3>2. updates[m.uuid] # o
      BY <2>1, <1>2, <1>8 DEF Covered, Custody, TableSound
    <3> QED
      BY <3>1, <3>2, <1>1, <1>8 DEF Covered, TypeOK
  <2> QED
    BY <2>2, <2>3
<1>9. Covered(n)'
  BY <1>1, <1>2 DEF Covered, TypeOK
<1>10. NotesVerified'
  BY <1>1, <1>4 DEF Memory, NotesVerified, TypeOK
<1>11. FilesVerified' /\ AllLoaded'
  BY <1>3 DEF Memory, FilesVerified, AllLoaded, IsWhole
<1>12. FilesCovered'
  <2> SUFFICES ASSUME NEW m \in Note, Intact(m), phase \in {"load", "up"}
               PROVE  m \in todo' \/ Covered(m)'
    BY <1>7 DEF FilesCovered
  <2> QED
    BY <1>8, <1>9 DEF Memory, FilesCovered
<1>13. RequestsUp'
  BY <1>3 DEF Memory, RequestsUp, TypeOK
<1>14. FilesKnown'
  <2> SUFFICES ASSUME NEW p \in Obj, NEW m, m = note'[p], m # None, Intact(m),
                      meta[m].fields.deployed
               PROVE  deployed'[p]
    BY <1>3 DEF FilesKnown, Intact, IsWhole
  <2>1. CASE p # o
    <3>1. m = note[p] /\ deployed'[p] = deployed[p]
      BY <2>1, <1>1 DEF TypeOK
    <3> QED
      BY <3>1 DEF Memory, FilesKnown
  <2>2. CASE p = o
    <3>1. m = n /\ deployed'[p] = s.deployed
      BY <2>2, <1>1, <1>2 DEF TypeOK
    <3>2. ~(phase = "up" /\ todo' = todo)
      <4> SUFFICES ASSUME phase = "up" PROVE FALSE
        OBVIOUS
      <4>1. Covered(n)
        BY <3>1 DEF Memory, FilesCovered, AllLoaded
      <4> QED
        BY <4>1, <1>2, <1>5 DEF Covered
    <3>3. s.deployed = meta[n].fields.deployed
      BY <3>2
    <3> QED
      BY <3>1, <3>3, <1>3
  <2> QED
    BY <2>1, <2>2
<1>15. DeploysOnce'
  BY <1>1, <1>2, <1>3, <1>6 DEF Memory, DeploysOnce, TypeOK
<1>16. DoneKnown'
  <2> SUFFICES ASSUME NEW m \in done
               PROVE  \E p \in Obj : note'[p] = m /\ deployed'[p] /\ mon[p] # "none"
    BY <1>3 DEF DoneKnown
  <2>1. PICK p \in Obj : note[p] = m /\ deployed[p] /\ mon[p] # "none"
    BY DEF Memory, DoneKnown
  <2> QED
    BY <2>1, <1>1, <1>6 DEF TypeOK
<1> QED
  BY <1>10, <1>11, <1>12, <1>13, <1>14, <1>15, <1>16 DEF Memory

LEMMA MemorySaveWrite ==
    ASSUME TypeOK, Custody, Lineage, Memory, NEW o \in Obj, SaveWrite(o)
    PROVE  Memory'
<1>1. /\ mon[o] = "writing" /\ mon' = [mon EXCEPT ![o] = "asleep"]
      /\ UNCHANGED <<phase, todo, updates, note, deployed, done, pc>>
  BY DEF SaveWrite, procVars, fieldVars, threadVars
<1>2. CASE ~linked[o]
  BY <1>1, <1>2, MemoryFrame DEF SaveWrite, TypeOK
<1>3. CASE linked[o]
  <2>1. note[o] # None /\ note[o] \in Note
    BY <1>1 DEF Custody, FreeIdle, Free, TypeOK
  <2>2. /\ meta' = [meta EXCEPT ![note[o]] = Whole(Snapshot(o))]
        /\ meta'[note[o]] = Whole(Snapshot(o))
        /\ \A n \in Note : n # note[o] => meta'[n] = meta[n]
    BY <1>3, <2>1 DEF SaveWrite, TypeOK
  <2>3. meta'[note[o]].fields.deployed = deployed[o]
    BY <2>2 DEF Whole, Snapshot
  <2>4. NotesVerified' /\ AllLoaded' /\ RequestsUp'
    BY <1>1 DEF Memory, NotesVerified, AllLoaded, RequestsUp
  <2>5. FilesVerified'
    BY <2>1, <2>2 DEF Memory, FilesVerified, NotesVerified, IsWhole
  <2>6. Covered(note[o])
    BY <2>1 DEF Lineage, TableNewest, Covered
  <2>7. FilesCovered'
    <3> SUFFICES ASSUME NEW m \in Note, Intact(m)', phase \in {"load", "up"}
                 PROVE  m \in todo \/ Covered(m)
      BY <1>1 DEF FilesCovered, Covered
    <3>1. CASE m = note[o]
      BY <3>1, <2>6
    <3>2. CASE m # note[o]
      BY <3>2, <2>2 DEF Memory, FilesCovered, Intact, IsWhole
    <3> QED
      BY <3>1, <3>2
  <2>8. FilesKnown'
    <3> SUFFICES ASSUME NEW p \in Obj, note[p] # None, Intact(note[p])',
                        meta'[note[p]].fields.deployed
                 PROVE  deployed[p]
      BY <1>1 DEF FilesKnown, Intact, IsWhole
    <3>1. CASE note[p] = note[o]
      <4>1. p = o
        BY <3>1 DEF Lineage, OneEach
      <4> QED
        BY <4>1, <2>3
    <3>2. CASE note[p] # note[o]
      <4>1. meta'[note[p]] = meta[note[p]]
        BY <3>2, <2>2 DEF TypeOK
      <4> QED
        BY <4>1, <1>1 DEF Memory, FilesKnown, Intact, IsWhole
    <3> QED
      BY <3>1, <3>2
  <2>9. DeploysOnce' /\ DoneKnown'
    BY <1>1 DEF Memory, DeploysOnce, DoneKnown, TypeOK
  <2> QED
    BY <2>4, <2>5, <2>7, <2>8, <2>9 DEF Memory
<1> QED
  BY <1>2, <1>3

LEMMA MemoryDeploySucceeds ==
    ASSUME TypeOK, Custody, Memory, NEW o \in Obj, DeploySucceeds(o)
    PROVE  Memory'
<1>1. /\ mon[o] = "deploying" /\ mon' = [mon EXCEPT ![o] = "saving"]
      /\ deployed' = [deployed EXCEPT ![o] = TRUE]
      /\ done' = done \union {note[o]}
      /\ UNCHANGED <<phase, todo, updates, note, meta, pc>>
  BY DEF DeploySucceeds, DeployEnds, AfterDeploy, procVars, threadVars, diskVars
<1>2. NotesVerified' /\ FilesVerified' /\ AllLoaded' /\ RequestsUp'
  BY <1>1 DEF Memory, NotesVerified, FilesVerified, AllLoaded, RequestsUp, IsWhole
<1>3. FilesCovered'
  BY <1>1 DEF Memory, FilesCovered, Covered, Intact, IsWhole
<1>4. FilesKnown'
  BY <1>1 DEF Memory, FilesKnown, Intact, IsWhole, TypeOK
<1>5. DeploysOnce'
  BY <1>1 DEF Memory, DeploysOnce, TypeOK
<1>6. DoneKnown'
  <2> SUFFICES ASSUME NEW n \in done'
               PROVE  \E p \in Obj : note[p] = n /\ deployed'[p] /\ mon'[p] # "none"
    BY <1>1 DEF DoneKnown
  <2>1. CASE n = note[o]
    BY <2>1, <1>1 DEF TypeOK
  <2>2. CASE n \in done
    <3>1. PICK p \in Obj : note[p] = n /\ deployed[p] /\ mon[p] # "none"
      BY <2>2 DEF Memory, DoneKnown
    <3> QED
      BY <3>1, <1>1 DEF TypeOK
  <2> QED
    BY <2>1, <2>2, <1>1
<1> QED
  BY <1>2, <1>3, <1>4, <1>5, <1>6 DEF Memory

\* A file that is not loaded is torn, does not verify, or is not newer than what
\* the table has.
LEMMA MemoryLoadFile ==
    ASSUME TypeOK, Custody, Lineage, Memory, NEW n \in Note, LoadFile(n)
    PROVE  Memory'
<1> USE DEF fieldVars, threadVars, diskVars
<1>1. /\ phase = "load" /\ phase' = phase /\ todo' = todo \ {n}
      /\ pc[Gossip] = "idle" /\ Gossip \in Thread /\ Gossip \notin Handler
  BY ConstantsAssumption DEF LoadFile, Thread
<1>2. CASE Loadable(n) /\ Accept(Gossip, n, LoadedFields(n))
  <2>1. LoadedFields(n) \in Fields
    BY <1>2 DEF Loadable, Intact, IsWhole, LoadedFields, TypeOK, File, Absent, Torn
  <2>2. new[Gossip] = None
    BY <1>1 DEF Custody, PcShape, Deleting
  <2>3. Intact(n) /\ LoadedFields(n).deployed = meta[n].fields.deployed
    BY <1>2 DEF Loadable, LoadedFields
  <2> QED
    BY <1>1, <1>2, <2>1, <2>2, <2>3, MemoryAccept
<1>3. CASE /\ ~(Loadable(n) /\ Acceptable(n))
           /\ UNCHANGED <<updates, note, deployed, mon, pc, meta, done>>
  <2>1. Intact(n) => Covered(n)
    <3> SUFFICES ASSUME Intact(n) PROVE Covered(n)
      OBVIOUS
    <3>1. ~Newer(n)
      BY <1>3 DEF Loadable, Acceptable, Intact, Memory, FilesVerified
    <3>2. /\ n.uuid \in UUID /\ n.ver \in Nat
          /\ updates[n.uuid] # None => updates[n.uuid] \in Obj
      BY ConstantsAssumption DEF Note, TypeOK
    <3> QED
      BY <3>1, <3>2, VersionIsNat DEF Newer, Covered, Custody, TableSound
  <2>2. FilesCovered'
    BY <1>1, <1>3, <2>1 DEF Memory, FilesCovered, Covered, Intact, IsWhole
  <2>3. FilesVerified' /\ FilesKnown'
    BY <1>3 DEF Memory, FilesVerified, FilesKnown, Intact, IsWhole
  <2> QED
    BY <1>1, <1>3, <2>2, <2>3
       DEF Memory, NotesVerified, AllLoaded, RequestsUp, DeploysOnce, DoneKnown
<1> QED
  BY <1>2, <1>3 DEF LoadFile

LEMMA MemoryLoadDone ==
    ASSUME Memory, LoadDone
    PROVE  Memory'
<1>1. /\ phase = "load" /\ phase' = "up" /\ todo = {}
      /\ UNCHANGED <<todo, updates, note, deployed, mon, pc, meta, done>>
  BY DEF LoadDone, fieldVars, threadVars, diskVars
<1>2. FilesVerified' /\ FilesKnown'
  BY <1>1 DEF Memory, FilesVerified, FilesKnown, Intact, IsWhole
<1>3. FilesCovered'
  BY <1>1 DEF Memory, FilesCovered, Covered, Intact, IsWhole
<1> QED
  BY <1>1, <1>2, <1>3 DEF Memory, NotesVerified, AllLoaded, RequestsUp, DeploysOnce, DoneKnown

\* Whatever is whole will be loaded.
LEMMA MemoryRestart ==
    ASSUME TypeOK, Memory, Restart
    PROVE  Memory'
<1>1. /\ phase \in {"down", "panicked"} /\ phase' = "load"
      /\ todo' = {n \in Note : meta[n] # Absent}
      /\ UNCHANGED <<updates, note, deployed, mon, pc, meta, done>>
  BY DEF Restart, fieldVars, threadVars, diskVars
<1>2. FilesVerified' /\ FilesKnown'
  BY <1>1 DEF Memory, FilesVerified, FilesKnown, Intact, IsWhole
<1>3. FilesCovered'
  BY <1>1 DEF FilesCovered, Intact, IsWhole, Absent
<1>4. RequestsUp'
  BY <1>1 DEF Memory, RequestsUp
<1> QED
  BY <1>1, <1>2, <1>3, <1>4 DEF Memory, NotesVerified, AllLoaded, DeploysOnce, DoneKnown

LEMMA MemoryMonitor ==
    ASSUME TypeOK, Custody, Lineage, Memory, NEW o \in Obj, MonitorStep(o)
    PROVE  Memory'
<1> USE DEF procVars, fieldVars, threadVars, diskVars
<1>1. CASE MonitorStop(o)
  BY <1>1, MemoryFrame DEF MonitorStop, TypeOK
<1>2. ASSUME Pass(o), NEW c \in BOOLEAN, AfterPass(o, c), UNCHANGED deployed
      PROVE Memory'
  <2>1. PICK m \in {"saving", "asleep"} : mon' = [mon EXCEPT ![o] = m]
    BY <1>2 DEF AfterPass
  <2> QED
    BY <1>2, <2>1, MemoryFrame DEF Pass, TypeOK
<1>3. CASE MonitorDownload(o) \/ MonitorSeed(o) \/ MonitorRefuse(o)
             \/ MonitorUndeployable(o)
  BY <1>2, <1>3 DEF MonitorDownload, MonitorSeed, MonitorRefuse, MonitorUndeployable
<1>4. CASE MonitorDeploy(o)
  <2>1. mon' = [mon EXCEPT ![o] = "deploying"] /\ ~deployed[o] /\ UNCHANGED deployed
    BY <1>4 DEF MonitorDeploy, DeployDue
  <2> QED
    BY <1>4, <2>1, MemoryFrame DEF MonitorDeploy, Pass, TypeOK
<1>5. CASE DeploySucceeds(o)
  BY <1>5, MemoryDeploySucceeds
<1>6. CASE DeployFails(o)
  <2>1. mon' = [mon EXCEPT ![o] = "saving"]
    BY <1>6 DEF DeployFails, DeployEnds, AfterDeploy
  <2> QED
    BY <1>6, <2>1, MemoryFrame DEF DeployFails, DeployEnds, TypeOK
<1>7. CASE SaveOpen(o)
  <2>1. \A n \in Note : meta'[n] = meta[n] \/ ~IsWhole(n)'
    BY <1>7 DEF SaveOpen, IsWhole, Torn, TypeOK
  <2> QED
    BY <1>7, <2>1, MemoryFrame DEF SaveOpen, TypeOK
<1>8. CASE SaveWrite(o)
  BY <1>8, MemorySaveWrite
<1> QED
  BY <1>1, <1>3, <1>4, <1>5, <1>6, <1>7, <1>8 DEF MonitorStep

LEMMA MemoryThread ==
    ASSUME TypeOK, Memory, NEW t \in Thread, ThreadStep(t) \/ ActivateFails(t)
    PROVE  Memory'
<1> USE DEF procVars, fieldVars, threadVars, diskVars, TypeOK
<1>1. CASE StopOld(t)
  BY <1>1, MemoryFrame DEF StopOld
<1>2. CASE RemoveData(t)
  <2>1. pc'[t] # "copied" /\ \A t1 \in Thread : t1 # t => pc'[t1] = pc[t1]
    BY <1>2 DEF RemoveData, AfterDelete
  <2> QED
    BY <1>2, <2>1, MemoryFrame DEF RemoveData, Thread
<1>3. CASE RemoveMeta(t)
  <2>1. \A n \in Note : meta'[n] = meta[n] \/ ~IsWhole(n)'
    BY <1>3 DEF RemoveMeta, IsWhole, Absent
  <2>2. pc'[t] # "copied" /\ \A t1 \in Thread : t1 # t => pc'[t1] = pc[t1]
    BY <1>3 DEF RemoveMeta, AfterDelete
  <2> QED
    BY <1>3, <2>1, <2>2, MemoryFrame DEF RemoveMeta, Thread
<1>4. CASE Activate(t)
  BY <1>4, MemoryFrame DEF Activate, Return, Thread
<1>5. CASE ActivateFails(t)
  BY <1>5, MemoryFrame DEF ActivateFails, Return, Thread
<1> QED
  BY <1>1, <1>2, <1>3, <1>4, <1>5 DEF ThreadStep

LEMMA MemoryStep ==
    ASSUME Deleter = {}
    PROVE  TypeOK /\ Custody /\ Lineage /\ Memory /\ [Next]_vars => Memory'
<1> SUFFICES ASSUME TypeOK, Custody, Lineage, Memory, [Next]_vars PROVE Memory'
  OBVIOUS
<1> USE DEF procVars, fieldVars, threadVars, diskVars
<1>1. \A t \in Thread : pc[t] \in {"idle", "copied"} => new[t] = None
  BY DEF Custody, PcShape, Deleting
<1>2. ASSUME NEW n \in Note, Poll(n) \/ ReadOverlay(n) PROVE Memory'
  <2>1. CASE Accept(Gossip, n, Received)
    <3>1. phase = "up" /\ pc[Gossip] = "idle"
      BY <1>2 DEF Poll, ReadOverlay
    <3>2. phase' = phase /\ todo' = todo
      BY <1>2 DEF Poll, ReadOverlay, Ignore, vars
    <3>3. Gossip \in Thread /\ new[Gossip] = None
      BY <1>1, <3>1 DEF Thread
    <3> QED
      BY <2>1, <3>1, <3>2, <3>3, MemoryAccept, InitialFields
  <2>2. CASE UNCHANGED <<phase, todo, updates, note, deployed, mon, pc, meta, done>>
    BY <2>2, MemoryFrame
  <2> QED
    BY <1>2, <2>1, <2>2 DEF Poll, ReadOverlay, Ignore, vars
<1>3. ASSUME NEW t \in Handler, StartPosted(t) PROVE Memory'
  <2>1. phase = "up" /\ phase' = phase /\ todo' = todo
    BY <1>3 DEF StartPosted, Memory, RequestsUp
  <2>2. CASE Accept(t, req[t], Posted)
    <3>1. req[t] \in Note
      BY <2>2, ConstantsAssumption DEF Accept, Acceptable
    <3> QED
      BY <1>1, <1>3, <2>1, <2>2, <3>1, MemoryAccept, InitialFields DEF StartPosted, Thread
  <2>3. CASE /\ pc' = [pc EXCEPT ![t] = "idle"]
             /\ UNCHANGED <<updates, note, deployed, mon, meta, done>>
    BY <2>1, <2>3, MemoryFrame
  <2> QED
    BY <1>3, <2>2, <2>3 DEF StartPosted
<1>4. ASSUME NEW t \in Handler, NEW n \in Note, Post(t, n) PROVE Memory'
  BY <1>4, MemoryFrame DEF Post
<1>5. ASSUME NEW n \in Note, LoadFile(n) PROVE Memory'
  BY <1>5, MemoryLoadFile
<1>6. ASSUME NEW t \in Thread, ThreadStep(t) \/ ActivateFails(t) PROVE Memory'
  BY <1>6, MemoryThread
<1>7. ASSUME NEW o \in Obj, MonitorStep(o) PROVE Memory'
  BY <1>7, MemoryMonitor
<1>8. CASE Crash \/ OverlayPanic
  BY <1>8, MemoryLost DEF Crash, OverlayPanic
<1>9. CASE LoadDone \/ Restart
  BY <1>9, MemoryLoadDone, MemoryRestart
<1>10. CASE (\E n \in Note : Complete(n)) \/ UNCHANGED vars
  BY <1>10, MemoryFrame DEF Complete, vars
<1> QED
  BY <1>2, <1>3, <1>4, <1>5, <1>6, <1>7, <1>8, <1>9, <1>10 DEF Next

LEMMA MemoryHolds ==
    ASSUME Deleter = {}
    PROVE  Spec => [](TypeOK /\ Custody /\ Lineage /\ Memory)
<1>1. Init => TypeOK /\ Custody /\ Lineage /\ Memory
  BY InitType, CustodyInit, LineageInit, MemoryInit
<1>2. TypeOK /\ Custody /\ Lineage /\ Memory /\ [Next]_vars
        => (TypeOK /\ Custody /\ Lineage /\ Memory)'
  BY TypeStep, CustodyStep, LineageStep, MemoryStep
<1> QED
  BY <1>1, <1>2, PTL DEF Spec

\* An agent that is up works on versions at least as new as any of those whose
\* metadata is intact, whatever was being saved when the process ended.
THEOREM LoadedNewestHolds ==
    ASSUME Deleter = {}
    PROVE  Spec => []LoadedNewest
<1>1. TypeOK /\ Custody /\ Memory => LoadedNewest
  <2> SUFFICES ASSUME TypeOK, Custody, Memory, phase = "up", NEW n \in Note, Intact(n)
               PROVE  updates[n.uuid] # None /\ note[updates[n.uuid]].ver >= n.ver
    BY DEF LoadedNewest
  <2>1. Covered(n)
    BY DEF Memory, FilesCovered, AllLoaded
  <2>2. n.uuid \in UUID /\ n.ver \in Nat
    BY ConstantsAssumption DEF Note
  <2>3. updates[n.uuid] \in Obj /\ note[updates[n.uuid]] # None
    BY <2>1, <2>2 DEF Covered, TypeOK, Custody, TableSound
  <2>4. note[updates[n.uuid]].ver \in Nat
    BY <2>3, VersionIsNat
  <2> QED
    BY <2>1, <2>2, <2>4 DEF Covered
<1> QED
  BY <1>1, MemoryHolds, PTL

\* A deployment that reached intact metadata is not repeated, in this life or a
\* later one.
THEOREM PersistedOnceHolds ==
    ASSUME Deleter = {}
    PROVE  Spec => []PersistedOnce
<1>1. TypeOK /\ Custody /\ Memory => PersistedOnce
  BY DEF Memory, DeploysOnce, FilesKnown, PersistedOnce, Custody, FreeIdle, Free, TypeOK
<1> QED
  BY <1>1, MemoryHolds, PTL

\* Within one life of the process versions are deployed in increasing order, and
\* none twice: what is deployed is newer than all that has been.
THEOREM DeployedInOrderHolds ==
    ASSUME Deleter = {}
    PROVE  Spec => []DeployedInOrder
<1>1. TypeOK /\ Custody /\ Lineage /\ Memory => DeployedInOrder
  <2> SUFFICES ASSUME TypeOK, Custody, Lineage, Memory,
                      NEW o \in Obj, mon[o] = "deploying",
                      NEW n \in done, n.uuid = note[o].uuid
               PROVE  n.ver < note[o].ver
    BY DEF DeployedInOrder
  <2>1. PICK p \in Obj : note[p] = n /\ deployed[p] /\ mon[p] # "none"
    BY DEF Memory, DoneKnown
  <2>2. torrent[o] /\ ~deployed[o]
    BY DEF Custody, DeployLocked, Memory, DeploysOnce
  <2>3. note[o] # None /\ note[p] # None /\ o # p
    BY <2>1, <2>2 DEF Custody, FreeIdle, Free
  <2>4. ~Pending(p)
    BY <2>1, ConstantsAssumption DEF Pending, Custody, NewLocked
  <2>5. ~Older(o, p)
    BY <2>2, <2>3, <2>4 DEF Lineage, StartedAlone, OlderDead, Dead
  <2>6. note[o].ver # n.ver
    BY <2>1, <2>3, VersionIsNat DEF Lineage, OneEach, Note
  <2> QED
    BY <2>1, <2>3, <2>5, <2>6, VersionIsNat DEF Older
<1> QED
  BY <1>1, MemoryHolds, PTL
-----------------------------------------------------------------------------
(* The failures of a deployment are bounded, in memory and on disk. The     *)
(* bound is inductive with the types and FreeIdle.                          *)

LEMMA FailsFrame ==
    ASSUME FailsBounded, UNCHANGED fails,
           \A o \in Obj : mon'[o] = "deploying" =>
             mon[o] = "deploying" \/ fails[o] <= DeployFailsLimit,
           \A n \in Note : meta'[n] = meta[n] \/ ~IsWhole(n)'
    PROVE  FailsBounded'
  BY DEF FailsBounded, IsWhole

\* A new object starts with the failures its caller hands to Start.
LEMMA FailsAccept ==
    ASSUME TypeOK, Custody, FailsBounded, NEW t \in Thread, NEW n \in Note, NEW s,
           Accept(t, n, s), s.fails <= DeployFailsLimit + 1
    PROVE  FailsBounded'
<1>1. PICK o \in Free : fails' = [fails EXCEPT ![o] = s.fails]
  BY DEF Accept
<1>2. o \in Obj /\ mon[o] = "none" /\ UNCHANGED <<mon, meta>>
  BY DEF Custody, FreeIdle, Free, Accept, diskVars
<1> QED
  BY <1>1, <1>2 DEF FailsBounded, IsWhole, TypeOK

LEMMA FailsMonitor ==
    ASSUME TypeOK, Custody, FailsBounded, NEW o \in Obj, MonitorStep(o)
    PROVE  FailsBounded'
<1> USE ConstantsAssumption DEF procVars, fieldVars, threadVars, diskVars
<1>1. CASE MonitorStop(o)
  BY <1>1, FailsFrame DEF MonitorStop, TypeOK
<1>2. ASSUME NEW c \in BOOLEAN, AfterPass(o, c)
      PROVE  mon'[o] # "deploying" /\ \A p \in Obj \ {o} : mon'[p] = mon[p]
  BY <1>2 DEF AfterPass, TypeOK
<1>3. CASE MonitorDownload(o) \/ MonitorSeed(o) \/ MonitorRefuse(o)
  <2>1. /\ UNCHANGED <<fails, meta>>
        /\ \A p \in Obj : mon'[p] = "deploying" => mon[p] = "deploying"
    BY <1>2, <1>3 DEF MonitorDownload, MonitorSeed, MonitorRefuse, Pass
  <2> QED
    BY <2>1, FailsFrame
<1>4. CASE MonitorUndeployable(o)
  <2>1. /\ fails[o] \in Nat /\ fails[o] <= DeployFailsLimit
        /\ fails' = [fails EXCEPT ![o] = fails[o] + 1]
        /\ UNCHANGED meta
    BY <1>4 DEF MonitorUndeployable, Pass, TooManyFails, TypeOK
  <2>2. \A p \in Obj : mon'[p] = "deploying" => p # o /\ mon[p] = "deploying"
    BY <1>2, <1>4 DEF MonitorUndeployable
  <2> QED
    BY <2>1, <2>2 DEF FailsBounded, IsWhole, TypeOK
<1>5. CASE MonitorDeploy(o)
  <2>1. fails[o] <= DeployFailsLimit
    BY <1>5 DEF MonitorDeploy, TooManyFails, TypeOK
  <2> QED
    BY <1>5, <2>1, FailsFrame DEF MonitorDeploy, Pass, TypeOK
<1>6. CASE DeploySucceeds(o) \/ DeployFails(o)
  <2>1. /\ mon[o] = "deploying" /\ mon' = [mon EXCEPT ![o] = "saving"] /\ UNCHANGED meta
        /\ fails' = [fails EXCEPT ![o] = 0] \/ fails' = [fails EXCEPT ![o] = fails[o] + 1]
    BY <1>6 DEF DeploySucceeds, DeployFails, DeployEnds, AfterDeploy
  <2>2. fails[o] \in Nat /\ fails[o] <= DeployFailsLimit
    BY <2>1 DEF FailsBounded, TypeOK
  <2> QED
    BY <2>1, <2>2 DEF FailsBounded, IsWhole, TypeOK
<1>7. CASE SaveOpen(o)
  <2>1. \A n \in Note : meta'[n] = meta[n] \/ ~IsWhole(n)'
    BY <1>7 DEF SaveOpen, IsWhole, Torn, TypeOK
  <2> QED
    BY <1>7, <2>1, FailsFrame DEF SaveOpen, TypeOK
<1>8. CASE SaveWrite(o)
  <2>1. UNCHANGED fails /\ \A p \in Obj : mon'[p] = "deploying" => mon[p] = "deploying"
    BY <1>8 DEF SaveWrite, TypeOK
  <2>2. \A n \in Note : meta'[n] = meta[n] \/ meta'[n].fields.fails = fails[o]
    BY <1>8 DEF SaveWrite, Whole, Snapshot, TypeOK
  <2> QED
    BY <2>1, <2>2 DEF FailsBounded, IsWhole
<1> QED
  BY <1>1, <1>3, <1>4, <1>5, <1>6, <1>7, <1>8 DEF MonitorStep

LEMMA FailsThread ==
    ASSUME TypeOK, FailsBounded, NEW t \in Thread, ThreadStep(t) \/ ActivateFails(t)
    PROVE  FailsBounded'
<1> USE DEF fieldVars, diskVars
<1>1. CASE StopOld(t) \/ RemoveData(t)
  BY <1>1, FailsFrame DEF StopOld, RemoveData
<1>2. CASE RemoveMeta(t)
  <2>1. \A n \in Note : meta'[n] = meta[n] \/ ~IsWhole(n)'
    BY <1>2 DEF RemoveMeta, IsWhole, Absent, TypeOK
  <2> QED
    BY <1>2, <2>1, FailsFrame DEF RemoveMeta
<1>3. CASE Activate(t) \/ ActivateFails(t)
  BY <1>3, FailsFrame DEF Activate, ActivateFails, Return, TypeOK
<1> QED
  BY <1>1, <1>2, <1>3 DEF ThreadStep

LEMMA FailsStep == TypeOK /\ Custody /\ FailsBounded /\ [Next]_vars => FailsBounded'
<1> SUFFICES ASSUME TypeOK, Custody, FailsBounded, [Next]_vars PROVE FailsBounded'
  OBVIOUS
<1> USE ConstantsAssumption DEF fieldVars, diskVars
<1>1. Received.fails <= DeployFailsLimit + 1 /\ Posted.fails <= DeployFailsLimit + 1
  BY DEF Received, Posted
<1>2. CASE UNCHANGED <<fails, mon, meta>>
  BY <1>2, FailsFrame
<1>3. ASSUME NEW n \in Note, Poll(n) \/ ReadOverlay(n) PROVE FailsBounded'
  BY <1>1, <1>2, <1>3, FailsAccept DEF Poll, ReadOverlay, Ignore, vars, Thread
<1>4. ASSUME NEW t \in Handler, StartPosted(t) PROVE FailsBounded'
  <2>1. CASE Accept(t, req[t], Posted)
    <3>1. req[t] \in Note /\ t \in Thread
      BY <2>1 DEF Accept, Acceptable, Thread
    <3> QED
      BY <1>1, <2>1, <3>1, FailsAccept
  <2> QED
    BY <1>2, <1>4, <2>1 DEF StartPosted
<1>5. ASSUME NEW n \in Note, LoadFile(n) PROVE FailsBounded'
  <2>1. CASE Loadable(n) /\ Accept(Gossip, n, LoadedFields(n))
    <3>1. LoadedFields(n).fails <= DeployFailsLimit + 1 /\ Gossip \in Thread
      BY <2>1 DEF Loadable, Intact, LoadedFields, FailsBounded, Thread
    <3> QED
      BY <2>1, <3>1, FailsAccept
  <2> QED
    BY <1>2, <1>5, <2>1 DEF LoadFile
<1>6. ASSUME NEW t \in Thread, ThreadStep(t) \/ ActivateFails(t) PROVE FailsBounded'
  BY <1>6, FailsThread
<1>7. ASSUME NEW o \in Obj, MonitorStep(o) PROVE FailsBounded'
  BY <1>7, FailsMonitor
<1>8. CASE Crash \/ OverlayPanic
  BY <1>8 DEF Crash, OverlayPanic, Lost, FailsBounded, IsWhole
<1>9. CASE \/ \E t \in Handler, n \in Note : Post(t, n)
           \/ \E t \in Deleter, u \in UUID : Delete(t, u)
           \/ \E n \in Note : Complete(n)
           \/ LoadDone \/ Restart \/ UNCHANGED vars
  BY <1>2, <1>9 DEF Post, Delete, Complete, LoadDone, Restart, vars
<1> QED
  BY <1>3, <1>4, <1>5, <1>6, <1>7, <1>8, <1>9 DEF Next

\* No script runs after more than DeployFailsLimit failures in a row, in one life of
\* the process or, as far as they had been saved, over several, with any DELETEs.
THEOREM FailsBoundedHolds == Spec => []FailsBounded
<1>1. Init => FailsBounded
  BY ConstantsAssumption DEF Init, FailsBounded, IsWhole, Absent
<1> QED
  BY <1>1, FailsStep, CustodyHolds, PTL DEF Spec
-----------------------------------------------------------------------------
(* The refinement: the agent is an AgentRegister. The table and the files   *)
(* loadUpdates has still to read make up what is known, and they are kept   *)
(* apart by what follows.                                                   *)

\* There are objects only while the process lives, and none for a file that is
\* still to be read: Save and Delete write no such file.
Apart ==
    \A o \in Obj : note[o] # None => phase \in {"load", "up"} /\ note[o] \notin todo

LEMMA ApartInit == Init => Apart
  BY DEF Init, Apart

LEMMA ApartFrame ==
    ASSUME Apart, UNCHANGED <<note, todo>>,
           phase' = phase \/ (phase = "load" /\ phase' = "up")
    PROVE  Apart'
  BY DEF Apart

LEMMA ApartAccept ==
    ASSUME TypeOK, Memory, Apart, NEW t \in Thread, NEW n \in Note, NEW s,
           Accept(t, n, s), phase' = phase,
           \/ phase = "up" /\ todo' = todo
           \/ phase = "load" /\ todo' = todo \ {n}
    PROVE  Apart'
<1>1. PICK o \in Free : note' = [note EXCEPT ![o] = n]
  BY DEF Accept
<1>2. \A p \in Obj : note'[p] = note[p] \/ note'[p] = n
  BY <1>1 DEF TypeOK
<1>3. n \notin todo' /\ todo' \subseteq todo
  BY DEF Memory, AllLoaded
<1> QED
  BY <1>2, <1>3 DEF Apart

LEMMA ApartStep == TypeOK /\ Memory /\ Apart /\ [Next]_vars => Apart'
<1> SUFFICES ASSUME TypeOK, Memory, Apart, [Next]_vars PROVE Apart'
  OBVIOUS
<1> USE DEF procVars
<1>1. ASSUME NEW n \in Note, Poll(n) \/ ReadOverlay(n) PROVE Apart'
  <2>1. phase' = phase /\ todo' = todo /\ phase = "up" /\ Gossip \in Thread
    BY <1>1 DEF Poll, ReadOverlay, Ignore, vars, Thread
  <2>2. CASE Accept(Gossip, n, Received)
    BY <2>1, <2>2, ApartAccept
  <2>3. CASE UNCHANGED note
    BY <2>1, <2>3, ApartFrame
  <2> QED
    BY <1>1, <2>2, <2>3 DEF Poll, ReadOverlay, Ignore, vars
<1>2. ASSUME NEW t \in Handler, StartPosted(t) PROVE Apart'
  <2>1. phase' = phase /\ todo' = todo /\ phase = "up" /\ t \in Thread
    BY <1>2 DEF StartPosted, Memory, RequestsUp, Thread
  <2>2. CASE Accept(t, req[t], Posted)
    <3>1. req[t] \in Note
      BY <2>2, ConstantsAssumption DEF Accept, Acceptable
    <3> QED
      BY <2>1, <2>2, <3>1, ApartAccept
  <2>3. CASE UNCHANGED note
    BY <2>1, <2>3, ApartFrame
  <2> QED
    BY <1>2, <2>2, <2>3 DEF StartPosted
<1>3. ASSUME NEW n \in Note, LoadFile(n) PROVE Apart'
  <2>1. phase' = phase /\ phase = "load" /\ todo' = todo \ {n} /\ Gossip \in Thread
    BY <1>3 DEF LoadFile, Thread
  <2>2. CASE Accept(Gossip, n, LoadedFields(n))
    BY <2>1, <2>2, ApartAccept
  <2>3. CASE UNCHANGED note
    BY <2>1, <2>3 DEF Apart
  <2> QED
    BY <1>3, <2>2, <2>3 DEF LoadFile
<1>4. CASE Crash \/ OverlayPanic
  BY <1>4 DEF Crash, OverlayPanic, Lost, Apart
<1>5. CASE Restart
  BY <1>5 DEF Restart, Apart
<1>6. CASE LoadDone
  BY <1>6, ApartFrame DEF LoadDone
<1>7. CASE UNCHANGED <<phase, note, todo>>
  BY <1>7, ApartFrame
<1>8. ASSUME NEW t \in Thread, ThreadStep(t) \/ ActivateFails(t) PROVE Apart'
  BY <1>7, <1>8 DEF ThreadStep, StopOld, RemoveData, RemoveMeta, Activate,
                    ActivateFails, Return
<1>9. ASSUME NEW o \in Obj, MonitorStep(o) PROVE Apart'
  BY <1>7, <1>9
     DEF MonitorStep, MonitorStop, MonitorDownload, MonitorSeed, MonitorRefuse,
         MonitorUndeployable, MonitorDeploy, DeploySucceeds, DeployFails,
         DeployEnds, SaveOpen, SaveWrite, Pass
<1>10. CASE \/ \E t \in Handler, n \in Note : Post(t, n)
            \/ \E t \in Deleter, u \in UUID : Delete(t, u)
            \/ \E n \in Note : Complete(n)
            \/ UNCHANGED vars
  BY <1>7, <1>10 DEF Post, Delete, Complete, vars
<1> QED
  BY <1>1, <1>2, <1>3, <1>4, <1>5, <1>6, <1>8, <1>9, <1>10 DEF Next

\* Where only the files of objects change, what is known stays.
LEMMA KnownFrame ==
    ASSUME TypeOK, Apart, UNCHANGED <<phase, todo, updates, note>>,
           \A n \in Note : meta'[n] = meta[n] \/ \E o \in Obj : note[o] # None /\ note[o] = n
    PROVE  UNCHANGED Register!rvars
<1>1. \A m \in Unread : m \in Note /\ meta'[m] = meta[m]
  BY DEF Apart, Unread, TypeOK
<1>2. Unread' = Unread /\ \A n \in Note : Covered(n)' <=> Covered(n)
  BY DEF Unread, Covered
<1>3. \A m \in Unread : Intact(m)' <=> Intact(m)
  BY <1>1 DEF Intact, IsWhole
<1>4. Known' = Known
  BY <1>2, <1>3 DEF Known
<1> QED
  BY <1>4 DEF Register!rvars

\* What the table has after Start has put a newer notification there.
LEMMA CoveredAccept ==
    ASSUME TypeOK, Custody, NEW t \in Thread, NEW n \in Note, NEW s, Accept(t, n, s)
    PROVE  /\ n \in Verified /\ ~Covered(n)
           /\ \A m \in Note : Covered(m)' <=> Covered(m) \/ (m.uuid = n.uuid /\ m.ver <= n.ver)
<1>1. PICK o \in Free :
        /\ note' = [note EXCEPT ![o] = n]
        /\ updates' = [updates EXCEPT ![n.uuid] = o]
  BY DEF Accept, AddToTable
<1>2. /\ o \in Obj /\ note[o] = None /\ o # None
      /\ n.uuid \in UUID /\ n.ver \in Nat /\ n \in Verified /\ Newer(n)
  BY ConstantsAssumption DEF Free, Note, Accept, Acceptable
<1>3. updates[n.uuid] # None => /\ note[updates[n.uuid]].ver \in Nat
                                /\ note[updates[n.uuid]].ver < n.ver
  BY <1>2, VersionIsNat DEF Newer, TypeOK, Custody, TableSound
<1>4. ~Covered(n)
  BY <1>2, <1>3 DEF Covered
<1>5. ASSUME NEW m \in Note
      PROVE  Covered(m)' <=> Covered(m) \/ (m.uuid = n.uuid /\ m.ver <= n.ver)
  <2>1. m.uuid \in UUID /\ m.ver \in Nat
    BY ConstantsAssumption DEF Note
  <2>2. CASE m.uuid = n.uuid
    <3>1. updates'[m.uuid] = o /\ note'[o] = n
      BY <2>2, <1>1, <1>2 DEF TypeOK
    <3>2. Covered(m)' <=> m.ver <= n.ver
      BY <3>1, <1>2 DEF Covered
    <3>3. Covered(m) => m.ver <= n.ver
      BY <2>1, <2>2, <1>2, <1>3 DEF Covered
    <3> QED
      BY <2>2, <3>2, <3>3
  <2>3. CASE m.uuid # n.uuid
    <3>1. updates'[m.uuid] = updates[m.uuid]
      BY <2>1, <2>3, <1>1 DEF TypeOK
    <3>2. updates[m.uuid] # None => updates[m.uuid] # o /\ updates[m.uuid] \in Obj
      BY <2>1, <1>2 DEF Custody, TableSound, TypeOK
    <3>3. updates[m.uuid] # None => note'[updates[m.uuid]] = note[updates[m.uuid]]
      BY <3>2, <1>1 DEF TypeOK
    <3> QED
      BY <2>3, <3>1, <3>3 DEF Covered
  <2> QED
    BY <2>2, <2>3
<1> QED
  BY <1>2, <1>4, <1>5

\* Start, in an agent that is up, takes one notification over.
LEMMA TakesOver ==
    ASSUME TypeOK, Custody, Memory, NEW t \in Thread, NEW n \in Note, NEW s,
           Accept(t, n, s), phase = "up", UNCHANGED <<phase, todo>>
    PROVE  Register!TakeOver
<1>1. Unread = {} /\ Unread' = {}
  BY DEF Unread, Memory, AllLoaded
<1>2. Known = {m \in Note : Covered(m)} /\ Known' = {m \in Note : Covered(m)'}
  BY <1>1 DEF Known
<1>3. Register!UpTo(n) = {m \in Note : m.uuid = n.uuid /\ m.ver <= n.ver}
  BY DEF Register!UpTo, Register!Note, Note
<1>4. n \in Verified \ Known /\ Known' = Known \union Register!UpTo(n)
  BY <1>2, <1>3, CoveredAccept
<1> QED
  BY <1>4 DEF Register!TakeOver

\* Loading moves what is known from the disk to the table.
LEMMA KnownLoadFile ==
    ASSUME TypeOK, Custody, Memory, NEW n \in Note, LoadFile(n)
    PROVE  UNCHANGED Register!rvars
<1>1. /\ phase = "load" /\ phase' = phase /\ n \in todo /\ todo' = todo \ {n}
      /\ UNCHANGED meta /\ Gossip \in Thread
  BY DEF LoadFile, Accept, Thread, diskVars
<1>2. Unread = todo /\ Unread' = todo \ {n}
  BY <1>1 DEF Unread
<1>3. \A m \in Note : Intact(m)' <=> Intact(m)
  BY <1>1 DEF Intact, IsWhole
<1>4. \A m \in Note : m.ver \in Nat
  BY ConstantsAssumption DEF Note
<1>5. CASE Intact(n) /\ Accept(Gossip, n, LoadedFields(n))
  <2>1. Known' = Known
    BY <1>1, <1>2, <1>3, <1>5, CoveredAccept DEF Known, TypeOK
  <2> QED
    BY <1>1, <2>1 DEF Register!rvars
<1>6. CASE /\ ~(Loadable(n) /\ Acceptable(n))
           /\ UNCHANGED <<updates, note>>
  <2>1. \A m \in Note : Covered(m)' <=> Covered(m)
    BY <1>6 DEF Covered
  <2>2. ASSUME Intact(n), NEW m \in Note, m.uuid = n.uuid, m.ver <= n.ver PROVE Covered(m)
    <3>1. ~Newer(n)
      BY <1>6, <2>2 DEF Loadable, Acceptable, Intact, Memory, FilesVerified
    <3>2. n.uuid \in UUID /\ (updates[n.uuid] # None => updates[n.uuid] \in Obj)
      BY DEF Note, TypeOK
    <3>3. /\ updates[n.uuid] # None
          /\ note[updates[n.uuid]].ver \in Nat /\ n.ver <= note[updates[n.uuid]].ver
      BY <3>1, <3>2, <1>4, VersionIsNat DEF Newer, Custody, TableSound
    <3> QED
      BY <3>3, <2>2, <1>4 DEF Covered
  <2>3. Known' = Known
    BY <1>1, <1>2, <1>3, <2>1, <2>2 DEF Known, TypeOK
  <2> QED
    BY <1>1, <2>3 DEF Register!rvars
<1> QED
  BY <1>5, <1>6 DEF LoadFile, Loadable, threadVars

\* Every way the process ends leaves some of what was known, for the metadata that
\* is intact is in the table or was to be read.
LEMMA LostFails ==
    ASSUME TypeOK, Custody, Memory, Lost, phase \in {"load", "up"},
           phase' \in {"down", "panicked"}
    PROVE  Register!Fail
<1>1. \A m \in Note : m.ver \in Nat /\ m.uuid \in UUID
  BY ConstantsAssumption DEF Note
<1>2. Unread = todo /\ Unread' = Note /\ UNCHANGED meta
  BY DEF Unread, Lost, diskVars
<1>3. \A m \in Note : ~Covered(m)' /\ (Intact(m)' <=> Intact(m))
  BY <1>1, <1>2 DEF Lost, Covered, Intact, IsWhole
<1>4. Known' = {n \in Note : \E m \in Note : Intact(m) /\ m.uuid = n.uuid /\ n.ver <= m.ver}
  BY <1>2, <1>3 DEF Known
<1>5. ASSUME NEW n \in Note, NEW m \in Note, Intact(m), m.uuid = n.uuid, n.ver <= m.ver
      PROVE  n \in Known
  <2>1. CASE m \in todo
    BY <1>2, <1>5, <2>1 DEF Known
  <2>2. CASE Covered(m)
    <3>1. note[updates[m.uuid]].ver \in Nat
      BY <2>2, <1>1, VersionIsNat DEF Covered, Custody, TableSound, TypeOK
    <3>2. Covered(n)
      BY <3>1, <2>2, <1>5, <1>1 DEF Covered
    <3> QED
      BY <3>2 DEF Known
  <2> QED
    BY <1>5, <2>1, <2>2 DEF Memory, FilesCovered
<1>6. Known' \subseteq Known
  BY <1>4, <1>5
<1>7. \A n \in Known' : Register!UpTo(n) \subseteq Known'
  BY <1>1, <1>4 DEF Register!UpTo, Register!Note, Note
<1> QED
  BY <1>6, <1>7 DEF Register!Fail

\* All that is intact will be read.
LEMMA KnownRestart ==
    ASSUME TypeOK, Restart
    PROVE  Register!Begin
<1>1. /\ phase \in {"down", "panicked"} /\ phase' = "load"
      /\ UNCHANGED <<updates, note, meta>>
      /\ Unread = Note /\ Unread' = {n \in Note : meta[n] # Absent}
  BY DEF Restart, Unread, diskVars
<1>2. \A n \in Note : /\ Covered(n)' <=> Covered(n)
                      /\ Intact(n)' <=> Intact(n)
                      /\ Intact(n) => meta[n] # Absent
  BY <1>1 DEF Covered, Intact, IsWhole, Absent
<1>3. \A m : (m \in Unread' /\ Intact(m)') <=> (m \in Unread /\ Intact(m))
  BY <1>1, <1>2
<1>4. Known' = Known
  BY <1>2, <1>3 DEF Known
<1> QED
  BY <1>1, <1>4 DEF Register!Begin

LEMMA RegisterStep ==
    ASSUME TypeOK, Custody, Memory, Apart, [Next]_vars, Deleter = {}
    PROVE  [Register!Next]_(Register!rvars)
<1> USE DEF Register!Next, diskVars, procVars
<1>1. ASSUME NEW n \in Note, Poll(n) \/ ReadOverlay(n)
      PROVE  [Register!Next]_(Register!rvars)
  <2>1. phase = "up" /\ UNCHANGED <<phase, todo>> /\ Gossip \in Thread
    BY <1>1 DEF Poll, ReadOverlay, Ignore, vars, Thread
  <2>2. CASE Accept(Gossip, n, Received)
    BY <2>1, <2>2, TakesOver
  <2>3. CASE UNCHANGED <<updates, note, meta>>
    BY <2>1, <2>3, KnownFrame
  <2> QED
    BY <1>1, <2>2, <2>3 DEF Poll, ReadOverlay, Ignore, vars
<1>2. ASSUME NEW t \in Handler, StartPosted(t)
      PROVE  [Register!Next]_(Register!rvars)
  <2>1. phase = "up" /\ UNCHANGED <<phase, todo>> /\ t \in Thread
    BY <1>2 DEF StartPosted, Memory, RequestsUp, Thread
  <2>2. CASE Accept(t, req[t], Posted)
    <3>1. req[t] \in Note
      BY <2>2, ConstantsAssumption DEF Accept, Acceptable
    <3> QED
      BY <2>1, <2>2, <3>1, TakesOver
  <2>3. CASE UNCHANGED <<updates, note, meta>>
    BY <2>1, <2>3, KnownFrame
  <2> QED
    BY <1>2, <2>2, <2>3 DEF StartPosted
<1>3. ASSUME NEW n \in Note, LoadFile(n) PROVE UNCHANGED Register!rvars
  BY <1>3, KnownLoadFile
<1>4. CASE LoadDone
  <2>1. /\ phase = "load" /\ phase' = "up"
        /\ UNCHANGED <<todo, updates, note, meta>>
    BY <1>4 DEF LoadDone
  <2>2. Unread' = Unread /\ UNCHANGED Known
    BY <2>1 DEF Unread, Known, Covered, Intact, IsWhole
  <2> QED
    BY <2>1, <2>2 DEF Register!ComeUp
<1>5. CASE Crash
  BY <1>5, LostFails DEF Crash
<1>6. CASE OverlayPanic
  <2>1. CASE phase = "up"
    BY <1>6, <2>1, LostFails DEF OverlayPanic
  <2>2. CASE \E o \in Obj : Sleeping(o)
    <3>1. \E o \in Obj : note[o] # None
      BY <2>2 DEF Sleeping, Custody, FreeIdle, Free
    <3> QED
      BY <1>6, <3>1, LostFails DEF OverlayPanic, Apart
  <2> QED
    BY <1>6, <2>1, <2>2 DEF OverlayPanic
<1>7. CASE Restart
  BY <1>7, KnownRestart
<1>8. CASE UNCHANGED <<phase, todo, updates, note, meta>>
  BY <1>8, KnownFrame
<1>9. ASSUME NEW t \in Thread, ThreadStep(t) \/ ActivateFails(t)
      PROVE  UNCHANGED Register!rvars
  <2>1. CASE RemoveMeta(t)
    <3>1. /\ old[t] \in Obj /\ note[old[t]] # None
          /\ meta' = [meta EXCEPT ![note[old[t]]] = Absent]
          /\ UNCHANGED <<phase, todo, updates, note>>
      BY <2>1 DEF RemoveMeta, Custody, PcShape, Deleting, OldOut, TypeOK
    <3> QED
      BY <3>1, KnownFrame DEF TypeOK
  <2>2. CASE UNCHANGED <<phase, todo, updates, note, meta>>
    BY <2>2, KnownFrame
  <2> QED
    BY <1>9, <2>1, <2>2 DEF ThreadStep, StopOld, RemoveData, Activate, ActivateFails, Return
<1>10. ASSUME NEW o \in Obj, MonitorStep(o) PROVE UNCHANGED Register!rvars
  <2>1. CASE SaveOpen(o) \/ SaveWrite(o)
    <3>1. /\ note[o] # None
          /\ \/ UNCHANGED meta
             \/ \E f : meta' = [meta EXCEPT ![note[o]] = f]
          /\ UNCHANGED <<phase, todo, updates, note>>
      BY <2>1 DEF SaveOpen, SaveWrite, Custody, FreeIdle, Free
    <3> QED
      BY <3>1, KnownFrame DEF TypeOK
  <2>2. CASE UNCHANGED <<phase, todo, updates, note, meta>>
    BY <2>2, KnownFrame
  <2> QED
    BY <1>10, <2>1, <2>2
       DEF MonitorStep, MonitorStop, MonitorDownload, MonitorSeed, MonitorRefuse,
           MonitorUndeployable, MonitorDeploy, DeploySucceeds, DeployFails,
           DeployEnds, Pass
<1>11. CASE \/ \E t \in Handler, n \in Note : Post(t, n)
            \/ \E n \in Note : Complete(n)
            \/ UNCHANGED vars
  BY <1>8, <1>11 DEF Post, Complete, vars
<1> QED
  BY <1>1, <1>2, <1>3, <1>4, <1>5, <1>6, <1>7, <1>9, <1>10, <1>11 DEF Next

\* The agent implements the register: Start, once it is up, takes one newer
\* notification over (addUpdate), the end of loadUpdates makes it come up, a crash
\* or a panic at any point leaves some of what it knew, and all else (loading,
\* saving, deleting old versions, deploying) changes nothing of what it knows.
THEOREM IsRegisterHolds ==
    ASSUME Deleter = {}
    PROVE  Spec => IsRegister
<1>1. Init => Register!Init
  <2>1. Init => \A n \in Note : n.uuid \in UUID
    BY DEF Note
  <2>2. Init => Known = {}
    BY <2>1 DEF Init, Known, Unread, Covered
  <2> QED
    BY <2>2 DEF Init, Register!Init
<1>2. Init => Apart
  BY ApartInit
<1>3. TypeOK /\ Memory /\ Apart /\ [Next]_vars => Apart'
  BY ApartStep
<1>4. TypeOK /\ Custody /\ Memory /\ Apart /\ [Next]_vars
        => [Register!Next]_(Register!rvars)
  BY RegisterStep
<1> QED
  BY <1>1, <1>2, <1>3, <1>4, MemoryHolds, PTL DEF Spec, IsRegister, Register!Spec
=============================================================================

------------------------ MODULE ServerUpdatesProofs ------------------------
(***************************************************************************)
(* Proofs about ServerUpdates: its types, that what is clean is saved, and *)
(* that it implements DurableRegister. All rest on one invariant, StoreInv.*)
(***************************************************************************)
EXTENDS ServerUpdates, TLAPS

\* The save under way is one that was needed, and it has truncated the file.
WritingTorn ==
    saver = "writing" => phase = "up" /\ db = Torn /\ Dirty

\* The file holds what the last save that ended wrote, unless it is torn.
FileIsSaved == Decodable => Loaded = saved

\* A process that is down has no memory.
DownEmpty ==
    phase = "down" => updates = NoUpdates /\ lastModified = 0 /\ lastSaved = 0

StoreInv ==
    /\ TypeOK
    /\ lastSaved <= lastModified
    /\ WritingTorn
    /\ FileIsSaved
    /\ DownEmpty
    /\ CleanIsSaved

LEMMA StoreInit == ASSUME Init PROVE StoreInv
  BY StoreAssumption
  DEF Init, StoreInv, TypeOK, WritingTorn, FileIsSaved, DownEmpty, CleanIsSaved,
      Serving, Dirty, Decodable, Loaded, NoUpdates, File, Absent, Torn

\* Every step of the server keeps the invariant.
LEMMA StoreStep == ASSUME StoreInv, [Next]_vars PROVE StoreInv'
<1> USE StoreAssumption
    DEF StoreInv, WritingTorn, FileIsSaved, DownEmpty, CleanIsSaved, Serving,
        Dirty, Decodable, Loaded
<1>1. ASSUME NEW n \in Note, Post(n) PROVE StoreInv'
  <2>1. n.uuid \in UUID /\ n.ver \in Version
    BY DEF Note
  <2>2. TypeOK'
    BY <1>1, <2>1 DEF Post, TypeOK
  <2>3. QED
    BY <1>1, <2>2 DEF Post, TypeOK
<1>2. CASE SaveOpen
  BY <1>2 DEF SaveOpen, TypeOK, File, Torn
<1>3. CASE SaveWrite
  <2>1. db' = Whole(updates) /\ db' \in File /\ db' # Torn
    BY <1>3 DEF SaveWrite, TypeOK, File, Whole, Torn
  <2>2. db'.state = "whole" /\ db'.table = updates
    BY <2>1 DEF Whole
  <2>3. QED
    BY <1>3, <2>1, <2>2 DEF SaveWrite, TypeOK
<1>4. CASE SaveFails
  BY <1>4 DEF SaveFails, TimeOfFailure, TypeOK
<1>5. CASE Crash
  BY <1>5 DEF Crash, NoUpdates, TypeOK
<1>6. CASE Restart
  <2>1. Loaded \in [UUID -> Version \union {0}]
    BY DEF TypeOK, File, Absent, Torn, NoUpdates
  <2>2. QED
    BY <1>6, <2>1 DEF Restart, TypeOK
<1>7. CASE UNCHANGED vars
  BY <1>7 DEF vars, TypeOK
<1>8. ASSUME NEW n \in Note, PostRefused(n) PROVE StoreInv'
  BY <1>7, <1>8 DEF PostRefused
<1>9. QED
  BY <1>1, <1>2, <1>3, <1>4, <1>5, <1>6, <1>7, <1>8 DEF Next, Save

LEMMA StoreAlways == Spec => []StoreInv
<1>1. Init => StoreInv
  BY StoreInit
<1>2. StoreInv /\ [Next]_vars => StoreInv'
  BY StoreStep
<1>3. QED
  BY <1>1, <1>2, PTL DEF Spec

\* Every variable of the server holds a value of its type.
THEOREM StoreTypeCorrect == Spec => []TypeOK
<1>1. StoreInv => TypeOK
  BY DEF StoreInv
<1>2. QED
  BY <1>1, StoreAlways, PTL

\* A server whose times agree would come back with what it serves (saveUpdates,
\* loadUpdates), for any uuids and versions, whatever fails or crashes.
THEOREM CleanIsSavedHolds == Spec => []CleanIsSaved
<1>1. StoreInv => CleanIsSaved
  BY DEF StoreInv
<1>2. QED
  BY <1>1, StoreAlways, PTL

\* The server implements the durable register: POST is Put, the end of a save
\* is Sync, a crash is Fail, a start that succeeds is Recover, the rest stutters.
THEOREM DurableHolds == Spec => Durable
<1>1. Init => Register!Init
  BY DEF Init, Register!Init, Register!Nothing, NoUpdates
<1>2. ASSUME StoreInv, [Next]_vars PROVE [Register!Next]_(Register!rvars)
  <2> USE DEF Register!Next, Register!rvars
  <2>1. ASSUME NEW n \in Note, Post(n) PROVE Register!Put(n.uuid, n.ver)
    BY <2>1 DEF Post, Newer, Serving, Register!Put
  <2>2. CASE SaveOpen
    BY <2>2 DEF SaveOpen
  <2>3. CASE SaveWrite
    BY <2>3, <1>2 DEF SaveWrite, StoreInv, WritingTorn, Register!Sync
  <2>4. CASE SaveFails
    BY <2>4 DEF SaveFails
  <2>5. CASE Crash
    BY <2>5 DEF Crash, NoUpdates, Register!Fail, Register!Nothing
  <2>6. CASE Restart
    BY <2>6, <1>2 DEF Restart, StoreInv, FileIsSaved, Register!Recover
  <2>7. CASE UNCHANGED vars
    BY <2>7 DEF vars
  <2>8. ASSUME NEW n \in Note, PostRefused(n) PROVE UNCHANGED vars
    BY <2>8 DEF PostRefused
  <2>9. ASSUME NEW n \in Note PROVE n.uuid \in UUID /\ n.ver \in Version
    BY <2>9 DEF Note
  <2>10. QED
    BY <1>2, <2>1, <2>2, <2>3, <2>4, <2>5, <2>6, <2>7, <2>8, <2>9 DEF Next, Save
<1>3. QED
  BY <1>1, <1>2, StoreAlways, PTL DEF Spec, Durable, Register!Spec
=============================================================================

------------------------- MODULE SessionTableProofs -------------------------
(***************************************************************************)
(* Proofs about SessionTable: its types, that a worker that has registered *)
(* a peer always finds its session again, and that nobody has a session of *)
(* a peer that is not its own, for any numbers of peers and workers.       *)
(***************************************************************************)
EXTENDS SessionTable, TLAPS

\* A worker that iterates over the table has looked up where to send it.
TableDest == \A w \in Worker : pc[w] = "table" => dest[w] \in Address

SInv == TypeOK /\ ReplyFindsSession /\ TableDest

LEMMA SessionInit == ASSUME Init PROVE SInv
<1>1. \A p \in Peer : [i \in 1..4 |-> <<p, 0>>] \in Session
  BY DEF Session, Address
<1>2. QED
  BY <1>1 DEF Init, Nobody, SInv, TypeOK, ReplyFindsSession, TableDest

\* A session never is None, and its first place is an address.
LEMMA SessionFacts ==
    ASSUME NEW s \in Session PROVE s # None /\ External(s) \in Address
  BY SessionAssumption DEF Session, External

\* What an indication about a peer in the table is.
LEMMA IndicationType ==
    ASSUME TypeOK, NEW p \in Peer, NEW a \in Address, NEW q \in Present
    PROVE  Indication(p, a, q) \in
             [to : Peer, addr : Address, about : Peer, sess : Session]
  BY DEF Indication, Present, TypeOK

\* The agents and the network change no table of the server.
LEMMA AgentStep ==
    ASSUME SInv,
           \/ \E p \in Peer : SendRequest(p) \/ Move(p)
           \/ \E m \in ind : Arrive(m)
           \/ Lose
    PROVE  SInv'
<1> USE DEF SInv, ReplyFindsSession, TableDest, TypeOK, workerVars, agentVars
<1>1. ASSUME NEW p \in Peer, SendRequest(p) PROVE SInv'
  BY <1>1 DEF SendRequest
<1>2. ASSUME NEW p \in Peer, Move(p) PROVE SInv'
  <2>1. PICK I \in Changes[p] :
          /\ cur' = [cur EXCEPT ![p] = [i \in 1..4 |-> IF i \in I THEN <<p, moves'>> ELSE @[i]]]
          /\ known' = IF I = 1..4 THEN [known EXCEPT ![p] = Nobody] ELSE known
          /\ had' = [had EXCEPT ![p] = @ \union {cur'[p]}]
    BY <1>2 DEF Move
  <2>2. moves' \in Nat
    BY <1>2 DEF Move
  <2>3. [i \in 1..4 |-> IF i \in I THEN <<p, moves'>> ELSE cur[p][i]] \in Session
    BY <2>2 DEF Session, Address
  <2>4. cur' \in [Peer -> Session]
    BY <2>1, <2>3
  <2>5. known' \in [Peer -> [Peer -> Session \union {None}]]
    BY <2>1 DEF Nobody
  <2>6. had' \in [Peer -> SUBSET Session]
    <3>1. had[p] \union {cur'[p]} \in SUBSET Session
      BY <2>4
    <3>2. QED
      BY <2>1, <3>1
  <2>7. QED
    BY <1>2, <2>2, <2>4, <2>5, <2>6 DEF Move
<1>3. ASSUME NEW m \in ind, Arrive(m) PROVE SInv'
  <2>1. m.to \in Peer /\ m.about \in Peer /\ m.sess \in Session
    OBVIOUS
  <2>2. known' \in [Peer -> [Peer -> Session \union {None}]]
    BY <1>3, <2>1 DEF Arrive
  <2>3. ind' \subseteq ind
    BY <1>3 DEF Arrive
  <2>4. QED
    BY <1>3, <2>2, <2>3 DEF Arrive
<1>4. CASE Lose
  <2>1. req' \subseteq req /\ ind' \subseteq ind
    BY <1>4 DEF Lose
  <2>2. QED
    BY <1>4, <2>1 DEF Lose
<1>5. QED
  BY <1>1, <1>2, <1>3, <1>4

\* A worker registers a peer: the table has a session of it from then on.
LEMMA RegisterStep ==
    ASSUME SInv, NEW w \in Worker, NEW m \in req, Register(w, m) PROVE SInv'
<1> USE DEF SInv, TypeOK, agentVars
<1>1. m.pid \in Peer /\ m.sess \in Session
  OBVIOUS
<1>2. peers' \in [Peer -> Session \union {None}]
  BY <1>1 DEF Register
<1>3. peers'[m.pid] # None
  BY <1>1, SessionFacts DEF Register, Unchanged
<1>4. \A q \in Peer : peers[q] # None => peers'[q] # None
  BY <1>1, SessionFacts DEF Register
<1>5. TypeOK'
  BY <1>1, <1>2 DEF Register
<1>6. ReplyFindsSession'
  <2> SUFFICES ASSUME NEW v \in Worker, pc'[v] # "idle"
               PROVE  pid'[v] \in Peer /\ peers'[pid'[v]] # None
    BY DEF ReplyFindsSession
  <2>1. CASE v = w
    BY <1>1, <1>3, <2>1 DEF Register
  <2>2. CASE v # w
    BY <1>4, <2>2 DEF Register, ReplyFindsSession
  <2>3. QED
    BY <2>1, <2>2
<1>7. TableDest'
  BY DEF Register, TableDest
<1>8. QED
  BY <1>5, <1>6, <1>7

\* Whatever is left of an iteration, the worker's locals have their types and it
\* is still with the same peer, or idle.
LEMMA GoesOnType ==
    ASSUME SInv, NEW w \in Worker, NEW left \in SUBSET Peer, NEW d \in Address,
           GoesOn(w, left, d), UNCHANGED peers,
           pid[w] \in Peer /\ peers[pid[w]] # None
    PROVE  /\ pc' \in [Worker -> {"idle", "reply", "lookup", "table"}]
           /\ pid' \in [Worker -> Peer \union {None}]
           /\ updated' \in [Worker -> BOOLEAN]
           /\ dest' \in [Worker -> Address \union {None}]
           /\ unseen' \in [Worker -> SUBSET Peer]
           /\ ReplyFindsSession' /\ TableDest'
<1> USE DEF SInv, TypeOK, ReplyFindsSession, TableDest
<1>1. CASE left = {}
  <2>1. /\ unseen' = [unseen EXCEPT ![w] = left]
        /\ dest' = [dest EXCEPT ![w] = None]
        /\ pc' = [pc EXCEPT ![w] = "idle"]
        /\ pid' = [pid EXCEPT ![w] = None]
        /\ updated' = [updated EXCEPT ![w] = FALSE]
    BY <1>1 DEF GoesOn, Finish
  <2>2. /\ pc'[w] = "idle"
        /\ \A v \in Worker \ {w} : pc'[v] = pc[v] /\ pid'[v] = pid[v] /\ dest'[v] = dest[v]
    BY <2>1
  <2>3. ReplyFindsSession' /\ TableDest'
    BY <2>2
  <2>4. QED
    BY <2>1, <2>3
<1>2. CASE left # {}
  <2>1. /\ unseen' = [unseen EXCEPT ![w] = left]
        /\ dest' = [dest EXCEPT ![w] = d]
        /\ pc' = [pc EXCEPT ![w] = "table"]
        /\ UNCHANGED <<peers, pid, updated>>
    BY <1>2 DEF GoesOn
  <2>2. \A v \in Worker \ {w} : pc'[v] = pc[v] /\ dest'[v] = dest[v]
    BY <2>1
  <2>3. ReplyFindsSession' /\ TableDest'
    BY <2>1, <2>2
  <2>4. QED
    BY <2>1, <2>3
<1>3. QED
  BY <1>1, <1>2

\* The rest of what a worker does leaves the table alone.
LEMMA WorkerKeeps ==
    ASSUME SInv, NEW w \in Worker, WorkerStep(w) PROVE SInv'
<1> USE DEF SInv, TypeOK, ReplyFindsSession, TableDest, agentVars, Finish
<1>1. CASE ReplyOnly(w)
  BY <1>1 DEF ReplyOnly
<1>2. CASE AdvertiseNewPeer(w)
  <2>1. pid[w] \in Present
    BY <1>2 DEF AdvertiseNewPeer, Replies, Present
  <2>2. \A p \in Present : External(peers[p]) \in Address
    BY SessionFacts DEF Present
  <2>3. \A p \in Present : Indication(p, External(peers[p]), pid[w]) \in
          [to : Peer, addr : Address, about : Peer, sess : Session]
    <3>1. Present \subseteq Peer
      BY DEF Present
    <3>2. QED
      BY <2>1, <2>2, <3>1, IndicationType
  <2>4. ind' \subseteq [to : Peer, addr : Address, about : Peer, sess : Session]
    BY <1>2, <2>3 DEF AdvertiseNewPeer
  <2>5. QED
    BY <1>2, <2>4 DEF AdvertiseNewPeer, Replies
<1>3. CASE TableStart(w)
  <2>1. pid[w] \in Peer /\ peers[pid[w]] # None
    BY <1>3 DEF TableStart
  <2>2. External(peers[pid[w]]) \in Address
    BY <2>1, SessionFacts
  <2>3. QED
    BY <1>3, <2>1, <2>2, GoesOnType DEF TableStart
<1>4. ASSUME NEW q \in Peer, TableEntry(w, q) PROVE SInv'
  <2>1. dest[w] \in Address /\ pid[w] \in Peer /\ peers[pid[w]] # None
    BY <1>4 DEF TableEntry
  <2>2. peers[q] # None => Indication(pid[w], dest[w], q) \in
          [to : Peer, addr : Address, about : Peer, sess : Session]
    BY <2>1, IndicationType DEF Present
  <2>3. ind' \subseteq [to : Peer, addr : Address, about : Peer, sess : Session]
    BY <1>4, <2>2 DEF TableEntry
  <2>4. unseen[w] \ {q} \in SUBSET Peer
    OBVIOUS
  <2>5. QED
    BY <1>4, <2>1, <2>3, <2>4, GoesOnType DEF TableEntry
<1>5. QED
  BY <1>1, <1>2, <1>3, <1>4 DEF WorkerStep

LEMMA SessionStep == ASSUME SInv, [Next]_vars PROVE SInv'
<1>1. CASE AdvertiseSessionTable
  <2>1. \A p \in Present : External(peers[p]) \in Address
    BY SessionFacts DEF SInv, TypeOK, Present
  <2>2. \A p, q \in Present : Indication(p, External(peers[p]), q) \in
          [to : Peer, addr : Address, about : Peer, sess : Session]
    <3>1. Present \subseteq Peer /\ TypeOK
      BY DEF Present, SInv
    <3>2. QED
      BY <2>1, <3>1, IndicationType
  <2>3. ind' \subseteq [to : Peer, addr : Address, about : Peer, sess : Session]
    <3>1. ind \subseteq [to : Peer, addr : Address, about : Peer, sess : Session]
      BY DEF SInv, TypeOK
    <3>2. QED
      BY <1>1, <2>2, <3>1 DEF AdvertiseSessionTable
  <2>4. QED
    BY <1>1, <2>3
    DEF AdvertiseSessionTable, SInv, TypeOK, ReplyFindsSession, TableDest, workerVars, agentVars
<1>2. CASE Crash
  <2>1. \A w \in Worker : pc'[w] = "idle"
    BY <1>2 DEF Crash
  <2>2. ReplyFindsSession' /\ TableDest'
    BY <2>1 DEF ReplyFindsSession, TableDest
  <2>3. peers' \in [Peer -> Session \union {None}]
    BY <1>2 DEF Crash, Nobody
  <2>4. /\ pc' \in [Worker -> {"idle", "reply", "lookup", "table"}]
        /\ pid' \in [Worker -> Peer \union {None}]
        /\ updated' \in [Worker -> BOOLEAN]
        /\ dest' \in [Worker -> Address \union {None}]
        /\ unseen' \in [Worker -> SUBSET Peer]
    BY <1>2 DEF Crash
  <2>5. up' \in BOOLEAN /\ crashes' \in Nat
    <3>1. up' = FALSE /\ crashes' = crashes + 1
      BY <1>2 DEF Crash
    <3>2. crashes \in Nat
      BY DEF SInv, TypeOK
    <3>3. crashes + 1 \in Nat
      BY <3>2
    <3>4. QED
      BY <3>1, <3>3
  <2>6. TypeOK'
    <3>1. UNCHANGED <<req, ind, cur, known, had, moves>>
      BY <1>2 DEF Crash, agentVars
    <3>2. QED
      BY <2>3, <2>4, <2>5, <3>1 DEF SInv, TypeOK
  <2>7. QED
    BY <2>2, <2>6 DEF SInv
<1>3. CASE Restart
  BY <1>3 DEF Restart, SInv, TypeOK, ReplyFindsSession, TableDest, workerVars, agentVars
<1>4. CASE UNCHANGED vars
  BY <1>4 DEF vars, SInv, TypeOK, ReplyFindsSession, TableDest
<1>5. QED
  BY <1>1, <1>2, <1>3, <1>4, AgentStep, RegisterStep, WorkerKeeps DEF Next

LEMMA SessionAlways == Spec => []SInv
<1>1. Init => SInv
  BY SessionInit
<1>2. SInv /\ [Next]_vars => SInv'
  BY SessionStep
<1>3. QED
  BY <1>1, <1>2, PTL DEF Spec

\* Every variable holds a value of its type.
THEOREM SessionTypeCorrect == Spec => []TypeOK
<1>1. SInv => TypeOK
  BY DEF SInv
<1>2. QED
  BY <1>1, SessionAlways, PTL

\* The path of sendBindingSuccess that would keep the read lock is never taken,
\* for any number of workers and peers and whatever the network does.
THEOREM ReplyFindsSessionHolds == Spec => []ReplyFindsSession
<1>1. SInv => ReplyFindsSession
  BY DEF SInv
<1>2. QED
  BY <1>1, SessionAlways, PTL
-----------------------------------------------------------------------------
(* Own sessions: what is under way is a session its subject has had, too.   *)

UnderwayIsOwn ==
    /\ \A p \in Peer : cur[p] \in had[p]
    /\ \A m \in req : m.sess \in had[m.pid]
    /\ \A m \in ind : m.sess \in had[m.about]

OwnInv == SessionsAreOwn /\ UnderwayIsOwn

LEMMA OwnInit == Init => OwnInv
  BY DEF Init, Nobody, OwnInv, SessionsAreOwn, UnderwayIsOwn

\* An indication that is sent tells of a session in the table.
LEMMA OwnIndications ==
    ASSUME SInv, OwnInv, UNCHANGED <<peers, cur, known, had, req>>,
           \A m \in ind' \ ind :
              \E p \in Peer, a \in Address, q \in Present : m = Indication(p, a, q)
    PROVE  OwnInv'
<1>1. ASSUME NEW m \in ind' PROVE m.sess \in had[m.about]
  <2>1. CASE m \in ind
    BY <2>1 DEF OwnInv, UnderwayIsOwn
  <2>2. CASE m \notin ind
    <3>1. PICK p \in Peer, a \in Address, q \in Present : m = Indication(p, a, q)
      BY <1>1, <2>2
    <3>2. q \in Peer /\ peers[q] # None /\ m.about = q /\ m.sess = peers[q]
      BY <3>1 DEF Indication, Present
    <3> QED
      BY <3>2 DEF OwnInv, SessionsAreOwn
  <2> QED
    BY <2>1, <2>2
<1> QED
  BY <1>1 DEF OwnInv, SessionsAreOwn, UnderwayIsOwn

LEMMA OwnMove ==
    ASSUME SInv, OwnInv, NEW p \in Peer, Move(p) PROVE OwnInv'
<1> USE DEF SInv, TypeOK
<1>1. /\ \A q \in Peer \ {p} : cur'[q] = cur[q]
      /\ had' = [had EXCEPT ![p] = @ \union {cur'[p]}]
      /\ known' = [known EXCEPT ![p] = Nobody] \/ known' = known
      /\ UNCHANGED <<peers, req, ind>>
  BY DEF Move
<1>2. \A q \in Peer : had[q] \subseteq had'[q]
  BY <1>1
<1>3. \A q \in Peer : cur'[q] \in had'[q]
  <2> SUFFICES ASSUME NEW q \in Peer PROVE cur'[q] \in had'[q]
    OBVIOUS
  <2>1. CASE q = p
    BY <1>1, <2>1
  <2>2. CASE q # p
    BY <1>1, <1>2, <2>2 DEF OwnInv, UnderwayIsOwn
  <2> QED
    BY <2>1, <2>2
<1>4. UnderwayIsOwn'
  <2>1. \A m \in req : m.sess \in had'[m.pid]
    BY <1>2 DEF OwnInv, UnderwayIsOwn
  <2>2. \A m \in ind : m.sess \in had'[m.about]
    BY <1>2 DEF OwnInv, UnderwayIsOwn
  <2> QED
    BY <1>1, <1>3, <2>1, <2>2 DEF UnderwayIsOwn
<1>5. \A r, q \in Peer :
         known'[r][q] # None => known[r][q] # None /\ known'[r][q] = known[r][q]
  BY <1>1 DEF Nobody
<1>6. SessionsAreOwn'
  BY <1>1, <1>2, <1>5 DEF OwnInv, SessionsAreOwn
<1> QED
  BY <1>4, <1>6 DEF OwnInv

LEMMA OwnStep == SInv /\ OwnInv /\ [Next]_vars => OwnInv'
<1> SUFFICES ASSUME SInv, OwnInv, [Next]_vars PROVE OwnInv'
  OBVIOUS
<1> USE DEF workerVars, agentVars
<1>1. \A p \in Present : p \in Peer /\ External(peers[p]) \in Address
  BY SessionFacts DEF Present, SInv, TypeOK
<1>2. ASSUME NEW p \in Peer, SendRequest(p) PROVE OwnInv'
  BY <1>2 DEF SendRequest, OwnInv, SessionsAreOwn, UnderwayIsOwn
<1>3. ASSUME NEW p \in Peer, Move(p) PROVE OwnInv'
  BY <1>3, OwnMove
<1>4. ASSUME NEW m \in ind, Arrive(m) PROVE OwnInv'
  <2>1. /\ m.to \in Peer /\ m.about \in Peer /\ m.sess \in had[m.about]
        /\ UNCHANGED <<peers, cur, had, req>>
    BY <1>4 DEF SInv, TypeOK, OwnInv, UnderwayIsOwn, Arrive
  <2>2. \A q, p \in Peer : known'[q][p] = known[q][p] \/ (p = m.about /\ known'[q][p] = m.sess)
    BY <1>4, <2>1 DEF Arrive, SInv, TypeOK
  <2>3. SessionsAreOwn'
    BY <2>1, <2>2 DEF OwnInv, SessionsAreOwn
  <2>4. UnderwayIsOwn'
    BY <1>4, <2>1 DEF Arrive, OwnInv, UnderwayIsOwn
  <2> QED
    BY <2>3, <2>4 DEF OwnInv
<1>5. CASE Lose
  <2>1. req' \subseteq req /\ ind' \subseteq ind /\ UNCHANGED <<peers, cur, known, had>>
    BY <1>5 DEF Lose
  <2> QED
    BY <2>1 DEF OwnInv, SessionsAreOwn, UnderwayIsOwn
<1>6. ASSUME NEW w \in Worker, NEW m \in req, Register(w, m) PROVE OwnInv'
  <2>1. m.pid \in Peer /\ m.sess \in had[m.pid]
    BY DEF SInv, TypeOK, OwnInv, UnderwayIsOwn
  <2>2. peers' = peers \/ peers' = [peers EXCEPT ![m.pid] = m.sess]
    BY <1>6 DEF Register
  <2>3. \A p \in Peer : peers'[p] # None => peers'[p] \in had[p]
    BY <2>1, <2>2 DEF SInv, TypeOK, OwnInv, SessionsAreOwn
  <2> QED
    BY <1>6, <2>3 DEF Register, OwnInv, SessionsAreOwn, UnderwayIsOwn
<1>7. ASSUME NEW w \in Worker, AdvertiseNewPeer(w) PROVE OwnInv'
  <2>1. pid[w] \in Present
    BY <1>7 DEF AdvertiseNewPeer, Replies, Present, ReplyFindsSession, SInv
  <2> QED
    BY <1>1, <1>7, <2>1, OwnIndications DEF AdvertiseNewPeer
<1>8. ASSUME NEW w \in Worker, NEW q \in Peer, TableEntry(w, q) PROVE OwnInv'
  <2>1. pid[w] \in Peer /\ dest[w] \in Address
    BY <1>8 DEF TableEntry, SInv, ReplyFindsSession, TableDest
  <2>2. peers[q] # None => q \in Present
    BY DEF Present
  <2> QED
    BY <1>8, <2>1, <2>2, OwnIndications DEF TableEntry
<1>9. CASE AdvertiseSessionTable
  <2>1. ASSUME NEW m \in ind' \ ind
        PROVE  \E p \in Peer, a \in Address, q \in Present : m = Indication(p, a, q)
    <3>1. PICK p \in Present, q \in Present : m = Indication(p, External(peers[p]), q)
      BY <1>9 DEF AdvertiseSessionTable
    <3> QED
      BY <1>1, <3>1
  <2> QED
    BY <1>9, <2>1, OwnIndications DEF AdvertiseSessionTable
<1>10. CASE Crash
  BY <1>10 DEF Crash, Nobody, OwnInv, SessionsAreOwn, UnderwayIsOwn
<1>11. CASE UNCHANGED <<peers, cur, known, had, req, ind>>
  BY <1>11 DEF OwnInv, SessionsAreOwn, UnderwayIsOwn
<1> QED
  BY <1>2, <1>3, <1>4, <1>5, <1>6, <1>7, <1>8, <1>9, <1>10, <1>11
     DEF Next, WorkerStep, ReplyOnly, TableStart, Restart, vars

\* What the server and the overlays have of a peer is a session it has had, for any
\* numbers of peers and workers, whatever is lost, overtaken or sent to an address
\* that the peer has left, and through any restarts.
THEOREM SessionsAreOwnHolds == Spec => []SessionsAreOwn
<1>1. OwnInv => SessionsAreOwn
  BY DEF OwnInv
<1> QED
  BY <1>1, OwnInit, OwnStep, SessionAlways, PTL DEF Spec
=============================================================================

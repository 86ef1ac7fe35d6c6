------------------------ MODULE GossipNetworkProofs ------------------------
(***************************************************************************)
(* Proofs about GossipNetwork, for any agents, versions, interval, length  *)
(* of the queues and number of restarts: its types, that an agent has a    *)
(* version before the server has it, that agents never go back, and that   *)
(* it implements Dissemination.                                            *)
(***************************************************************************)
EXTENDS GossipNetwork, TLAPS

\* The server has a newest version, though nothing says that there are finitely
\* many: it accepts only newer ones, so that the last is the newest.
ServedIsMax ==
    Served \in posted \union {0} /\ \A v \in posted \union {0} : v <= Served

\* A version that submitCmd has still to post to the server is with an agent.
SubmittedIsHeld == submitted \in held \union {0}

NetworkInv == TypeOK /\ ServedIsMax /\ SubmittedIsHeld /\ AgentBeforeServer

LEMMA VersionIsNat == \A v \in Version \union {0} : v \in Nat
  BY NetworkAssumption

LEMMA MaxIs ==
    ASSUME NEW S \in SUBSET Nat, NEW m \in S, \A x \in S : x <= m
    PROVE  Max(S) = m
<1>1. m \in S /\ \A y \in S : m >= y
  OBVIOUS
<1>2. Max(S) \in S /\ \A y \in S : Max(S) >= y
  BY <1>1 DEF Max
<1>3. m \in Nat /\ Max(S) \in Nat /\ Max(S) >= m /\ m >= Max(S)
  BY <1>1, <1>2
<1> QED
  BY <1>3

LEMMA NetworkInit == Init => NetworkInv
<1> SUFFICES ASSUME Init PROVE NetworkInv
  OBVIOUS
<1>1. TypeOK
  BY DEF Init, TypeOK
<1>2. ServedIsMax
  BY MaxIs DEF Init, ServedIsMax, Served
<1> QED
  BY <1>1, <1>2 DEF Init, NetworkInv, SubmittedIsHeld, AgentBeforeServer

LEMMA LoopType ==
    ASSUME TypeOK, ServedIsMax, NEW a \in Agent,
           GossipStep(a) \/ PollFails(a) \/ StartHangs(a)
    PROVE  TypeOK'
<1> USE VersionIsNat DEF TypeOK, Goes, Accept, linkVars, loopVars, serverVars
<1>1. CASE Poll(a) \/ PollFails(a)
  BY <1>1 DEF Poll, PollFails, ServedIsMax
<1>2. CASE StartReturns(a) \/ StartHangs(a)
  BY <1>2 DEF StartReturns, StartHangs
<1>3. CASE Sleep(a)
  <2>1. counter[a] + 1 \in Nat
    OBVIOUS
  <2>2. counter' = [counter EXCEPT ![a] = 0] \/ counter' = [counter EXCEPT ![a] = counter[a] + 1]
    BY <1>3 DEF Sleep, NextTurn
  <2>3. gossip' = [gossip EXCEPT ![a] = "poll"] \/ gossip' = gossip
    BY <1>3 DEF Sleep
  <2> QED
    BY <1>3, <2>1, <2>2, <2>3 DEF Sleep
<1>4. CASE ReadOverlay(a) \/ Read(a) \/ ReadFails(a)
  BY <1>4 DEF ReadOverlay, Read, ReadFails
<1>5. CASE Take(a)
  <2>1. queue[a] \in Seq(Version) /\ queue[a] # <<>>
    BY <1>5 DEF Take
  <2>2. Head(queue[a]) \in Version /\ Tail(queue[a]) \in Seq(Version)
    BY <2>1
  <2>3. queue' \in [Agent -> Seq(Version)]
    BY <1>5, <2>2 DEF Take
  <2>4. buffer' \in [Agent -> SUBSET {"file", "directory"}]
    BY <1>5 DEF Take, Kind
  <2>5. got' \in [Agent -> Version \union {0}]
    BY <1>5, <2>2 DEF Take, Decoded
  <2> QED
    BY <1>5, <2>3, <2>4, <2>5 DEF Take
<1> QED
  BY <1>1, <1>2, <1>3, <1>4, <1>5 DEF GossipStep

LEMMA TypeStep == NetworkInv /\ [Next]_vars => TypeOK'
<1> SUFFICES ASSUME TypeOK, ServedIsMax, [Next]_vars PROVE TypeOK'
  BY DEF NetworkInv
<1> USE VersionIsNat DEF Accept, linkVars, loopVars, serverVars
<1>1. ASSUME NEW a \in Agent, GossipStep(a) \/ PollFails(a) \/ StartHangs(a) PROVE TypeOK'
  BY <1>1, LoopType
<1>2. ASSUME NEW a \in Agent, Change(a) \/ Restart(a) PROVE TypeOK'
  <2>1. CASE Change(a)
    BY <2>1 DEF Change, TypeOK
  <2>2. CASE Restart(a)
    <3>1. PICK v \in Version \union {0} : version' = [version EXCEPT ![a] = v]
      BY <2>2 DEF Restart, TypeOK
    <3>2. queue' \in [Agent -> Seq(Version)] /\ restarts' \in Nat
      BY <2>2 DEF Restart, TypeOK
    <3> QED
      BY <2>2, <3>1, <3>2 DEF Restart, TypeOK
  <2> QED
    BY <1>2, <2>1, <2>2
<1>3. ASSUME NEW a \in Agent, NEW v \in Version, Deliver(a, v) PROVE TypeOK'
  <2>1. Append(queue[a], v) \in Seq(Version)
    BY DEF TypeOK
  <2> QED
    BY <1>3, <2>1 DEF Deliver, TypeOK
<1>4. ASSUME NEW v \in Version,
             SubmitToOther(v) \/ SubmitToServer(v) \/ \E a \in Agent : SubmitToAgent(a, v)
      PROVE  TypeOK'
  BY <1>4 DEF SubmitToOther, SubmitToServer, SubmitToAgent, Submitted, TypeOK
<1>5. CASE SubmitFails \/ ServerRestart \/ UNCHANGED vars
  BY <1>5 DEF SubmitFails, ServerRestart, vars, TypeOK
<1> QED
  BY <1>1, <1>2, <1>3, <1>4, <1>5 DEF Next

LEMMA NetworkStep == NetworkInv /\ [Next]_vars => NetworkInv'
<1> SUFFICES ASSUME NetworkInv, [Next]_vars PROVE NetworkInv'
  OBVIOUS
<1> USE DEF NetworkInv, ServedIsMax, SubmittedIsHeld, AgentBeforeServer
<1>1. TypeOK'
  BY TypeStep
<1>2. ASSUME NEW v \in Version, SubmitToServer(v) PROVE NetworkInv'
  <2>1. v > Served /\ posted' = posted \union {v} /\ submitted' = 0 /\ held' = held /\ v \in held
    BY <1>2, VersionIsNat, NetworkAssumption DEF SubmitToServer, AgentFirst
  <2>2. \A x \in posted' \union {0} : x <= v
    BY <2>1, VersionIsNat DEF TypeOK
  <2>3. posted' \union {0} \in SUBSET Nat
    BY <1>1, VersionIsNat DEF TypeOK
  <2>4. Served' = v
    BY <2>1, <2>2, <2>3, MaxIs DEF Served
  <2> QED
    BY <1>1, <2>1, <2>2, <2>4
<1>3. ASSUME NEW v \in Version, Submitted(v) PROVE NetworkInv'
  BY <1>1, <1>3 DEF Submitted, Served
<1>4. CASE SubmitFails
  BY <1>1, <1>4 DEF SubmitFails, Served
<1>5. CASE ServerRestart
  <2>1. PICK v \in posted \union {0} : posted' = {w \in posted : w <= v}
    BY <1>5 DEF ServerRestart
  <2>2. v \in Nat /\ v \in posted' \union {0} /\ \A x \in posted' \union {0} : x <= v
    BY <2>1, VersionIsNat DEF TypeOK
  <2>3. posted' \union {0} \in SUBSET Nat
    BY <1>1, VersionIsNat DEF TypeOK
  <2>4. Served' = v
    BY <2>2, <2>3, MaxIs DEF Served
  <2> QED
    BY <1>1, <1>5, <2>1, <2>2, <2>4 DEF ServerRestart
<1>6. CASE UNCHANGED serverVars
  BY <1>1, <1>6 DEF serverVars, Served
<1> QED
  BY <1>2, <1>3, <1>4, <1>5, <1>6
     DEF Next, GossipStep, Poll, PollFails, StartReturns, StartHangs, Sleep, ReadOverlay, Read,
         ReadFails, Take, Change, Restart, Deliver, SubmitToAgent, SubmitToOther, serverVars,
         vars

LEMMA NetworkHolds == Spec => []NetworkInv
  BY NetworkInit, NetworkStep, PTL DEF Spec

\* Every variable keeps its type: what an agent starts is a version that has been
\* submitted, or nothing.
THEOREM TypeCorrect == Spec => []TypeOK
  BY NetworkHolds, PTL DEF NetworkInv

\* What the server announces and serves has been accepted by an agent before.
THEOREM AgentBeforeServerHolds == Spec => []AgentBeforeServer
  BY NetworkHolds, PTL DEF NetworkInv

-----------------------------------------------------------------------------
(* The refinement: the network is a Dissemination. A version that is on its *)
(* way to an agent, or that a restart brings back, is with an agent.        *)

Provenance ==
    \A a \in Agent :
        /\ version[a] \in held \union {0}
        /\ got[a] \in held \union {0}
        /\ queue[a] \in Seq(held)

LEMMA ProvenanceInit == Init => Provenance
  BY DEF Init, Provenance

LEMMA ProvenanceStep == NetworkInv /\ Provenance /\ [Next]_vars => Provenance'
<1> SUFFICES ASSUME NetworkInv, Provenance, [Next]_vars PROVE Provenance'
  OBVIOUS
<1> USE DEF NetworkInv, TypeOK, Goes, Accept, linkVars, loopVars, serverVars
<1>1. posted \subseteq held /\ Served \in held \union {0}
  BY DEF ServedIsMax, AgentBeforeServer
<1>2. ASSUME NEW a \in Agent, GossipStep(a) \/ PollFails(a) \/ StartHangs(a)
      PROVE  Provenance'
  <2>1. held' = held
    BY <1>2 DEF GossipStep, Poll, PollFails, StartReturns, StartHangs, Sleep, ReadOverlay,
                Read, ReadFails, Take
  <2>2. CASE Poll(a)
    BY <1>1, <2>1, <2>2 DEF Poll, Provenance
  <2>3. CASE StartReturns(a) \/ StartHangs(a)
    BY <2>1, <2>3 DEF StartReturns, StartHangs, Provenance
  <2>4. CASE Take(a)
    <3>1. queue[a] \in Seq(held) /\ queue[a] # <<>>
      BY <2>4 DEF Take, Provenance
    <3>2. Head(queue[a]) \in held /\ Tail(queue[a]) \in Seq(held)
      BY <3>1
    <3>3. got' = [got EXCEPT ![a] = Head(queue[a])] \/ got' = [got EXCEPT ![a] = 0]
      BY <2>4 DEF Take, Decoded
    <3>4. queue' = [queue EXCEPT ![a] = Tail(queue[a])] /\ UNCHANGED version
      BY <2>4 DEF Take
    <3> QED
      BY <2>1, <3>2, <3>3, <3>4 DEF Provenance
  <2>5. CASE UNCHANGED <<version, got, queue>>
    BY <2>1, <2>5 DEF Provenance
  <2> QED
    BY <1>2, <2>2, <2>3, <2>4, <2>5
       DEF GossipStep, PollFails, Sleep, ReadOverlay, Read, ReadFails
<1>3. ASSUME NEW a \in Agent, Restart(a) PROVE Provenance'
  <2>1. PICK v \in held \union {0} : version' = [version EXCEPT ![a] = v]
    BY <1>3 DEF Restart
  <2>2. /\ queue' = [queue EXCEPT ![a] = <<>>] /\ got' = [got EXCEPT ![a] = 0]
        /\ held' = held
    BY <1>3 DEF Restart
  <2>3. <<>> \in Seq(held)
    OBVIOUS
  <2> QED
    BY <2>1, <2>2, <2>3 DEF Provenance
<1>4. ASSUME NEW a \in Agent, NEW v \in Version, Deliver(a, v) PROVE Provenance'
  <2>1. v \in held /\ queue[a] \in Seq(held)
    BY <1>1, <1>4 DEF Deliver, Announced, Provenance
  <2>2. Append(queue[a], v) \in Seq(held)
    BY <2>1
  <2> QED
    BY <1>4, <2>2 DEF Deliver, Provenance
<1>5. ASSUME NEW v \in Version, Submitted(v),
             UNCHANGED version \/ \E a \in Agent : version' = [version EXCEPT ![a] = v]
      PROVE  Provenance'
  <2>1. held' = held \union {v} /\ UNCHANGED <<queue, got>>
    BY <1>5 DEF Submitted
  <2>2. \A a \in Agent : queue[a] \in Seq(held')
    <3> SUFFICES ASSUME NEW a \in Agent PROVE queue[a] \in Seq(held')
      OBVIOUS
    <3>1. queue[a] \in Seq(held) /\ held \subseteq held'
      BY <2>1 DEF Provenance
    <3> QED
      BY <3>1
  <2> QED
    BY <1>5, <2>1, <2>2 DEF Provenance
<1>6. CASE UNCHANGED <<version, queue, got, held>>
  BY <1>6 DEF Provenance
<1> QED
  BY <1>2, <1>3, <1>4, <1>5, <1>6
     DEF Next, Change, SubmitToAgent, SubmitToOther, SubmitToServer, SubmitFails,
         ServerRestart, vars

LEMMA DisseminationStep ==
    ASSUME NetworkInv, Provenance, [Next]_vars
    PROVE  [Network!Next]_(Network!dvars)
<1> USE DEF Network!Next, Network!dvars, NetworkInv, TypeOK, linkVars, loopVars, serverVars
<1>1. \A x \in Version : x \in Nat
  BY VersionIsNat
<1>2. ASSUME NEW a \in Agent, StartReturns(a) \/ StartHangs(a)
      PROVE  [Network!Next]_(Network!dvars)
  <2>1. CASE Newer(a, got[a]) /\ Accept(a, got[a])
    <3>1. got[a] > version[a] /\ version' = [version EXCEPT ![a] = got[a]]
      BY <2>1 DEF Newer, Accept
    <3>2. got[a] \in Nat /\ version[a] \in Nat
      BY VersionIsNat
    <3>3. got[a] # 0
      BY <3>1, <3>2
    <3>4. got[a] \in held /\ got[a] \in Version
      BY <3>3 DEF Provenance
    <3>5. Network!Learn(a, got[a])
      BY <1>2, <3>1, <3>4 DEF StartReturns, StartHangs, Network!Learn
    <3> QED
      BY <3>4, <3>5
  <2>2. CASE UNCHANGED version
    BY <1>2, <2>2 DEF StartReturns, StartHangs
  <2> QED
    BY <1>2, <2>1, <2>2 DEF StartReturns, StartHangs
<1>3. ASSUME NEW a \in Agent, Restart(a) PROVE Network!AgentEnds(a)
  BY <1>3 DEF Restart, Accept, Network!AgentEnds
<1>4. ASSUME NEW v \in Version, SubmitToOther(v) \/ \E a \in Agent : SubmitToAgent(a, v)
      PROVE  Network!Submit(v)
  BY <1>4 DEF SubmitToOther, SubmitToAgent, Submitted, Newer, Accept, Network!Submit
<1>5. ASSUME NEW v \in Version, SubmitToServer(v) PROVE Network!Publish(v)
  <2>1. v \in held
    BY <1>1, <1>5, NetworkAssumption DEF SubmitToServer, AgentFirst, SubmittedIsHeld
  <2>2. \A w \in posted : v > w
    <3> SUFFICES ASSUME NEW w \in posted PROVE v > w
      OBVIOUS
    <3>1. v > Served /\ w <= Served /\ Served \in posted \union {0}
      BY <1>5 DEF SubmitToServer, ServedIsMax
    <3>2. v \in Nat /\ w \in Nat /\ Served \in Nat
      BY <3>1, VersionIsNat
    <3> QED
      BY <3>1, <3>2
  <2> QED
    BY <1>5, <2>1, <2>2 DEF SubmitToServer, Network!Publish
<1>6. CASE ServerRestart
  BY <1>6 DEF ServerRestart, Network!ServerEnds
<1>7. CASE UNCHANGED <<version, held, posted, restarts>>
  BY <1>7
<1> QED
  BY <1>2, <1>3, <1>4, <1>5, <1>6, <1>7
     DEF Next, GossipStep, Poll, PollFails, Sleep, ReadOverlay, Read, ReadFails, Take, Change,
         Deliver, SubmitFails, vars

\* The network implements Dissemination: submitCmd is Submit and Publish, Start in
\* the gossip goroutine is Learn, a restart of an agent or of the server is that,
\* and all else (announcing, polling, queueing, decoding) changes nothing of it.
THEOREM IsDisseminationHolds == Spec => IsDissemination
<1>1. Init => Network!Init
  BY DEF Init, Network!Init
<1> QED
  BY <1>1, NetworkInit, NetworkStep, ProvenanceInit, ProvenanceStep, DisseminationStep, PTL
     DEF Spec, IsDissemination, Network!Spec
=============================================================================

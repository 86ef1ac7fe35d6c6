--------------------------- MODULE GossipNetwork ---------------------------
(***************************************************************************)
(* How a version of an update gets from the command line to the agents:    *)
(* submitCmd posts it to an agent, then to the server (main.go); both, and *)
(* every agent that takes it over, announce it over the overlay; and the   *)
(* gossip goroutine of an agent reads its overlay when that is ready, or   *)
(* else polls the server (agent.go).                                       *)
(*                                                                         *)
(* The parts are what their own modules show them to be: the table of an   *)
(* agent and that of the server accept only newer versions                 *)
(* (UpdateLifecycle, ServerUpdates), and an overlay is a queue that fills  *)
(* only while it is ready (OverlayLink). All versions are of one uuid and  *)
(* verify as submitted. Agents act on each other only by announcing what   *)
(* one of them holds or held, and any of these may arrive at any time, so  *)
(* that Agent need not be all of them: others are where a version may be   *)
(* submitted, too.                                                         *)
(***************************************************************************)
EXTENDS Integers, Sequences, FiniteSetsExt

CONSTANTS
    Agent,           \* the agents that are followed
    Version,         \* the versions that may be submitted
    DirVersion,      \* those whose payload is a directory
    ReadTCPInterval, \* of the configuration, in turns of a second
    QueueLen,        \* capacity of peerDataChan
    MaxRestarts      \* bound on restarts of agents and of the server

ASSUME NetworkAssumption ==
    /\ Version \subseteq Nat \ {0}
    /\ DirVersion \subseteq Version
    /\ {ReadTCPInterval, QueueLen, MaxRestarts} \subseteq Nat

VARIABLES
    version,  \* agent -> version in its table, 0 for none
    ready,    \* agent -> Overlay.Ready()
    queue,    \* agent -> the versions whose notifications are in peerDataChan
    gossip,   \* agent -> where its gossip goroutine is
    got,      \* agent -> version of the notification it starts, 0 for none
    counter,  \* agent -> the local variable of startGossip
    buffer,   \* agent -> the kinds of payload bufNotification has fields of
    held,     \* the versions that some agent has accepted
    posted,   \* the versions that the server has accepted, and not lost
    submitted,\* version submitCmd is about to post to the server, or 0
    restarts  \* number of restarts so far

loopVars   == <<gossip, got, counter, buffer>>
linkVars   == <<ready, queue>>
serverVars == <<held, posted, submitted>>
vars == <<version, ready, queue, gossip, got, counter, buffer, held, posted,
          submitted, restarts>>

\* The server serves the newest version it accepted.
Served == Max(posted \union {0})

Init ==
    /\ version = [a \in Agent |-> 0]
    /\ ready = [a \in Agent |-> FALSE]
    /\ queue = [a \in Agent |-> <<>>]
    /\ gossip = [a \in Agent |-> "poll"]
    /\ got = [a \in Agent |-> 0]
    /\ counter = [a \in Agent |-> 0]
    /\ buffer = [a \in Agent |-> {}]
    /\ held = {} /\ posted = {} /\ submitted = 0
    /\ restarts = 0

-----------------------------------------------------------------------------
(* Update.Start, seen from outside *)

\* Seeded fault: every other version is taken for a newer one.
OtherVersion(a, v) == v # version[a] /\ v # 0

Newer(a, v) == v > version[a]

Accept(a, v) == version' = [version EXCEPT ![a] = v]

-----------------------------------------------------------------------------
(* startGossip *)

Goes(a, from, to) ==
    /\ gossip[a] = from
    /\ gossip' = [gossip EXCEPT ![a] = to]

\* readTCP: the server's updates are fetched, to be started.
Poll(a) ==
    /\ Goes(a, "poll", "start")
    /\ got' = [got EXCEPT ![a] = Served]
    /\ UNCHANGED <<version, linkVars, counter, buffer, serverVars, restarts>>

\* readTCP: the server cannot be reached.
PollFails(a) ==
    /\ Goes(a, "poll", "loop")
    /\ UNCHANGED <<version, linkVars, got, counter, buffer, serverVars, restarts>>

\* Start returns: the notification was accepted or not.
StartReturns(a) ==
    /\ Goes(a, "start", "loop")
    /\ IF Newer(a, got[a]) THEN Accept(a, got[a]) ELSE UNCHANGED version
    /\ got' = [got EXCEPT ![a] = 0]
    /\ UNCHANGED <<linkVars, counter, buffer, serverVars, restarts>>

\* Start waits for ever for the lock of the version it replaces (see
\* UpdateLifecycle, DeletionEnds).
StartHangs(a) ==
    /\ Goes(a, "start", "stuck")
    /\ Newer(a, got[a]) /\ version[a] # 0
    /\ Accept(a, got[a])
    /\ UNCHANGED <<linkVars, got, counter, buffer, serverVars, restarts>>

\* Seeded fault: the turns are not counted.
NextTurnForgotten(a) == 1

NextTurn(a) == counter[a] + 1

\* The overlay is not ready: sleep, and poll once the interval is over.
Sleep(a) ==
    /\ gossip[a] = "loop" /\ ~ready[a]
    /\ IF NextTurn(a) > ReadTCPInterval
         THEN counter' = [counter EXCEPT ![a] = 0] /\ Goes(a, "loop", "poll")
         ELSE counter' = [counter EXCEPT ![a] = NextTurn(a)] /\ UNCHANGED gossip
    /\ UNCHANGED <<version, linkVars, got, buffer, serverVars, restarts>>

\* The overlay is ready: read it.
ReadOverlay(a) ==
    /\ Goes(a, "loop", "read") /\ ready[a]
    /\ counter' = [counter EXCEPT ![a] = 0]
    /\ UNCHANGED <<version, linkVars, got, buffer, serverVars, restarts>>

\* OverlayConn.Read looks again, and then waits with no deadline.
Read(a) ==
    /\ Goes(a, "read", "wait") /\ ready[a]
    /\ UNCHANGED <<version, linkVars, got, counter, buffer, serverVars, restarts>>

\* It returns errNotReady.
ReadFails(a) ==
    /\ Goes(a, "read", "loop") /\ ~ready[a]
    /\ UNCHANGED <<version, linkVars, got, counter, buffer, serverVars, restarts>>

Kind(v) == IF v \in DirVersion THEN "directory" ELSE "file"

\* Seeded fault: what arrives while the overlay closes is thrown away.
DecodedIfReady(a, v) == IF ready[a] /\ buffer'[a] = {Kind(v)} THEN v ELSE 0

\* Decoding leaves alone the fields of bufNotification a message does not have.
\* A directory has files and no length: after both kinds a notification has
\* both fields, and does not verify any more.
Decoded(a, v) == IF buffer'[a] = {Kind(v)} THEN v ELSE 0

\* readOverlay: a message is taken from the queue and decoded.
Take(a) ==
    /\ Goes(a, "wait", "start") /\ queue[a] # <<>>
    /\ queue' = [queue EXCEPT ![a] = Tail(@)]
    /\ buffer' = [buffer EXCEPT ![a] = @ \union {Kind(Head(queue[a]))}]
    /\ got' = [got EXCEPT ![a] = Decoded(a, Head(queue[a]))]
    /\ UNCHANGED <<version, ready, counter, serverVars, restarts>>

-----------------------------------------------------------------------------
(* The overlay of the agent (OverlayLink), and what arrives there *)

Change(a) ==
    /\ ready' = [ready EXCEPT ![a] = ~@]
    /\ UNCHANGED <<version, queue, loopVars, serverVars, restarts>>

\* What has been announced: by the server, five times after a POST; by agents,
\* from the monitor, five times after a POST, and on a PATCH. Datagrams may be
\* lost, late, and in any order, and a multicast ends at the first error. One
\* whose signature was damaged before (UpdateLifecycle, sig) counts as lost. Whether
\* the sender's overlay is ready is not asked: what it sent when it was, the network
\* may still hold.
Announced == held \union posted

Deliver(a, v) ==
    /\ v \in Announced /\ ready[a] /\ Len(queue[a]) < QueueLen
    /\ queue' = [queue EXCEPT ![a] = Append(@, v)]
    /\ UNCHANGED <<version, ready, loopVars, serverVars, restarts>>

-----------------------------------------------------------------------------
(* submitCmd *)

\* submitToAgent: the agent accepts the version. After five seconds without an
\* answer submitCmd gives up.
Submitted(v) ==
    /\ submitted = 0
    /\ held' = held \union {v}
    /\ submitted' = v \/ UNCHANGED submitted
    /\ UNCHANGED <<linkVars, loopVars, posted, restarts>>

SubmitToAgent(a, v) == Submitted(v) /\ Newer(a, v) /\ Accept(a, v)

SubmitToOther(v) == Submitted(v) /\ UNCHANGED version

\* Seeded fault: the server comes first.
ServerFirst(v) == submitted = 0

AgentFirst(v) == submitted = v

\* submitToServer: the server accepts the version.
SubmitToServer(v) ==
    /\ AgentFirst(v) /\ v > Served
    /\ posted' = posted \union {v}
    /\ submitted' = 0
    /\ UNCHANGED <<version, linkVars, loopVars, held, restarts>>

\* submitToServer: the request fails, or the server has that version or a newer
\* one. The version stays with the agent, which refuses it from then on.
SubmitFails ==
    /\ submitted # 0 /\ submitted' = 0
    /\ UNCHANGED <<version, linkVars, loopVars, held, posted, restarts>>

-----------------------------------------------------------------------------
\* A crash of the agent, and its restart: it loads a version it had saved, or
\* none (UpdateLifecycle, IsRegister).
Restart(a) ==
    /\ restarts < MaxRestarts /\ restarts' = restarts + 1
    /\ \E v \in held \union {0} : v <= version[a] /\ Accept(a, v)
    /\ ready' = [ready EXCEPT ![a] = FALSE]
    /\ queue' = [queue EXCEPT ![a] = <<>>]
    /\ gossip' = [gossip EXCEPT ![a] = "poll"]
    /\ got' = [got EXCEPT ![a] = 0]
    /\ counter' = [counter EXCEPT ![a] = 0]
    /\ buffer' = [buffer EXCEPT ![a] = {}]
    /\ UNCHANGED serverVars

\* A crash of the server, and its restart: what it accepted after its last save
\* that ended is lost (ServerUpdates, Durable).
ServerRestart ==
    /\ restarts < MaxRestarts /\ restarts' = restarts + 1
    /\ \E v \in posted \union {0} : posted' = {w \in posted : w <= v}
    /\ UNCHANGED <<version, linkVars, loopVars, held, submitted>>

GossipStep(a) ==
    \/ Poll(a) \/ StartReturns(a)
    \/ Sleep(a) \/ ReadOverlay(a) \/ Read(a) \/ ReadFails(a) \/ Take(a)

Next ==
    \/ \E a \in Agent :
         \/ GossipStep(a) \/ PollFails(a) \/ StartHangs(a)
         \/ Change(a)
         \/ Restart(a)
         \/ \E v \in Version : Deliver(a, v) \/ SubmitToAgent(a, v)
    \/ \E v \in Version : SubmitToOther(v) \/ SubmitToServer(v)
    \/ SubmitFails
    \/ ServerRestart

Spec == Init /\ [][Next]_vars

\* The gossip goroutine runs; a server that is polled again and again is reached
\* in the end; and an overlay that startGossip finds ready again and again is
\* still so in the end when Read looks again, a moment later.
Fairness ==
    \A a \in Agent : WF_vars(GossipStep(a)) /\ SF_vars(Poll(a)) /\ SF_vars(Read(a))

LiveSpec == Spec /\ Fairness

-----------------------------------------------------------------------------
(* Properties *)

\* Every variable holds a value of its type.
TypeOK ==
    /\ version \in [Agent -> Version \union {0}]
    /\ ready \in [Agent -> BOOLEAN]
    /\ queue \in [Agent -> Seq(Version)]
    /\ gossip \in [Agent -> {"poll", "start", "loop", "read", "wait", "stuck"}]
    /\ got \in [Agent -> Version \union {0}]
    /\ counter \in [Agent -> Nat]
    /\ buffer \in [Agent -> SUBSET {"file", "directory"}]
    /\ held \subseteq Version /\ posted \subseteq Version
    /\ submitted \in Version \union {0}
    /\ restarts \in Nat

Hangs(a) == gossip[a] = "stuck"

\* The fallback to TCP: an agent learns what the server has, unless the server
\* loses it in a crash, or the agent hangs in Start, or as long as it is behind
\* goes back to Read again and again, which waits for a message and does not
\* notice that the overlay is gone.
FallsBack ==
    \A a \in Agent, v \in Version :
        (Served >= v) ~>
            version[a] >= v \/ Served < v \/ gossip[a] = "wait" \/ Hangs(a)

\* What has come through the overlay is learned, even when the overlay breaks
\* down meanwhile: unless the agent polls the server instead, as it does when it
\* restarts, or hangs in Start, or has read notifications of both kinds.
ReadIsLearned ==
    \A a \in Agent, v \in Version :
        (\E i \in DOMAIN queue[a] : queue[a][i] = v) ~>
            \/ version[a] >= v
            \/ gossip[a] = "poll" \/ Hangs(a)
            \/ buffer[a] = {"file", "directory"}

\* What the server announces and serves has been accepted by an agent, which has
\* a copy of the payload to seed (submitCmd).
AgentBeforeServer == posted \subseteq held

\* However announcements, polls, submissions and restarts interleave, the network
\* is a Dissemination: whatever way a version comes to an agent, through queues,
\* the buffer of its gossip goroutine and a server that may have lost it since,
\* an agent had accepted it when it was submitted; the server goes forward, and
\* only a restart takes anybody back, to what had been accepted before.
Network == INSTANCE Dissemination WITH has <- version, ends <- restarts
IsDissemination == Network!Spec
=============================================================================

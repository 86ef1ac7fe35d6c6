---------------------------- MODULE SessionTable ----------------------------
(***************************************************************************)
(* How peers find each other: the server's table of sessions (server.go),  *)
(* the workers that serve the binding requests of the peers, and the copy  *)
(* every overlay keeps (overlaysock.go). Datagrams are lost and overtake   *)
(* each other. A session is four addresses: external, internal, and those  *)
(* of the torrent client; no address is used by two peers.                 *)
(***************************************************************************)
EXTENDS Naturals, Sequences

CONSTANTS
    Peer,         \* the agents
    Worker,       \* the goroutines that serve UDP
    Changes,      \* peer -> which of its addresses may change together
    MaxMoves,     \* bound on such changes
    MaxCrashes,   \* bound on ends of the server
    None

\* The n-th address of a peer.
Address == Peer \X Nat
Session == [1..4 -> Address]

ASSUME SessionAssumption ==
    /\ Peer \intersect Worker = {}
    /\ None \notin Peer \union Session
    /\ Changes \in [Peer -> SUBSET SUBSET (1..4)]
    /\ MaxMoves \in Nat /\ MaxCrashes \in Nat

VARIABLES
    up,       \* the server runs
    peers,    \* s.peers: peer -> session or None
    pc,       \* worker -> where it is in registerPeer
    pid,      \* worker -> the peer it serves
    updated,  \* worker -> result of updateSessionTable
    dest,     \* worker -> destAddr of advertiseSessionTableToPeer
    unseen,   \* worker -> peers its iteration has not come to
    req,      \* binding requests under way to the server
    ind,      \* binding indications under way to peers
    cur,      \* peer -> its addresses now
    known,    \* peer -> overlay.peers: peer -> session or None
    had,      \* history: peer -> the sessions it has had
    moves, crashes

workerVars == <<pc, pid, updated, dest, unseen>>
agentVars  == <<cur, known, had, moves>>
vars == <<up, peers, pc, pid, updated, dest, unseen, req, ind, cur, known, had,
          moves, crashes>>

Nobody == [p \in Peer |-> None]

External(s) == s[1]

Init ==
    /\ up = TRUE /\ crashes = 0
    /\ peers = Nobody
    /\ pc = [w \in Worker |-> "idle"]
    /\ pid = [w \in Worker |-> None]
    /\ updated = [w \in Worker |-> FALSE]
    /\ dest = [w \in Worker |-> None]
    /\ unseen = [w \in Worker |-> {}]
    /\ req = {} /\ ind = {}
    /\ cur = [p \in Peer |-> [i \in 1..4 |-> <<p, 0>>]]
    /\ known = [p \in Peer |-> Nobody]
    /\ had = [p \in Peer |-> {cur[p]}]
    /\ moves = 0

-----------------------------------------------------------------------------
(* The agents *)

\* sendKeepAlive, and binding: a request with the peer's id and addresses.
SendRequest(p) ==
    /\ req' = req \union {[pid |-> p, sess |-> cur[p]]}
    /\ UNCHANGED <<up, peers, workerVars, ind, agentVars, crashes>>

\* Peer p gets new addresses at some places: the NAT gives it another external
\* one ({1}), the overlay opens again, at a port the system chooses ({1, 2}), or
\* the agent restarts and chooses a port for the torrent client as well (1..4).
Move(p) ==
    /\ moves < MaxMoves
    /\ moves' = moves + 1
    /\ \E I \in Changes[p] :
         /\ cur' = [cur EXCEPT ![p] = [i \in 1..4 |-> IF i \in I THEN <<p, moves'>> ELSE @[i]]]
         /\ had' = [had EXCEPT ![p] = @ \union {cur'[p]}]
         /\ known' = IF I = 1..4 THEN [known EXCEPT ![p] = Nobody] ELSE known
    /\ UNCHANGED <<up, peers, workerVars, req, ind, crashes>>

\* An indication arrives at the peer it was addressed to, if the peer is still
\* there, and overwrites the entry of overlay.peers.
Arrive(m) ==
    /\ m \in ind
    /\ ind' = ind \ {m}
    /\ known' = IF External(cur[m.to]) = m.addr
                  THEN [known EXCEPT ![m.to][m.about] = m.sess] ELSE known
    /\ UNCHANGED <<up, peers, workerVars, req, cur, had, moves, crashes>>

Lose ==
    /\ \/ \E m \in req : req' = req \ {m} /\ UNCHANGED ind
       \/ \E m \in ind : ind' = ind \ {m} /\ UNCHANGED req
    /\ UNCHANGED <<up, peers, workerVars, agentVars, crashes>>

-----------------------------------------------------------------------------
(* The server *)

\* Session.Equal, as written: FALSE as soon as one address is the same.
Equal(s, ss) == \A i \in 1..4 : ss[i] # s[i]

\* Seeded fault: a peer nobody knows is taken for an unchanged one.
UnchangedOrNew(p, s) == peers[p] = None \/ Equal(peers[p], s)

\* Seeded fault: a peer that is known at all is taken for an unchanged one.
UnchangedIfKnown(p, s) == peers[p] # None

\* What updateSessionTable takes for a session that has not changed.
Unchanged(p, s) == IF peers[p] = None THEN FALSE ELSE Equal(peers[p], s)

\* A worker takes a request, in any order, as three of them and the network
\* compete; updateSessionTable runs under the lock.
Register(w, m) ==
    /\ up /\ pc[w] = "idle" /\ m \in req
    /\ req' = req \ {m}
    /\ pid' = [pid EXCEPT ![w] = m.pid]
    /\ updated' = [updated EXCEPT ![w] = ~Unchanged(m.pid, m.sess)]
    /\ peers' = IF Unchanged(m.pid, m.sess) THEN peers
                ELSE [peers EXCEPT ![m.pid] = m.sess]
    /\ pc' = [pc EXCEPT ![w] = "reply"]
    /\ UNCHANGED <<up, dest, unseen, ind, agentVars, crashes>>

\* The worker has finished with the request.
Finish(w) ==
    /\ pc' = [pc EXCEPT ![w] = "idle"]
    /\ pid' = [pid EXCEPT ![w] = None]
    /\ updated' = [updated EXCEPT ![w] = FALSE]

\* sendBindingSuccess looks the session up. The reply changes no session, as its
\* table is empty, and so takes no step of its own.
Replies(w) == pc[w] = "reply" /\ peers[pid[w]] # None

\* registerPeer ends there if its write fails or the session had not changed.
ReplyOnly(w) ==
    /\ Replies(w)
    /\ Finish(w)
    /\ UNCHANGED <<up, peers, dest, unseen, req, ind, agentVars, crashes>>

\* Seeded fault: the session sent is that of the destination.
IndicationOfDest(p, a, q) == [to |-> p, addr |-> a, about |-> q, sess |-> peers[p]]

\* A binding indication that tells p, at address a, of peer q.
Indication(p, a, q) == [to |-> p, addr |-> a, about |-> q, sess |-> peers[q]]

Present == {p \in Peer : peers[p] # None}

\* Otherwise advertiseNewPeer follows, under the read lock.
AdvertiseNewPeer(w) ==
    /\ Replies(w) /\ updated[w]
    /\ ind' = ind \union {Indication(p, External(peers[p]), pid[w]) :
                            p \in Present \ {pid[w]}}
    /\ pc' = [pc EXCEPT ![w] = "lookup"]
    /\ UNCHANGED <<up, peers, pid, updated, dest, unseen, req, agentVars, crashes>>

\* The iteration has these peers left to come to, and sends to address d; with
\* none left the worker has finished with the request.
GoesOn(w, left, d) ==
    /\ unseen' = [unseen EXCEPT ![w] = left]
    /\ IF left = {}
         THEN Finish(w) /\ dest' = [dest EXCEPT ![w] = None]
         ELSE /\ dest' = [dest EXCEPT ![w] = d]
              /\ pc' = [pc EXCEPT ![w] = "table"]
              /\ UNCHANGED <<pid, updated>>

\* advertiseSessionTableToPeer first looks up where to send the table to.
TableStart(w) ==
    /\ pc[w] = "lookup"
    /\ GoesOn(w, Peer \ {pid[w]}, External(peers[pid[w]]))
    /\ UNCHANGED <<up, peers, req, ind, agentVars, crashes>>

\* One round of advertiseSessionTableToPeer, without a lock: an entry made
\* since the iteration began may be seen or missed.
TableEntry(w, q) ==
    /\ pc[w] = "table" /\ q \in unseen[w]
    /\ GoesOn(w, unseen[w] \ {q}, dest[w])
    /\ ind' = IF peers[q] = None THEN ind
              ELSE ind \union {Indication(pid[w], dest[w], q)}
    /\ UNCHANGED <<up, peers, req, agentVars, crashes>>

\* advertiseSessionTable, called by a ticker, under the read lock.
AdvertiseSessionTable ==
    /\ up
    /\ ind' = ind \union
         UNION {{Indication(p, External(peers[p]), q) : q \in Present \ {p}} :
                  p \in Present}
    /\ UNCHANGED <<up, peers, workerVars, req, agentVars, crashes>>

\* The process ends, and with it the table and whatever a worker was doing. The
\* Go runtime itself ends it when it finds a worker that iterates over the map,
\* without the lock, while another writes to it.
Crash ==
    /\ up /\ crashes < MaxCrashes
    /\ crashes' = crashes + 1
    /\ up' = FALSE
    /\ peers' = Nobody
    /\ pc' = [w \in Worker |-> "idle"]
    /\ pid' = [w \in Worker |-> None]
    /\ updated' = [w \in Worker |-> FALSE]
    /\ dest' = [w \in Worker |-> None]
    /\ unseen' = [w \in Worker |-> {}]
    /\ UNCHANGED <<req, ind, agentVars>>

\* systemd restarts the server, whose table is empty.
Restart ==
    /\ ~up /\ up' = TRUE
    /\ UNCHANGED <<peers, workerVars, req, ind, agentVars, crashes>>

-----------------------------------------------------------------------------
WorkerStep(w) ==
    \/ ReplyOnly(w)
    \/ AdvertiseNewPeer(w)
    \/ TableStart(w)
    \/ \E q \in Peer : TableEntry(w, q)

Next ==
    \/ \E p \in Peer : SendRequest(p) \/ Move(p)
    \/ \E m \in ind : Arrive(m)
    \/ Lose
    \/ \E w \in Worker : WorkerStep(w)
    \/ \E w \in Worker, m \in req : Register(w, m)
    \/ AdvertiseSessionTable
    \/ Crash
    \/ Restart

Spec == Init /\ [][Next]_vars

\* The datagram with p's addresses, and one that tells q of them.
Current(p) == [pid |-> p, sess |-> cur[p]]
RegisterCurrent(p) == \E w \in Worker : Register(w, Current(p))
ArriveCurrent(p, q) ==
    Arrive([to |-> q, addr |-> External(cur[q]), about |-> p, sess |-> cur[p]])

\* Tickers and goroutines run, systemd restarts the server; a datagram that is
\* sent again and again arrives in the end. (Strong fairness of RegisterCurrent
\* would not say so: requests could all get lost just when no worker is idle.)
Fairness ==
    /\ WF_vars(AdvertiseSessionTable)
    /\ WF_vars(Restart)
    /\ \A w \in Worker : WF_vars(WorkerStep(w))
    /\ \A p \in Peer :
         /\ WF_vars(SendRequest(p))
         /\ []<>(Current(p) \in req) => []<><<RegisterCurrent(p)>>_vars
         /\ \A q \in Peer \ {p} : SF_vars(ArriveCurrent(p, q))

LiveSpec == Spec /\ Fairness

-----------------------------------------------------------------------------
(* Properties *)

\* Every variable holds a value of its type.
TypeOK ==
    /\ up \in BOOLEAN
    /\ peers \in [Peer -> Session \union {None}]
    /\ pc \in [Worker -> {"idle", "reply", "lookup", "table"}]
    /\ pid \in [Worker -> Peer \union {None}]
    /\ updated \in [Worker -> BOOLEAN]
    /\ dest \in [Worker -> Address \union {None}]
    /\ unseen \in [Worker -> SUBSET Peer]
    /\ req \subseteq [pid : Peer, sess : Session]
    /\ ind \subseteq [to : Peer, addr : Address, about : Peer, sess : Session]
    /\ cur \in [Peer -> Session]
    /\ known \in [Peer -> [Peer -> Session \union {None}]]
    /\ had \in [Peer -> SUBSET Session]
    /\ moves \in Nat /\ crashes \in Nat

\* sendBindingSuccess returns with the read lock held when the table has no
\* session of the peer, and would block every later writer: a worker that is
\* past updateSessionTable always finds one.
ReplyFindsSession ==
    \A w \in Worker : pc[w] # "idle" => pid[w] \in Peer /\ peers[pid[w]] # None

\* Nobody is mixed up with somebody else, and no addresses are put together from
\* several of a peer's: what the server or another overlay has of a peer is a
\* session that this peer has had, however workers interleave (each looks the
\* destination and the sessions up at different times), datagrams overtake each
\* other, and the server restarts.
SessionsAreOwn ==
    \A p \in Peer :
        /\ peers[p] # None => peers[p] \in had[p]
        /\ \A q \in Peer : known[q][p] # None => known[q][p] \in had[p]

\* Once addresses and server are stable the table has the addresses a peer has,
\* although requests overtake each other.
Registered == \A p \in Peer : <>[](peers[p] = cur[p])

\* Then every other peer learns them too.
EveryoneLearns ==
    \A p, q \in Peer : p # q => <>[](known[q][p] = cur[p])

\* "Equal returns true of this and given sessions are the same" (common.go): the
\* server leaves a session as it is only if it is the same.
UnchangedIsSame ==
    [][\A w \in Worker, m \in req :
         Register(w, m) /\ peers'[m.pid] = peers[m.pid] => peers[m.pid] = m.sess]_vars
=============================================================================

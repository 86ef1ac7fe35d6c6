# Verification of p2p-update

p2p-update distributes software updates to many agents. A *server* keeps the
newest version of every update and a table of the addresses of its peers; each
*agent* receives notifications over an overlay of UDP (STUN) messages, falls
back to polling the server over TCP, fetches payloads with BitTorrent, deploys
them, and serves a local API. This directory holds TLA+ models of the parts
whose behaviour depends on interleavings, crashes and ordering, the TLC
configurations that check them on small instances, and proofs that hold for
every size, checked by TLAPS.

Run `tlc -config lifecycle_X.cfg MCUpdateLifecycle.tla` (`server_X.cfg` with
`MCServerUpdates.tla`, `sessions_X.cfg` with `MCSessionTable.tla`, `overlay.cfg`
with `Overlay.tla`, `gossip_network.cfg` with `GossipNetwork.tla`) for a
configuration and `tlapm M.tla` for the proofs of a module whose name ends in
`Proofs`. `PROJECT.json` lists the runs,
the code lines behind every definition, the seeded faults that show each
property can fail, the hazards and the findings.

## 1. Inventory

| Component | Source | State | Operations | Talks to |
|---|---|---|---|---|
| Update lifecycle | `update.go`, `agent.go` (table, `loadUpdates`), `api.go` (POST, DELETE) | `a.updates`; per `Update` a lock, `Stopped`, `Sent`, `Deployed`, `DeployFails`, the torrent; the metadata and data directories | `NewUpdate`, `Start`, `Stop`, `Delete`, `monitor`, `deploy`, `Save`, `loadUpdates`, POST, DELETE | torrent client, overlay, disk |
| Server: update database | `server.go` 45-175, 471-501 | `updates` under a lock, dirty times, the database file | `NewServer`, GET and POST `/updates`, `saveUpdates`, `loadUpdates` | CLI, agents that poll, session table (notifications) |
| Server: session table and STUN workers | `server.go` 177-469, `common.go` | `peers` under an RWMutex, a queue of packets, three workers | `serveUDP`, `udpWorker`, `registerPeer`, `sendBindingSuccess`, `updateSessionTable`, `advertiseNewPeer`, `advertiseSessionTable` | overlay of every peer |
| Overlay connection | `overlaysock.go`, `automata.go` | the automaton's state, `conn`, `stun`, `errCount`, `msg`, `channelExpired`, `peers`, `peerDataChan` (16 slots) | `opening`, `binding`, `bindError`, `listening`, `processingMessage`, `sendKeepAlive`, `messageError`, `Read`, `Write` | STUN workers, other overlays, gossip |
| Gossip loop | `agent.go` 311-358 | none but the loop's position | `startGossip`, `readTCP`, `readOverlay` | overlay, server, update lifecycle |
| Reception of notifications | `agent.go` 24-44, 358-376, `notification.go` | the global notification every message is decoded into | `readOverlay`, `Read`, `Write` | overlay |
| Submission | `main.go` 26-127 | none | `submitCmd`, `submitToServer`, `submitToAgent` | server, agent |
| Pure helpers | `common.go`, `notification.go` | none | `Session.Equal`, `PeerID`, `TorrentPorts`, piece length | all |
| Read-only API, configuration, payload unpacking | `api.go`, `main.go`, `update.go` 292-339 | files | | |

What is hard in them, and what makes each correct:

* **Update lifecycle.** Gossip and every API request run in their own goroutine
  and each `Update` has a monitor; `Start` holds the lock of the new update
  while it stops and deletes the old one, `Stop` and `Delete` take that lock
  twice, the monitor saves after it has unlocked, and a crash can fall between
  any two of these. Correct when: every active update is in the table or about
  to be stopped, and what is in the table is worked on; an update is
  stopped by one thread; two versions are never deployed together and never in decreasing order; removing an old version
  keeps the files of the new one; a restart comes back with the newest whole
  version and repeats no deployment that reached the disk; deployments are
  tried until they succeed or the limit is passed; locks are released.
* **Server database.** POST and the periodic save share one lock, and the save
  truncates the file first. Correct when: a version served never decreases
  within a life, the file holds what was posted once it is clean, and a
  restart serves at least the last completed snapshot.
* **Session table.** Three workers serve packets in any order; a table is read
  outside its lock; datagrams are lost. Correct when: a peer that keeps sending
  keep-alives is found at its latest address and every peer learns of it.
* **Overlay.** Events are raised from several goroutines and by callbacks from
  inside callbacks; the automaton reads its state without the lock, and the
  callbacks use the connection without one. Correct when: one goroutine at a
  time drives it and never none; nobody uses a connection that is being closed, and
  the goroutine that drives it none that is nil; it always gets back to a state in
  which it listens; creating it ends.
* **Gossip.** One goroutine both reads the overlay and polls the server. Correct
  when an agent whose overlay is down still learns what the server has, when what
  it has read is not lost, and when late messages take it back to no older
  version (which `IsDissemination` includes).
* **Submission.** Correct when the server announces no version before an agent
  has its payload.

Section 10 says what is not modelled yet; `PROJECT.json` lists every component
and hazard with its line.

## 2. Plan

1. `UpdateLifecycle` (the core of the program): **done**, with its proofs.
2. `ServerUpdates`: the update database and its snapshots, with crashes and
   failed writes, and `DurableRegister`, the abstract store it implements:
   **done**, the refinement checked and proved.
3. `SessionTable`: the workers, keep-alives, lost and reordered datagrams:
   **done**, with a first proof.
4. `Overlay`: the automaton, its callbacks and the goroutines that raise events,
   with the STUN client as an external part, and `OverlayLink`, what the gossip
   sees of it: **done**, with its proofs.
5. `GossipNetwork`: submission, announcements, the gossip loop over an
   `OverlayLink` and its fallback to the server, the buffer that messages are
   decoded into: **done**, with its proofs.
6. The signatures in that buffer, in `UpdateLifecycle`: **done**, and the proofs
   of `DeployedInOrder`, `LoadedNewest` and `PersistedOnce`.
7. What each part promises the others, as abstract specifications: `AgentRegister`
   for the update lifecycle, `Dissemination` for the network: **done**, the
   refinements checked and proved.
8. The rest of the safety properties that hold for every size: the order in which
   locks are waited for (`LocksInOrder`), the bound on failing deployments
   (`FailsBounded`), that the table holds nothing that is not worked on
   (`TableIsServed`), what a DELETE can take from it (`OnlyTwinsLose`), whose
   sessions the tables hold (`SessionsAreOwn`),
   `SomeDriver` with failed sends, how many drivers failed sends can bring
   (`DriversBounded`), that `NewOverlayConn` returns (`StartupEnds`): **done**, with their proofs.
9. What is left: several uuids and DELETE in the network (section 10).

## 3. The model of the update lifecycle

`UpdateLifecycle.tla` models one agent. `MCUpdateLifecycle.tla` gives TLC its
sets and symmetry; `UpdateLifecycleProofs.tla` holds the theorems.

| Variables | Code |
|---|---|
| `phase`, `overlay`, `todo` | the process: down, in `NewAgent`'s `loadUpdates`, running, or ended by a panic; whether `a.Overlay` is set; files still to be loaded |
| `updates` | `a.updates.m` |
| `note`, `stopped`, `sent`, `deployed`, `fails`, `torrent` | the fields of each `Update` object; objects are allocated from `Obj` |
| `holder` | who holds each object's write lock; the object itself stands for its monitor |
| `mon` | where each monitor is: before its first pass (`fresh`, `toSave` true), before another pass (`asleep`), running the script (`deploying`), about to open (`saving`) or to write (`writing`) the metadata file, or out of its loop |
| `linked` | the file that a Save has open is still the one in the directory |
| `client` | the torrent client's torrent for each notification |
| `pc`, `req`, `new`, `old` | the goroutines that call `Start` or serve a DELETE, with `u` and `old` of `Start` |
| `data`, `meta` | the two directories; a metadata file is absent, torn or whole |
| `sig` | what has become of the signature in each object's notification: its own, or in the map shared with `bufNotification` and there still its own, or that of another update |
| `done`, `crashes` | history: what this life of the process has deployed, the crashes so far |

| Actions | Code |
|---|---|
| `Poll`, `ReadOverlay`, `LoadFile`, `Post` and `StartPosted` | the four callers of `Start`: `readTCP`, `readOverlay`, `loadUpdates`, POST (the payload is copied first, without a lock) |
| `Overwrite` | decoding a message into `bufNotification` puts its signature into the map that all notifications decoded there share |
| `Accept`, `Ignore` | `Start` up to and including `addUpdate`: lock, verify, replace the table's entry if the version is newer |
| `StopOld`, `RemoveData`, `RemoveMeta` | `old.Stop()` and the two removals of `old.Delete()` |
| `Activate`, `ActivateFails` | the torrent is added and the monitor spawned, or `AddTorrent` fails |
| `Delete` | `requestDeleteUpdate`, which goes on with the same three steps |
| `MonitorStop` | the pass that finds the update stopped and breaks out of the loop *with the lock held* (`update.go:172`) |
| `MonitorDownload`, `MonitorSeed`, `MonitorRefuse`, `MonitorUndeployable`, `MonitorDeploy` | the other outcomes of a pass |
| `DeploySucceeds`, `DeployFails` | the end of the script and the counter of failures |
| `SaveOpen`, `SaveWrite` | `Save`: create or truncate without a lock, then write under the read lock |
| `Complete`, `Crash`, `Restart`, `OverlayPanic` | the torrent client; the end of the process at any point and its start by the service manager; the nil overlay of `NoUDP`, dereferenced by a monitor's first pass, by PATCH, by the rebroadcasts after a POST and by GET of the peers |

**Grain.** A step is what a goroutine does between two points at which another
can see its effects. Code under one lock is one step unless it sleeps, waits for
another lock, runs the script or touches the disk twice: so `Stop` and `Delete`
are separate, and so are the two removals, the opening and the writing of a
metadata file, and the start and end of a script.

**`AgentRegister.tla`** is what the agent is to those who send it notifications: down,
loading or up, and a set of notifications that are no news to it. While it is up
it takes over one genuine newer notification at a time, and with it all older
versions of the uuid; loading adds nothing; a failure may take away the newest
ones and adds nothing. `UpdateLifecycle` implements it (`IsRegister`) under `state <-`
the phase, where a panic is down, and `known <- Known`: what the table covers,
and, while loading, what the intact files still to be read will make it cover.
The point is that a step of `loadUpdates` changes none of it, in whatever order
the files come, that the five seconds and two removals between two versions are
one step of the register, and that a crash between any of them never adds or
loses more than the newest. It is checked and proved without DELETE, which
makes an agent that is up forget.

**Abstractions.** What verifies as it was sent is a set `Verified`; `Heard` is what
overlay messages carry, and may be empty where signatures do not matter. A deployment over several
files is one outcome. `Deployed` is set or unset. File operations succeed
unless a crash comes between them. Torrents are shared by infohash: a handle
whose torrent another object dropped may report anything, which `MayMiss` and
`MayBeWhole` allow: the handle (`torrent`) is not the torrent (`client`), and
`TableIsServed` speaks of both. A crash stands for a signal, a power failure or the end of
the service, and the configuration (overlay or not) may differ after it.

## 4. The models of the server

The server's goroutines share one lock. What they do with the database and what
they do with the session table touch no common variable, so each has a module of
its own; what is lost is only who waits for whom, and no step holds the lock for
ever (`ReplyFindsSession` excludes the one path that would).

**`ServerUpdates.tla`.** `updates`, `lastModified`, `lastSaved` are the fields of
the server, `db` the file (absent, torn or whole), `saver` whether `saveUpdates`
is between truncating and writing, `saved` (history) what the last save that
ended wrote. `Post` and `PostRefused` are `servePostRequest`, `SaveOpen`,
`SaveWrite`, `SaveFails` are `saveUpdates`, `Restart` is `NewServer` with
`loadUpdates`: it is not enabled on a torn file, as `NewServer` then returns an
error. GET only reads. An `OpenFile` that fails leaves the file and everything else
as it is, and is no step. Version 0, which the server would accept for a new uuid and
`submitCmd` never sends, stands for no version in the module and is left out.
Times are counted in modifications: two POSTs are never given the same time. What a write that ended has put in the file is assumed to
survive a crash.

**`DurableRegister.tla`** is the promise: versions grow while the store is alive,
and it comes back with what it last made stable. `ServerUpdates` implements it
under `alive <- phase = "up"`, `cur <- updates`, `stable <- saved`: POST is
`Put`, the end of a save `Sync`, a crash `Fail`, a start that succeeds `Recover`.

**`SessionTable.tla`.** `peers` is `s.peers`; `pc`, `pid`, `updated`, `dest`,
`unseen` are the workers' places and locals; `req` and `ind` the datagrams under
way; `cur` the addresses a peer has, `known` the tables of the overlays; `had`
(history) the addresses each peer has had.

| Actions | Code |
|---|---|
| `SendRequest` | `sendKeepAlive` and `binding`: a binding request with the peer's id and addresses |
| `Move` | other addresses: a NAT, the overlay that opens again at another port, the agent that restarts |
| `Register` | a worker takes a request and runs `updateSessionTable` |
| `ReplyOnly`, `AdvertiseNewPeer` | `sendBindingSuccess`, and `advertiseNewPeer` if the session was updated |
| `TableStart`, `TableEntry` | `advertiseSessionTableToPeer`, which reads the table entry by entry without the lock; with the last entry the worker is idle again (`GoesOn`) |
| `AdvertiseSessionTable` | the same for all peers, called by a ticker under the read lock |
| `Arrive`, `Lose` | an indication reaches the overlay (`overlay.updateSessionTable`), or is lost |
| `Crash`, `Restart` | the end of the process, also by the Go runtime when it finds a map iterated and written at once; the new process has an empty table |

An address is the n-th of its peer, so that no two peers have one in common; a
session is four of them, and `Equal` is the code's comparison as written. Requests
are served in any order, which stands for UDP, the kernel's buffer, the queue of 100 jobs and the competition of the workers
together. The announcement of a new version to all sessions
(`sendUpdateNotificationOverUDP`) reads the table and changes nothing here.

## 5. The models of the overlay and of the network

**`Overlay.tla`** is the overlay of one agent. A goroutine is `NewOverlayConn`'s
(`Main`), the reader or the collector of a socket's STUN client, or the one that
`closed` spawns for that socket. Nested calls of `Event` never go on after the
inner call returns, with one exception, so a goroutine is not a stack but its
place `at` in the innermost call with `arg`, and `owed`: how many calls of
`binding` above have still to raise the error of a `Start` that failed.

| Variables and actions | Code |
|---|---|
| `state`; `LookUp`, `Move`, `Call` | `Event`: the transition is looked up without the lock, made under it, the callback looked up without it. Other goroutines may come in between |
| `conn`, `status`; `Closed`, `OpeningOk`, `OpeningFails`, `Shut` | `overlay.conn` and `overlay.stun`; a socket is open, about to be closed by `closed`'s goroutine, or shut. `Client` holds as many sockets as are alive at once; one that nobody uses any more stands for the next. `NewClient` fails only without a connection, which `opening` excludes |
| `pending`; `BindingSent`, `Answer`, `Invalid`, `Timeout`, `Ended` | the STUN client: `Start` returns once the request is sent, and the handler is called once, by the reader, by the collector, or by `Close` |
| `BindingFails` | the request cannot be sent: `Start` calls the handler *and* returns the error. Setting the deadline of a socket that is open (`ConnIsOpen`) and building the request do not fail |
| `sock`; `Listening`, `Receive`, `Expire`, `ReadFails` | `listening` waits in `ReadFromUDP` |
| `queue`; `Deliver`, `Process`, `Read` | `processingMessage`, `peerDataChan`, `OverlayConn.Read` |
| `errCount`; `BindError`, `MessageError` | the shared count of errors in a row, which success does not reset |
| `panicked`; `Panic`, `AnswerPanics` | `listening`, `binding` and the handler of a binding request, which may be answered while the socket is being closed, dereference `overlay.conn` |

`multicastMessage` (`overlaysock.go:610`, after a check of the state in 569) and
`InternalAddr` (630, for GET `/overlay`) dereference `overlay.conn` as well, in
goroutines that do not drive the automaton, and can find it nil as the code is.
These are not modelled, and `NoPanic` says nothing of them.

What is in the messages, the times and the back-off are left out. The reader of the
STUN client and `listening` read the same socket: a message that the client gets
is dropped there, which is the same as `Receive` not happening.

**`OverlayLink.tla`** is what `Overlay` promises to the gossip: ready or not, and a
bounded queue that fills only while ready.

**`GossipNetwork.tla`** follows agents, each with the `OverlayLink` of its overlay
(`ready`, `queue`), the place of its gossip goroutine, the counter of
`startGossip`, and the kinds of payload whose fields `bufNotification` has
(`buffer`). What `UpdateLifecycle` and `ServerUpdates` show of the tables is used
here: an agent's (`version`) and the server's (`posted`) accept only newer
versions. A restart of an agent comes back at any version up to the last that some
agent had accepted, or at none: what was saved. A restart of the server comes
back at the last snapshot, so that it loses versions it may have announced.

| Actions | Code |
|---|---|
| `Poll`, `PollFails`, `StartReturns`, `StartHangs` | `readTCP`, and `Start` in the gossip goroutine, which hangs if a monitor left the lock of the old version held (finding 1) |
| `Sleep`, `ReadOverlay`, `Read`, `ReadFails`, `Take` | the loop of `startGossip`, `OverlayConn.Read` (which looks at `Ready` again) and the decoding of the message |
| `Change`, `Deliver` | the link; any announcement of a version that an agent or the server accepted may arrive, at any time and any number of times. What `Write` asks of its sender's state is not asked, which only adds announcements |
| `SubmitToAgent`, `SubmitToOther`, `SubmitToServer`, `SubmitFails` | `submitCmd`: to the agent, which may answer too late, then to the server, which may refuse or not be reached |
| `Restart`, `ServerRestart` | the crash of an agent, or of the server, and its return |

Deletions by the API are not in this module; all versions are of one uuid.

**`Dissemination.tla`** is what all of them are together: a version comes from a
submission to some agent, the server publishes only what an agent has accepted
and is newer than what it has published, an agent learns only that, and only what
is newer than its own; what has is taken back only by the end of a process.
`GossipNetwork` implements it (`IsDissemination`) under `has <- version` and
`ends <- restarts`; the loops, links, queues, buffers and messages under way are
its implementation.

## 6. Runs

| Run | Question | Instance | Answer |
|---|---|---|---|
| `lifecycle_replace` | can replacing an update by gossip and POST lose, mix up or misorder versions? | 1 uuid, versions 1-3, gossip and 1 handler, 3 objects | `NoOrphan`, `OneStopper`, `ExclusiveDeploy`, `DeployedInOrder`, `LivePayload`, `LocksInOrder` hold |
| `lifecycle_delete` | and with concurrent DELETEs? | versions 1-2, 2 handlers that POST and DELETE, 2 objects, overlay or not | `NoOrphan`, `TableIsServed`, `OnlyTwinsLose`, `OneStopper`, `LocksInOrder` hold; the other three of `lifecycle_replace` do not survive a DELETE and are not claimed |
| `lifecycle_crash` | what does a restart find? | 2 uuids (script, APK), a crash anywhere, any number of panics, limit 0, overlay or not | `LoadedNewest`, `PersistedOnce`, `FailsBounded`, `IsRegister` (the refinement), `TypeOK` hold; the first two are about metadata whose signature is intact (observation below) |
| `lifecycle_live` | does work get done? | versions 1-2, gossip and 1 handler, 2 objects, limit 1, no crash, fairness | `EventuallySettled`, `DeploymentSaved`, `OnlyLeaksBlock` hold |
| `lifecycle_leak` | does deleting an old version end? | as above, fairness | violated: finding 1 |
| `lifecycle_stale` | are metadata files those of current updates? | two versions | violated: finding 2 |
| `lifecycle_noudp` | does an agent without overlay stay up? | `Overlays = {FALSE}` | violated: finding 3 |
| `server_store` | is the server a durable store? | 2 uuids, versions 1-3, one notification that does not verify, 2 crashes, 1 failed write, fairness | `CleanIsSaved`, `Durable` (the refinement), `PostedSaved` hold |
| `sessions_converge` | do peers find a peer that moved? | 2 peers, 2 workers, the overlay opens again once, the server ends once, fairness | `Registered`, `EveryoneLearns`, `ReplyFindsSession`, `SessionsAreOwn` hold |
| `sessions_equal` | is a session left as it is only if it is the same? | the agent restarts with other ports | violated: finding 4 |
| `overlay` | does the overlay stay alive and safe, whatever fails? | 2 sockets, limits 2 and 1, queue of 1, one request that cannot be sent, fairness | `SomeDriver`, `ConnIsOpen`, `DriversBounded` hold throughout, `OneDriver`, `NoPanic`, `StartupEnds`, `ServesGossip` (the refinement), `ComesBack` while requests can be sent |
| `gossip_network` | does an agent learn what is submitted, and only that? | 1 agent among others, versions 1-3, one of them a directory, interval 1, queue of 1, 2 restarts of the agent or the server, fairness | `FallsBack`, `ReadIsLearned`, `AgentBeforeServer`, `IsDissemination` (the refinement) hold |

**Bounds.** `Obj` bounds the notifications one life of the process accepts;
every hand-over involves a new, an old and at most one waiting object, so three
reach every chain that can form, and three versions give a replacement of a
replacement. `MaxCrashes` is one; panics, which end the process as well, are not counted, so
that a second end falls into the recovery from the first one; the theorems hold
for any number.
`DeployFailsLimit` is 0 or 1 where the code says 5: below, at and above the
limit are all reached, and the theorems hold for every limit. Gossip is one
goroutine in the code; each handler stands for any number of requests one after
the other. The symmetry of objects (and handlers) is used for safety only. For the server,
three versions of two uuids let posts fall before, during and after a save; two
crashes let one hit the first save of a restarted server; one failed write is
tried again. Two workers are enough for one to serve a peer while another
iterates over the table; two peers, of which one moves, are enough for a request
or an indication with old addresses to overtake one with new ones. Two sockets let
one be closed while the next is opened; one failed send brings two goroutines
to drive the automaton, of which each may send again, fail again and be answered.
One agent is enough in `GossipNetwork`, as others act on it only by announcing what
was accepted somewhere, which `Deliver` allows at any time; two restarts let the agent
and the server lose the same version, or one of them fall back twice; three versions, with a
directory between two files, let an older one and one of the other kind overtake. A
queue of one is enough there, because an announcement may be as late as it likes before
it gets into the queue: its order is lost before, and what the queue adds, that a message
waits behind one that is being read or started while the overlay goes, one place shows.
All configurations turn the deadlock check off: an agent whose locks leaked, or
whose objects are used up, and a server whose file is torn have nothing more to
do.

**Fairness** (`lifecycle_live`, `lifecycle_leak`). The Go scheduler runs what can
run and a mutex does not starve a waiter: weak fairness of each thread's and
each monitor's steps, of loading and of `StartPosted`. `Restart` is the service
manager's. `Complete` is an assumption on the network: wanted pieces arrive.
Nothing is assumed of notifications, requests, crashes or the outcome of a
script. `server_store` assumes that the ticker goes on calling `saveUpdates`,
that a write ends, and that systemd restarts the service (`Restart=always`).
`sessions_converge` assumes that tickers and workers run, and that a datagram
sent again and again arrives in the end: a request is served if it is infinitely
often under way, and strong fairness of the arrival of an indication. `overlay`
assumes that some goroutine runs as long as one can, that some transaction times
out or is ended by `Close` when one stays without outcome, that sockets get closed,
and of the network that, if sockets can be opened or requests answered again and
again, some are in the end; nothing of messages. None of this is asked of each
goroutine or socket. `gossip_network` assumes that the gossip goroutine runs, that a server
polled again and again is reached in the end, and that the overlay, if found
ready again and again, is in the end still ready a moment later, when `Read` looks
again.

## 7. Findings

1. **A leaked lock** (`lifecycle_leak`, `update.go:172`). `monitor` breaks out of
   its loop after `u.Lock()`. A pass between `old.Stop()` and `old.Delete()`
   leaves `Delete`, and the `Start` that called it, waiting for ever with the
   new update's lock held: the new version never becomes active.
   `OnlyLeaksBlock` shows that nothing else blocks a replacement.
2. **Metadata of a deleted version comes back** (`lifecycle_stale`,
   `update.go:195`). `monitor` saves after it has unlocked, with `O_CREATE`.
   `LoadedNewest` shows that a restart still picks the newest version.
3. **An agent without overlay panics** (`lifecycle_noudp`, `update.go:175`).
4. **Sessions are compared the wrong way round** (`sessions_equal`,
   `common.go:128`). `Session.Equal` is false as soon as one address is the same.
   A session that has not changed is stored and advertised again at every
   keep-alive; one whose four addresses have all changed is taken for the same.
   An agent that restarts with the default configuration has other ports
   everywhere: the server keeps its old addresses and answers to them.
   `sessions_converge` shows that the table follows a peer whose torrent ports
   stay.

Observations, which the properties state as exceptions rather than as violations:

* **Signatures are shared** (`agent.go:363`). The decoder fills the map of
  signatures that `bufNotification` already has, and `NewUpdate` copies only the
  reference: once a second notification is heard over the overlay, the first
  update carries its signature. It is announced and saved like that, and after a
  restart `loadUpdates` does not load it; the next notification of the same
  version is then accepted, and the script runs a second time. `LoadedNewest` and
  `PersistedOnce` hold of intact metadata only (`Intact`).
* **The fallback ends with the first read** (`agent.go:360`). Once `Ready` was true,
  `Read` waits for a message without deadline; while the UDP path is dead nothing
  is polled. `FallsBack` excepts an agent that waits there (and a version that the
  server lost with a crash). The same goroutine
  hangs for good when it runs into the leaked lock of finding 1.
* **Fields are left over** (`agent.go:37`). After notifications of a file and of a
  directory the buffer has a length and files, and no notification verifies
  any more until a restart: `ReadIsLearned` excepts it.
* **A failed send doubles the driver** (`overlaysock.go:300`). The error is raised by
  the handler and by `binding`. From then on two goroutines may drive the
  automaton: it is never without one (`SomeDriver`) and uses no socket that is
  being closed (`ConnIsOpen`), but `OneDriver`, `NoPanic` and `ServesGossip` hold
  only as long as no send has failed.
* **A DELETE takes the torrent of its successor** (`api.go:152`). The table entry
  goes first, `Stop` and `Delete` work by infohash and by names made of uuid and
  version. If the same version is POSTed again in between, the new object is in
  the table and active, and the DELETE drops its torrent and removes its files.
  `OnlyTwinsLose` and `TableIsServed` except it, and show that it is the only case.
* **A torn database keeps the server down** (`server.go:477`). A crash between
  truncating and writing leaves a file that `NewServer` refuses, at every start
  until somebody removes it. `Durable` only says what the server has when it does
  come back.
* **A half submission cannot be repeated** (`main.go:79`): the agent refuses the
  version it has, and `submitCmd` stops there (`SubmitFails`).

## 8. Proofs

**Update lifecycle.** `UpdateLifecycleProofs.tla` proves, for every set of uuids, versions, threads and
objects, any limit and any number of crashes:

* `TypeCorrect`: `Spec => []TypeOK`;
* `NoOrphanHolds`, `OneStopperHolds`, `TableIsServedHolds`, `OnlyTwinsLoseHolds`,
  `LocksInOrderHolds`, `FailsBoundedHolds`: with any DELETEs;
* `ExclusiveDeployHolds`, `LivePayloadHolds`, `TableIsActive`, `DeployedInOrderHolds`,
  `LoadedNewestHolds`, `PersistedOnceHolds`, `IsRegisterHolds`: assuming
  `Deleter = {}`.

The only assumptions are `ConstantsAssumption` (distinct threads, objects and
`None`; naturals where the code has integers) and, for the last seven, that no
DELETE is sent.

*Argument.* `NoOrphan` alone is not inductive: it says nothing of who may change
the table while a thread is between `addUpdate` and `Stop`. `Custody` adds it:
what a thread at each `pc` holds (`PcShape`), that a new object is locked by its
starter (`NewLocked`), that an object being deleted has been stopped
(`OldStopped`), that the table maps a uuid to an object of that uuid
(`TableSound`), that an object handed out is no longer in the table (`OldOut`),
that unallocated objects are untouched (`FreeIdle`), that a deploying monitor
holds its own lock (`DeployLocked`), and `OneStopper` and the tracking of every
active object. It needs no assumption on DELETE. Given it and that whoever has a
handle has a monitor (`ActiveRuns`), the converse `TableIsServed` is inductive: what
is in the table is stopped by nobody (`OldOut`), so its monitor finds no reason to
leave its loop, and the torrent behind its handle goes only when a twin, another
object of the same notification, is stopped, which then is `TwinStopped` for good.
`OnlyTwinsLose` says it step by step, of files as well: a step that drops a torrent or
removes a file by its name is one of a thread that has the object to stop or delete in
`old`, and what is in the table never is that object.

`ExclusiveDeploy` needs the order of the versions: `Lineage` says that the table
holds the newest object of its uuid (`TableNewest`), that no two objects have the
same notification (`OneEach`), that every object older than one whose starter
has got past `Stop` is dead, that is, without a torrent and not being started
(`StartedAlone`, `StoppedAlone`), and that a starter which has still to stop an object is about
to stop the newest of the older ones (`Predecessor`). A script runs under its
object's lock, which `Stop` waits for, so a successor can only be active when
the script of its predecessor has ended. A DELETE empties the entry of the table
and with it the chain, which is why the assumption is needed.

`LivePayload` follows from `OnlyTwinsLose` and `OneEach`, by which there are no
twins; so does `TableIsActive`, which is `TableIsServed` without the exception.

The last three relate memory and disk (`Memory`): metadata is only of notifications
that verify; intact metadata is of an object at least as new in the table, or
still to be loaded (`FilesCovered`), while the metadata of the old version is
removed only when its successor is in the table; an object whose intact metadata
records the deployment is itself deployed (`FilesKnown`), and so is one whose
monitor has run the script (`DoneKnown`); a script runs only for an object that is
not (`DeploysOnce`). A crash keeps only what is on disk, and `loadUpdates` starts with all of it
to be loaded. `DeployedInOrder` then follows from `Lineage`: what has been deployed in
this life belongs to an object that is no longer being started, so that no older one is alive.

`LocksInOrder` needs who holds a lock (`LockHeld`: the monitor that runs the script
or has left its loop, the thread that starts the object, or the one that deletes
its files) and that a thread that starts an object waits for an older one of the
same uuid (`NewerThanOld`). With `Custody`, by which no two threads start or delete
the same object, a chain of waiting threads goes down the versions and ends.

`FailsBounded` is inductive with the types and `Custody`: objects take their counter
from a file and files theirs from an object, so that neither half holds alone.

`IsRegister` needs `Memory` (`FilesCovered` says that no intact file is unknown to
the table, so that a crash adds nothing) and `Apart`: no object has the
notification of a file still to be read, so that nothing that Save and Delete do
to files while others are being loaded changes what these will add. `CoveredAccept`
says what one `Start` makes old news, `KnownLoadFile` that for a file it already was.

**Server.** `ServerUpdatesProofs.tla` proves `StoreTypeCorrect`,
`CleanIsSavedHolds` and the refinement `DurableHolds` for any uuids and versions,
from `StoreAssumption`. The invariant `StoreInv` adds to `CleanIsSaved` that times
only grow, that a save under way was needed and has torn the file
(`WritingTorn`), that a file that decodes holds `saved` (`FileIsSaved`: what
`Recover` needs), and that a process that is down has no memory.

**Session table.** `SessionTableProofs.tla` proves `SessionTypeCorrect` and
`ReplyFindsSessionHolds` for any peers, workers and changes of addresses, from
`SessionAssumption`: no step but a crash, which ends the workers too, takes a
session out of the table. `SessionsAreOwnHolds` adds that the sessions in requests
and indications are ones their subject has had (`UnderwayIsOwn`): a worker looks up
the destination and the session it tells of in different steps, so the proof
goes through the table at the second.

**Overlay.** `OverlayProofs.tla` proves for any sockets, limits and length of the
queue, from `OverlayAssumption`: `TypeCorrect`; `ConnIsOpenHolds`, which is inductive
with the types and needs nothing of who drives; and `SomeDriverHolds`. `SomeDriver` says nothing of why the driver will go
on, so `InSync` says that, unless there is a transaction or a panic, some
goroutine is *in step*: it raises an event for which the current state has a
transition, runs the callback of the current state, or waits in `listening`. After a
failed send several goroutines raise events, and one of them may take the state
away from the other; the lemmas show that the one that moves it is then in step.
`DriversBoundedHolds` says what failed sends cost: each brings at most one driver
more, where a transaction and an error that binding has still to raise count as
well (`Counted` adds that these are finite sets; `UnitsMore` and `UnitsLess` say what
one transaction or error more or less does to the count). For `sendFails = 0` it
leaves one driver at most, and `OneDriver` says what that one is.

As long as no binding request has failed to be sent (`sendFails = 0`, which the
properties say themselves):
`OneDriverHolds`, `NoPanicHolds`, `StartupEndsHolds` and `ServesGossipHolds`. For these
`Driven` says that there is one token, with the one busy goroutine or the one
transaction (`OneToken`, `Awake`), that a busy goroutine raises only events for which
its state has a transition and runs only the callback of the current state
(`Follows`), that a transaction means that the state is `binding`, and that there is a
connection from the success of `opening` to the next `closed` (`Opens`). A failed
send breaks it. `StartupEnds` needs, besides, how far the goroutine of `NewOverlayConn`
gets as the only driver (`Startup`): to `binding`, whose transaction another one
ends. With `ComesBack`, which TLC checks, it says that `NewOverlayConn` returns. After a
failed send it may not: `binding` raises the error once more in that goroutine,
which may then go on to listen.

**Network.** `GossipNetworkProofs.tla` proves `TypeCorrect`,
`AgentBeforeServerHolds` and `IsDisseminationHolds` from `NetworkAssumption`, for any number of
agents and versions, also infinitely many: `ServedIsMax` says that the server always has a
newest one, because it accepts nothing older. For the refinement `Provenance` follows
a version from the agent that accepted it through the links and the loop of every
other: what is queued, read, being started or had is what some agent has accepted,
and remains so when the server loses it.

Left to TLC: liveness, as the prover does not reach fairness. Every other
property that a passing run checks is proved, the first group above for every
configuration of it.

## 9. Seeded faults

Each property of a passing run has an operator marked "Seeded fault" in the
module, a plausible bug, under which the same run violates the property: a table
that keeps the old entry, a version check off by one, a removal by uuid, a
counter that starts below zero, a lock not released, an outcome not saved.

## 10. Not modelled

* The use of the connection in `multicastMessage` and `InternalAddr` (section 5): a
  sender that has checked the state and not yet sent would double the states of
  `Overlay`, and that it can find the connection nil needs no model.
* `OverlayConn.Close`, deadlines for `Read` and `Write`, `ReadMsg`: nothing calls them.
* The depth of the calls: `Event` calls the callback, which calls `Event`, and these
  never return while the overlay works, so that the stack of a goroutine grows with
  every message until a binding hands over to another one.
* Messages that are no notification or have fewer fields, which `readOverlay` goes on
  with after logging the error; several uuids in the network; DELETE there.
* Encodings of single values in STUN messages; `PieceLength`, which nothing calls.
* Read-only API requests: they copy state and change none.
* Configuration, directories, logging, flags: input and output.
* Unpacking and running the payload: one outcome, success or failure.
* The BitTorrent library and the STUN library: modelled from how the code uses
  them.

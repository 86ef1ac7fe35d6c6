------------------------------ MODULE Overlay ------------------------------
(***************************************************************************)
(* The overlay connection of an agent (overlaysock.go) and the automaton   *)
(* that drives it (automata.go). Nothing but an event moves the automaton, *)
(* and whoever raises an event also runs the callback of the state it      *)
(* leads to, which raises the next event: the overlay works as long as     *)
(* some goroutine does so. It starts in the one that creates the agent and *)
(* goes from hand to hand with every binding request, whose outcome a      *)
(* goroutine of the STUN client raises the next event with.                *)
(*                                                                         *)
(* Event is three steps, because it looks the transition up without the    *)
(* lock under which it makes it, and looks the callback up without a lock  *)
(* once more. A callback is one step, or two when it waits for a datagram. *)
(***************************************************************************)
EXTENDS Naturals, FiniteSets

CONSTANTS
    Client,             \* UDP sockets, each with the STUN client that uses it
    BindingMaxErrors,   \* of the configuration
    ListeningMaxErrors,
    QueueLen,           \* capacity of peerDataChan
    MaxSendFails,       \* bound on the binding requests that cannot be sent
    None                \* nil

\* NewOverlayConn raises the first event; every STUN client has a goroutine
\* that reads answers and one that collects timeouts; closed spawns one that
\* closes the old socket and client.
Main         == <<"main", None>>
Reader(c)    == <<"reader", c>>
Collector(c) == <<"collector", c>>
Closer(c)    == <<"closer", c>>
Goroutine    == {Main} \union ({"reader", "collector", "closer"} \X Client)

ASSUME OverlayAssumption ==
    /\ None \notin Client
    /\ BindingMaxErrors \in Nat /\ ListeningMaxErrors \in Nat
    /\ QueueLen \in Nat /\ MaxSendFails \in Nat

State == {"closed", "opening", "opened", "binding", "bindError", "listening",
          "processingMessage", "messageError"}

Event == {"open", "bind", "success", "error", "underLimit", "overLimit",
          "channelExpired"}

VARIABLES
    state,     \* automata.current
    at,        \* goroutine -> how far it is with an event or a callback
    arg,       \* goroutine -> the event, then the state, then the callback
    owed,      \* goroutine -> frames of binding that wait for a failed Start
    errCount,  \* of binding errors and of message errors
    conn,      \* overlay.conn and overlay.stun
    status,    \* client -> "open", "closing" (by closed's goroutine) or "shut"
    pending,   \* client -> number of its transactions without outcome
    sock,      \* goroutine -> the socket it waits on in ReadFromUDP
    queue,     \* number of messages in peerDataChan
    sendFails, \* number of binding requests that could not be sent
    panicked   \* the process has dereferenced a nil conn

eventVars  == <<at, arg, owed>>
clientVars == <<conn, status, pending>>
vars == <<state, at, arg, owed, errCount, conn, status, pending, sock, queue,
          sendFails, panicked>>

-----------------------------------------------------------------------------
\* createAutomata: source, event, destination. Nothing raises the event close.
Transitions ==
    {<<"closed", "open", "opening">>,
     <<"opening", "success", "opened">>,
     <<"opening", "error", "closed">>,
     <<"opened", "bind", "binding">>,
     <<"binding", "success", "listening">>,
     <<"binding", "error", "bindError">>,
     <<"bindError", "underLimit", "opened">>,
     <<"bindError", "overLimit", "closed">>,
     <<"listening", "success", "processingMessage">>,
     <<"listening", "error", "messageError">>,
     <<"listening", "channelExpired", "binding">>,
     <<"processingMessage", "success", "listening">>,
     <<"processingMessage", "error", "messageError">>,
     <<"messageError", "underLimit", "listening">>,
     <<"messageError", "overLimit", "binding">>}

\* NewOverlayConn, about to raise the first event.
Init ==
    /\ state = "closed"
    /\ at = [g \in Goroutine |-> IF g = Main THEN "raise" ELSE "idle"]
    /\ arg = [g \in Goroutine |-> IF g = Main THEN "open" ELSE "none"]
    /\ owed = [g \in Goroutine |-> 0]
    /\ errCount = 0
    /\ conn = None
    /\ status = [c \in Client |-> "shut"]
    /\ pending = [c \in Client |-> 0]
    /\ sock = [g \in Goroutine |-> None]
    /\ queue = 0
    /\ sendFails = 0
    /\ panicked = FALSE

-----------------------------------------------------------------------------
(* Automata.Event *)

\* A goroutine is about to raise an event.
Raise(g, e) ==
    /\ at' = [at EXCEPT ![g] = "raise"]
    /\ arg' = [arg EXCEPT ![g] = e]

\* Seeded fault: the error of a Start that failed is raised time and again.
ReturnOwing(g) ==
    IF owed[g] > 0
      THEN Raise(g, "error") /\ UNCHANGED owed
      ELSE /\ at' = [at EXCEPT ![g] = "idle"]
           /\ arg' = [arg EXCEPT ![g] = "none"]
           /\ UNCHANGED owed

\* All the events the goroutine has raised return, unless a binding further up
\* has still to raise the error of a Start that failed.
Return(g) ==
    IF owed[g] > 0
      THEN Raise(g, "error") /\ owed' = [owed EXCEPT ![g] = @ - 1]
      ELSE /\ at' = [at EXCEPT ![g] = "idle"]
           /\ arg' = [arg EXCEPT ![g] = "none"]
           /\ UNCHANGED owed

\* Seeded fault: errors lead nowhere.
DestUnlessError(e) == {d \in State : e # "error" /\ <<state, e, d>> \in Transitions}

\* Where the event leads: a state, or nowhere.
Dest(e) == {d \in State : <<state, e, d>> \in Transitions}

\* The transition is looked up.
LookUp(g) ==
    /\ at[g] = "raise"
    /\ \/ \E d \in Dest(arg[g]) :
            /\ at' = [at EXCEPT ![g] = "move"]
            /\ arg' = [arg EXCEPT ![g] = d]
            /\ UNCHANGED owed
       \/ Dest(arg[g]) = {} /\ Return(g)
    /\ UNCHANGED <<state, errCount, clientVars, sock, queue, sendFails, panicked>>

\* It is made under the lock.
Move(g) ==
    /\ at[g] = "move"
    /\ state' = arg[g]
    /\ at' = [at EXCEPT ![g] = "moved"]
    /\ arg' = [arg EXCEPT ![g] = "none"]
    /\ UNCHANGED <<owed, errCount, clientVars, sock, queue, sendFails, panicked>>

\* The callback of the current state is called.
Call(g) ==
    /\ at[g] = "moved"
    /\ at' = [at EXCEPT ![g] = "call"]
    /\ arg' = [arg EXCEPT ![g] = state]
    /\ UNCHANGED <<state, owed, errCount, clientVars, sock, queue, sendFails, panicked>>

In(g, callback) == at[g] = "call" /\ arg[g] = callback

-----------------------------------------------------------------------------
(* The callbacks *)

\* Seeded fault: the old socket stays open.
LeaveOpen == UNCHANGED status

\* A goroutine of its own closes the old socket and its client.
CloseConn ==
    status' = IF conn = None THEN status ELSE [status EXCEPT ![conn] = "closing"]

\* Seeded fault: the old connection is not forgotten.
KeepConn == UNCHANGED conn

ForgetConn == conn' = None

\* closed, with Reopen set as NewOverlayConn sets it.
Closed(g) ==
    /\ In(g, "closed")
    /\ CloseConn
    /\ ForgetConn
    /\ errCount' = 0
    /\ Raise(g, "open")
    /\ UNCHANGED <<state, owed, pending, sock, queue, sendFails, panicked>>

\* A client none of whose goroutines is at work stands for a new one.
Reusable(c) ==
    /\ status[c] = "shut" /\ pending[c] = 0
    /\ \A g \in Goroutine : sock[g] # c /\ (g[2] = c => at[g] = "idle")

\* opening: the socket is opened, and its client created.
OpeningOk(g, c) ==
    /\ In(g, "opening") /\ Reusable(c)
    /\ conn' = c
    /\ status' = [status EXCEPT ![c] = "open"]
    /\ Raise(g, "success")
    /\ UNCHANGED <<state, owed, errCount, pending, sock, queue, sendFails, panicked>>

\* Seeded fault: the error goes unnoticed.
ErrorUnseen(g) == Raise(g, "success")

OpeningError(g) == Raise(g, "error")

\* opening: the socket cannot be opened, for instance while the old one is.
OpeningFails(g) ==
    /\ In(g, "opening")
    /\ conn' = None
    /\ OpeningError(g)
    /\ UNCHANGED <<state, owed, errCount, status, pending, sock, queue, sendFails, panicked>>

Opened(g) ==
    /\ In(g, "opened")
    /\ Raise(g, "bind")
    /\ UNCHANGED <<state, owed, errCount, clientVars, sock, queue, sendFails, panicked>>

\* Seeded fault: the request is sent twice, as two transactions.
StartTwoTransactions(c) == pending' = [pending EXCEPT ![c] = @ + 2]

StartTransaction(c) == pending' = [pending EXCEPT ![c] = @ + 1]

\* Seeded fault: binding waits for the outcome (Do instead of Start).
AwaitOutcome(g) == at' = [at EXCEPT ![g] = "waits"] /\ UNCHANGED <<arg, owed>>

AfterStart(g) == Return(g)

\* binding: the request is sent; its handler raises the next event.
BindingSent(g) ==
    /\ In(g, "binding") /\ conn # None
    /\ StartTransaction(conn)
    /\ AfterStart(g)
    /\ UNCHANGED <<state, errCount, conn, status, sock, queue, sendFails, panicked>>

\* binding: the request cannot be sent. The client's Start calls the handler,
\* which raises the error, and returns the error, which binding raises again.
BindingFails(g) ==
    /\ In(g, "binding") /\ conn # None
    /\ sendFails < MaxSendFails
    /\ sendFails' = sendFails + 1
    /\ Raise(g, "error")
    /\ owed' = [owed EXCEPT ![g] = @ + 1]
    /\ UNCHANGED <<state, errCount, clientVars, sock, queue, panicked>>

\* One error more, of so many in a row. Success does not reset the count.
CountError(g, max) ==
    /\ IF errCount + 1 >= max
         THEN errCount' = 0 /\ Raise(g, "overLimit")
         ELSE errCount' = errCount + 1 /\ Raise(g, "underLimit")
    /\ UNCHANGED <<state, owed, clientVars, sock, queue, sendFails, panicked>>

BindError(g)    == In(g, "bindError") /\ CountError(g, BindingMaxErrors)
MessageError(g) == In(g, "messageError") /\ CountError(g, ListeningMaxErrors)

\* listening waits for a datagram on the socket it finds.
Listening(g) ==
    /\ In(g, "listening") /\ conn # None
    /\ at' = [at EXCEPT ![g] = "reading"]
    /\ sock' = [sock EXCEPT ![g] = conn]
    /\ UNCHANGED <<state, arg, owed, errCount, clientVars, queue, sendFails, panicked>>

StopsReading(g, e) ==
    /\ at[g] = "reading"
    /\ sock' = [sock EXCEPT ![g] = None]
    /\ Raise(g, e)
    /\ UNCHANGED <<state, owed, errCount, clientVars, queue, sendFails, panicked>>

Receive(g)   == StopsReading(g, "success") /\ status[sock[g]] # "shut"
Expire(g)    == StopsReading(g, "channelExpired")
ReadFails(g) == StopsReading(g, "error")

\* Seeded fault: the length of the queue is not looked at.
HasRoomAlways == TRUE

HasRoom == queue < QueueLen

\* processingMessage: data is queued for the gossip.
Deliver(g) ==
    /\ In(g, "processingMessage") /\ HasRoom
    /\ queue' = queue + 1
    /\ Raise(g, "success")
    /\ UNCHANGED <<state, owed, errCount, clientVars, sock, sendFails, panicked>>

\* processingMessage: a session table or a keep-alive; or a bad message, or
\* data for which the queue has no room.
Process(g) ==
    /\ In(g, "processingMessage")
    /\ \E e \in {"success", "error"} : Raise(g, e)
    /\ UNCHANGED <<state, owed, errCount, clientVars, sock, queue, sendFails, panicked>>

\* overlay.conn is dereferenced while it is nil: the process ends.
NilConn ==
    /\ conn = None
    /\ panicked' = TRUE
    /\ at' = [h \in Goroutine |-> "idle"]
    /\ pending' = [c \in Client |-> 0]
    /\ UNCHANGED <<state, arg, owed, errCount, conn, status, sock, queue, sendFails>>

\* binding and listening use the connection. (multicastMessage and InternalAddr do
\* so for other goroutines, which are not modelled.)
Panic(g) == (In(g, "binding") \/ In(g, "listening")) /\ NilConn

-----------------------------------------------------------------------------
(* The STUN client (external): the outcome of a transaction, once, in one   *)
(* of its goroutines                                                        *)

Outcome(g, c, e) ==
    /\ pending[c] > 0 /\ at[g] = "idle"
    /\ pending' = [pending EXCEPT ![c] = @ - 1]
    /\ Raise(g, e)
    /\ UNCHANGED <<state, owed, errCount, conn, status, sock, queue, sendFails, panicked>>

\* The server's answer is read until the socket is closed. The handler finds it
\* invalid, or logs the address of the connection that the overlay has by then.
Invalid(c) == status[c] # "shut" /\ Outcome(Reader(c), c, "error")
Answer(c)  == status[c] # "shut" /\ conn # None /\ Outcome(Reader(c), c, "success")

AnswerPanics(c) ==
    /\ status[c] # "shut" /\ pending[c] > 0 /\ at[Reader(c)] = "idle"
    /\ NilConn

Timeout(c) == status[c] # "shut" /\ Outcome(Collector(c), c, "error")

\* stun.Close ends the transactions that are left.
Ended(c)   == status[c] = "shut" /\ Outcome(Closer(c), c, "error")

\* The goroutine that closed spawned has closed the socket.
Shut(c) ==
    /\ status[c] = "closing"
    /\ status' = [status EXCEPT ![c] = "shut"]
    /\ UNCHANGED <<state, eventVars, errCount, conn, pending, sock, queue, sendFails, panicked>>

\* The gossip goroutine's Read takes a message.
Read ==
    /\ queue > 0
    /\ queue' = queue - 1
    /\ UNCHANGED <<state, eventVars, errCount, clientVars, sock, sendFails, panicked>>

-----------------------------------------------------------------------------
\* What a goroutine does without waiting for anybody.
Step(g) ==
    \/ LookUp(g) \/ Move(g) \/ Call(g)
    \/ Closed(g) \/ OpeningFails(g) \/ (\E c \in Client : OpeningOk(g, c))
    \/ Opened(g)
    \/ BindingSent(g) \/ BindingFails(g) \/ BindError(g)
    \/ Listening(g) \/ Deliver(g) \/ Process(g) \/ MessageError(g)
    \/ Panic(g)

Next ==
    \/ \E g \in Goroutine : Step(g) \/ Receive(g) \/ Expire(g) \/ ReadFails(g)
    \/ \E c \in Client :
         \/ Answer(c) \/ Invalid(c) \/ AnswerPanics(c) \/ Timeout(c) \/ Ended(c)
         \/ Shut(c)
    \/ Read

Spec == Init /\ [][Next]_vars

\* The Go scheduler keeps running some goroutine that can run, a socket that is
\* being closed gets closed, and a transaction that is not answered times out. On
\* the network: if requests can be answered time and again, or sockets opened,
\* some are in the end.
Fairness ==
    /\ WF_vars(\E g \in Goroutine : Step(g))
    /\ WF_vars(\E c \in Client : Timeout(c) \/ Ended(c))
    /\ WF_vars(\E c \in Client : Shut(c))
    /\ SF_vars(\E c \in Client : Answer(c))
    /\ SF_vars(\E g \in Goroutine, c \in Client : OpeningOk(g, c))

LiveSpec == Spec /\ Fairness

-----------------------------------------------------------------------------
(* Properties *)

\* Every variable holds a value of its type.
TypeOK ==
    /\ state \in State
    /\ at \in [Goroutine -> {"idle", "raise", "move", "moved", "call", "reading"}]
    /\ arg \in [Goroutine -> Event \union State \union {"none"}]
    /\ owed \in [Goroutine -> Nat]
    /\ errCount \in Nat
    /\ conn \in Client \union {None}
    /\ status \in [Client -> {"open", "closing", "shut"}]
    /\ pending \in [Client -> Nat]
    /\ sock \in [Goroutine -> Client \union {None}]
    /\ queue \in 0 .. QueueLen
    /\ sendFails \in Nat
    /\ panicked \in BOOLEAN

\* OverlayConn.Ready.
Ready == state \in {"listening", "processingMessage", "messageError"}

\* A goroutine that raises events or runs callbacks.
Busy(g) == at[g] # "idle"

\* As long as binding requests can be sent, one goroutine at a time drives the
\* automaton, and none while a transaction is under way, of which there is one:
\* Event is safe without holding its lock, and so are the callbacks. (A failed
\* send is raised twice, by the handler and by binding.)
OneDriver ==
    sendFails = 0 =>
        \A g \in Goroutine, c \in Client :
            /\ Busy(g) => /\ \A h \in Goroutine : Busy(h) => g = h
                          /\ pending[c] = 0
            /\ pending[c] > 0 => \A d \in Client : pending[d] > 0 => c = d /\ pending[c] = 1

\* One token for each unit of a count.
Units(count) == UNION {{x} \X (1 .. count[x]) : x \in DOMAIN count}

Drivers == {g \in Goroutine : Busy(g)}

\* A request that cannot be sent brings at most one driver more, for good:
\* goroutines that drive the automaton, transactions whose outcome will make one
\* do so, and errors that binding has still to raise are never more than one and
\* the failed sends together. Lookups that lead nowhere only take some away.
DriversBounded ==
    Cardinality(Drivers) + Cardinality(Units(pending)) + Cardinality(Units(owed))
        <= 1 + sendFails

\* The overlay never comes to rest: whatever fails, a goroutine is about to
\* raise an event or waits for a datagram, or the outcome of a transaction will
\* wake one up, unless the process has panicked.
SomeDriver ==
    \/ panicked
    \/ \E g \in Goroutine : Busy(g)
    \/ \E c \in Client : pending[c] > 0

\* Whatever fails, the connection that binding, multicastMessage and the
\* keep-alives would send on is none, or one that nobody has begun to close.
ConnIsOpen == conn # None => status[conn] = "open"

\* The callbacks binding and listening, and the handler of a binding request, whose
\* answer may come late, find a connection to use (as long as requests can be sent).
NoPanic == panicked => sendFails > 0

\* When the overlay is ready NewOverlayConn has returned, so that the agent goes on
\* to load its updates and to start the API and the gossip: it is not the goroutine
\* that listens, which never returns (as long as requests can be sent).
StartupEnds == sendFails = 0 /\ Ready => at[Main] = "idle"

\* What the gossip goroutine sees of the overlay: messages arrive only while it
\* is ready, and are dropped when 16 wait. Two drivers would break this, too.
Link == INSTANCE OverlayLink WITH ready <- Ready
ServesGossip == [][sendFails = 0 => [Link!Next]_<<Ready, queue>>]_vars

\* The overlay comes back: whatever is lost, refused or times out, it gets ready
\* again and again (as long as requests can be sent).
ComesBack == []<>(Ready \/ sendFails > 0)

=============================================================================

--------------------------- MODULE OverlayProofs ---------------------------
(***************************************************************************)
(* Proofs about Overlay, for any number of sockets, any limits and any     *)
(* length of the queue: its types; that the connection is never one that   *)
(* is being closed; that somebody always drives the automaton, however     *)
(* many requests fail, and at most one more for each that does; and, as    *)
(* long as binding requests can be sent, that one goroutine at a time      *)
(* does, which therefore never dereferences a nil connection, that         *)
(* NewOverlayConn has returned when the overlay is ready, and that the     *)
(* gossip goroutine sees an OverlayLink.                                   *)
(***************************************************************************)
EXTENDS Overlay, FiniteSetTheorems, TLAPS

\* What a goroutine is about to make the current state is a state.
TypeInv == TypeOK /\ \A g \in Goroutine : at[g] = "move" => arg[g] \in State

LEMMA InitType == Init => TypeInv
<1> SUFFICES ASSUME Init PROVE TypeInv
  OBVIOUS
<1>1. state \in State /\ queue \in 0 .. QueueLen
  BY OverlayAssumption DEF Init, State
<1>2. arg \in [Goroutine -> Event \union State \union {"none"}]
  BY DEF Init, Event
<1> QED
  BY <1>1, <1>2 DEF Init, TypeOK, TypeInv

LEMMA GoroutineOf ==
    ASSUME NEW c \in Client
    PROVE  Reader(c) \in Goroutine /\ Collector(c) \in Goroutine /\ Closer(c) \in Goroutine
  BY DEF Reader, Collector, Closer, Goroutine

LEMMA StepType ==
    ASSUME TypeInv, NEW g \in Goroutine, Step(g)
    PROVE  TypeInv'
<1> USE DEF TypeInv, TypeOK, Raise, eventVars, clientVars
<1>1. CASE LookUp(g)
  <2>1. CASE \E d \in Dest(arg[g]) :
               /\ at' = [at EXCEPT ![g] = "move"]
               /\ arg' = [arg EXCEPT ![g] = d]
               /\ UNCHANGED owed
    <3>1. PICK d \in State : arg' = [arg EXCEPT ![g] = d]
      BY <2>1 DEF Dest
    <3> QED
      BY <1>1, <2>1, <3>1 DEF LookUp
  <2>2. CASE Return(g)
    BY <1>1, <2>2 DEF LookUp, Return, Event
  <2> QED
    BY <1>1, <2>1, <2>2 DEF LookUp
<1>2. CASE Move(g)
  BY <1>2 DEF Move
<1>3. CASE Call(g)
  BY <1>3 DEF Call
<1>4. CASE Closed(g)
  BY <1>4 DEF Closed, CloseConn, ForgetConn, Event
<1>5. CASE OpeningFails(g) \/ \E c \in Client : OpeningOk(g, c)
  BY <1>5 DEF OpeningFails, OpeningError, OpeningOk, Event
<1>6. CASE Opened(g)
  BY <1>6 DEF Opened, Event
<1>7. CASE BindingSent(g)
  BY <1>7 DEF BindingSent, StartTransaction, AfterStart, Return, Event
<1>8. CASE BindingFails(g)
  BY <1>8 DEF BindingFails, Event
<1>9. CASE BindError(g) \/ MessageError(g)
  BY <1>9 DEF BindError, MessageError, CountError, Event
<1>10. CASE Listening(g)
  BY <1>10 DEF Listening
<1>11. CASE Deliver(g) \/ Process(g)
  BY <1>11, OverlayAssumption DEF Deliver, HasRoom, Process, Event
<1>12. CASE Panic(g)
  BY <1>12 DEF Panic, NilConn
<1> QED
  BY <1>1, <1>2, <1>3, <1>4, <1>5, <1>6, <1>7, <1>8, <1>9, <1>10, <1>11, <1>12 DEF Step

LEMMA TypeStep == TypeInv /\ [Next]_vars => TypeInv'
<1> SUFFICES ASSUME TypeInv, [Next]_vars PROVE TypeInv'
  OBVIOUS
<1>1. ASSUME NEW g \in Goroutine, Step(g) PROVE TypeInv'
  BY <1>1, StepType
<1>2. ASSUME NEW g \in Goroutine, Receive(g) \/ Expire(g) \/ ReadFails(g) PROVE TypeInv'
  BY <1>2 DEF Receive, Expire, ReadFails, StopsReading, Raise, TypeInv, TypeOK, Event, clientVars
<1>3. ASSUME NEW c \in Client, Answer(c) \/ Invalid(c) \/ Timeout(c) \/ Ended(c) PROVE TypeInv'
  BY <1>3, GoroutineOf
     DEF Answer, Invalid, Timeout, Ended, Outcome, Raise, TypeInv, TypeOK, Event
<1>4. ASSUME NEW c \in Client, Shut(c) PROVE TypeInv'
  BY <1>4 DEF Shut, TypeInv, TypeOK, eventVars
<1>5. CASE Read
  BY <1>5, OverlayAssumption DEF Read, TypeInv, TypeOK, eventVars, clientVars
<1>6. CASE UNCHANGED vars
  BY <1>6 DEF vars, TypeInv, TypeOK
<1>7. ASSUME NEW c \in Client, AnswerPanics(c) PROVE TypeInv'
  BY <1>7 DEF AnswerPanics, NilConn, TypeInv, TypeOK
<1> QED
  BY <1>1, <1>2, <1>3, <1>4, <1>5, <1>6, <1>7 DEF Next

LEMMA TypeInvHolds == Spec => []TypeInv
  BY InitType, TypeStep, PTL DEF Spec

\* Every variable keeps its type: at most QueueLen messages wait, and a callback
\* runs only for a state of the automaton.
THEOREM TypeCorrect == Spec => []TypeOK
  BY TypeInvHolds, PTL DEF TypeInv

-----------------------------------------------------------------------------
(* The connection *)

LEMMA ConnStep == TypeOK /\ ConnIsOpen /\ [Next]_vars => ConnIsOpen'
<1> SUFFICES ASSUME TypeOK, ConnIsOpen, [Next]_vars PROVE ConnIsOpen'
  OBVIOUS
<1> USE DEF ConnIsOpen, TypeOK, clientVars
<1>1. ASSUME NEW g \in Goroutine, Step(g) PROVE ConnIsOpen'
  <2>1. CASE Closed(g) \/ OpeningFails(g)
    BY <2>1 DEF Closed, ForgetConn, OpeningFails
  <2>2. CASE \E c \in Client : OpeningOk(g, c)
    BY <2>2 DEF OpeningOk
  <2>3. CASE UNCHANGED <<conn, status>>
    BY <2>3
  <2> QED
    BY <1>1, <2>1, <2>2, <2>3
       DEF Step, LookUp, Move, Call, Opened, BindingSent, BindingFails, BindError,
           MessageError, CountError, Listening, Deliver, Process, Panic, NilConn
<1>2. ASSUME NEW c \in Client, Shut(c) PROVE ConnIsOpen'
  BY <1>2 DEF Shut
<1>3. CASE UNCHANGED <<conn, status>>
  BY <1>3
<1> QED
  BY <1>1, <1>2, <1>3
     DEF Next, Receive, Expire, ReadFails, StopsReading, Answer, Invalid, Timeout,
         AnswerPanics, NilConn, Ended, Outcome, Read, vars

\* Whatever fails and however many goroutines drive the automaton, the connection
\* is one that nobody has begun to close.
THEOREM ConnIsOpenHolds == Spec => []ConnIsOpen
<1>1. Init => ConnIsOpen
  BY DEF Init, ConnIsOpen
<1> QED
  BY <1>1, TypeCorrect, ConnStep, PTL DEF Spec

-----------------------------------------------------------------------------
(* The driver. While requests can be sent there is one token: it is with the *)
(* one goroutine that is busy, or else with the one transaction.             *)

OneToken ==
    /\ \A g, h \in Goroutine : Busy(g) /\ Busy(h) => g = h
    /\ \A g \in Goroutine, c \in Client : Busy(g) => pending[c] = 0
    /\ \A c, d \in Client : pending[c] > 0 /\ pending[d] > 0 => c = d /\ pending[c] = 1

Awake == (\E g \in Goroutine : Busy(g)) \/ \E c \in Client : pending[c] > 0

\* The event a goroutine raises leads somewhere, and the callback it runs is that
\* of the current state.
Follows(g) ==
    /\ at[g] = "raise" => Dest(arg[g]) # {}
    /\ at[g] = "move" => \E e \in Event : arg[g] \in Dest(e)
    /\ at[g] = "call" => arg[g] = state
    /\ at[g] = "reading" => state = "listening"

\* Opening succeeds with a connection.
Opens(g) ==
    state = "opening" =>
        /\ at[g] = "raise" /\ arg[g] = "success" => conn # None
        /\ at[g] = "move" /\ arg[g] = "opened" => conn # None

Driven ==
    /\ sendFails = 0
    /\ ~panicked
    /\ OneToken
    /\ Awake
    /\ \A g \in Goroutine : owed[g] = 0 /\ Follows(g) /\ Opens(g)
    /\ \A c \in Client : pending[c] > 0 => state = "binding"
    /\ state \in {"opening", "closed"} \/ conn # None

LEMMA DrivenInit == Init => Driven
<1> SUFFICES ASSUME Init PROVE Driven
  OBVIOUS
<1> USE DEF Init, Busy
<1>1. Main \in Goroutine
  BY DEF Goroutine
<1>2. OneToken /\ Awake
  BY <1>1 DEF OneToken, Awake
<1>3. \A g \in Goroutine : owed[g] = 0 /\ Follows(g) /\ Opens(g)
  <2>1. "opening" \in Dest("open")
    BY DEF Dest, Transitions, State
  <2> QED
    BY <2>1 DEF Follows, Opens
<1> QED
  BY <1>2, <1>3 DEF Driven

\* The busy goroutine keeps the token: it raises an event, or goes on with the
\* one it raised.
LEMMA KeepsToken ==
    ASSUME TypeInv, Driven, NEW g \in Goroutine, Busy(g), NEW x, x # "idle",
           at' = [at EXCEPT ![g] = x], pending' = pending, owed' = owed,
           sendFails' = sendFails, panicked' = panicked, Follows(g)', Opens(g)',
           state' \in {"opening", "closed"} \/ conn' # None
    PROVE  Driven'
<1> USE DEF TypeInv, TypeOK, Driven
<1>1. \A h \in Goroutine : h # g => at'[h] = "idle"
  BY DEF OneToken, Busy
<1>2. at'[g] = x /\ \A c \in Client : pending'[c] = 0
  BY DEF OneToken
<1>3. OneToken' /\ Awake'
  BY <1>1, <1>2 DEF OneToken, Awake, Busy
<1>4. \A h \in Goroutine : h # g => Follows(h)' /\ Opens(h)'
  BY <1>1 DEF Follows, Opens
<1> QED
  BY <1>2, <1>3, <1>4

\* So does a callback that raises an event its state has a transition for.
LEMMA Raises ==
    ASSUME TypeInv, Driven, NEW g \in Goroutine, Busy(g), NEW e, Raise(g, e),
           Dest(e) # {}, state' = state, pending' = pending, owed' = owed,
           sendFails' = sendFails, panicked' = panicked,
           state \in {"opening", "closed"} \/ conn' # None,
           state = "opening" /\ e = "success" => conn' # None
    PROVE  Driven'
<1>1. at'[g] = "raise" /\ arg'[g] = e
  BY DEF Raise, TypeInv, TypeOK
<1>2. Follows(g)'
  BY <1>1 DEF Follows, Dest
<1>3. Opens(g)'
  BY <1>1 DEF Opens
<1> QED
  BY <1>2, <1>3, KeepsToken DEF Raise

LEMMA EventDriven ==
    ASSUME TypeInv, Driven, NEW g \in Goroutine, LookUp(g) \/ Move(g) \/ Call(g)
    PROVE  Driven'
<1> USE DEF TypeInv, TypeOK, eventVars, clientVars
<1>1. CASE LookUp(g)
  <2>1. Busy(g) /\ Dest(arg[g]) # {}
    BY <1>1 DEF LookUp, Busy, Follows, Driven
  <2>2. PICK d \in Dest(arg[g]) :
          at' = [at EXCEPT ![g] = "move"] /\ arg' = [arg EXCEPT ![g] = d] /\ UNCHANGED owed
    BY <1>1, <2>1 DEF LookUp
  <2>3. <<state, arg[g], d>> \in Transitions /\ d \in State
    BY DEF Dest
  <2>4. arg[g] \in Event
    BY <2>3 DEF Transitions, Event
  <2>5. state = "opening" /\ d = "opened" => conn # None
    BY <1>1, <2>3 DEF LookUp, Transitions, Opens, Driven
  <2>6. Follows(g)'
    BY <1>1, <2>2, <2>3, <2>4 DEF LookUp, Follows, Dest
  <2>7. Opens(g)'
    BY <1>1, <2>2, <2>5 DEF LookUp, Opens
  <2> QED
    BY <1>1, <2>1, <2>2, <2>6, <2>7, KeepsToken DEF LookUp, Driven
<1>2. CASE Move(g)
  <2>1. PICK e \in Event : <<state, e, arg[g]>> \in Transitions
    BY <1>2 DEF Move, Follows, Dest, Driven
  <2>2. state' = arg[g] /\ at' = [at EXCEPT ![g] = "moved"]
    BY <1>2 DEF Move
  <2>3. state' \in {"opening", "closed"} \/ conn' # None
    BY <1>2, <2>1, <2>2 DEF Move, Transitions, Driven, Opens
  <2>4. Follows(g)' /\ Opens(g)'
    BY <2>2 DEF Follows, Opens
  <2> QED
    BY <1>2, <2>2, <2>3, <2>4, KeepsToken DEF Move, Busy
<1>3. CASE Call(g)
  <2>1. Follows(g)' /\ Opens(g)'
    BY <1>3 DEF Call, Follows, Opens
  <2> QED
    BY <1>3, <2>1, KeepsToken DEF Call, Busy, Driven
<1> QED
  BY <1>1, <1>2, <1>3

\* Every event that a callback raises has a transition from its state.
LEMMA Expected ==
    /\ state = "closed" => Dest("open") # {}
    /\ state = "opened" => Dest("bind") # {}
    /\ state \in {"opening", "binding", "listening", "processingMessage"}
         => Dest("success") # {} /\ Dest("error") # {}
    /\ state \in {"bindError", "messageError"}
         => Dest("underLimit") # {} /\ Dest("overLimit") # {}
    /\ state = "listening" => Dest("channelExpired") # {}
<1>1. \A e \in Event, d \in State : <<state, e, d>> \in Transitions => Dest(e) # {}
  BY DEF Dest
<1> QED
  BY <1>1 DEF Transitions, State, Event

LEMMA CallbackDriven ==
    ASSUME TypeInv, Driven, NEW g \in Goroutine,
           \/ Closed(g) \/ OpeningFails(g) \/ \E c \in Client : OpeningOk(g, c)
           \/ Opened(g) \/ BindError(g) \/ MessageError(g)
           \/ Deliver(g) \/ Process(g)
    PROVE  Driven'
<1> USE Expected DEF clientVars, In
<1>0. Busy(g) /\ arg[g] = state /\ (state \in {"opening", "closed"} \/ conn # None)
  BY DEF Closed, OpeningFails, OpeningOk, Opened, BindError, MessageError, Deliver, Process,
         Busy, Driven, Follows
<1>1. CASE Closed(g)
  BY <1>0, <1>1, Raises DEF Closed
<1>2. CASE OpeningFails(g)
  BY <1>0, <1>2, Raises DEF OpeningFails, OpeningError
<1>3. ASSUME NEW c \in Client, OpeningOk(g, c) PROVE Driven'
  BY <1>0, <1>3, Raises, OverlayAssumption DEF OpeningOk
<1>4. CASE Opened(g)
  BY <1>0, <1>4, Raises DEF Opened
<1>5. CASE BindError(g) \/ MessageError(g)
  BY <1>0, <1>5, Raises DEF BindError, MessageError, CountError
<1>6. CASE Deliver(g) \/ Process(g)
  BY <1>0, <1>6, Raises DEF Deliver, Process
<1> QED
  BY <1>1, <1>2, <1>3, <1>4, <1>5, <1>6

\* The token goes to a transaction.
LEMMA SentDriven ==
    ASSUME TypeInv, Driven, NEW g \in Goroutine, BindingSent(g)
    PROVE  Driven'
<1> USE DEF TypeInv, TypeOK, Driven
<1>1. Busy(g) /\ state = "binding" /\ conn \in Client /\ owed[g] = 0
  BY DEF BindingSent, In, Busy, Follows
<1>2. /\ at' = [at EXCEPT ![g] = "idle"] /\ owed' = owed
      /\ pending' = [pending EXCEPT ![conn] = @ + 1]
      /\ UNCHANGED <<state, conn, sendFails, panicked>>
  BY <1>1 DEF BindingSent, AfterStart, Return, StartTransaction
<1>3. \A h \in Goroutine : at'[h] = "idle"
  BY <1>1, <1>2 DEF OneToken, Busy
<1>4. \A c \in Client : pending'[c] = IF c = conn THEN 1 ELSE 0
  BY <1>1, <1>2 DEF OneToken
<1>5. OneToken' /\ Awake'
  BY <1>1, <1>3, <1>4 DEF OneToken, Awake, Busy
<1>6. \A h \in Goroutine : Follows(h)' /\ Opens(h)'
  BY <1>3 DEF Follows, Opens
<1> QED
  BY <1>1, <1>2, <1>5, <1>6

\* A goroutine of the client takes it from there.
LEMMA OutcomeDriven ==
    ASSUME TypeInv, Driven, NEW g \in Goroutine, NEW c \in Client,
           NEW e \in {"success", "error"}, Outcome(g, c, e)
    PROVE  Driven'
<1> USE DEF TypeInv, TypeOK, Driven
<1>1. /\ state = "binding" /\ pending[c] = 1
      /\ \A h \in Goroutine : at[h] = "idle"
      /\ \A d \in Client : d # c => pending[d] = 0
  BY DEF Outcome, OneToken, Busy
<1>2. /\ \A h \in Goroutine : at'[h] = IF h = g THEN "raise" ELSE "idle"
      /\ arg'[g] = e
      /\ \A d \in Client : pending'[d] = 0
      /\ UNCHANGED <<state, owed, conn, sendFails, panicked>>
  BY <1>1 DEF Outcome, Raise
<1>3. OneToken' /\ Awake'
  BY <1>2 DEF OneToken, Awake, Busy
<1>4. Dest(e) # {}
  BY <1>1, Expected
<1>5. \A h \in Goroutine : Follows(h)' /\ Opens(h)'
  BY <1>1, <1>2, <1>4 DEF Follows, Opens, Dest
<1> QED
  BY <1>1, <1>2, <1>3, <1>5

\* An answer finds the connection that the request was sent on.
LEMMA AnswerDriven ==
    ASSUME Driven, NEW c \in Client, pending[c] > 0
    PROVE  conn # None
  BY DEF Driven

LEMMA ReadingDriven ==
    ASSUME TypeInv, Driven, NEW g \in Goroutine,
           \/ Listening(g)
           \/ \E e \in {"success", "error", "channelExpired"} : StopsReading(g, e)
    PROVE  Driven'
<1> USE DEF clientVars
<1>1. CASE Listening(g)
  <2>1. Busy(g) /\ state = "listening"
    BY <1>1 DEF Listening, In, Busy, Driven, Follows
  <2>2. Follows(g)' /\ Opens(g)'
    BY <1>1, <2>1 DEF Listening, Follows, Opens, TypeInv, TypeOK
  <2> QED
    BY <1>1, <2>1, <2>2, KeepsToken DEF Listening, Driven
<1>2. ASSUME NEW e \in {"success", "error", "channelExpired"}, StopsReading(g, e)
      PROVE  Driven'
  <2>1. Busy(g) /\ state = "listening"
    BY <1>2 DEF StopsReading, Busy, Driven, Follows
  <2> QED
    BY <1>2, <2>1, Raises, Expected DEF StopsReading, Driven
<1> QED
  BY <1>1, <1>2

LEMMA DrivenStep ==
    TypeInv /\ (sendFails = 0 => Driven) /\ [Next]_vars => (sendFails = 0 => Driven)'
<1> SUFFICES ASSUME TypeInv, sendFails = 0 => Driven, [Next]_vars, sendFails' = 0
             PROVE  Driven'
  OBVIOUS
<1> USE DEF eventVars, clientVars
<1>1. ASSUME NEW g \in Goroutine, Step(g) PROVE Driven'
  <2>1. sendFails = 0 /\ ~BindingFails(g)
    BY <1>1 DEF Step, LookUp, Move, Call, Closed, OpeningFails, OpeningOk, Opened,
                BindingSent, BindingFails, BindError, MessageError, CountError, Listening,
                Deliver, Process, Panic, NilConn, TypeInv, TypeOK
  <2>2. Driven
    BY <2>1
  <2>3. ~Panic(g)
    BY <2>2 DEF Panic, NilConn, In, Driven, Follows
  <2> QED
    BY <1>1, <2>1, <2>2, <2>3, EventDriven, CallbackDriven, SentDriven, ReadingDriven DEF Step
<1>2. ASSUME NEW g \in Goroutine, Receive(g) \/ Expire(g) \/ ReadFails(g) PROVE Driven'
  <2>1. PICK e \in {"success", "error", "channelExpired"} : StopsReading(g, e)
    BY <1>2 DEF Receive, Expire, ReadFails
  <2>2. Driven
    BY <2>1 DEF StopsReading
  <2> QED
    BY <2>1, <2>2, ReadingDriven
<1>3. ASSUME NEW c \in Client, Answer(c) \/ Invalid(c) \/ Timeout(c) \/ Ended(c) PROVE Driven'
  <2>1. PICK g \in Goroutine, e \in {"success", "error"} : Outcome(g, c, e)
    BY <1>3, GoroutineOf DEF Answer, Invalid, Timeout, Ended
  <2>2. Driven
    BY <2>1 DEF Outcome
  <2> QED
    BY <2>1, <2>2, OutcomeDriven
<1>4. ASSUME UNCHANGED <<state, at, arg, owed, conn, pending, sendFails, panicked>> PROVE Driven'
  BY <1>4 DEF Driven, OneToken, Awake, Busy, Follows, Opens, Dest
<1>5. CASE Read \/ UNCHANGED vars \/ \E c \in Client : Shut(c)
  BY <1>4, <1>5 DEF Read, Shut, vars
<1>6. ASSUME NEW c \in Client PROVE ~AnswerPanics(c)
  BY <1>6, AnswerDriven DEF AnswerPanics, NilConn
<1> QED
  BY <1>1, <1>2, <1>3, <1>5, <1>6 DEF Next

LEMMA DrivenHolds == Spec => [](TypeInv /\ (sendFails = 0 => Driven))
  BY InitType, TypeStep, DrivenInit, DrivenStep, PTL DEF Spec

\* While binding requests can be sent, one goroutine at a time drives the automaton
\* and none while a transaction is under way: Event and the callbacks need no lock.
THEOREM OneDriverHolds == Spec => []OneDriver
<1>1. (sendFails = 0 => Driven) => OneDriver
  BY DEF Driven, OneToken, OneDriver
<1> QED
  BY <1>1, DrivenHolds, PTL

\* While binding requests can be sent, the callbacks and the handler of a binding
\* request never dereference a nil connection.
THEOREM NoPanicHolds == Spec => []NoPanic
<1>1. TypeInv /\ (sendFails = 0 => Driven) => NoPanic
  BY DEF Driven, NoPanic, TypeInv, TypeOK
<1> QED
  BY <1>1, DrivenHolds, PTL

-----------------------------------------------------------------------------
(* NewOverlayConn *)

\* How far its goroutine, once the only driver, can get: to the state binding,
\* whose callback hands over.
Startup ==
    at[Main] # "idle" =>
        /\ state \in {"closed", "opening", "opened", "binding"}
        /\ at[Main] # "reading"
        /\ at[Main] = "raise" => state # "binding"
        /\ at[Main] = "move" => state # "binding" /\ arg[Main] # "listening"

\* Only the goroutines of a STUN client, or closed's, are woken up again.
LEMMA OutcomeStartup ==
    ASSUME TypeInv, Startup, NEW g \in Goroutine, g # Main, NEW c, NEW e, Driven, c \in Client,
           Outcome(g, c, e)
    PROVE  Startup'
<1>1. at[Main] = "idle"
  BY DEF Outcome, Driven, OneToken, Busy, Main, Goroutine
<1>2. at'[Main] = "idle"
  BY <1>1 DEF Outcome, Raise, TypeInv, TypeOK, Main, Goroutine
<1> QED
  BY <1>2 DEF Startup

LEMMA MainIsOther ==
    ASSUME NEW c \in Client
    PROVE  Reader(c) # Main /\ Collector(c) # Main /\ Closer(c) # Main
  BY DEF Reader, Collector, Closer, Main

LEMMA StartupStep ==
    /\ TypeInv /\ (sendFails = 0 => Driven) /\ (sendFails = 0 => Startup) /\ [Next]_vars
    => (sendFails = 0 => Startup)'
<1> SUFFICES ASSUME TypeInv, sendFails = 0 => Driven, sendFails = 0 => Startup,
                    [Next]_vars, sendFails' = 0
             PROVE  Startup'
  OBVIOUS
<1> USE DEF eventVars, clientVars
<1>1. ASSUME NEW g \in Goroutine, Step(g) PROVE Startup'
  <2>1. sendFails = 0 /\ ~BindingFails(g)
    BY <1>1 DEF Step, LookUp, Move, Call, Closed, OpeningFails, OpeningOk, Opened,
                BindingSent, BindingFails, BindError, MessageError, CountError, Listening,
                Deliver, Process, Panic, NilConn, TypeInv, TypeOK
  <2>2. Driven /\ Startup
    BY <2>1
  <2>3. ~Panic(g)
    BY <2>2 DEF Panic, NilConn, In, Driven, Follows
  <2>4. CASE g # Main
    <3>1. Busy(g)
      BY <1>1 DEF Step, LookUp, Move, Call, In, Closed, OpeningFails, OpeningOk, Opened,
                  BindingSent, BindingFails, BindError, MessageError, Listening, Deliver,
                  Process, Panic, Busy
    <3>2. at[Main] = "idle"
      BY <2>2, <2>4, <3>1 DEF Driven, OneToken, Busy, Main, Goroutine
    <3>3. at'[Main] = at[Main]
      BY <1>1, <2>1, <2>3, <2>4
         DEF Step, LookUp, Move, Call, Closed, OpeningFails, OpeningError, OpeningOk, Opened,
             BindingSent, AfterStart, Return, BindError, MessageError, CountError, Listening,
             Deliver, Process, Raise, TypeInv, TypeOK, Main, Goroutine
    <3> QED
      BY <3>2, <3>3 DEF Startup
  <2>5. CASE g = Main
    <3>1. CASE LookUp(g)
      BY <2>2, <2>5, <3>1
         DEF LookUp, Startup, Driven, Follows, Return, Raise, Dest, Transitions, State,
             TypeInv, TypeOK, Busy
    <3>2. CASE Move(g)
      BY <2>2, <2>5, <3>2 DEF Move, Startup, Driven, Follows, Dest, Transitions, TypeInv, TypeOK
    <3>3. CASE Call(g)
      BY <2>2, <2>5, <3>3 DEF Call, Startup, TypeInv, TypeOK
    <3>4. CASE BindingSent(g)
      BY <2>2, <2>5, <3>4
         DEF BindingSent, AfterStart, Return, In, Startup, Driven, TypeInv, TypeOK
    <3>5. CASE Closed(g) \/ OpeningFails(g) \/ (\E c \in Client : OpeningOk(g, c)) \/ Opened(g)
      BY <2>2, <2>5, <3>5
         DEF Closed, OpeningFails, OpeningError, OpeningOk, Opened, In, Raise, Startup,
             Driven, Follows, TypeInv, TypeOK
    <3>6. CASE BindError(g) \/ MessageError(g) \/ Listening(g) \/ Deliver(g) \/ Process(g)
      BY <2>2, <2>5, <3>6
         DEF BindError, MessageError, Listening, Deliver, Process, In, Startup, Driven, Follows
    <3> QED
      BY <1>1, <2>1, <2>3, <3>1, <3>2, <3>3, <3>4, <3>5, <3>6 DEF Step
  <2> QED
    BY <2>4, <2>5
<1>2. ASSUME NEW g \in Goroutine, Receive(g) \/ Expire(g) \/ ReadFails(g) PROVE Startup'
  <2>1. PICK e : StopsReading(g, e)
    BY <1>2 DEF Receive, Expire, ReadFails
  <2>2. Driven /\ Startup /\ at[g] = "reading" /\ at' = [at EXCEPT ![g] = "raise"]
    BY <2>1 DEF StopsReading, Raise
  <2>3. g # Main /\ at[Main] = "idle"
    BY <2>2 DEF Startup, Driven, OneToken, Busy, Main, Goroutine
  <2>4. at'[Main] = "idle"
    BY <2>2, <2>3 DEF TypeInv, TypeOK, Main, Goroutine
  <2> QED
    BY <2>4 DEF Startup
<1>3. ASSUME NEW c \in Client, Answer(c) \/ Invalid(c) \/ Timeout(c) \/ Ended(c) PROVE Startup'
  <2>1. PICK g \in Goroutine, e \in {"success", "error"} : g # Main /\ Outcome(g, c, e)
    BY <1>3, GoroutineOf, MainIsOther DEF Answer, Invalid, Timeout, Ended
  <2>2. Driven /\ Startup
    BY <2>1 DEF Outcome
  <2> QED
    BY <2>1, <2>2, OutcomeStartup
<1>4. ASSUME UNCHANGED <<state, at, arg, sendFails>> PROVE Startup'
  BY <1>4 DEF Startup
<1>5. CASE Read \/ UNCHANGED vars \/ \E c \in Client : Shut(c)
  BY <1>4, <1>5 DEF Read, Shut, vars
<1>6. ASSUME NEW c \in Client PROVE ~AnswerPanics(c)
  BY <1>6, AnswerDriven DEF AnswerPanics, NilConn
<1> QED
  BY <1>1, <1>2, <1>3, <1>5, <1>6 DEF Next

\* While binding requests can be sent, NewOverlayConn has returned by the time
\* the overlay is ready: its goroutine never listens.
THEOREM StartupEndsHolds == Spec => []StartupEnds
<1>1. Init => (sendFails = 0 => Startup)
  BY DEF Init, Startup, Main, Goroutine
<1>2. (sendFails = 0 => Startup) => StartupEnds
  BY DEF Startup, StartupEnds, Ready
<1> QED
  BY <1>1, <1>2, StartupStep, DrivenHolds, PTL DEF Spec

-----------------------------------------------------------------------------
(* However many goroutines drive the automaton once requests cannot be sent, *)
(* one of them is in step with it: what it does next leads somewhere. It is  *)
(* the last one that moved the automaton, or the transaction that one began. *)

InStep(g) ==
    \/ at[g] \in {"move", "moved"}
    \/ at[g] = "raise" /\ Dest(arg[g]) # {}
    \/ at[g] = "call" /\ arg[g] = state
    \/ at[g] = "reading" /\ state = "listening"

InSync ==
    \/ panicked
    \/ \E g \in Goroutine : InStep(g)
    \/ state = "binding" /\ \E c \in Client : pending[c] > 0

LEMMA InSyncInit == Init => InSync
<1>1. Main \in Goroutine /\ <<"closed", "open", "opening">> \in Transitions /\ "opening" \in State
  BY DEF Goroutine, Transitions, State
<1> QED
  BY <1>1 DEF Init, InSync, InStep, Dest

\* What another goroutine does leaves a goroutine in step as long as the state is
\* the same.
LEMMA StaysInStep ==
    ASSUME TypeInv, NEW g \in Goroutine, NEW h \in Goroutine, h # g, InStep(h),
           state' = state,
           NEW x, at' = [at EXCEPT ![g] = x],
           NEW y, arg' = [arg EXCEPT ![g] = y] \/ arg' = arg
    PROVE  InStep(h)'
<1>1. at'[h] = at[h] /\ arg'[h] = arg[h]
  BY DEF TypeInv, TypeOK
<1> QED
  BY <1>1 DEF InStep, Dest

LEMMA RaisesInStep ==
    ASSUME TypeInv, NEW g \in Goroutine, NEW e, Raise(g, e), Dest(e) # {}, state' = state
    PROVE  InStep(g)'
<1>1. at'[g] = "raise" /\ arg'[g] = e
  BY DEF Raise, TypeInv, TypeOK
<1> QED
  BY <1>1 DEF InStep, Dest

\* What a goroutine in step does leaves it in step, or a transaction in its place.
LEMMA GoesOn ==
    ASSUME TypeInv, NEW g \in Goroutine, InStep(g),
           \/ Step(g)
           \/ \E e \in {"success", "error", "channelExpired"} : StopsReading(g, e)
    PROVE  InSync'
<1> USE Expected DEF InSync, TypeInv, TypeOK, clientVars
<1>1. CASE LookUp(g)
  <2>1. PICK d \in Dest(arg[g]) : at' = [at EXCEPT ![g] = "move"]
    BY <1>1 DEF LookUp, InStep
  <2> QED
    BY <2>1 DEF InStep
<1>2. CASE Move(g)
  BY <1>2 DEF Move, InStep
<1>3. CASE Call(g)
  BY <1>3 DEF Call, InStep
<1>4. ASSUME NEW callback, In(g, callback) PROVE state = callback
  BY <1>4 DEF In, InStep
<1>5. CASE Closed(g) \/ OpeningFails(g) \/ (\E c \in Client : OpeningOk(g, c)) \/ Opened(g)
  BY <1>4, <1>5, RaisesInStep DEF Closed, OpeningFails, OpeningError, OpeningOk, Opened
<1>6. CASE BindingSent(g)
  <2>1. conn \in Client /\ state' = "binding" /\ pending'[conn] > 0
    BY <1>4, <1>6 DEF BindingSent, StartTransaction
  <2> QED
    BY <2>1
<1>7. CASE BindingFails(g)
  BY <1>4, <1>7, RaisesInStep DEF BindingFails
<1>8. CASE BindError(g) \/ MessageError(g)
  BY <1>4, <1>8, RaisesInStep DEF BindError, MessageError, CountError
<1>9. CASE Listening(g)
  BY <1>4, <1>9 DEF Listening, InStep
<1>10. CASE Deliver(g) \/ Process(g)
  BY <1>4, <1>10, RaisesInStep DEF Deliver, Process
<1>11. CASE Panic(g)
  BY <1>11 DEF Panic, NilConn
<1>12. ASSUME NEW e \in {"success", "error", "channelExpired"}, StopsReading(g, e)
       PROVE  InSync'
  <2>1. state = "listening"
    BY <1>12 DEF StopsReading, InStep
  <2> QED
    BY <1>12, <2>1, RaisesInStep DEF StopsReading
<1> QED
  BY <1>1, <1>2, <1>3, <1>5, <1>6, <1>7, <1>8, <1>9, <1>10, <1>11, <1>12 DEF Step

\* A step of a goroutine changes how far that one is, and nothing of the others;
\* only Move changes the state, and no step ends a transaction but a panic.
LEMMA OwnStep ==
    ASSUME TypeInv, NEW g \in Goroutine, ~Move(g), ~Panic(g),
           \/ Step(g)
           \/ \E e \in {"success", "error", "channelExpired"} : StopsReading(g, e)
    PROVE  /\ state' = state
           /\ \E x : at' = [at EXCEPT ![g] = x]
           /\ \E y : arg' = [arg EXCEPT ![g] = y] \/ arg' = arg
           /\ \A c \in Client : pending[c] > 0 => pending'[c] > 0
<1> USE DEF Raise, Return, clientVars, TypeInv, TypeOK
<1>1. CASE LookUp(g)
  BY <1>1 DEF LookUp
<1>2. CASE BindingSent(g)
  BY <1>2 DEF BindingSent, StartTransaction, AfterStart
<1>3. CASE BindError(g) \/ MessageError(g)
  BY <1>3 DEF BindError, MessageError, CountError
<1>4. CASE Call(g) \/ Listening(g)
  BY <1>4 DEF Call, Listening
<1>5. CASE Closed(g) \/ OpeningFails(g) \/ (\E c \in Client : OpeningOk(g, c)) \/ Opened(g)
  BY <1>5 DEF Closed, OpeningFails, OpeningError, OpeningOk, Opened
<1>6. CASE BindingFails(g) \/ Deliver(g) \/ Process(g)
  BY <1>6 DEF BindingFails, Deliver, Process
<1>7. CASE \E e \in {"success", "error", "channelExpired"} : StopsReading(g, e)
  BY <1>7 DEF StopsReading
<1> QED
  BY <1>1, <1>2, <1>3, <1>4, <1>5, <1>6, <1>7 DEF Step

LEMMA InSyncStep == TypeInv /\ InSync /\ [Next]_vars => InSync'
<1> SUFFICES ASSUME TypeInv, InSync, [Next]_vars PROVE InSync'
  OBVIOUS
<1> USE DEF eventVars, clientVars
<1>1. ASSUME NEW g \in Goroutine,
             \/ Step(g)
             \/ \E e \in {"success", "error", "channelExpired"} : StopsReading(g, e)
      PROVE  InSync'
  <2>1. CASE Panic(g)
    BY <2>1 DEF Panic, NilConn, InSync
  <2>2. CASE Move(g)
    BY <2>2 DEF Move, InSync, InStep, TypeInv, TypeOK
  <2>3. CASE InStep(g)
    BY <1>1, <2>3, GoesOn
  <2>4. CASE ~Panic(g) /\ ~Move(g) /\ ~InStep(g)
    <3>1. PICK x, y : /\ at' = [at EXCEPT ![g] = x]
                      /\ arg' = [arg EXCEPT ![g] = y] \/ arg' = arg
      BY <1>1, <2>4, OwnStep
    <3>2. state' = state /\ \A c \in Client : pending[c] > 0 => pending'[c] > 0
      BY <1>1, <2>4, OwnStep
    <3>3. CASE \E h \in Goroutine : InStep(h)
      BY <2>4, <3>1, <3>2, <3>3, StaysInStep DEF InSync
    <3>4. CASE state = "binding" /\ \E c \in Client : pending[c] > 0
      BY <3>2, <3>4 DEF InSync
    <3>5. CASE panicked
      BY <1>1, <2>4, <3>5
         DEF InSync, Step, LookUp, Call, Closed, OpeningFails, OpeningOk, Opened, BindingSent,
             BindingFails, BindError, MessageError, CountError, Listening, Deliver, Process,
             StopsReading
    <3> QED
      BY <3>3, <3>4, <3>5 DEF InSync
  <2> QED
    BY <2>1, <2>2, <2>3, <2>4
<1>2. ASSUME NEW c \in Client, NEW g \in Goroutine, NEW e \in {"success", "error"},
             Outcome(g, c, e)
      PROVE  InSync'
  <2>1. state' = state /\ panicked' = panicked /\ Raise(g, e) /\ ~InStep(g)
    BY <1>2 DEF Outcome, InStep
  <2>2. CASE \E h \in Goroutine : InStep(h)
    BY <2>1, <2>2, StaysInStep DEF Raise, InSync
  <2>3. CASE state = "binding"
    BY <2>1, <2>3, Expected, RaisesInStep DEF InSync
  <2> QED
    BY <2>1, <2>2, <2>3 DEF InSync
<1>3. ASSUME NEW c \in Client, Answer(c) \/ Invalid(c) \/ Timeout(c) \/ Ended(c) PROVE InSync'
  BY <1>2, <1>3, GoroutineOf DEF Answer, Invalid, Timeout, Ended
<1>4. CASE UNCHANGED <<state, at, arg, pending, panicked>>
  BY <1>4 DEF InSync, InStep, Dest
<1>5. CASE Read \/ UNCHANGED vars \/ \E c \in Client : Shut(c)
  BY <1>4, <1>5 DEF Read, Shut, vars
<1>6. ASSUME NEW c \in Client, AnswerPanics(c) PROVE InSync'
  BY <1>6 DEF AnswerPanics, NilConn, InSync
<1> QED
  BY <1>1, <1>3, <1>5, <1>6 DEF Next, Receive, Expire, ReadFails

\* The overlay never comes to rest, whatever fails and however many goroutines
\* come to drive it: the one that moved the automaton last goes on, or the
\* transaction that it began does, unless the process has panicked.
THEOREM SomeDriverHolds == Spec => []SomeDriver
<1>1. InSync => SomeDriver
  BY DEF InSync, InStep, SomeDriver, Busy
<1> QED
  BY <1>1, InSyncInit, InSyncStep, TypeInvHolds, PTL DEF Spec

-----------------------------------------------------------------------------
(* What the gossip goroutine sees *)

LEMMA LinkStep ==
    TypeInv /\ (sendFails = 0 => Driven) /\ [Next]_vars
        => [sendFails = 0 => [Link!Next]_<<Ready, queue>>]_vars
<1> SUFFICES ASSUME TypeInv, Driven, [Next]_vars PROVE [Link!Next]_<<Ready, queue>>
  OBVIOUS
<1> USE DEF eventVars, clientVars
<1>1. ASSUME NEW g \in Goroutine, Step(g) PROVE [Link!Next]_<<Ready, queue>>
  <2>1. CASE Deliver(g)
    BY <2>1 DEF Deliver, HasRoom, In, Driven, Follows, Ready, Link!Next, Link!Deliver
  <2>2. CASE Move(g)
    BY <2>2 DEF Move, Ready, Link!Next, Link!Change
  <2>3. CASE UNCHANGED <<state, queue>>
    BY <2>3 DEF Ready
  <2> QED
    BY <1>1, <2>1, <2>2, <2>3
       DEF Step, LookUp, Call, Closed, OpeningFails, OpeningOk, Opened, BindingSent,
           BindingFails, BindError, MessageError, CountError, Listening, Process, Panic,
           NilConn
<1>2. CASE Read
  BY <1>2 DEF Read, Ready, Link!Next, Link!Take
<1>3. CASE UNCHANGED <<state, queue>>
  BY <1>3 DEF Ready
<1> QED
  BY <1>1, <1>2, <1>3
     DEF Next, Receive, Expire, ReadFails, StopsReading, Answer, Invalid, AnswerPanics,
         NilConn, Timeout, Ended, Outcome, Shut, vars

\* The overlay implements OverlayLink while binding requests can be sent: messages
\* are queued only while it is ready, at most QueueLen of them, and one by one.
THEOREM ServesGossipHolds == Spec => ServesGossip
  BY LinkStep, DrivenHolds, PTL DEF Spec, ServesGossip

-----------------------------------------------------------------------------
(* How many drive the automaton after failed sends *)

LEMMA InUnits ==
    ASSUME NEW S, NEW f \in [S -> Nat], NEW y
    PROVE  y \in Units(f) <=> \E x \in S, i \in Nat : y = <<x, i>> /\ 1 <= i /\ i <= f[x]
<1>1. y \in Units(f) <=> \E x \in S : y \in {x} \X (1 .. f[x])
  BY DEF Units
<1>2. \A x \in S : y \in {x} \X (1 .. f[x]) <=>
                     \E i \in Nat : y = <<x, i>> /\ 1 <= i /\ i <= f[x]
  OBVIOUS
<1> QED
  BY <1>1, <1>2

\* One unit more is one token more,
LEMMA UnitsMore ==
    ASSUME NEW S, NEW f \in [S -> Nat], NEW s \in S, IsFiniteSet(Units(f)),
           NEW h \in [S -> Nat], \A x \in S : h[x] = IF x = s THEN f[s] + 1 ELSE f[x]
    PROVE  IsFiniteSet(Units(h)) /\ Cardinality(Units(h)) = Cardinality(Units(f)) + 1
<1> DEFINE t == <<s, f[s] + 1>>
<1>1. Units(h) = Units(f) \union {t}
  <2>1. ASSUME NEW y PROVE y \in Units(h) <=> y \in Units(f) \/ y = t
    <3>1. y \in Units(f) <=> \E x \in S, i \in Nat : y = <<x, i>> /\ 1 <= i /\ i <= f[x]
      BY InUnits
    <3>2. y \in Units(h) <=> \E x \in S, i \in Nat : y = <<x, i>> /\ 1 <= i /\ i <= h[x]
      BY InUnits
    <3>3. CASE y = t
      BY <3>2, <3>3
    <3>4. ASSUME y # t, NEW x \in S, NEW i \in Nat, y = <<x, i>>
          PROVE  i <= h[x] <=> i <= f[x]
      BY <3>4
    <3>5. CASE y # t
      BY <3>1, <3>2, <3>4, <3>5
    <3> QED
      BY <3>3, <3>1, <3>5
  <2> QED
    BY <2>1
<1>2. t \notin Units(f)
  BY InUnits
<1> HIDE DEF t
<1> QED
  BY <1>1, <1>2, FS_AddElement

\* and one unit less one token less.
LEMMA UnitsLess ==
    ASSUME NEW S, NEW f \in [S -> Nat], NEW s \in S, f[s] > 0, IsFiniteSet(Units(f)),
           NEW h \in [S -> Nat], \A x \in S : h[x] = IF x = s THEN f[s] - 1 ELSE f[x]
    PROVE  IsFiniteSet(Units(h)) /\ Cardinality(Units(h)) = Cardinality(Units(f)) - 1
<1>1. \A x \in S : f[x] = IF x = s THEN h[s] + 1 ELSE h[x]
  OBVIOUS
<1>2. \A y : y \in Units(h) => y \in Units(f)
  <2> SUFFICES ASSUME NEW y, y \in Units(h) PROVE y \in Units(f)
    OBVIOUS
  <2>1. PICK x \in S, i \in Nat : y = <<x, i>> /\ 1 <= i /\ i <= h[x]
    BY <1>1, InUnits
  <2>2. i <= f[x]
    BY <1>1, <2>1
  <2> QED
    BY <2>1, <2>2, InUnits
<1>3. IsFiniteSet(Units(h))
  BY <1>2, FS_Subset
<1>4. Cardinality(Units(f)) = Cardinality(Units(h)) + 1
  BY <1>1, <1>3, UnitsMore
<1> QED
  BY <1>3, <1>4, FS_CardinalityType

\* DriversBounded, with the finiteness that counting needs.
Finite == IsFiniteSet(Drivers) /\ IsFiniteSet(Units(pending)) /\ IsFiniteSet(Units(owed))

Counted == Finite /\ DriversBounded

LEMMA CountsAreNat ==
    ASSUME Finite
    PROVE  /\ Cardinality(Drivers) \in Nat
           /\ Cardinality(Units(pending)) \in Nat
           /\ Cardinality(Units(owed)) \in Nat
  BY FS_CardinalityType DEF Finite

LEMMA InitCounted == Init => Counted
<1> SUFFICES ASSUME Init PROVE Counted
  OBVIOUS
<1>1. Drivers = {Main}
  BY DEF Init, Drivers, Busy, Main, Goroutine
<1>2. pending \in [Client -> Nat] /\ owed \in [Goroutine -> Nat]
  BY DEF Init
<1>3. Units(pending) = {}
  BY <1>2, InUnits DEF Init
<1>4. Units(owed) = {}
  BY <1>2, InUnits DEF Init
<1>5. IsFiniteSet(Drivers) /\ Cardinality(Drivers) = 1
  BY <1>1, FS_Singleton
<1>6. /\ IsFiniteSet(Units(pending)) /\ Cardinality(Units(pending)) = 0
      /\ IsFiniteSet(Units(owed)) /\ Cardinality(Units(owed)) = 0
  BY <1>3, <1>4, FS_EmptySet
<1>7. sendFails = 0
  BY DEF Init
<1> QED
  BY <1>5, <1>6, <1>7 DEF Counted, Finite, DriversBounded

\* A busy goroutine that stays busy changes no count.
LEMMA StaysBusy ==
    ASSUME TypeInv, NEW g \in Goroutine, Busy(g),
           NEW x \in {"raise", "move", "moved", "call", "reading"}, at' = [at EXCEPT ![g] = x]
    PROVE  Drivers' = Drivers
  BY DEF Drivers, Busy, TypeInv, TypeOK

\* Returning, a goroutine is at work for an error it owed, or no more.
LEMMA ReturnCounted ==
    ASSUME TypeInv, Finite, NEW g \in Goroutine, Busy(g), Return(g)
    PROVE  /\ IsFiniteSet(Drivers') /\ IsFiniteSet(Units(owed'))
           /\ Cardinality(Drivers') + Cardinality(Units(owed')) =
              Cardinality(Drivers) + Cardinality(Units(owed)) - 1
<1> USE DEF Finite, TypeInv, TypeOK
<1>1. CASE owed[g] > 0
  <2>1. at' = [at EXCEPT ![g] = "raise"] /\ owed' = [owed EXCEPT ![g] = @ - 1]
    BY <1>1 DEF Return, Raise
  <2>2. Drivers' = Drivers
    BY <2>1, StaysBusy
  <2>3. owed' \in [Goroutine -> Nat]
    BY <1>1, <2>1
  <2>4. \A h \in Goroutine : owed'[h] = IF h = g THEN owed[g] - 1 ELSE owed[h]
    BY <2>1
  <2>5. IsFiniteSet(Units(owed')) /\ Cardinality(Units(owed')) = Cardinality(Units(owed)) - 1
    BY <1>1, <2>3, <2>4, UnitsLess
  <2> QED
    BY <2>2, <2>5, CountsAreNat
<1>2. CASE ~(owed[g] > 0)
  <2>1. at' = [at EXCEPT ![g] = "idle"] /\ owed' = owed
    BY <1>2 DEF Return
  <2>2. Drivers' = Drivers \ {g} /\ g \in Drivers
    BY <2>1 DEF Drivers, Busy
  <2>3. IsFiniteSet(Drivers') /\ Cardinality(Drivers') = Cardinality(Drivers) - 1
    BY <2>2, FS_RemoveElement
  <2> QED
    BY <2>1, <2>3, CountsAreNat
<1> QED
  BY <1>1, <1>2

\* A panic leaves nobody at work and no transaction.
LEMMA PanicCounted ==
    ASSUME TypeInv, Counted, NilConn
    PROVE  Counted'
<1> USE DEF Counted, DriversBounded
<1>1. Drivers' = {} /\ UNCHANGED <<owed, sendFails>> /\ sendFails \in Nat
  BY DEF NilConn, Drivers, Busy, TypeInv, TypeOK
<1>2. pending' \in [Client -> Nat] /\ \A c \in Client : pending'[c] = 0
  BY DEF NilConn
<1>3. Units(pending') = {}
  BY <1>2, InUnits
<1>4. /\ IsFiniteSet(Drivers') /\ Cardinality(Drivers') = 0
      /\ IsFiniteSet(Units(pending')) /\ Cardinality(Units(pending')) = 0
  BY <1>1, <1>3, FS_EmptySet
<1>5. Units(owed') = Units(owed)
  BY <1>1
<1>6. Finite'
  BY <1>4, <1>5 DEF Finite
<1>7. DriversBounded'
  BY <1>1, <1>4, <1>5, CountsAreNat
<1> QED
  BY <1>6, <1>7

LEMMA StepCounted ==
    ASSUME TypeInv, Counted, NEW g \in Goroutine, Step(g)
    PROVE  Counted'
<1> USE DEF Counted, DriversBounded
<1>0. Busy(g) /\ Finite /\ sendFails \in Nat
  BY DEF Step, LookUp, Move, Call, In, Closed, OpeningFails, OpeningOk, Opened, BindingSent,
         BindingFails, BindError, MessageError, Listening, Deliver, Process, Panic, Busy,
         TypeInv, TypeOK
<1>1. CASE /\ UNCHANGED <<owed, pending, sendFails>>
           /\ \E x \in {"raise", "move", "moved", "call", "reading"} :
                at' = [at EXCEPT ![g] = x]
  <2>1. Drivers' = Drivers
    BY <1>0, <1>1, StaysBusy
  <2> QED
    BY <1>0, <1>1, <2>1 DEF Finite
<1>2. CASE LookUp(g) /\ Return(g)
  <2>1. UNCHANGED <<pending, sendFails>>
    BY <1>2 DEF LookUp, clientVars
  <2> QED
    BY <1>0, <1>2, <2>1, ReturnCounted, FS_CardinalityType DEF Finite
<1>3. CASE BindingSent(g)
  <2>1. UNCHANGED sendFails /\ Return(g) /\ conn \in Client
    BY <1>3 DEF BindingSent, AfterStart, TypeInv, TypeOK
  <2>2. /\ pending \in [Client -> Nat] /\ pending' \in [Client -> Nat]
        /\ \A c \in Client : pending'[c] = IF c = conn THEN pending[conn] + 1 ELSE pending[c]
    BY <1>3, <2>1 DEF BindingSent, StartTransaction, TypeInv, TypeOK
  <2>3. /\ IsFiniteSet(Units(pending'))
        /\ Cardinality(Units(pending')) = Cardinality(Units(pending)) + 1
    BY <1>0, <2>1, <2>2, UnitsMore DEF Finite
  <2> QED
    BY <1>0, <2>1, <2>3, ReturnCounted, FS_CardinalityType DEF Finite
<1>4. CASE BindingFails(g)
  <2>1. /\ at' = [at EXCEPT ![g] = "raise"] /\ UNCHANGED pending
        /\ sendFails' = sendFails + 1
    BY <1>4 DEF BindingFails, Raise, clientVars
  <2>2. Drivers' = Drivers
    BY <1>0, <2>1, StaysBusy
  <2>3. /\ owed \in [Goroutine -> Nat] /\ owed' \in [Goroutine -> Nat]
        /\ \A h \in Goroutine : owed'[h] = IF h = g THEN owed[g] + 1 ELSE owed[h]
    BY <1>4 DEF BindingFails, TypeInv, TypeOK
  <2>4. IsFiniteSet(Units(owed')) /\ Cardinality(Units(owed')) = Cardinality(Units(owed)) + 1
    BY <1>0, <2>3, UnitsMore DEF Finite
  <2>5. Units(pending') = Units(pending)
    BY <2>1
  <2>6. Finite'
    BY <1>0, <2>2, <2>4, <2>5 DEF Finite
  <2>7. DriversBounded'
    BY <1>0, <2>1, <2>2, <2>4, <2>5, CountsAreNat
  <2> QED
    BY <2>6, <2>7
<1>5. CASE Panic(g)
  BY <1>5, PanicCounted DEF Panic
<1> QED
  BY <1>1, <1>2, <1>3, <1>4, <1>5
     DEF Step, LookUp, Move, Call, Closed, OpeningFails, OpeningError, OpeningOk, Opened,
         BindError, MessageError, CountError, Listening, Deliver, Process, Raise, clientVars

\* An outcome is one transaction less and one busy goroutine more.
LEMMA OutcomeCounted ==
    ASSUME TypeInv, Counted, NEW g \in Goroutine, NEW c \in Client, NEW e, Outcome(g, c, e)
    PROVE  Counted'
<1> USE DEF Counted, DriversBounded, Finite
<1>1. Drivers' = Drivers \union {g} /\ g \notin Drivers
  BY DEF Outcome, Raise, Drivers, Busy, TypeInv, TypeOK
<1>2. IsFiniteSet(Drivers') /\ Cardinality(Drivers') = Cardinality(Drivers) + 1
  BY <1>1, FS_AddElement
<1>3. /\ pending \in [Client -> Nat] /\ pending' \in [Client -> Nat] /\ pending[c] > 0
      /\ \A d \in Client : pending'[d] = IF d = c THEN pending[c] - 1 ELSE pending[d]
  BY DEF Outcome, TypeInv, TypeOK
<1>4. /\ IsFiniteSet(Units(pending'))
      /\ Cardinality(Units(pending')) = Cardinality(Units(pending)) - 1
  BY <1>3, UnitsLess
<1>5. UNCHANGED <<owed, sendFails>> /\ sendFails \in Nat
  BY DEF Outcome, TypeInv, TypeOK
<1> QED
  BY <1>2, <1>4, <1>5, CountsAreNat

LEMMA CountedStep == TypeInv /\ Counted /\ [Next]_vars => Counted'
<1> SUFFICES ASSUME TypeInv, Counted, [Next]_vars PROVE Counted'
  OBVIOUS
<1>1. ASSUME NEW g \in Goroutine, Step(g) PROVE Counted'
  BY <1>1, StepCounted
<1>2. ASSUME NEW g \in Goroutine, Receive(g) \/ Expire(g) \/ ReadFails(g) PROVE Counted'
  <2>1. /\ at[g] = "reading" /\ at' = [at EXCEPT ![g] = "raise"]
        /\ UNCHANGED <<owed, pending, sendFails>>
    BY <1>2 DEF Receive, Expire, ReadFails, StopsReading, Raise, clientVars
  <2>2. Drivers' = Drivers
    BY <2>1, StaysBusy DEF Busy
  <2> QED
    BY <2>1, <2>2 DEF Counted, Finite, DriversBounded
<1>3. ASSUME NEW c \in Client, Answer(c) \/ Invalid(c) \/ Timeout(c) \/ Ended(c)
      PROVE  Counted'
  BY <1>3, OutcomeCounted, GoroutineOf DEF Answer, Invalid, Timeout, Ended
<1>4. CASE UNCHANGED <<at, owed, pending, sendFails>>
  BY <1>4 DEF Counted, Finite, DriversBounded, Drivers, Busy
<1>5. ASSUME NEW c \in Client, Shut(c) PROVE Counted'
  BY <1>4, <1>5 DEF Shut, eventVars
<1>6. ASSUME NEW c \in Client, AnswerPanics(c) PROVE Counted'
  BY <1>6, PanicCounted DEF AnswerPanics
<1> QED
  BY <1>1, <1>2, <1>3, <1>4, <1>5, <1>6 DEF Next, Read, vars, eventVars, clientVars

\* However many requests cannot be sent, each brings at most one goroutine, one
\* transaction or one error more that drives the automaton.
THEOREM DriversBoundedHolds == Spec => []DriversBounded
<1>1. TypeInv /\ Counted /\ [Next]_vars => Counted'
  BY CountedStep
<1>2. Counted => DriversBounded
  BY DEF Counted
<1> QED
  BY <1>1, <1>2, InitCounted, TypeInvHolds, PTL DEF Spec
=============================================================================

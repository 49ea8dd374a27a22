------------------------- MODULE InternalConnection -------------------------
(***************************************************************************)
(* One websocket session of the SDK: internal/pubsub/connection.go         *)
(* (connect, disconnect, reader, writer, processor, ping, closeNotify) and *)
(* internal/pubsub/subscribe.go (subscribe, unsubscribe, consumer,         *)
(* subscriber), with the control messages of message.go they wait for.     *)
(*                                                                         *)
(* A thread is an application goroutine (Clients), one of the connection's *)
(* four goroutines, or the goroutine that a stream's subscriber spawns to  *)
(* disconnect; the last one carries the name of its stream.  A goroutine   *)
(* step that touches only what its own lock protects is one action.        *)
(***************************************************************************)
EXTENDS FiniteSets

CONSTANTS
    Clients,        \* goroutines of the application calling the connection
    Streams,        \* streams that can be subscribed to
    None,           \* no thread, no stream
    Done,           \* closeOnce has completed
    DeleteFails,    \* the HTTP DELETE of a subscription may fail
    OpenStalls      \* the open request may fail while the transport stays up

Goroutines == {"reader", "writer", "processor", "ping"}
Threads == Clients \cup Goroutines \cup Streams

ASSUME NamesDistinct ==
    /\ Clients \cap Streams = {}
    /\ (Clients \cup Streams) \cap Goroutines = {}
    /\ None \notin Threads
    /\ Done \notin Threads \cup {None}
ASSUME EnvironmentFlags == DeleteFails \in BOOLEAN /\ OpenStalls \in BOOLEAN

VARIABLES
    ws,             \* c.ws: not dialled, open, or its transport closed
    mu,             \* holder of c.mu
    subsMu,         \* holder of c.subs.Mutex
    wg,             \* goroutines counted in c.wg
    once,           \* c.closeOnce: untouched, the thread running it, Done
    consumeTimeout, \* c.consumeTimeout
    table,          \* streams in c.subs.table
    todo,           \* streams closeNotify's loop has still to visit
    deleteSub,      \* closeNotify's deleteSub
    pc,             \* where each thread is
    on,             \* the stream a thread is blocked on, else None
    request,        \* consume request in flight: none, in writerCh, handler set
    consumer,       \* where the consumer goroutine is, or what it returned
    subscriber      \* where the subscriber goroutine is

connVars   == <<ws, once, consumeTimeout>>
lockVars   == <<mu, subsMu>>
subsVars   == <<table, todo, deleteSub>>
streamVars == <<request, consumer, subscriber>>
vars == <<connVars, lockVars, subsVars, streamVars, wg, pc, on>>

Init ==
    /\ ws = "nil" /\ mu = None /\ subsMu = None /\ wg = {}
    /\ once = None /\ consumeTimeout = FALSE
    /\ table = {} /\ todo = {} /\ deleteSub = TRUE
    /\ pc = [t \in Threads |-> "idle"]
    /\ on = [t \in Threads |-> None]
    /\ request = [s \in Streams |-> "none"]
    /\ consumer = [s \in Streams |-> "off"]
    /\ subscriber = [s \in Streams |-> "off"]

\* EnterClose closes the channel c.closed.
closed == once # None

\* sub.ctx is cancelled exactly when the stream leaves the table.  Its mutant: only
\* closing the connection cancels the context.
CancelledByClose(s) == s \notin table /\ closed
ctxDone(s) == s \notin table

\* c.wg.Wait returns.
Drained == wg = {}

\* sub.wg.Wait returns.  Its mutant: nobody waits.
NoSubscriberWait(s) == TRUE
SubscriberGone(s) == subscriber[s] = "off"

\* The case of a loop's select that ends it.  Its mutant: a lost transport ends it too.
StopsOnLoss == closed \/ ws = "down"
StopSignal == closed

\* connect's "already connected" check.  Its mutant: the check is gone.
MayDialAgain == TRUE
NotConnected == ws = "nil"

Goto(t, label) == pc' = [pc EXCEPT ![t] = label]

-----------------------------------------------------------------------------
(* connect and disconnect, under c.mu                                      *)

\* The dial succeeded and the three goroutines are started; the thread waits for
\* the answer to its open message.  Every failure before that changes nothing.
Connect(c) ==
    /\ pc[c] = "idle" /\ mu = None /\ NotConnected
    /\ ws' = "open"
    /\ mu' = c
    /\ wg' = wg \cup {"reader", "writer", "processor"}
    /\ pc' = [t \in Threads |-> CASE t = c -> "open"
                                  [] t \in {"reader", "writer", "processor"} -> "run"
                                  [] OTHER -> pc[t]]
    /\ UNCHANGED <<subsMu, once, consumeTimeout, subsVars, streamVars, on>>

OpenAnswered(c) ==
    /\ pc[c] = "open" /\ ws = "open" /\ pc["processor"] = "run"
    /\ mu' = None /\ Goto(c, "idle")
    /\ UNCHANGED <<connVars, subsMu, subsVars, streamVars, wg, on>>

\* The open request was refused or timed out: connect runs closeNotify, holding mu.
OpenFailed(c) ==
    /\ pc[c] = "open" /\ (ws = "down" \/ OpenStalls)
    /\ Goto(c, "once")
    /\ UNCHANGED <<connVars, lockVars, subsVars, streamVars, wg, on>>

CallDisconnect(c) ==
    /\ pc[c] = "idle"
    /\ Goto(c, "lock")
    /\ UNCHANGED <<connVars, lockVars, subsVars, streamVars, wg, on>>

\* disconnect has the lock: nothing to do, or it sends the close message.
StartDisconnect(t) ==
    /\ pc[t] = "lock" /\ mu = None
    /\ IF ws = "nil" \/ closed
         THEN Goto(t, "idle") /\ UNCHANGED mu
         ELSE Goto(t, "closing") /\ mu' = t
    /\ UNCHANGED <<connVars, subsMu, subsVars, streamVars, wg, on>>

\* The close message was answered or timed out; ws.Close tears the transport down.
CloseTransport(t) ==
    /\ pc[t] = "closing"
    /\ ws' = "down"
    /\ Goto(t, "join")
    /\ UNCHANGED <<lockVars, once, consumeTimeout, subsVars, streamVars, wg, on>>

JoinDisconnect(t) ==
    /\ pc[t] = "join" /\ Drained
    /\ mu' = None /\ Goto(t, "idle")
    /\ UNCHANGED <<connVars, subsMu, subsVars, streamVars, wg, on>>

-----------------------------------------------------------------------------
(* the goroutines of the connection                                        *)

\* The peer or the network closes the websocket.
TransportLost ==
    /\ ws = "open"
    /\ ws' = "down"
    /\ UNCHANGED <<lockVars, once, consumeTimeout, subsVars, streamVars, wg, pc, on>>

\* A goroutine gives up on the websocket: wg.Done, then the deferred closeNotify.  Its
\* mutant calls closeNotify first.
GivesUpCounted(g) == Goto(g, "once") /\ UNCHANGED wg
GivesUp(g) == Goto(g, "once") /\ wg' = wg \ {g}

\* ws.Read fails.
ReaderFails ==
    /\ pc["reader"] = "run" /\ ws = "down"
    /\ GivesUp("reader")
    /\ UNCHANGED <<connVars, lockVars, subsVars, streamVars, on>>

WriterWrites(s) ==
    /\ pc["writer"] = "run" /\ ws = "open" /\ request[s] = "queued"
    /\ request' = [request EXCEPT ![s] = "asked"]
    /\ UNCHANGED <<connVars, lockVars, subsVars, consumer, subscriber, wg, pc, on>>

\* Writing a consume request (which no answer can follow), a control message or a
\* published one fails; the websocket library then closes the transport.
WriterFails ==
    /\ pc["writer"] = "run"
    /\ \/ UNCHANGED request
       \/ \E s \in Streams : request[s] = "queued" /\ request' = [request EXCEPT ![s] = "none"]
    /\ ws' = "down"
    /\ GivesUp("writer")
    /\ UNCHANGED <<lockVars, once, consumeTimeout, subsVars, consumer, subscriber, on>>

\* writer and processor leave their loop when c.closed is closed.
StopOnClosed(g) ==
    /\ g \in {"writer", "processor"} /\ pc[g] = "run" /\ StopSignal
    /\ wg' = wg \ {g}
    /\ Goto(g, "gone")
    /\ UNCHANGED <<connVars, lockVars, subsVars, streamVars, on>>

\* A consume handler is called: by the processor with the broker's answer or an error,
\* by either goroutine with the expiry error of the handler map.  The consumer takes the
\* response if it still waits; otherwise the handler returns if sub.ctx is cancelled and
\* blocks its goroutine if it is not.  The broker answers nothing before the open.
Deliver(g, s) ==
    /\ g \in {"writer", "processor"} /\ pc[g] = "run" /\ request[s] = "asked"
    /\ \A c \in Clients : pc[c] # "open"
    /\ request' = [request EXCEPT ![s] = "none"]
    /\ \/ /\ consumer[s] = "await"
          /\ \E r \in {"handoff", "error"} :
                /\ r = "handoff" => g = "processor"
                /\ consumer' = [consumer EXCEPT ![s] = r]
          /\ UNCHANGED <<pc, on>>
       \/ /\ consumer[s] # "await" /\ ctxDone(s)
          /\ UNCHANGED <<consumer, pc, on>>
       \/ /\ consumer[s] # "await" /\ ~ctxDone(s)
          /\ Goto(g, "handler")
          /\ on' = [on EXCEPT ![g] = s]
          /\ UNCHANGED consumer
    /\ UNCHANGED <<connVars, lockVars, subsVars, subscriber, wg>>

\* Mutant of Unblocked: the handler waits for the consumer alone.
NeverUnblocked(s) == {}

\* The goroutines blocked in a handler of s go back to their loop: sub.ctx is done.
Unblocked(s) == {t \in Threads : pc[t] = "handler" /\ on[t] = s}

\* Thread t waits for the subscriber of s, whose context it has just cancelled.
AwaitSubscriber(t, s, label) ==
    /\ pc' = [u \in Threads |-> IF u = t THEN label ELSE IF u \in Unblocked(s) THEN "run" ELSE pc[u]]
    /\ on' = [u \in Threads |-> IF u = t THEN s ELSE IF u \in Unblocked(s) THEN None ELSE on[u]]

StartPing ==
    /\ pc["processor"] = "run" /\ pc["ping"] = "idle"
    /\ wg' = wg \cup {"ping"}
    /\ Goto("ping", "run")
    /\ UNCHANGED <<connVars, lockVars, subsVars, streamVars, on>>

PingAnswered ==
    /\ pc["ping"] = "run" /\ ws = "open"
    /\ wg' = wg \ {"ping"}
    /\ Goto("ping", "idle")
    /\ UNCHANGED <<connVars, lockVars, subsVars, streamVars, on>>

\* No pong in time, or the transport is gone: the library closes it, wg.Done, closeNotify.
PingFails ==
    /\ pc["ping"] = "run"
    /\ ws' = "down"
    /\ GivesUp("ping")
    /\ UNCHANGED <<lockVars, once, consumeTimeout, subsVars, streamVars, on>>

-----------------------------------------------------------------------------
(* closeNotify, run by reader, writer or ping, or by a connect that failed  *)

\* Leaving closeNotify ends the goroutine, or connect, which releases mu.
Leave(t) ==
    /\ Goto(t, IF t \in Clients THEN "idle" ELSE "gone")
    /\ mu' = IF t \in Clients THEN None ELSE mu

EnterClose(t) ==
    /\ pc[t] = "once" /\ once = None
    /\ once' = t
    /\ Goto(t, "subsLock")
    /\ UNCHANGED <<ws, consumeTimeout, lockVars, subsVars, streamVars, wg, on>>

CloseAlreadyDone(t) ==
    /\ pc[t] = "once" /\ once = Done
    /\ Leave(t)
    /\ UNCHANGED <<connVars, subsMu, subsVars, streamVars, wg, on>>

TakeSubs(t) ==
    /\ pc[t] = "subsLock" /\ subsMu = None
    /\ subsMu' = t
    /\ deleteSub' = ~consumeTimeout
    /\ todo' = table
    /\ Goto(t, "loop")
    /\ UNCHANGED <<connVars, mu, table, streamVars, wg, on>>

\* unsubscribeWithoutLock(s, deleteSub) when the DELETE fails: it returns before
\* anything else and the loop goes on.
CloseStreamFails(t, s) ==
    /\ pc[t] = "loop" /\ s \in todo /\ deleteSub /\ DeleteFails
    /\ todo' = todo \ {s}
    /\ UNCHANGED <<connVars, lockVars, table, deleteSub, streamVars, wg, pc, on>>

CloseStream(t, s) ==
    /\ pc[t] = "loop" /\ s \in todo
    /\ todo' = todo \ {s}
    /\ table' = table \ {s}
    /\ AwaitSubscriber(t, s, "wait")
    /\ UNCHANGED <<connVars, lockVars, deleteSub, streamVars, wg>>

StreamStopped(t) ==
    /\ pc[t] = "wait" /\ SubscriberGone(on[t])
    /\ Goto(t, "loop")
    /\ on' = [on EXCEPT ![t] = None]
    /\ UNCHANGED <<connVars, lockVars, subsVars, streamVars, wg>>

ReleaseSubs(t) ==
    /\ pc[t] = "loop" /\ todo = {}
    /\ subsMu' = None
    /\ Goto(t, "drain")
    /\ UNCHANGED <<connVars, mu, subsVars, streamVars, wg, on>>

\* wg.Wait returns, the error is sent, c.Error is closed.
Report(t) ==
    /\ pc[t] = "drain" /\ Drained
    /\ once' = Done
    /\ Leave(t)
    /\ UNCHANGED <<ws, consumeTimeout, subsMu, subsVars, streamVars, wg, on>>

-----------------------------------------------------------------------------
(* subscribe and unsubscribe, under c.subs                                 *)

\* Mutant of SendConsume: a busy writer leaves the request in a state nobody knows.
SendConsumeDropped(s) ==
    /\ consumer' = [consumer EXCEPT ![s] = "await"]
    /\ request' = [request EXCEPT ![s] = "dropped"]

\* sendMessage of the next consume request: it goes to writerCh, or the writer is busy
\* and the consumer returns the error.
SendConsume(s) ==
    \/ /\ consumer' = [consumer EXCEPT ![s] = "await"]
       /\ request' = [request EXCEPT ![s] = "queued"]
    \/ /\ consumer' = [consumer EXCEPT ![s] = "error"]
       /\ request' = [request EXCEPT ![s] = "none"]

\* The subscription exists at the server (created or reused).  A stream already in
\* the table and a failed creation change nothing.
Subscribe(c, s) ==
    /\ pc[c] = "idle" /\ subsMu = None /\ s \notin table
    /\ table' = table \cup {s}
    /\ wg' = wg \cup {s}
    /\ SendConsume(s)
    /\ subscriber' = [subscriber EXCEPT ![s] = "range"]
    /\ UNCHANGED <<connVars, lockVars, todo, deleteSub, pc, on>>

\* A stream that is not in the table and a DELETE that fails change nothing.
Unsubscribe(c, s) ==
    /\ pc[c] = "idle" /\ subsMu = None /\ s \in table
    /\ subsMu' = c
    /\ table' = table \ {s}
    /\ AwaitSubscriber(c, s, "unsubWait")
    /\ UNCHANGED <<connVars, mu, todo, deleteSub, streamVars, wg>>

UnsubscribeReturns(c) ==
    /\ pc[c] = "unsubWait" /\ SubscriberGone(on[c])
    /\ subsMu' = None
    /\ Goto(c, "idle")
    /\ on' = [on EXCEPT ![c] = None]
    /\ UNCHANGED <<connVars, mu, subsVars, streamVars, wg>>

-----------------------------------------------------------------------------
(* the consumer and the subscriber of a stream                             *)

\* The goroutines that a lost transport or c.closed wakes up have reacted: that takes no
\* time beside the 15 and 60 seconds of the consumer's timers.
Settled ==
    /\ ws = "down" => pc["reader"] # "run"
    /\ once = None => \A t \in Threads : pc[t] # "once"
    /\ closed => pc["writer"] # "run" /\ pc["processor"] # "run"

\* 15 s without a response, or 60 s of handoff blocked by a callback.
ConsumerTimesOut(s) ==
    /\ Settled
    /\ \/ consumer[s] = "await"
       \/ consumer[s] = "handoff" /\ subscriber[s] = "callback"
    /\ consumer' = [consumer EXCEPT ![s] = "timeout"]
    /\ UNCHANGED <<connVars, lockVars, subsVars, request, subscriber, wg, pc, on>>

ConsumerCancelled(s) ==
    /\ consumer[s] \in {"await", "poll"} /\ ctxDone(s)
    /\ consumer' = [consumer EXCEPT ![s] = "done"]
    /\ UNCHANGED <<connVars, lockVars, subsVars, request, subscriber, wg, pc, on>>

PollElapses(s) ==
    /\ consumer[s] = "poll"
    /\ SendConsume(s)
    /\ UNCHANGED <<connVars, lockVars, subsVars, subscriber, wg, pc, on>>

\* The subscriber takes the result: messages for the callback, or an empty poll.
Handoff(s) ==
    /\ consumer[s] = "handoff" /\ subscriber[s] = "range"
    /\ \/ /\ SendConsume(s)
          /\ subscriber' = [subscriber EXCEPT ![s] = "callback"]
       \/ /\ consumer' = [consumer EXCEPT ![s] = "poll"]
          /\ UNCHANGED <<request, subscriber>>
    /\ UNCHANGED <<connVars, lockVars, subsVars, wg, pc, on>>

\* The subscriber's deferred calls: wg.Done and sub.wg.Done.
Finish(s) ==
    /\ subscriber' = [subscriber EXCEPT ![s] = "off"]
    /\ consumer' = [consumer EXCEPT ![s] = "off"]
    /\ wg' = wg \ {s}

CallbackReturns(s) ==
    /\ \/ /\ subscriber[s] = "callback"
          /\ subscriber' = [subscriber EXCEPT ![s] = "range"]
          /\ UNCHANGED <<consumer, wg>>
       \/ /\ subscriber[s] = "errorCallback"
          /\ Finish(s)
    /\ UNCHANGED <<connVars, lockVars, subsVars, request, pc, on>>

\* resultCh is closed: the subscriber acts on what the consumer returned.
SubscriberStops(s) ==
    /\ subscriber[s] = "range" /\ consumer[s] = "done"
    /\ Finish(s)
    /\ UNCHANGED <<connVars, lockVars, subsVars, request, pc, on>>

SubscriberFails(s) ==
    /\ subscriber[s] = "range" /\ consumer[s] = "error"
    /\ subscriber' = [subscriber EXCEPT ![s] = "errorCallback"]
    /\ UNCHANGED <<connVars, lockVars, subsVars, request, consumer, wg, pc, on>>

\* markConsumeTimeout and go disconnect(); one such goroutine per stream is modelled.
SubscriberTimesOut(s) ==
    /\ subscriber[s] = "range" /\ consumer[s] = "timeout"
    /\ consumeTimeout' = TRUE
    /\ IF pc[s] = "idle" THEN Goto(s, "lock") ELSE UNCHANGED pc
    /\ Finish(s)
    /\ UNCHANGED <<ws, once, lockVars, subsVars, request, on>>

-----------------------------------------------------------------------------
ClientStep(c) ==
    \/ Connect(c) \/ OpenAnswered(c) \/ OpenFailed(c)
    \/ CallDisconnect(c) \/ UnsubscribeReturns(c)
    \/ \E s \in Streams : Subscribe(c, s) \/ Unsubscribe(c, s)

DisconnectStep(t) == StartDisconnect(t) \/ CloseTransport(t) \/ JoinDisconnect(t)

CloseNotifyStep(t) ==
    \/ EnterClose(t) \/ CloseAlreadyDone(t) \/ TakeSubs(t)
    \/ \E s \in Streams : CloseStreamFails(t, s) \/ CloseStream(t, s)
    \/ StreamStopped(t) \/ ReleaseSubs(t) \/ Report(t)

GoroutineStep ==
    \/ TransportLost \/ ReaderFails \/ WriterFails
    \/ StartPing \/ PingAnswered \/ PingFails
    \/ \E s \in Streams : WriterWrites(s)
    \/ \E g \in Goroutines : StopOnClosed(g) \/ \E s \in Streams : Deliver(g, s)

ConsumerStep(s) ==
    \/ ConsumerTimesOut(s) \/ ConsumerCancelled(s)
    \/ PollElapses(s) \/ Handoff(s)

SubscriberStep(s) ==
    \/ CallbackReturns(s) \/ SubscriberStops(s) \/ SubscriberFails(s) \/ SubscriberTimesOut(s)

Next ==
    \/ \E c \in Clients : ClientStep(c)
    \/ \E t \in Threads : DisconnectStep(t) \/ CloseNotifyStep(t)
    \/ GoroutineStep
    \/ \E s \in Streams : ConsumerStep(s) \/ SubscriberStep(s)

\* Goroutines run, timers fire and callbacks return (weak fairness).  A mutex is not
\* starved and a WaitGroup wakes its waiters when the count reaches zero (strong
\* fairness), and a select chooses evenly: a done context is seen at last.  Nothing is
\* assumed of the server, the network or the application's calls.
Fairness ==
    /\ \A c \in Clients : /\ WF_vars(OpenAnswered(c) \/ OpenFailed(c))
                          /\ WF_vars(UnsubscribeReturns(c))
    /\ \A t \in Clients \cup Streams : WF_vars(DisconnectStep(t))
    /\ \A t \in Clients \cup {"reader", "writer", "ping"} : WF_vars(CloseNotifyStep(t))
    /\ SF_vars(\E t \in Threads : TakeSubs(t) \/ Report(t))
    /\ SF_vars(\E t \in Threads : JoinDisconnect(t))
    /\ WF_vars(ReaderFails) /\ WF_vars(PingAnswered \/ PingFails)
    /\ WF_vars(StopOnClosed("writer")) /\ WF_vars(StopOnClosed("processor"))
    /\ \A s \in Streams : /\ WF_vars(ConsumerStep(s)) /\ WF_vars(SubscriberStep(s))
                          /\ SF_vars(ConsumerCancelled(s))

Spec == Init /\ [][Next]_vars
FairSpec == Spec /\ Fairness

-----------------------------------------------------------------------------
Labels == {"idle", "open", "lock", "closing", "join", "run", "handler", "gone",
           "once", "subsLock", "loop", "wait", "drain", "unsubWait"}

\* Type invariant: every variable of the connection has its type.
TypeOK ==
    /\ ws \in {"nil", "open", "down"}
    /\ mu \in Threads \cup {None}
    /\ subsMu \in Threads \cup {None}
    /\ wg \subseteq Goroutines \cup Streams
    /\ consumeTimeout \in BOOLEAN /\ deleteSub \in BOOLEAN
    /\ once \in Threads \cup {None, Done}
    /\ table \subseteq Streams /\ todo \subseteq Streams
    /\ pc \in [Threads -> Labels]
    /\ on \in [Threads -> Streams \cup {None}]
    /\ request \in [Streams -> {"none", "queued", "asked"}]
    /\ consumer \in [Streams -> {"off", "await", "handoff", "poll",
                                 "done", "timeout", "error"}]
    /\ subscriber \in [Streams -> {"off", "range", "callback", "errorCallback"}]

\* A stream's subscriber, and so its callback, runs only while the stream is in the table
\* or while a thread that removed it still holds the table's lock waiting for that very
\* subscriber: once Unsubscribe has returned, no callback of the stream runs.
NoCallbackAfterUnsubscribe ==
    \A s \in Streams : subscriber[s] # "off" =>
        \/ s \in table
        \/ \E t \in Threads : subsMu = t /\ pc[t] \in {"wait", "unsubWait"} /\ on[t] = s

\* When c.wg of a dialled connection is drained, the close procedure has begun: the wait
\* of disconnect can never return on a connection that still counts as connected, which
\* is what hides wg.Done before closeNotify in reader, writer and ping.
JoinImpliesClosed == ws # "nil" /\ wg = {} => closed

\* Once c.Error is closed the websocket is down and none of the goroutines that use it is
\* running, entering closeNotify with work to do, or blocked in a handler.
ReportIsFinal ==
    once = Done => /\ ws = "down" \/ OpenStalls
                   /\ wg \cap Goroutines = {}
                   /\ \A g \in Goroutines : pc[g] \in {"idle", "once", "gone"}

-----------------------------------------------------------------------------
(* Who waits for whom                                                      *)

\* Thread or stream w has a step of its own: a goroutine leaves its loop; a callback
\* returns; the subscriber or the consumer acts on a result, a timer or the context.
GoroutineMoves(g) ==
    /\ pc[g] = "run"
    /\ g = "reader" => ws = "down"
    /\ g \in {"writer", "processor"} => closed
StreamMoves(s) ==
    \/ subscriber[s] \in {"callback", "errorCallback"}
    \/ /\ subscriber[s] = "range"
       /\ \/ consumer[s] \in {"handoff", "poll", "done", "error", "timeout"}
          \/ consumer[s] = "await" /\ (s \notin table \/ Settled)
Moves(w) == IF w \in Streams THEN StreamMoves(w) ELSE GoroutineMoves(w)

\* Whoever holds the table's lock goes on, or waits for one subscriber, which does.
TableFreed ==
    \A t \in Threads : subsMu = t =>
        \/ pc[t] = "loop"
        \/ /\ pc[t] \in {"wait", "unsubWait"}
           /\ subscriber[on[t]] = "off" \/ StreamMoves(on[t])

\* A goroutine is blocked in the handler of a stream that is still in the table.
Abandoned(w) ==
    (DeleteFails \/ OpenStalls) /\ w \in Goroutines /\ pc[w] = "handler" /\ on[w] \in table

\* Whoever closeNotify's wg.Wait waits for goes on, at the latest when the goroutines that
\* the close woke up have left, or is abandoned.
DrainAdvances ==
    \A w \in wg :
        \/ Moves(w) \/ Abandoned(w)
        \/ w \in Streams /\ \E g \in wg \cap Goroutines : Moves(g)

\* Once the transport is down the reader notices, or somebody enters closeNotify, or the
\* thread in closeNotify goes on or is next at the table's lock.
CloseAdvances ==
    ws = "down" /\ once # Done =>
        \/ GoroutineMoves("reader")
        \/ once = None /\ \E t \in Threads : pc[t] = "once"
        \/ \E t \in Threads :
             /\ once = t
             /\ pc[t] = "subsLock" \/ subsMu = t \/ (pc[t] = "drain" /\ DrainAdvances)

\* Whoever holds c.mu goes on, or waits for the close, or, in disconnect and after the
\* close, for subscribers that go on.
MutexFreed ==
    \A t \in Threads : mu = t =>
        \/ pc[t] = "open" /\ (ws = "down" \/ (ws = "open" /\ pc["processor"] = "run"))
        \/ pc[t] = "closing"
        \/ (ws = "down" \/ OpenStalls) /\ (once = t \/ pc[t] = "once")
        \/ ws = "down" /\ pc[t] = "join" /\ (once = Done => \A w \in wg : Moves(w))

\* No threads wait for each other in a circle: a caller waits for the holder of c.mu, that
\* one for the close, the close for the table's lock or the goroutines, and the holder of
\* the table's lock for one subscriber, which goes on by itself.  The exceptions are a
\* goroutine blocked in a handler whose stream the close could not delete, and a close that
\* began on a transport which is still up (connection.go:285).
NoCircularWait == TableFreed /\ CloseAdvances /\ MutexFreed

-----------------------------------------------------------------------------
(* Liveness and the contract                                               *)

\* A lost transport is reported on c.Error, whoever was doing what when it was lost.
LossReported == ws = "down" ~> once = Done

\* A call of disconnect returns, also one spawned by a subscriber.
DisconnectReturns ==
    \A t \in Clients \cup Streams : pc[t] = "lock" ~> pc[t] = "idle"

\* A call of unsubscribe returns: its consumer stops even when it waits for a handoff.
UnsubscribeCompletes ==
    \A c \in Clients : pc[c] = "unsubWait" ~> pc[c] # "unsubWait"

\* closeNotify deletes no subscription of a connection that is marked with a consume
\* timeout: the reconnect will reuse the ids (the comment of connection.go:424).
TimeoutKeepsSubscriptions ==
    consumeTimeout => \A t \in Threads : pc[t] = "wait" => ~deleteSub

\* The contract this connection implements, seen through c.closeOnce and c.wg.
Contract == INSTANCE ConnectionContract WITH
    phase   <- IF once = Done THEN "reported" ELSE IF closed THEN "closing"
               ELSE IF ws = "nil" THEN "unopened" ELSE "up",
    running <- wg \cap Goroutines,
    active  <- wg \cap Streams

\* The connection implements its contract, step by step: opened once, the processor up
\* until the close begins, one report and only when every counted goroutine is gone.
ImplementsContract == Contract!Spec

\* With the scheduler's fairness it also keeps the contract's: a close that has begun
\* drains every goroutine and is reported.
ImplementsContractFairly == Contract!FairSpec

=============================================================================

----------------------------- MODULE Connection -----------------------------
(***************************************************************************)
(* Connection (internal/pubsub/reconnect.go): the handle the App holds.    *)
(* It owns one internalConnection at a time, its current session, and an   *)
(* errorHandler goroutine that replaces the session after a consume        *)
(* timeout and subscribes its streams again.  A session is seen as         *)
(* ConnectionContract promises it: unopened, up, closing, closed.          *)
(***************************************************************************)
EXTENDS Integers, FiniteSets

CONSTANTS
    Callers,        \* goroutines of the App that call the Connection
    Streams,
    None,           \* no goroutine
    MaxSessions     \* bound on the sessions of one Connection

Sessions == 1 .. MaxSessions

ASSUME CallerNames == None \notin Callers
ASSUME SessionBound == MaxSessions \in Nat \ {0}

VARIABLES
    session,        \* what became of each internalConnection
    consumeTimeout, \* the sessions marked with a consume timeout
    table,          \* the streams in each session's subscription table
    conn,           \* c.conn, as the number of the session
    subscriptions,  \* the streams in c.subscriptions
    lifecycleMu,    \* holder of c.lifecycleMu
    attempt,        \* c.attemptConnectCancel: "nil", "set", or "cancelled" while set
    ctx,            \* the errorHandler's context: "nil", "live", "cancelled"
    errorSent,      \* c.Error has received the errorHandler's error
    pc,             \* where each caller is
    target,         \* the session a caller took as its snapshot
    stream,         \* the stream a caller (un)subscribes
    handler,        \* where the errorHandler is
    handled,        \* the errorHandler's conn, newConn while it reconnects
    resubscribe     \* what its loop over the subscriptions has still to visit

sessionVars == <<session, consumeTimeout, table>>
lifecycle == <<lifecycleMu, attempt, ctx>>
callerVars == <<pc, target, stream>>
handlerVars == <<handler, handled, resubscribe, errorSent>>
vars == <<sessionVars, conn, subscriptions, lifecycle, callerVars, handlerVars>>

Init ==
    /\ session = [k \in Sessions |-> "unopened"]
    /\ consumeTimeout = {}
    /\ table = [k \in Sessions |-> {}]
    /\ conn = 1 /\ subscriptions = {}
    /\ lifecycleMu = None /\ attempt = "nil" /\ ctx = "nil"
    /\ errorSent = FALSE
    /\ pc = [t \in Callers |-> "idle"]
    /\ target = [t \in Callers |-> 1]
    /\ stream \in [Callers -> Streams]
    /\ handler = "none" /\ handled = 1 /\ resubscribe = {}

Goto(t, label) == pc' = [pc EXCEPT ![t] = label]

\* The call returns; its snapshot is forgotten.
Returns(t) == Goto(t, "idle") /\ target' = [target EXCEPT ![t] = 1]

-----------------------------------------------------------------------------
(* a session, as its contract has it                                       *)

\* No call or errorHandler is between two steps that take no time beside the 15 seconds
\* of a consume timeout; connecting and HTTP requests do take time.
Settled ==
    /\ \A t \in Callers : pc[t] \notin {"storing", "forgetting"}
    /\ handler \in {"none", "select", "renewing", "connecting", "gone"}

\* A session that is up begins to close, its transport lost or a consume timed out; a
\* consume can still time out while it is closing.
SessionFails(k) ==
    /\ \/ session[k] = "up" /\ UNCHANGED consumeTimeout
       \/ session[k] \in {"up", "closing"} /\ table[k] # {} /\ Settled
          /\ consumeTimeout' = consumeTimeout \cup {k}
    /\ session' = [session EXCEPT ![k] = "closing"]
    /\ UNCHANGED <<table, conn, subscriptions, lifecycle, callerVars, handlerVars>>

\* closeNotify has emptied the table and closes the session's Error.
SessionCloses(k) ==
    /\ session[k] = "closing"
    /\ session' = [session EXCEPT ![k] = "closed"]
    /\ table' = [table EXCEPT ![k] = {}]
    /\ UNCHANGED <<consumeTimeout, conn, subscriptions, lifecycle, callerVars, handlerVars>>

\* internalConnection.disconnect, waiting for the close it causes; a session that is
\* unopened or already closing is left alone.
CloseSession(k) ==
    /\ session' = [session EXCEPT ![k] = IF @ = "up" THEN "closed" ELSE @]
    /\ table' = [table EXCEPT ![k] = IF session[k] = "up" THEN {} ELSE @]
    /\ UNCHANGED consumeTimeout

\* connectionSnapshot.  Its mutant returns what c.conn was before it was set.
PreviousConnection == conn - 1
ConnectionSnapshot == conn

-----------------------------------------------------------------------------
(* Connect and Disconnect                                                  *)

\* The App does not call Connect again on a Connection that has been connected.
Connect(t) ==
    /\ pc[t] = "idle" /\ lifecycleMu = None
    /\ ctx = "nil" /\ session[1] = "unopened"
    /\ lifecycleMu' = t /\ attempt' = "set"
    /\ target' = [target EXCEPT ![t] = ConnectionSnapshot]
    /\ Goto(t, "connecting")
    /\ UNCHANGED <<sessionVars, conn, subscriptions, ctx, stream, handlerVars>>

\* Connect returns.  Its mutant forgets the lock.
EndsLocked(t) == UNCHANGED lifecycleMu /\ attempt' = "nil" /\ Returns(t)
ConnectEnds(t) == lifecycleMu' = None /\ attempt' = "nil" /\ Returns(t)

\* The dial fails, or the session is closed again: its open failed, or it is up but the
\* attempt was cancelled meanwhile.
ConnectFails(t) ==
    /\ pc[t] = "connecting"
    /\ session' \in {session, [session EXCEPT ![target[t]] = "closed"]}
    /\ ConnectEnds(t)
    /\ UNCHANGED <<consumeTimeout, table, conn, subscriptions, ctx, stream, handlerVars>>

\* A cancellation that comes after attemptCtx.Err() was read has no effect.
ConnectSucceeds(t) ==
    /\ pc[t] = "connecting"
    /\ session' = [session EXCEPT ![target[t]] = "up"]
    /\ ctx' = "live" /\ handler' = "loop"
    /\ ConnectEnds(t)
    /\ UNCHANGED <<consumeTimeout, table, conn, subscriptions, stream,
                   handled, resubscribe, errorSent>>

\* Disconnect first cancels an attempt that is in flight.
Disconnect(t) ==
    /\ pc[t] = "idle"
    /\ attempt' = IF attempt = "set" THEN "cancelled" ELSE attempt
    /\ Goto(t, "locking")
    /\ UNCHANGED <<sessionVars, conn, subscriptions, lifecycleMu, ctx, target, stream, handlerVars>>

\* Under lifecycleMu it takes the session it will close and stops the errorHandler.
DisconnectLocks(t) ==
    /\ pc[t] = "locking" /\ lifecycleMu = None
    /\ lifecycleMu' = t
    /\ ctx' = IF ctx = "live" THEN "cancelled" ELSE ctx
    /\ target' = [target EXCEPT ![t] = ConnectionSnapshot]
    /\ Goto(t, "disconnecting")
    /\ UNCHANGED <<sessionVars, conn, subscriptions, attempt, stream, handlerVars>>

\* The session is closed, after a connect of it by the errorHandler, which holds its mu.
DisconnectReturns(t) ==
    /\ pc[t] = "disconnecting"
    /\ handler = "connecting" => handled # target[t]
    /\ CloseSession(target[t])
    /\ lifecycleMu' = None
    /\ Returns(t)
    /\ UNCHANGED <<conn, subscriptions, attempt, ctx, stream, handlerVars>>

-----------------------------------------------------------------------------
(* Subscribe and Unsubscribe: a snapshot of c.conn, the session's call, and *)
(* then c.subscriptions                                                    *)

Begin(t, s, label) ==
    /\ pc[t] = "idle" /\ ctx # "nil"
    /\ target' = [target EXCEPT ![t] = ConnectionSnapshot]
    /\ stream' = [stream EXCEPT ![t] = s]
    /\ Goto(t, label)
    /\ UNCHANGED <<sessionVars, conn, subscriptions, lifecycle, handlerVars>>

Subscribe(t, s) == Begin(t, s, "subscribing")
Unsubscribe(t, s) == Begin(t, s, "unsubscribing")

\* The stream is subscribed already, or the HTTP request fails; neither changes anything.
CallFails(t) ==
    /\ pc[t] \in {"subscribing", "unsubscribing"}
    /\ Returns(t)
    /\ UNCHANGED <<sessionVars, conn, subscriptions, lifecycle, stream, handlerVars>>

\* The session does not check that it is still open.
SessionSubscribes(t) ==
    /\ pc[t] = "subscribing" /\ stream[t] \notin table[target[t]]
    /\ table' = [table EXCEPT ![target[t]] = @ \cup {stream[t]}]
    /\ Goto(t, "storing")
    /\ UNCHANGED <<session, consumeTimeout, conn, subscriptions, lifecycle, target, stream,
                   handlerVars>>

SessionUnsubscribes(t) ==
    /\ pc[t] = "unsubscribing" /\ stream[t] \in table[target[t]]
    /\ table' = [table EXCEPT ![target[t]] = @ \ {stream[t]}]
    /\ Goto(t, "forgetting")
    /\ UNCHANGED <<session, consumeTimeout, conn, subscriptions, lifecycle, target, stream,
                   handlerVars>>

Store(t) ==
    /\ pc[t] \in {"storing", "forgetting"}
    /\ subscriptions' = IF pc[t] = "storing" THEN subscriptions \cup {stream[t]}
                        ELSE subscriptions \ {stream[t]}
    /\ Returns(t)
    /\ UNCHANGED <<sessionVars, conn, lifecycle, stream, handlerVars>>

-----------------------------------------------------------------------------
(* errorHandler                                                            *)

Snapshot ==
    /\ handler = "loop"
    /\ handled' = ConnectionSnapshot /\ handler' = "select"
    /\ UNCHANGED <<sessionVars, conn, subscriptions, lifecycle, callerVars, resubscribe, errorSent>>

\* The select's case of the cancelled context.  Its mutant: it watches the session alone.
NeverDone == FALSE
Cancelled == ctx = "cancelled"

ContextDone ==
    /\ handler = "select" /\ Cancelled
    /\ handler' = "returning"
    /\ UNCHANGED <<sessionVars, conn, subscriptions, lifecycle, callerVars,
                   handled, resubscribe, errorSent>>

\* The case of the select that is taken when conn.Error yields.  Its mutant: a consume
\* timeout is enough to go on.
TimeoutSeen == session[handled] = "closed" \/ handled \in consumeTimeout
ErrorSeen == session[handled] = "closed"

\* Only a consume timeout is repaired; every other error is passed on.
SessionError ==
    /\ handler = "select" /\ ErrorSeen
    /\ handler' = IF handled \in consumeTimeout THEN "renewing" ELSE "returning"
    /\ UNCHANGED <<sessionVars, conn, subscriptions, lifecycle, callerVars,
                   handled, resubscribe, errorSent>>

\* newInternalConnection and setConnection.
Renew ==
    /\ handler = "renewing" /\ conn < MaxSessions
    /\ conn' = conn + 1 /\ handled' = conn + 1
    /\ handler' = "dialling"
    /\ UNCHANGED <<sessionVars, subscriptions, lifecycle, callerVars, resubscribe, errorSent>>

\* connect takes the session's mu.
Dial ==
    /\ handler = "dialling"
    /\ handler' = "connecting"
    /\ UNCHANGED <<sessionVars, conn, subscriptions, lifecycle, callerVars,
                   handled, resubscribe, errorSent>>

Connected ==
    /\ handler = "connecting"
    /\ session' = [session EXCEPT ![handled] = "up"]
    /\ handler' = "snapshot"
    /\ UNCHANGED <<consumeTimeout, table, conn, subscriptions, lifecycle, callerVars,
                   handled, resubscribe, errorSent>>

\* newInternalConnection, connect, or a subscribe of a stream that is already in the
\* table fails: the errorHandler passes the error on and leaves the session as it is.
RenewFails ==
    /\ \/ handler = "renewing" /\ UNCHANGED session
       \/ /\ handler = "connecting"
          /\ session' \in {session, [session EXCEPT ![handled] = "closed"]}
       \/ /\ handler = "subscribing" /\ resubscribe \cap table[handled] # {}
          /\ UNCHANGED session
    /\ handler' = "returning"
    /\ UNCHANGED <<consumeTimeout, table, conn, subscriptions, lifecycle, callerVars,
                   handled, resubscribe, errorSent>>

\* subscriptionSnapshot.
TakeSubscriptions ==
    /\ handler = "snapshot"
    /\ resubscribe' = subscriptions
    /\ handler' = "subscribing"
    /\ UNCHANGED <<sessionVars, conn, subscriptions, lifecycle, callerVars, handled, errorSent>>

Resubscribe(s) ==
    /\ handler = "subscribing" /\ s \in resubscribe \ table[handled]
    /\ table' = [table EXCEPT ![handled] = @ \cup {s}]
    /\ resubscribe' = resubscribe \ {s}
    /\ UNCHANGED <<session, consumeTimeout, conn, subscriptions, lifecycle, callerVars,
                   handler, handled, errorSent>>

Reconnected ==
    /\ handler = "subscribing" /\ resubscribe = {}
    /\ handler' = "loop"
    /\ UNCHANGED <<sessionVars, conn, subscriptions, lifecycle, callerVars,
                   handled, resubscribe, errorSent>>

\* The deferred c.Error <- err.  Its mutant pushes only the error of a session.
PushOnClose == errorSent' = (handled \notin consumeTimeout)
PushError == errorSent' = TRUE

Return ==
    /\ handler = "returning"
    /\ handler' = "gone" /\ PushError
    /\ UNCHANGED <<sessionVars, conn, subscriptions, lifecycle, callerVars, handled, resubscribe>>

-----------------------------------------------------------------------------
ConnectReturns(t) == ConnectFails(t) \/ ConnectSucceeds(t)

CallReturns(t) == CallFails(t) \/ SessionSubscribes(t) \/ SessionUnsubscribes(t) \/ Store(t)

Handler ==
    \/ Snapshot \/ ContextDone \/ SessionError
    \/ Renew \/ Dial \/ Connected \/ RenewFails
    \/ TakeSubscriptions \/ (\E s \in Streams : Resubscribe(s)) \/ Reconnected
    \/ Return

Next ==
    \/ \E k \in Sessions : SessionFails(k) \/ SessionCloses(k)
    \/ \E t \in Callers :
          \/ Connect(t) \/ ConnectReturns(t)
          \/ Disconnect(t) \/ DisconnectLocks(t) \/ DisconnectReturns(t)
          \/ \E s \in Streams : Subscribe(t, s) \/ Unsubscribe(t, s)
          \/ CallReturns(t)
    \/ Handler

\* Goroutines run, a session that closes reports it (ConnectionContract), and a mutex is
\* not starved.  Nothing is assumed of the App's calls.
Fairness ==
    /\ \A k \in Sessions : WF_vars(SessionCloses(k))
    /\ \A t \in Callers : /\ WF_vars(ConnectReturns(t)) /\ WF_vars(DisconnectReturns(t))
                          /\ SF_vars(DisconnectLocks(t))
    /\ WF_vars(Handler)

Spec == Init /\ [][Next]_vars
FairSpec == Spec /\ Fairness

-----------------------------------------------------------------------------
\* Type invariant: every variable of the Connection has its type.
TypeOK ==
    /\ session \in [Sessions -> {"unopened", "up", "closing", "closed"}]
    /\ consumeTimeout \subseteq Sessions
    /\ table \in [Sessions -> SUBSET Streams]
    /\ conn \in Sessions /\ handled \in Sessions
    /\ subscriptions \subseteq Streams /\ resubscribe \subseteq Streams
    /\ lifecycleMu \in Callers \cup {None}
    /\ attempt \in {"nil", "set", "cancelled"}
    /\ ctx \in {"nil", "live", "cancelled"}
    /\ errorSent \in BOOLEAN
    /\ pc \in [Callers -> {"idle", "connecting", "locking", "disconnecting", "subscribing",
                           "unsubscribing", "storing", "forgetting"}]
    /\ target \in [Callers -> Sessions]
    /\ stream \in [Callers -> Streams]
    /\ handler \in {"none", "loop", "select", "renewing", "dialling", "connecting",
                    "snapshot", "subscribing", "returning", "gone"}

Running(k) == session[k] \in {"up", "closing"}

\* At most one session of a Connection has goroutines: the errorHandler dials only after
\* the old session has reported, so two sessions never call back for the same stream and
\* never share its subscription id.
OneSession == \A j, k \in Sessions : Running(j) /\ Running(k) => j = k

\* The loss of the current session is repaired or passed on to c.Error, also when the
\* reconnect itself fails half way.
LossHandled ==
    ctx = "live" /\ session[conn] = "closed" ~> errorSent \/ session[conn] = "up"

\* Disconnect returns: the errorHandler, a Connect in flight and another Disconnect, which
\* share two mutexes with it, never keep it waiting for good.
DisconnectCompletes == \A t \in Callers : pc[t] = "locking" ~> pc[t] = "idle"

\* A Disconnect ends the errorHandler, at the latest when its reconnect is over.
HandlerStops == ctx = "cancelled" ~> handler = "gone"

\* Once a Disconnect has returned and the errorHandler is gone, no session is up
\* (reconnect.go:113 and 115-116).
DisconnectIsFinal ==
    /\ ctx = "cancelled" /\ handler = "gone"
    /\ \A t \in Callers : pc[t] \notin {"locking", "disconnecting"}
    => \A k \in Sessions : session[k] # "up"

\* After a reconnect, with no call in progress, the streams whose Subscribe returned are
\* subscribed on the current session (reconnect.go:196).
SubscriptionsResumed ==
    /\ handler = "select" /\ ctx = "live" /\ session[conn] = "up"
    /\ \A t \in Callers : pc[t] = "idle"
    => subscriptions \subseteq table[conn]
=============================================================================

---------------------------- MODULE GapRecovery ----------------------------
(***************************************************************************)
(* The gap tracker driven the way the SDK drives it: consumers report      *)
(* timeouts and broker responses (subscribe.go), and one manager, first    *)
(* the Connection's errorHandler (reconnect.go) and after its failure the  *)
(* App's connect loop (app.go), connects, subscribes and announces the     *)
(* streams as ready.  A session is one internalConnection, seen as         *)
(* ConnectionContract promises it.                                         *)
(***************************************************************************)
EXTENDS GapTracker

CONSTANTS
    MaxAttempts,    \* bound on the sessions that are tried
    NoGap           \* the application knows of no gap

ASSUME RecoveryConstants ==
    MaxAttempts \in Nat /\ NoGap \notin [reason : Reasons, count : Nat]

VARIABLES
    session,        \* "live", "closing", "closed"
    attempt,        \* number of the current session
    timedOut,       \* the session's consumeTimeout
    abandoned,      \* a subscribe of this session failed: the App drops it
    manager,        \* "waiting", "connecting", "subscribing"
    byApp,          \* the manager is the App's loop, subscribing one stream at a time
    todo,           \* streams the manager has still to subscribe
    announce,       \* streams the manager has still to announce as ready
    consumer,       \* "off", "polling", "failed" (detected, the subscriber has to react)
    known,          \* what the application knows of each stream's gap
    evidence        \* the attempts of detection, readiness and response (history)

sessionVars == <<session, attempt, timedOut, abandoned>>
managerVars == <<manager, byApp, todo, announce>>
vars == <<trackerVars, sessionVars, managerVars, consumer, known, evidence>>

NoEvidence == [detected |-> 0, ready |-> 0, response |-> 0]

Init ==
    /\ TrackerInit
    /\ session = "live" /\ attempt = 1 /\ timedOut = FALSE /\ abandoned = FALSE
    /\ manager = "subscribing" /\ byApp = TRUE /\ todo = Streams /\ announce = {}
    /\ consumer = [s \in Streams |-> "off"]
    /\ known = [s \in Streams |-> NoGap]
    /\ evidence = [s \in Streams |-> NoEvidence]

-----------------------------------------------------------------------------
(* consumers and subscribers                                               *)

Response(s) ==
    /\ session = "live" /\ consumer[s] = "polling" /\ outbox[s] = NoEvent
    /\ BrokerResponse(s, s)
    /\ evidence' = [evidence EXCEPT ![s].response = attempt]
    /\ UNCHANGED <<sessionVars, managerVars, consumer, known>>

\* A consumer's confirmed gap.  Subscribing, announcing and the manager's handler calls
\* take no time beside the 15 and 60 seconds of the timers.
TimesOut(s) ==
    /\ consumer[s] = "polling" /\ outbox[s] = NoEvent /\ outbox[Manager] = NoEvent
    /\ manager # "subscribing"
    /\ \E r \in Reasons : Detect(s, s, r)
    /\ consumer' = [consumer EXCEPT ![s] = "failed"]
    /\ evidence' = IF GapOpen(s) THEN evidence
                   ELSE [evidence EXCEPT ![s].detected = attempt]
    /\ UNCHANGED <<sessionVars, managerVars, known>>

\* The subscriber detects once more, marks the timeout and disconnects.
SubscriberReacts(s) ==
    /\ consumer[s] = "failed" /\ outbox[s] = NoEvent
    /\ \E r \in Reasons : Detect(s, s, r)
    /\ consumer' = [consumer EXCEPT ![s] = "off"]
    /\ timedOut' = TRUE
    /\ session' = IF session = "live" THEN "closing" ELSE session
    /\ UNCHANGED <<attempt, abandoned, managerVars, known, evidence>>

\* A caller that left the lock hands its event to the handler.
Emit(t) ==
    /\ outbox[t] # NoEvent
    /\ LET e == outbox[t] IN
       known' = [known EXCEPT ![e.stream] =
           IF e.state = "detected" THEN [reason |-> e.reason, count |-> e.count] ELSE NoGap]
    /\ outbox' = [outbox EXCEPT ![t] = NoEvent]
    /\ UNCHANGED <<lifecycle, reconnectCount, sessionVars, managerVars, consumer, evidence>>

-----------------------------------------------------------------------------
(* the session                                                             *)

TransportLost ==
    /\ session = "live"
    /\ session' = "closing"
    /\ UNCHANGED <<trackerVars, attempt, timedOut, abandoned, managerVars, consumer,
                   known, evidence>>

\* closeNotify cancels the consumer of a subscribed stream.
StopConsumer(s) ==
    /\ session = "closing" /\ consumer[s] = "polling"
    /\ consumer' = [consumer EXCEPT ![s] = "off"]
    /\ UNCHANGED <<trackerVars, sessionVars, managerVars, known, evidence>>

\* Every consumer is gone: the close is reported.  Subscribe does not check for it, so a
\* consumer may still be started on a closed session.
Closed ==
    /\ session = "closing" /\ \A s \in Streams : consumer[s] = "off"
    /\ session' = "closed"
    /\ UNCHANGED <<trackerVars, attempt, timedOut, abandoned, managerVars, consumer,
                   known, evidence>>

-----------------------------------------------------------------------------
(* the manager                                                             *)

\* The error is read: errorHandler reconnects after a consume timeout, else the App does.
Reconnect ==
    /\ manager = "waiting" /\ session = "closed"
    /\ manager' = "connecting"
    /\ byApp' = (abandoned \/ ~timedOut)
    /\ UNCHANGED <<trackerVars, sessionVars, todo, announce, consumer, known, evidence>>

ConnectFails ==
    /\ manager = "connecting"
    /\ byApp' = TRUE
    /\ UNCHANGED <<trackerVars, sessionVars, manager, todo, announce, consumer, known, evidence>>

\* The App's reconnectDelay (30 s) outlasts the 15 seconds of a consumer that was started on
\* a closed session; the errorHandler's reconnect follows a session without any.
Connects ==
    /\ manager = "connecting" /\ attempt < MaxAttempts
    /\ \A s \in Streams : consumer[s] = "off"
    /\ session' = "live" /\ attempt' = attempt + 1
    /\ timedOut' = FALSE /\ abandoned' = FALSE
    /\ manager' = "subscribing" /\ todo' = Streams
    /\ UNCHANGED <<trackerVars, byApp, announce, consumer, known, evidence>>

\* Subscribing a stream starts its consumer; the App's Subscribe then announces it, the
\* errorHandler announces all streams after the last one.
Subscribe(s) ==
    /\ manager = "subscribing" /\ s \in todo /\ (byApp => announce = {})
    /\ SubscriptionStarted(s)
    /\ consumer' = [consumer EXCEPT ![s] = "polling"]
    /\ todo' = todo \ {s}
    /\ announce' = announce \cup {s}
    /\ UNCHANGED <<sessionVars, manager, byApp, known, evidence>>

\* The HTTP request fails: the App takes over and drops the session.
SubscribeFails ==
    /\ manager = "subscribing" /\ todo # {} /\ (byApp => announce = {})
    /\ manager' = "waiting" /\ todo' = {} /\ announce' = {}
    /\ abandoned' = TRUE
    /\ session' = IF session = "live" THEN "closing" ELSE session
    /\ UNCHANGED <<trackerVars, attempt, timedOut, byApp, consumer, known, evidence>>

Announce(s) ==
    /\ manager = "subscribing" /\ s \in announce /\ outbox[Manager] = NoEvent
    /\ byApp \/ todo = {}
    /\ ConnectionReady(Manager, s)
    /\ announce' = announce \ {s}
    /\ evidence' = [evidence EXCEPT ![s].ready = attempt]
    /\ UNCHANGED <<sessionVars, manager, byApp, todo, consumer, known>>

Subscribed ==
    /\ manager = "subscribing" /\ todo = {} /\ announce = {} /\ outbox[Manager] = NoEvent
    /\ manager' = "waiting"
    /\ UNCHANGED <<trackerVars, sessionVars, byApp, todo, announce, consumer, known, evidence>>

-----------------------------------------------------------------------------
Next ==
    \/ \E s \in Streams : \/ Response(s) \/ TimesOut(s) \/ SubscriberReacts(s)
                          \/ StopConsumer(s) \/ Subscribe(s) \/ Announce(s)
    \/ \E t \in Callers : Emit(t)
    \/ TransportLost \/ Closed
    \/ Reconnect \/ ConnectFails \/ Connects \/ SubscribeFails \/ Subscribed

Spec == Init /\ [][Next]_vars

TypeOK ==
    /\ TrackerTypeOK
    /\ session \in {"live", "closing", "closed"}
    /\ attempt \in Nat
    /\ timedOut \in BOOLEAN /\ abandoned \in BOOLEAN /\ byApp \in BOOLEAN
    /\ manager \in {"waiting", "connecting", "subscribing"}
    /\ todo \subseteq Streams /\ announce \subseteq Streams
    /\ consumer \in [Streams -> {"off", "polling", "failed"}]
    /\ known \in [Streams -> [reason : Reasons, count : Nat] \cup {NoGap}]
    /\ evidence \in [Streams -> [detected : Nat, ready : Nat, response : Nat]]

\* A gap is closed only on evidence of one single attempt that is later than the session
\* the gap was detected on: both its announcement and a response belong to it.
RecoveryIsEarned ==
    [][\A s \in Streams : lifecycle[s].active /\ ~lifecycle'[s].active =>
          /\ evidence'[s].ready = evidence'[s].response
          /\ evidence'[s].detected < evidence'[s].ready]_vars

\* A stream that is polled on an established session is not left with a gap that no
\* response can close: if its gap is open, its session has been announced.
NoStuckGap ==
    \A s \in Streams :
        lifecycle[s].active /\ session = "live" /\ manager = "waiting" /\ consumer[s] = "polling"
            => lifecycle[s].ready

\* The events, in the order in which the handler is called, alternate for each stream.
Contract == INSTANCE GapEvents WITH gap <- known
EventsAlternate == Contract!Spec

\* The reconnect count of a recovery exceeds the one its detection carried.
CountAdvances ==
    \A t \in Callers : outbox[t] # NoEvent /\ outbox[t].state = "recovered" =>
        known[outbox[t].stream] # NoGap /\ outbox[t].count > known[outbox[t].stream].count
=============================================================================

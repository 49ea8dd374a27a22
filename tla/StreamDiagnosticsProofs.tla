---------------------- MODULE StreamDiagnosticsProofs ----------------------
(***************************************************************************)
(* Proofs about StreamDiagnostics, for every threshold, and every bound on *)
(* the clock, the messages, the subscriptions and the renewals.            *)
(***************************************************************************)
EXTENDS StreamDiagnostics, TLAPS

\* The records of connStats for a stream.
Stats == [active : BOOLEAN, received : 0..MaxMessages, dispatched : Nat, starts : Nat,
          ends : Nat, processing : BOOLEAN, since : 0..Never]

\* The shapes of the records and the values DiagnosticsTypeOK says nothing about.
Shapes ==
    /\ DiagnosticsTypeOK
    /\ known \in BOOLEAN /\ quit \in BOOLEAN /\ final \in BOOLEAN
    /\ ended \in BOOLEAN
    /\ stats \in Stats
    /\ handler \in [at : {"off", "armed", "fired", "warning", "waiting", "stopped"},
                    start : 0..MaxTime]
    /\ snapshot \in [active : BOOLEAN, received : 0..MaxMessages]

\* A stream's life: the subscriber runs in a subscription, the consumer and the watchdog
\* beside the subscriber, and the entry is active as long.
Lives ==
    /\ subscriber # "off" => sub # "none" /\ stats.active
    /\ consumer # "off" \/ watchdog # "off" => subscriber # "off"
    /\ consumer # "offer" => offered = 0
    /\ subscriber = "off" => left = 0
    /\ subscriber \in {"join", "failed"} => left = 0 /\ consumer \in Reasons
    /\ session \in {"tearing", "renewing"} => sub # "live"
    /\ session = "renewing" => sub = "none"
    /\ session \in {"renewing", "down"} => subscriber = "off"

\* Every message that was counted is dispatched, waits to be, or was given up by the consumer.
Counters ==
    /\ stats.received >= stats.dispatched + left + offered
    /\ stats.dispatched = stats.starts + (IF subscriber \in {"begin", "start"} THEN 1 ELSE 0)
    /\ stats.starts = stats.ends + (IF Processing THEN 1 ELSE 0)
    /\ stats.processing <=> Processing

\* What the three reporters go by is never older than the callback they report.
Times ==
    /\ begun # Never <=> Processing \/ subscriber = "start"
    /\ begun # Never => begun <= clock
    /\ watch # Never => watch = begun /\ Watched
    /\ Processing => begun <= stats.since /\ stats.since <= clock
    /\ handler.at # "off" =>
           subscriber \in {"handler", "stop"} /\ begun <= handler.start /\ handler.start <= clock
    /\ handler.at \in {"fired", "warning", "waiting"} => clock >= handler.start + Threshold

\* The summaries follow the counter; a life ends with the subscription or with the logger.
Reports ==
    /\ previous <= stats.received
    /\ logger = "log" => previous <= snapshot.received /\ snapshot.received <= stats.received
    /\ cause = "lost" \/ app = "unsubscribing" => ended
    /\ session \in {"closing", "tearing"} => cause # "none"
    /\ session \in {"closing", "tearing"} /\ cause = "timeout" => timedOut = "marked"
    /\ session = "closing" => timedOut # "late"
    /\ session \in {"up", "renewing"} => timedOut = "no"
    /\ cause = "disconnect" => logger = "gone"
    /\ logger # "gone" /\ ~ended => stats.active \/ stats.received = 0
    /\ logger = "log" /\ ~ended => snapshot.active \/ snapshot.received = 0

SInv == Shapes /\ Lives /\ Counters /\ Times /\ Reports

-----------------------------------------------------------------------------
(* The methods of connStats. *)

LEMMA FieldSet ==
    ASSUME NEW s \in Stats
    PROVE  /\ \A n \in 0..Never : [s EXCEPT !.since = n] \in Stats
           /\ \A n \in Nat : [s EXCEPT !.starts = n] \in Stats /\ [s EXCEPT !.ends = n] \in Stats
           /\ \A b \in BOOLEAN :
                  [s EXCEPT !.active = b] \in Stats /\ [s EXCEPT !.processing = b] \in Stats
  BY DEF Stats

LEMMA StatsTyped ==
    ASSUME stats \in Stats, clock \in 0..MaxTime,
           ProcessingStarts \/ ProcessingEnds \/ BeginStream \/ EndStream
    PROVE  stats' \in Stats
<1>1. clock \in 0..Never
  BY DiagnosticsAssumption DEF Never
<1>2. CASE ProcessingStarts
  <2> DEFINE s == [stats EXCEPT !.starts = @ + 1]
  <2>1. s \in Stats
    BY FieldSet DEF Stats
  <2>2. [s EXCEPT !.processing = TRUE] \in Stats
    BY <2>1, FieldSet
  <2>3. QED
    BY <1>1, <1>2, <2>2, FieldSet DEF ProcessingStarts
<1>3. CASE ProcessingEnds
  <2> DEFINE s == [stats EXCEPT !.ends = @ + 1]
  <2>1. s \in Stats
    BY FieldSet DEF Stats
  <2>2. QED
    BY <1>3, <2>1, FieldSet DEF ProcessingEnds
<1>4. CASE BeginStream
  <2> DEFINE s == [stats EXCEPT !.active = TRUE]
  <2>1. [s EXCEPT !.since = clock] \in Stats
    BY <1>1, FieldSet
  <2>2. QED
    BY <1>4, <2>1, FieldSet DEF BeginStream
<1>5. CASE EndStream
  BY <1>5, FieldSet DEF EndStream
<1>6. QED
  BY <1>2, <1>3, <1>4, <1>5

-----------------------------------------------------------------------------
(* The inductive invariant. *)

LEMMA SInvInit == Init => SInv
<1> SUFFICES ASSUME Init PROVE SInv
  OBVIOUS
<1> USE DiagnosticsAssumption DEF Never, Processing, Watched, Reasons, Init
<1>1. NoStats \in Stats
  BY DEF Stats, NoStats
<1>2. DiagnosticsTypeOK
  BY DEF DiagnosticsTypeOK, NoStats
<1>3. Shapes
  <2>1. snapshot \in [active : BOOLEAN, received : 0..MaxMessages]
    BY DEF NoSnapshot
  <2>2. handler \in [at : {"off", "armed", "fired", "warning", "waiting", "stopped"},
                     start : 0..MaxTime]
    OBVIOUS
  <2>3. QED
    BY <1>1, <1>2, <2>1, <2>2 DEF Shapes
<1>4. Lives /\ Counters
  BY DEF Lives, Counters, NoStats
<1>5. Times /\ Reports
  BY DEF Times, Reports, NoSnapshot, NoStats
<1>6. QED
  BY <1>3, <1>4, <1>5 DEF SInv

LEMMA SInvStep == SInv /\ [Next]_vars => SInv'
<1> SUFFICES ASSUME SInv, [Next]_vars PROVE SInv'
  OBVIOUS
<1> USE DiagnosticsAssumption DEF Stats, Never, Processing, SInv, Shapes, DiagnosticsTypeOK,
     Lives, Counters, Times, Reports, Watched, Reasons, appVars, sessionVars, subVars,
     watchVars, loggerVars
<1>1. CASE Tick
  BY <1>1 DEF Tick
<1>2. ASSUME NEW k \in 1..MaxMessages, Consume(k) PROVE SInv'
  BY <1>2 DEF Consume, Received, CountMessages
<1>3. ASSUME NEW reason \in Reasons, ConsumerEnds(reason) PROVE SInv'
  BY <1>3 DEF ConsumerEnds
<1>4. CASE TakeResult
  BY <1>4 DEF TakeResult
<1>5. CASE Dispatch
  BY <1>5 DEF Dispatch, Dispatched, Step
<1>6. CASE WatchBegins
  BY <1>6 DEF WatchBegins, Step
<1>7. CASE CallbackStarts
  <2>1. stats' \in Stats
    BY <1>7, StatsTyped DEF CallbackStarts
  <2>2. QED
    BY <1>7, <2>1 DEF CallbackStarts, ProcessingStarts, Step
<1>8. CASE HandlerCalled
  BY <1>8 DEF HandlerCalled, Step
<1>9. CASE CallbackReturns
  BY <1>9 DEF CallbackReturns, Step
<1>10. CASE HandlerReturns
  BY <1>10 DEF HandlerReturns, Step
<1>11. CASE StopHandlerWatchdog
  BY <1>11 DEF StopHandlerWatchdog, Step, Joined
<1>12. CASE WatchEnds
  BY <1>12 DEF WatchEnds, Step, WatchCleared
<1>13. CASE CallbackCompletes
  <2>1. stats' \in Stats
    BY <1>13, StatsTyped DEF CallbackCompletes
  <2>2. Shapes'
    BY <1>13, <2>1 DEF CallbackCompletes, ProcessingEnds, Step
  <2>3. Lives'
    BY <1>13, <2>1 DEF CallbackCompletes, ProcessingEnds, Step
  <2>4. Counters'
    BY <1>13, <2>1 DEF CallbackCompletes, ProcessingEnds, Step
  <2>5. Times'
    BY <1>13, <2>1 DEF CallbackCompletes, ProcessingEnds, Step
  <2>6. Reports'
    BY <1>13, <2>1 DEF CallbackCompletes, ProcessingEnds, Step
  <2>7. QED
    BY <2>2, <2>3, <2>4, <2>5, <2>6
<1>14. CASE ResultsEnd
  BY <1>14 DEF ResultsEnd, MarkConsumeTimeout, Step
<1>39. CASE ErrorTold
  BY <1>39 DEF ErrorTold, Step
<1>15. CASE SubscriberGone
  BY <1>15 DEF SubscriberGone, Step
<1>16. CASE LoggerWakes
  <2>1. final' \in BOOLEAN
    BY <1>16, Zenon DEF LoggerWakes
  <2>2. QED
    BY <1>16, <2>1 DEF LoggerWakes, SessionLocked
<1>17. CASE TakeSnapshot
  BY <1>17 DEF TakeSnapshot
<1>18. CASE LogSummary
  BY <1>18 DEF LogSummary, NoSnapshot
<1>19. CASE StoreSubscription
  BY <1>19 DEF StoreSubscription, AppMoves
<1>20. CASE Unsubscribed
  <2>1. stats' \in Stats
    BY <1>20, StatsTyped DEF Unsubscribed
  <2>2. QED
    BY <1>20, <2>1 DEF Unsubscribed, EndStream, AppMoves
<1>21. CASE ForgetSubscription
  <2>1. known' \in BOOLEAN
    BY <1>21, Zenon DEF ForgetSubscription
  <2>2. QED
    BY <1>21, <2>1 DEF ForgetSubscription, AppMoves
<1>22. CASE DisconnectSession
  BY <1>22 DEF DisconnectSession, SessionLocked, LoggerJoined
<1>23. CASE Disconnected
  BY <1>23 DEF Disconnected, AppMoves
<1>24. CASE TearDown
  BY <1>24 DEF TearDown
<1>25. CASE TornDown
  <2>1. stats' \in Stats
    BY <1>25, StatsTyped DEF TornDown
  <2>2. Shapes'
    BY <1>25, <2>1 DEF TornDown, EndStream, SubscriberWaited
  <2>3. Lives'
    BY <1>25, <2>1 DEF TornDown, EndStream, SubscriberWaited
  <2>4. Counters'
    <3>1. CASE EndStream
      BY <1>25, <2>1, <3>1 DEF TornDown, EndStream, SubscriberWaited
    <3>2. CASE UNCHANGED stats
      BY <1>25, <3>2 DEF TornDown, SubscriberWaited
    <3>3. QED
      BY <1>25, <3>1, <3>2 DEF TornDown
  <2>5. Times'
    BY <1>25, <2>1 DEF TornDown, EndStream, SubscriberWaited
  <2>6. Reports'
    BY <1>25, <2>1 DEF TornDown, EndStream, SubscriberWaited
  <2>7. QED
    BY <2>2, <2>3, <2>4, <2>5, <2>6
<1>26. CASE Renewed
  <2>1. stats' \in Stats
    BY <1>26, StatsTyped DEF Renewed, StartSubscription
  <2>2. Shapes'
    <3>1. CASE known
      BY <1>26, <2>1, <3>1 DEF Renewed, StartSubscription
    <3>2. CASE ~known
      BY <1>26, <3>2 DEF Renewed
    <3>3. QED
      BY <3>1, <3>2
  <2>3. Lives'
    <3>1. CASE known
      BY <1>26, <2>1, <3>1 DEF Renewed, BeginStream, StartSubscription
    <3>2. CASE ~known
      BY <1>26, <3>2 DEF Renewed
    <3>3. QED
      BY <3>1, <3>2
  <2>4. Counters'
    <3>1. CASE known
      <4>1. /\ stats'.received = stats.received /\ stats'.dispatched = stats.dispatched
            /\ stats'.starts = stats.starts /\ stats'.ends = stats.ends
            /\ ~stats'.processing
        <5>1. BeginStream
          BY <1>26, <3>1, Zenon DEF Renewed, StartSubscription
        <5>2. stats \in Stats
          OBVIOUS
        <5>3. QED
          BY ONLY <5>1, <5>2 DEF BeginStream, Stats
      <4>2. subscriber = "off" /\ subscriber' = "next" /\ UNCHANGED <<left, offered>>
        BY <1>26, <3>1 DEF Renewed, StartSubscription
      <4>3. QED
        BY <4>1, <4>2
    <3>2. CASE ~known
      BY <1>26, <3>2 DEF Renewed
    <3>3. QED
      BY <3>1, <3>2
  <2>5. Times'
    <3>1. CASE known
      BY <1>26, <2>1, <3>1 DEF Renewed, BeginStream, StartSubscription
    <3>2. CASE ~known
      BY <1>26, <3>2 DEF Renewed
    <3>3. QED
      BY <3>1, <3>2
  <2>6. Reports'
    BY <1>26, <2>1 DEF Renewed, BeginStream, StartSubscription
  <2>7. QED
    BY <2>2, <2>3, <2>4, <2>5, <2>6
<1>27. CASE RenewalFails
  BY <1>27 DEF RenewalFails
<1>28. CASE WarningDue \/ WarnSlow
  BY <1>28 DEF WarningDue, WarnSlow, WatchdogMoves
<1>29. CASE WatchdogStops
  BY <1>29 DEF WatchdogStops, WatchdogMoves
<1>30. CASE TimerFires
  BY <1>30 DEF TimerFires, HandlerWatch
<1>31. CASE WarnsUser
  BY <1>31 DEF WarnsUser, HandlerWatch, done
<1>32. CASE HandlerWatchStops
  BY <1>32 DEF HandlerWatchStops, HandlerWatch, done
<1>33. CASE Subscribe
  <2>1. stats' \in Stats
    BY <1>33, StatsTyped DEF Subscribe, StartSubscription
  <2>2. QED
    BY <1>33, <2>1 DEF Subscribe, BeginStream, AppMoves, StartSubscription
<1>34. CASE Unsubscribe
  BY <1>34 DEF Unsubscribe, AppMoves
<1>35. CASE Disconnect
  BY <1>35 DEF Disconnect, AppMoves
<1>36. CASE TransportLost
  BY <1>36 DEF TransportLost
<1>37. CASE UNCHANGED vars
  BY <1>37 DEF vars
<1>38. QED
  BY <1>1, <1>2, <1>3, <1>4, <1>5, <1>6, <1>7, <1>8, <1>9, <1>10, <1>11, <1>12, <1>13, <1>14,
     <1>15, <1>16, <1>17, <1>18, <1>19, <1>20, <1>21, <1>22, <1>23, <1>24, <1>25, <1>26, <1>27,
     <1>28, <1>29, <1>30, <1>31, <1>32, <1>33, <1>34, <1>35, <1>36, <1>37, <1>39
     DEF Next, SubscriberSteps, LoggerSteps, AppReturns, SessionSteps
-----------------------------------------------------------------------------
LEMMA InvHolds == Spec => []SInv
  BY SInvInit, SInvStep, PTL DEF Spec

\* DiagnosticsTypeOK holds in every state: no counter, clock or reporter leaves its range
\* (connstats.go, sdk_processing_diagnostics.go, app.go:673-707).
THEOREM TypeCorrect == Spec => []DiagnosticsTypeOK
<1>1. SInv => DiagnosticsTypeOK
  BY DEF SInv, Shapes
<1>2. QED
  BY <1>1, InvHolds, PTL

\* The counters tell how far the messages have come, over any number of sessions and
\* subscriptions, and the entry says that a callback runs exactly when one does
\* (connstats.go, subscribe.go:98-100, 134-138, 188-203, 301-318).
THEOREM CountersTruthful == Spec => []StatsTruthful
<1>1. SInv => StatsTruthful
  <2> SUFFICES ASSUME SInv PROVE StatsTruthful
    OBVIOUS
  <2>1. /\ {offered, left} \subseteq Nat /\ stats.received \in Nat
        /\ {stats.dispatched, stats.starts, stats.ends} \subseteq Nat
    BY DEF SInv, Shapes, Stats, DiagnosticsTypeOK
  <2>2. QED
    BY <2>1 DEF SInv, Counters, StatsTruthful, Processing
<1>2. QED
  BY <1>1, InvHolds, PTL

\* No reporter is ever about to call a callback blocked that has not been the subscriber's one
\* message for the threshold: the start it goes by is set before the callback and cleared
\* behind it, and both watchdogs are joined before what they report is over
\* (sdk_processing_diagnostics.go:45-93, subscribe.go:261-264, app.go:673-707,
\* read_stream_diagnostics.go:104-106).
THEOREM NoFalseAlarm == Spec => []ReportsFounded
<1>1. SInv => ReportsFounded
  <2> SUFFICES ASSUME SInv PROVE ReportsFounded
    OBVIOUS
  <2>1. /\ clock \in Nat /\ Threshold \in Nat /\ stats.since \in Nat /\ handler.start \in Nat
        /\ begun \in Nat
    BY DiagnosticsAssumption DEF SInv, Shapes, DiagnosticsTypeOK, Never
  <2>2. WatchDue => Watched /\ Overdue
    BY <2>1 DEF WatchDue, Overdue, SInv, Times
  <2>3. BlockedState(clock) => Processing /\ Overdue
    <3>1. stats.processing <=> Processing
      BY DEF SInv, Counters
    <3>2. Processing => begun # Never /\ begun <= stats.since
      BY DEF SInv, Times, Never
    <3>3. QED
      BY <2>1, <3>1, <3>2 DEF BlockedState, Overdue
  <2>4. watchdog = "warn" =>
            subscriber # "off" /\ stats.active /\ session \notin {"renewing", "down"}
    BY DEF SInv, Lives
  <2>5. handler.at = "warning" => subscriber \in {"handler", "stop"} /\ Overdue
    <3>1. handler.at = "warning" =>
              /\ subscriber \in {"handler", "stop"} /\ begun # Never
              /\ begun <= handler.start /\ clock >= handler.start + Threshold
      BY DEF SInv, Times, Processing
    <3>2. QED
      BY <2>1, <3>1 DEF Overdue
  <2>6. QED
    BY <2>2, <2>3, <2>4, <2>5 DEF ReportsFounded
<1>2. QED
  BY <1>1, InvHolds, PTL

\* While the App does not unsubscribe and no transport is lost, no message is missing from
\* the summaries of a stream that c.subscriptions has: a renewal keeps the entry active and
\* its counter, and the logger is joined before Disconnect ends the entry
\* (reconnect.go:114-144, read_stream_diagnostics.go:151-163).
THEOREM NothingSkipped == Spec => []SummariesComplete
<1>1. SInv => SummariesComplete
  <2> SUFFICES ASSUME SInv, logger = "log", ~ended, known PROVE ~LeftOut
    BY DEF SummariesComplete
  <2>1. previous <= snapshot.received /\ (snapshot.active \/ snapshot.received = 0)
    BY DEF SInv, Reports
  <2>2. previous \in Nat /\ snapshot.received \in Nat
    BY DEF SInv, Shapes, DiagnosticsTypeOK
  <2>3. snapshot.received > previous => snapshot.active
    BY <2>1, <2>2
  <2>4. QED
    BY <2>1, <2>2, <2>3 DEF LeftOut, Logged
<1>2. QED
  BY <1>1, InvHolds, PTL
=============================================================================

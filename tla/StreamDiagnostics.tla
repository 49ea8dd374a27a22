------------------------- MODULE StreamDiagnostics -------------------------
(***************************************************************************)
(* What the SDK reports about a read stream (connstats.go, read_stream_    *)
(* diagnostics.go, sdk_processing_diagnostics.go and the watchdog of       *)
(* app.go) beside the threads that make it happen: the consumer and the    *)
(* subscriber of the stream (subscribe.go), the subscriber's watchdog, the *)
(* watchdog of the user's handler and the status logger.  The App's thread *)
(* subscribes, unsubscribes and disconnects; sessions come and go.         *)
(*                                                                         *)
(* One stream of one Connection.  A method of connStats or of the watch is *)
(* one step: it holds the lock.  What is reported of it is a later step.   *)
(* Left out: cursors, the counts of answers, the identity of the message,  *)
(* the pace and the wording of the reports.                                *)
(***************************************************************************)
EXTENDS Naturals

CONSTANTS
    Threshold,  \* both slow-warn thresholds
    MaxTime, MaxMessages, MaxSubscribes, MaxRenewals    \* bounds

ASSUME DiagnosticsAssumption ==
    /\ Threshold \in Nat \ {0}
    /\ {MaxTime, MaxMessages, MaxSubscribes, MaxRenewals} \subseteq Nat

Never == MaxTime + 1    \* the zero time

VARIABLES
    clock,
    session,    \* the current internalConnection
    cause,      \* why it closes
    timedOut,   \* its consumeTimeout: set before or after closeNotify reads it
    app,        \* where the App's thread is
    sub,        \* the subscription: none, live, or its context cancelled
    known,      \* the stream is in c.subscriptions
    consumer, subscriber,   \* where these goroutines are
    offered, left,  \* messages in the consumer's result, and still to dispatch
    stats,      \* the stream's entry in connStats
    watch,      \* the start in sdkProcessingWatch
    watchdog,   \* where the subscriber's watchdog is
    handler,    \* the watchdog of the user's handler
    logger,     \* where the status logger is
    quit,       \* its context is done
    final,      \* it has seen that
    snapshot,   \* what it has read: a counter and the activity
    previous,   \* the counter it had read the time before
    target,     \* the session Disconnect took
    subscribes, renewals,   \* counters of the environment
    begun,      \* history: when the message that the subscriber is with began
    ended       \* history: the App unsubscribed, or a transport was lost

appVars == <<app, known, subscribes, target>>
sessionVars == <<session, cause, timedOut, renewals, ended>>
subVars == <<consumer, subscriber, offered, left>>
watchVars == <<watch, watchdog, handler, begun>>
loggerVars == <<logger, quit, final, snapshot, previous>>
vars == <<clock, sessionVars, appVars, sub, subVars, stats, watchVars, loggerVars>>

NoStats == [active |-> FALSE, received |-> 0, dispatched |-> 0, starts |-> 0, ends |-> 0,
            processing |-> FALSE, since |-> Never]
NoSnapshot == [active |-> FALSE, received |-> 0]

Init ==
    /\ clock = 0 /\ session = "up" /\ cause = "none" /\ timedOut = "no"
    /\ renewals = 0 /\ ended = FALSE
    /\ app = "idle" /\ known = FALSE /\ subscribes = 0 /\ target = 0 /\ sub = "none"
    /\ consumer = "off" /\ subscriber = "off" /\ offered = 0 /\ left = 0
    /\ stats = NoStats
    /\ watch = Never /\ watchdog = "off"
    /\ handler = [at |-> "off", start |-> 0] /\ begun = Never
    /\ logger = "select" /\ quit = FALSE /\ final = FALSE
    /\ snapshot = NoSnapshot /\ previous = 0

Tick ==
    /\ clock < MaxTime /\ clock' = clock + 1
    /\ UNCHANGED <<sessionVars, appVars, sub, subVars, stats, watchVars, loggerVars>>

-----------------------------------------------------------------------------
(* connStats *)

Received(k) == stats' = [stats EXCEPT !.received = @ + k]
Dispatched == stats' = [stats EXCEPT !.dispatched = @ + 1]

\* recordSDKProcessingStart.  Its mutant keeps the time of the callback before.
StartUntimed ==
    stats' = [stats EXCEPT !.starts = @ + 1, !.processing = TRUE]
ProcessingStarts ==
    stats' = [stats EXCEPT !.starts = @ + 1, !.processing = TRUE, !.since = clock]
ProcessingEnds == stats' = [stats EXCEPT !.ends = @ + 1, !.processing = FALSE]

\* beginStreamLifecycle keeps the counters.  Its mutant starts them again.
BeginAfresh == stats' = [NoStats EXCEPT !.active = TRUE, !.since = clock]
BeginStream == stats' = [stats EXCEPT !.active = TRUE, !.since = clock, !.processing = FALSE]
EndStream == stats' = [stats EXCEPT !.active = FALSE, !.processing = FALSE]

-----------------------------------------------------------------------------
(* The consumer. *)

\* An answer with k messages is recorded, then offered to the subscriber.  The mutant
\* counts them before and after the hand-off.
CountTwice(k) == Received(k + k)
CountMessages(k) == Received(k)
Consume(k) ==
    /\ consumer = "ask" /\ session \in {"up", "closing"} /\ stats.received + k <= MaxMessages
    /\ CountMessages(k)
    /\ consumer' = "offer" /\ offered' = k
    /\ UNCHANGED <<clock, sessionVars, appVars, sub, subscriber, left, watchVars, loggerVars>>

\* It ends: the answer or the subscriber takes too long, an error, or sub.ctx is done.  The
\* last two are not noticed while a result is offered.
Reasons == {"timeout", "error", "gone"}
ConsumerEnds(reason) ==
    /\ \/ reason = "timeout" /\ consumer \in {"ask", "offer"}
       \/ reason = "error" /\ consumer = "ask"
       \/ reason = "gone" /\ consumer = "ask" /\ sub = "cancelled"
    /\ consumer' = reason /\ offered' = 0
    /\ UNCHANGED <<clock, sessionVars, appVars, sub, subscriber, left, stats, watchVars,
                   loggerVars>>

-----------------------------------------------------------------------------
(* The subscriber: dispatchConsumeResult, one message after another. *)

Step(from, to) == subscriber = from /\ subscriber' = to

\* The subscriber ranges over the results, and over the messages of each.
TakeResult ==
    /\ subscriber = "next" /\ left = 0 /\ consumer = "offer"
    /\ consumer' = "ask" /\ left' = offered /\ offered' = 0
    /\ UNCHANGED <<clock, sessionVars, appVars, sub, subscriber, stats, watchVars, loggerVars>>

Dispatch ==
    /\ Step("next", "begin") /\ left > 0
    /\ Dispatched /\ left' = left - 1
    /\ UNCHANGED <<clock, sessionVars, appVars, sub, consumer, offered, watchVars, loggerVars>>

WatchBegins ==
    /\ Step("begin", "start")
    /\ watch' = clock /\ begun' = clock
    /\ UNCHANGED <<clock, sessionVars, appVars, sub, consumer, offered, left, stats,
                   watchdog, handler, loggerVars>>

CallbackStarts ==
    /\ Step("start", "callback") /\ ProcessingStarts
    /\ UNCHANGED <<clock, sessionVars, appVars, sub, consumer, offered, left, watchVars,
                   loggerVars>>

\* The callback is about a message for the user: its handler is called under a watchdog.
HandlerCalled ==
    /\ Step("callback", "handler")
    /\ handler' = [at |-> "armed", start |-> clock]
    /\ UNCHANGED <<clock, sessionVars, appVars, sub, consumer, offered, left, stats,
                   watch, watchdog, begun, loggerVars>>

\* The callback handles the message without the user.
CallbackReturns ==
    /\ Step("callback", "end")
    /\ UNCHANGED <<clock, sessionVars, appVars, sub, consumer, offered, left, stats,
                   watchVars, loggerVars>>

\* The handler returns and closes done; if the timer has fired, its function is waited for.
HandlerReturns ==
    /\ Step("handler", "stop")
    /\ UNCHANGED <<clock, sessionVars, appVars, sub, consumer, offered, left, stats,
                   watchVars, loggerVars>>
done == subscriber # "handler"

\* watchdog.stop.  Its mutant stops the timer and does not wait.
NoJoin == TRUE
Joined == handler.at \in {"armed", "stopped"}
StopHandlerWatchdog ==
    /\ Step("stop", "end") /\ Joined
    /\ handler' = IF handler.at \in {"armed", "stopped"} THEN [at |-> "off", start |-> 0]
                  ELSE handler
    /\ UNCHANGED <<clock, sessionVars, appVars, sub, consumer, offered, left, stats,
                   watch, watchdog, begun, loggerVars>>

\* watch.end.  Its mutant forgets to clear the start.
Uncleared == UNCHANGED watch
WatchCleared == watch' = Never
WatchEnds ==
    /\ Step("end", "complete") /\ WatchCleared
    /\ UNCHANGED <<clock, sessionVars, appVars, sub, consumer, offered, left, stats,
                   watchdog, handler, begun, loggerVars>>

CallbackCompletes ==
    /\ Step("complete", "next") /\ ProcessingEnds
    /\ begun' = Never
    /\ UNCHANGED <<clock, sessionVars, appVars, sub, consumer, offered, left, watch,
                   watchdog, handler, loggerVars>>

\* markConsumeTimeout and disconnect, which does nothing when the session is closed already.
MarkConsumeTimeout ==
    /\ timedOut' = IF session = "tearing" /\ timedOut = "no" THEN "late" ELSE "marked"
    /\ \/ session = "up" /\ session' = "closing" /\ cause' = "timeout"
       \/ session = "closing" /\ cause = "lost" /\ UNCHANGED session /\ cause' = "timeout"
       \/ session # "up" /\ UNCHANGED <<session, cause>>

\* The result channel is closed.  A timeout is marked, be the session up or closing; of an
\* error the callback is told, and nobody watches that call.
ResultsEnd ==
    /\ Step("next", IF consumer = "error" THEN "failed" ELSE "join")
    /\ left = 0 /\ consumer \in Reasons
    /\ IF consumer = "timeout" THEN MarkConsumeTimeout
       ELSE UNCHANGED <<session, cause, timedOut>>
    /\ UNCHANGED <<clock, renewals, ended, appVars, sub, consumer, offered, left, stats,
                   watchVars, loggerVars>>

ErrorTold ==
    /\ Step("failed", "join")
    /\ UNCHANGED <<clock, sessionVars, appVars, sub, consumer, offered, left, stats, watchVars,
                   loggerVars>>

SubscriberGone ==
    /\ Step("join", "off") /\ watchdog = "off"
    /\ consumer' = "off"
    /\ UNCHANGED <<clock, sessionVars, appVars, sub, offered, left, stats, watchVars,
                   loggerVars>>

-----------------------------------------------------------------------------
(* The watchdogs. *)

WatchdogMoves(from, to) ==
    /\ watchdog = from /\ watchdog' = to
    /\ UNCHANGED <<clock, sessionVars, appVars, sub, subVars, stats, watch, handler, begun,
                   loggerVars>>

\* warningDue, under the lock, the first time or as a reminder.
WatchDue == watch # Never /\ clock >= watch + Threshold
WarningDue == WatchDue /\ WatchdogMoves("select", "warn")

\* The warning is written when the lock is released; the callback may have returned.
WarnSlow == WatchdogMoves("warn", "select")

\* Its context is done: the subscriber stops it, or the subscription is cancelled.
WatchdogStops ==
    /\ sub = "cancelled" \/ subscriber = "join"
    /\ WatchdogMoves("select", "off")

HandlerWatch(from, to) ==
    /\ handler.at = from /\ handler' = [handler EXCEPT !.at = to]
    /\ UNCHANGED <<clock, sessionVars, appVars, sub, subVars, stats, watch, watchdog, begun,
                   loggerVars>>

TimerFires ==
    /\ clock >= handler.start + Threshold
    /\ HandlerWatch("armed", "fired")

\* watchDeviceMessageHandler: a look at done, a warning, then reminders until done.  The
\* handler may return between the look and the warning, and a select may take the tick of a
\* reminder though done is closed.
WarnsUser ==
    \/ ~done /\ HandlerWatch("fired", "warning")
    \/ HandlerWatch("warning", "waiting")
    \/ HandlerWatch("waiting", "warning")

\* The looks at done.
HandlerWatchStops ==
    /\ done
    /\ HandlerWatch("fired", "stopped") \/ HandlerWatch("waiting", "stopped")

-----------------------------------------------------------------------------
(* The status logger. *)

\* The lock of the session: disconnect holds it until the session is closed, connect
\* until it is open.  With the mutant Disconnect has it already as it joins the logger.
LockedToJoin == app = "joining" \/ session \in {"closing", "tearing", "renewing"}
SessionLocked ==
    \/ session \in {"closing", "tearing"} /\ cause # "lost"
    \/ session = "renewing"

\* A tick, or the context is done; diagnosticConnectionState needs the session's lock.
LoggerWakes ==
    /\ logger = "select" /\ ~SessionLocked
    /\ logger' = "snapshot" /\ final' \in {FALSE, quit}
    /\ UNCHANGED <<clock, sessionVars, appVars, sub, subVars, stats, watchVars, quit,
                   snapshot, previous>>

\* The part of classifyStream the properties are about, for a tick at now.
BlockedState(now) == stats.processing /\ now >= stats.since + Threshold

TakeSnapshot ==
    /\ logger = "snapshot" /\ logger' = "log"
    /\ snapshot' = [active |-> stats.active, received |-> stats.received]
    /\ UNCHANGED <<clock, sessionVars, appVars, sub, subVars, stats, watchVars, quit, final,
                   previous>>

\* The stream is in the summary if it is active and in c.subscriptions, read last.  A
\* counter that went back would give no delta.
Logged == known /\ snapshot.active
LeftOut == snapshot.received < previous \/ (snapshot.received > previous /\ ~Logged)
LogSummary ==
    /\ logger = "log" /\ logger' = IF final THEN "gone" ELSE "select"
    /\ previous' = snapshot.received /\ snapshot' = NoSnapshot
    /\ UNCHANGED <<clock, sessionVars, appVars, sub, subVars, stats, watchVars, quit, final>>

-----------------------------------------------------------------------------
(* The App's thread. *)

AppMoves(from, to) == app = from /\ app' = to

\* internalConnection.subscribe, from the App or from the reconnect.
StartSubscription ==
    /\ sub' = "live" /\ BeginStream
    /\ consumer' = "ask" /\ subscriber' = "next" /\ watchdog' = "select"
    /\ UNCHANGED <<offered, left, watch, handler, begun>>

Subscribe ==
    /\ AppMoves("idle", "storing")
    /\ session = "up" /\ sub = "none" /\ subscribes < MaxSubscribes
    /\ StartSubscription /\ subscribes' = subscribes + 1
    /\ UNCHANGED <<clock, sessionVars, known, target, loggerVars>>

StoreSubscription ==
    /\ AppMoves("storing", "idle") /\ known' = TRUE
    /\ UNCHANGED <<clock, sessionVars, subscribes, target, sub, subVars, stats, watchVars,
                   loggerVars>>

Unsubscribe ==
    /\ AppMoves("idle", "unsubscribing") /\ sub = "live" /\ session # "tearing"
    /\ sub' = "cancelled" /\ ended' = TRUE
    /\ UNCHANGED <<clock, session, cause, timedOut, renewals, known, subscribes, target,
                   subVars, stats, watchVars, loggerVars>>

\* sub.wg.Wait, then the end of the stream's life.
Unsubscribed ==
    /\ AppMoves("unsubscribing", "forgetting") /\ subscriber = "off"
    /\ sub' = "none" /\ EndStream
    /\ UNCHANGED <<clock, sessionVars, known, subscribes, target, subVars, watchVars,
                   loggerVars>>

ForgetSubscription ==
    /\ AppMoves("forgetting", "idle") /\ known' = FALSE
    /\ UNCHANGED <<clock, sessionVars, subscribes, target, sub, subVars, stats, watchVars,
                   loggerVars>>

Disconnect ==
    /\ AppMoves("idle", "joining") /\ quit' = TRUE /\ target' = renewals
    /\ UNCHANGED <<clock, sessionVars, known, subscribes, sub, subVars, stats, watchVars,
                   logger, final, snapshot, previous>>

\* <-statusLoggerDone.  Its mutant tears the session down at once.
NotAwaited == TRUE
LoggerJoined == logger = "gone"
DisconnectSession ==
    /\ app = "joining" /\ LoggerJoined
    /\ IF target = renewals /\ session = "up"
         THEN app' = "waiting" /\ session' = "closing" /\ cause' = "disconnect"
         ELSE /\ target # renewals \/ ~SessionLocked
              /\ app' = "gone" /\ UNCHANGED <<session, cause>>
    /\ UNCHANGED <<clock, timedOut, renewals, ended, known, subscribes, target, sub, subVars,
                   stats, watchVars, loggerVars>>

\* The session it took is closed, be it that the errorHandler has begun another one.
Disconnected ==
    /\ AppMoves("waiting", "gone") /\ (session = "down" \/ target # renewals)
    /\ UNCHANGED <<clock, sessionVars, known, subscribes, target, sub, subVars, stats,
                   watchVars, loggerVars>>

-----------------------------------------------------------------------------
(* The session. *)

TransportLost ==
    /\ session = "up" /\ session' = "closing" /\ cause' = "lost" /\ ended' = TRUE
    /\ UNCHANGED <<clock, timedOut, renewals, appVars, sub, subVars, stats, watchVars,
                   loggerVars>>

\* closeNotify has c.subs, reads consumeTimeout and cancels the subscription.
TearDown ==
    /\ session = "closing" /\ app # "unsubscribing" /\ session' = "tearing"
    /\ sub' = IF sub = "live" THEN "cancelled" ELSE sub
    /\ UNCHANGED <<clock, cause, timedOut, renewals, ended, appVars, subVars, stats, watchVars,
                   loggerVars>>

\* sub.wg.Wait.  Its mutant does not wait for the callback.
NoWait == TRUE
SubscriberWaited == subscriber = "off"
\* The stream's life ends here unless closeNotify knew of a timeout.  Timed out in time or
\* late, the session is renewed.  Nobody reads the flags of the old one any more.
TornDown ==
    /\ session = "tearing" /\ SubscriberWaited
    /\ IF sub = "cancelled" /\ timedOut # "marked" THEN EndStream ELSE UNCHANGED stats
    /\ sub' = "none"
    /\ cause' = "none" /\ timedOut' = "no"
    /\ \/ session' = "down" /\ UNCHANGED renewals
       \/ /\ timedOut # "no" /\ renewals < MaxRenewals
          /\ session' = "renewing" /\ renewals' = renewals + 1
    /\ UNCHANGED <<clock, ended, appVars, subVars, watchVars, loggerVars>>

\* The reconnect subscribes what c.subscriptions has.
Renewed ==
    /\ session = "renewing" /\ session' = "up"
    /\ IF known THEN StartSubscription
       ELSE UNCHANGED <<sub, subVars, stats, watchVars>>
    /\ UNCHANGED <<clock, cause, timedOut, renewals, ended, appVars, loggerVars>>

RenewalFails ==
    /\ session = "renewing" /\ session' = "down"
    /\ UNCHANGED <<clock, cause, timedOut, renewals, ended, appVars, sub, subVars, stats,
                   watchVars, loggerVars>>

-----------------------------------------------------------------------------
SubscriberSteps ==
    \/ TakeResult \/ Dispatch \/ WatchBegins \/ CallbackStarts
    \/ HandlerCalled \/ CallbackReturns \/ HandlerReturns \/ StopHandlerWatchdog
    \/ WatchEnds \/ CallbackCompletes \/ ResultsEnd \/ ErrorTold \/ SubscriberGone
LoggerSteps == LoggerWakes \/ TakeSnapshot \/ LogSummary
AppReturns ==
    \/ StoreSubscription \/ Unsubscribed \/ ForgetSubscription
    \/ DisconnectSession \/ Disconnected
SessionSteps == TearDown \/ TornDown \/ Renewed \/ RenewalFails

Next ==
    \/ Tick
    \/ \E k \in 1..MaxMessages : Consume(k)
    \/ \E reason \in Reasons : ConsumerEnds(reason)
    \/ SubscriberSteps \/ LoggerSteps \/ AppReturns \/ SessionSteps
    \/ WarningDue \/ WarnSlow \/ WatchdogStops \/ TimerFires \/ WarnsUser \/ HandlerWatchStops
    \/ Subscribe \/ Unsubscribe \/ Disconnect \/ TransportLost

\* Go schedules every goroutine; the user's handler returns, a dial ends within its 15
\* seconds, a consumer whose context is done sees it.  A select takes the channel that is done
\* sooner or later, though a reminder or a tick may be due as well.
Fairness ==
    /\ WF_vars(SubscriberSteps)
    /\ WF_vars(LoggerSteps) /\ SF_vars(LoggerWakes /\ final')
    /\ WF_vars(AppReturns) /\ WF_vars(SessionSteps)
    /\ WF_vars(ConsumerEnds("gone"))
    /\ WF_vars(WarnSlow) /\ WF_vars(WatchdogStops)
    /\ WF_vars(handler.at = "warning" /\ WarnsUser) /\ SF_vars(HandlerWatchStops)

Spec == Init /\ [][Next]_vars /\ Fairness

-----------------------------------------------------------------------------
\* Type invariant.
DiagnosticsTypeOK ==
    /\ clock \in 0..MaxTime
    /\ session \in {"up", "closing", "tearing", "renewing", "down"}
    /\ cause \in {"none", "timeout", "lost", "disconnect"}
    /\ timedOut \in {"no", "marked", "late"}
    /\ app \in {"idle", "storing", "unsubscribing", "forgetting", "joining", "waiting", "gone"}
    /\ sub \in {"none", "live", "cancelled"}
    /\ consumer \in {"off", "ask", "offer"} \cup Reasons
    /\ subscriber \in {"off", "next", "begin", "start", "callback", "handler",
                       "stop", "end", "complete", "failed", "join"}
    /\ {offered, left, previous, stats.received} \subseteq 0..MaxMessages
    /\ stats.since \in 0..Never /\ begun \in 0..Never
    /\ watch \in 0..Never /\ watchdog \in {"off", "select", "warn"}
    /\ handler.at \in {"off", "armed", "fired", "warning", "waiting", "stopped"}
    /\ logger \in {"select", "snapshot", "log", "gone"}
    /\ subscribes \in 0..MaxSubscribes /\ {renewals, target} \subseteq 0..MaxRenewals

\* Where the subscriber is from watch.begin to watch.end, and from recordSDKProcessingStart
\* to recordSDKProcessingComplete; sub.callback returns on the way to "end".
Watched == subscriber \in {"start", "callback", "handler", "stop", "end"}
Processing == subscriber \in {"callback", "handler", "stop", "end", "complete"}

\* The counters, taken at any time and over all sessions, tell how far the messages of the
\* stream have come, and the entry says that a message is processed exactly when one is:
\* answers are counted before they are handed over, lives begin and end with no message in
\* process.  The call that tells of an error counts as none (subscribe.go:98-100, 134-138,
\* 188-203, 282-284, 301-318).
StatsTruthful ==
    /\ stats.received >= stats.dispatched
    /\ stats.dispatched >= stats.starts /\ stats.starts <= stats.ends + 1
    /\ stats.processing <=> Processing
    /\ Processing <=> stats.starts = stats.ends + 1

\* What is reported of a blocked callback was so when it was measured, and is reported in its
\* time.  Whenever warningDue, or the summary, would find a callback slow, the subscriber has
\* been with that message for the threshold and has not yet recorded its end.  The warning
\* comes after the unlock: the callback may have returned by then, but neither the
\* subscriber nor the stream's life or session has ended.  The handler's watchdog warns, or
\* reminds, only until sub.callback returns, though the handler itself may be gone
\* (sdk_processing_diagnostics.go:45-93, subscribe.go:261-264, app.go:673-707,
\* read_stream_diagnostics.go:104-106).
Overdue == begun # Never /\ clock >= begun + Threshold
ReportsFounded ==
    /\ WatchDue => Watched /\ Overdue
    /\ BlockedState(clock) => Processing /\ Overdue
    /\ watchdog = "warn" =>
           subscriber # "off" /\ stats.active /\ session \notin {"renewing", "down"}
    /\ handler.at = "warning" => subscriber \in {"handler", "stop"} /\ Overdue

\* As long as the App does not unsubscribe and no transport is lost, the summaries' deltas
\* leave out no message, but for those before c.subscriptions has the stream: neither a
\* renewed session nor Disconnect, which joins the logger first, takes them away
\* (reconnect.go:136-140, read_stream_diagnostics.go:151-163).
SummariesComplete == logger = "log" /\ LeftOut => ended \/ ~known

\* Disconnect returns, and with it the callback and both watchdogs, whatever they were
\* reporting, provided the user's handler returns (reconnect.go:114-144, app.go:673-707).
DisconnectEnds == quit ~> app = "gone"
=============================================================================

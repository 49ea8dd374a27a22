---------------------------- MODULE AppLifecycle ----------------------------
(***************************************************************************)
(* The App's connect loop and Close (app.go).  The loop is started by the  *)
(* first linked tenant; it installs a new Connection for every region,     *)
(* connects and subscribes them one after the other, and starts over when  *)
(* one of them fails.  Close runs beside it, on the same slice app.conn.   *)
(* A Connection is seen as the App uses it: its errorHandler pushes one    *)
(* value when its session is lost for good or it was disconnected.         *)
(***************************************************************************)
EXTENDS Integers

CONSTANTS
    NumRegions,     \* len(config.RegionalFQDNs)
    MaxAttempts,    \* bound on the calls of pubsubConnect
    LinkDuringClose \* a tenant may be linked while, or after, Close runs

Regions == 1 .. NumRegions

ASSUME RegionBound == NumRegions \in Nat \ {0} /\ MaxAttempts \in Nat \ {0}
ASSUME LinkFlag == LinkDuringClose \in BOOLEAN

VARIABLES
    conn,       \* app.conn: "nil", "new", "connecting", "failed", "up", "lost", "down"
    cancelled,  \* the regions whose connect attempt a Disconnect has cancelled
    pushed,     \* what each Connection.Error holds: "none", "nil", "error"
    ctxDone,    \* app.ctx is cancelled
    loop,       \* where the connect loop is
    at,         \* the region it works on
    attempt,    \* number of its call of pubsubConnect
    closer,     \* where Close is
    closeAt,    \* the region it works on
    errorCh     \* app.Error: "empty", "full", "closed", "panic"

connVars == <<conn, cancelled, pushed>>
loopVars == <<loop, at, attempt>>
closeVars == <<ctxDone, closer, closeAt>>
vars == <<connVars, loopVars, closeVars, errorCh>>

Init ==
    /\ conn = [i \in Regions |-> "nil"]
    /\ cancelled = {} /\ pushed = [i \in Regions |-> "none"]
    /\ ctxDone = FALSE
    /\ loop = "off" /\ at = 1 /\ attempt = 0
    /\ closer = "idle" /\ closeAt = 1
    /\ errorCh = "empty"

\* The loop goes on with the next region, or with label after the last one.
NextRegion(here, label) ==
    IF at < NumRegions THEN loop' = here /\ at' = at + 1 ELSE loop' = label /\ at' = 1

\* reportError: a full channel drops the error, a closed one panics.
ReportError ==
    errorCh' = CASE errorCh = "empty" -> "full"
                 [] errorCh = "full" -> "full"
                 [] OTHER -> "panic"

-----------------------------------------------------------------------------
(* the Connections                                                         *)

\* The session is lost and the errorHandler cannot repair it.
ConnectionLost(i) ==
    /\ conn[i] = "up"
    /\ conn' = [conn EXCEPT ![i] = "lost"]
    /\ pushed' = [pushed EXCEPT ![i] = "error"]
    /\ UNCHANGED <<cancelled, loopVars, closeVars, errorCh>>

\* Connection.Disconnect of region i, by the loop or by Close.  While a connect is in
\* flight it cancels it and waits; else it closes what is open, and the errorHandler
\* then pushes its value, unless it has before.
CancelAttempt(i) ==
    /\ conn[i] = "connecting" /\ i \notin cancelled
    /\ cancelled' = cancelled \cup {i}
    /\ UNCHANGED <<conn, pushed>>

\* Mutant of Disconnect: it leaves a Connection alone that counts as disconnected.
DisconnectIfUp(i) ==
    /\ conn[i] # "connecting"
    /\ conn' = [conn EXCEPT ![i] = IF @ = "up" THEN "down" ELSE @]
    /\ pushed' = [pushed EXCEPT ![i] = IF conn[i] = "up" THEN "nil" ELSE @]
    /\ UNCHANGED cancelled

Disconnect(i) ==
    /\ conn[i] # "connecting"
    /\ conn' = [conn EXCEPT ![i] = IF @ \in {"up", "lost"} THEN "down" ELSE @]
    /\ \E value \in {"nil", "error"} :
          pushed' = [pushed EXCEPT ![i] = IF conn[i] = "up" THEN value ELSE @]
    /\ UNCHANGED cancelled

-----------------------------------------------------------------------------
(* the connect loop                                                        *)

\* The first tenant that is linked starts the loop.
StartPubsubConnect ==
    /\ loop = "off" /\ (closer = "idle" \/ LinkDuringClose)
    /\ loop' = "install" /\ attempt' = 1
    /\ UNCHANGED <<connVars, at, closeVars, errorCh>>

\* NewConnection of each region, which cannot fail with the App's configuration; the
\* Connection that app.conn held is dropped.
Install ==
    /\ loop = "install"
    /\ conn' = [conn EXCEPT ![at] = "new"]
    /\ pushed' = [pushed EXCEPT ![at] = "none"]
    /\ cancelled' = cancelled \ {at}
    /\ NextRegion("install", "connect")
    /\ UNCHANGED <<attempt, closeVars, errorCh>>

Connect ==
    /\ loop = "connect"
    /\ conn' = [conn EXCEPT ![at] = "connecting"]
    /\ loop' = "connecting"
    /\ UNCHANGED <<cancelled, pushed, at, attempt, closeVars, errorCh>>

\* A cancelled attempt may have succeeded before the cancellation.
ConnectSucceeds ==
    /\ loop = "connecting"
    /\ conn' = [conn EXCEPT ![at] = "up"]
    /\ loop' = "subscribe"
    /\ UNCHANGED <<cancelled, pushed, at, attempt, closeVars, errorCh>>

\* What the loop does after pubsubConnect has failed.  Its mutant: it does not close the
\* regions that were connected.
FailsOpen == loop' = "delay" /\ at' = 1
Fails == loop' = "close" /\ at' = 1

ConnectFails ==
    /\ loop = "connecting"
    /\ conn' = [conn EXCEPT ![at] = "failed"]
    /\ ReportError
    /\ Fails
    /\ UNCHANGED <<cancelled, pushed, attempt, closeVars>>

\* Subscribing does not look at the state of the Connection.  Loading the devices of the
\* tenants, after the last region, changes nothing here.
Subscribed ==
    /\ loop = "subscribe"
    /\ NextRegion("connect", "select")
    /\ UNCHANGED <<connVars, attempt, closeVars, errorCh>>

SubscribeFails ==
    /\ loop = "subscribe"
    /\ ReportError
    /\ Fails
    /\ UNCHANGED <<connVars, attempt, closeVars>>

\* reflect.Select takes the value of a Connection: an error is reported, nil is not.
ErrorReceived(i) ==
    /\ loop = "select" /\ pushed[i] # "none"
    /\ IF pushed[i] = "error" THEN ReportError ELSE UNCHANGED errorCh
    /\ pushed' = [pushed EXCEPT ![i] = "none"]
    /\ loop' = "close" /\ at' = 1
    /\ UNCHANGED <<conn, cancelled, attempt, closeVars>>

\* app.close in the loop.  None of its Connections is connecting.
LoopDisconnects ==
    /\ loop = "close"
    /\ Disconnect(at)
    /\ NextRegion("close", "delay")
    /\ UNCHANGED <<attempt, closeVars, errorCh>>

DelayElapses ==
    /\ loop = "delay" /\ ~ctxDone /\ attempt < MaxAttempts
    /\ loop' = "install" /\ attempt' = attempt + 1
    /\ UNCHANGED <<connVars, at, closeVars, errorCh>>

\* Where the loop sees app.ctx.Done, and returns.  Its mutant: not while it waits to
\* connect again.
WatchesSelect == {"select"}
WatchesDone == {"select", "delay"}

LoopReturns ==
    /\ loop \in WatchesDone /\ ctxDone
    /\ loop' = "gone"
    /\ UNCHANGED <<connVars, at, attempt, closeVars, errorCh>>

-----------------------------------------------------------------------------
(* Close                                                                   *)

Close ==
    /\ closer = "idle"
    /\ ctxDone' = TRUE
    /\ closer' = "close"
    /\ UNCHANGED <<connVars, loopVars, closeAt, errorCh>>

\* app.close in Close, over whatever app.conn holds when it gets there.
CloseCancels ==
    /\ closer = "close"
    /\ CancelAttempt(closeAt)
    /\ UNCHANGED <<loopVars, closeVars, errorCh>>

CloseDisconnects ==
    /\ closer = "close"
    /\ Disconnect(closeAt)
    /\ IF closeAt < NumRegions
         THEN closeAt' = closeAt + 1 /\ UNCHANGED closer
         ELSE closer' = "wait" /\ UNCHANGED closeAt
    /\ UNCHANGED <<loopVars, ctxDone, errorCh>>

\* app.wg.Wait returns.  Its mutant: Close does not wait for the loop.
NoWait == TRUE
LoopEnded == loop \in {"off", "gone"}

CloseReturns ==
    /\ closer = "wait" /\ LoopEnded
    /\ closer' = "done"
    /\ errorCh' = IF errorCh = "panic" THEN "panic" ELSE "closed"
    /\ UNCHANGED <<connVars, loopVars, ctxDone, closeAt>>

\* The application reads app.Error.
ReadError ==
    /\ errorCh = "full"
    /\ errorCh' = "empty"
    /\ UNCHANGED <<connVars, loopVars, closeVars>>

-----------------------------------------------------------------------------
Loop ==
    \/ Install \/ Connect \/ ConnectSucceeds \/ ConnectFails
    \/ Subscribed \/ SubscribeFails
    \/ (\E i \in Regions : ErrorReceived(i)) \/ LoopDisconnects
    \/ DelayElapses \/ LoopReturns

Closing == CloseCancels \/ CloseDisconnects \/ CloseReturns

Next ==
    \/ \E i \in Regions : ConnectionLost(i)
    \/ StartPubsubConnect \/ Loop
    \/ Close \/ Closing
    \/ ReadError

\* Goroutines run, an attempt to connect ends within 15 seconds and Disconnect returns.
\* Nothing is assumed of the network or the application.
Fairness == WF_vars(Loop) /\ WF_vars(Closing)

Spec == Init /\ [][Next]_vars
FairSpec == Spec /\ Fairness

-----------------------------------------------------------------------------
\* Type invariant: every variable of the App's life cycle has its type, and app.Error is
\* never sent to after it was closed.
TypeOK ==
    /\ conn \in [Regions -> {"nil", "new", "connecting", "failed", "up", "lost", "down"}]
    /\ cancelled \subseteq Regions
    /\ pushed \in [Regions -> {"none", "nil", "error"}]
    /\ ctxDone \in BOOLEAN
    /\ loop \in {"off", "install", "connect", "connecting", "subscribe", "select",
                 "close", "delay", "gone"}
    /\ at \in Regions /\ closeAt \in Regions
    /\ attempt \in 0 .. MaxAttempts
    /\ closer \in {"idle", "close", "wait", "done"}
    /\ errorCh \in {"empty", "full", "closed"}

\* A Connection that was ever up is dropped from app.conn only after it was disconnected,
\* whichever of the regions failed: no region is served by two of them.
DroppedDisconnected ==
    [][\A i \in Regions : conn'[i] = "new" => conn[i] \notin {"up", "lost"}]_vars

\* The loss of a region's Connection restarts the regions, until Close ends the loop.
LossHandled == \A i \in Regions : conn[i] = "lost" ~> conn[i] = "down" \/ ctxDone

\* Close returns, wherever the connect loop was when it began.
CloseCompletes == closer = "close" ~> closer = "done"

\* "Close shuts down the App instance and releases all the resources" (app.go:353): when
\* it has returned, no Connection is up.
CloseReleases == closer = "done" => \A i \in Regions : conn[i] # "up"
=============================================================================

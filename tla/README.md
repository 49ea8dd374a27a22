# TLA+ models of the pxGrid Cloud SDK for Go

This directory holds TLA+ specifications of the concurrent core of the SDK, the
TLC configurations that check them on small instances, and proofs for TLAPS of
the properties that matter most. Source references are `file:line` in this
repository, relative to `internal/pubsub/` unless a path is given.

## 1. The system

The SDK connects an application (`App`, `app.go`) to the DxHub pubsub service of
one or more regions. Every region has one `Connection` (`reconnect.go`), a handle
that owns one websocket session at a time, an `internalConnection`
(`connection.go`, `subscribe.go`, `publish.go`, `message.go`). Streams are
consumed by polling: a consumer goroutine sends a consume request, waits for the
response, hands it to the subscriber goroutine, which calls the application, and
polls again.

| Component | State | Operations | Interacts with |
|---|---|---|---|
| session life cycle (`connection.go`) | `ws`, `mu`, `wg`, `closed`, `closeOnce`, `Error` | connect, disconnect, reader, writer, processor, ping, closeNotify | the subscriptions it stops; the handlers the processor calls; its owner, through `Error` |
| subscriptions (`subscribe.go`) | `subs.table`, per stream a context, a wait group, a consumer, a subscriber | subscribe, unsubscribe, consume, hand over, time out | writer and processor; HTTP create and DELETE; gap tracker; the application's callback |
| control messages (`message.go`) | none | open, close, send | `writerCh`, handler map |
| handler map (`handlermap.go`) | two maps, a time | Set, GetAndDelete, expireCheck | called by writer and processor |
| publish (`publish.go`) | `pubResultAck` | Publish, PublishAsync and its cancel function | handler map, writer and processor, the caller's channel |
| Connection (`reconnect.go`) | `conn`, `subscriptions`, `lifecycleMu`, the attempt's and the errorHandler's contexts, `Error` | Connect, Disconnect, Subscribe, Unsubscribe, errorHandler | one session at a time; the App's connect loop, through `Error` |
| gap tracker (`gap_notifications.go`) | a lifecycle per stream, a reconnect count | detect, subscriptionStarted, connectionReady, brokerResponse | consumers, subscribers, errorHandler, App; the application's gap handler |
| App: connect loop (`app.go`) | `app.conn`, `app.Error`, contexts and wait group | `startPubsubConnect`, `pubsubConnect`, Close | the Connections, the application |
| App: registry (`app.go`, `tenant.go`) | `tenantMap`, `deviceMap` | LinkTenant, SetTenant, UnlinkTenant, reloads, control and data messages | the cloud over HTTP; one subscriber per region; the loop; the application's handlers |
| Device.Query (`api.go`) | one call: what was read, uploaded and stored, the poll's pause | Query and Close of its response | the object store, the cloud, the device |
| statistics and status log (`connstats.go`, `read_stream_diagnostics.go`) | counters and a life per stream | record calls, snapshot, the logger | consumer, subscriber, Disconnect |
| watchdogs (`sdk_processing_diagnostics.go`, `app.go`) | the start of a callback, a timer, `done` | begin, end, warn, join | subscriber, the application's handler |
| AppInstance, rpc codec, configuration | little or none | HTTP calls, JSON | |

What is hard here:

* **Wait groups and locks across goroutines.** `disconnect` waits for `c.wg`
  holding `c.mu`; `closeNotify` waits for the same group, and for each
  subscriber holding the lock of the table; `connect` may run `closeNotify`
  holding `c.mu`. Four goroutines, the consumers and the application can be
  anywhere when the websocket is lost.
* **Timeouts that race an answer.** A consumer gives up after 15 s without a
  response or 60 s of a callback that does not return; the late answer then has
  nobody to take it.
* **Checked, then used.** The consume-timeout flag is read once in
  `closeNotify`; `errorHandler` and `Subscribe` work on snapshots of the current
  session; `expireCheck` tests the time outside the lock.
* **Partial failure.** A reconnect has three steps, each of which may fail; a
  DELETE may fail while a session closes.
* **Order of events.** Gap events leave the tracker's lock before they reach the
  handler, and readiness and the first response arrive in either order. The answer to
  a publish may come before its caller waits for it, twice, or after a cancel.
* **Maps that several threads replace.** The application, the loop and one subscriber
  per region work on the device maps with nothing but atomic loads and stores, and
  with HTTP requests between the two.
* **Goroutines that watch goroutines.** Watchdogs and the status logger look at a
  callback from outside and have to be joined by what they watch.

`PROJECT.json` lists every hazard at its line, with the properties that cover it.

## 2. The modules

| Module | Models | Composed with |
|---|---|---|
| `InternalConnection` | one session: connection.go and subscribe.go | implements `ConnectionContract` |
| `ConnectionContract` | what a session promises the code that owns it | used by the two modules below as their view of a session |
| `Connection` | reconnect.go: calls of the application beside the errorHandler | |
| `GapTracker` | gap_notifications.go, one operator per call | `GapRecovery` extends it |
| `GapRecovery` | the consumers, the errorHandler and the App's loop that drive the tracker | implements `GapEvents` |
| `GapEvents` | the contract of the gap handler: detection and recovery alternate | |
| `HandlerMap` | handlermap.go, used by writer and processor | `Publish` extends it |
| `Publish` | publish.go on top of the handler map, with writer, broker and processor | implements `PublishContract` |
| `PublishContract` | the contract of Publish and PublishAsync: one result, or none | |
| `AppLifecycle` | app.go: the connect loop, `close` and `Close` over several regions | |
| `TenantRegistry` | app.go, tenant.go: tenants and devices | |
| `DeviceQuery` | api.go: one call of Device.Query | |
| `StreamDiagnostics` | connstats.go, read_stream_diagnostics.go, sdk_processing_diagnostics.go and the handler's watchdog, beside the threads they watch | |
| `InternalConnectionProofs`, `ConnectionProofs`, `GapRecoveryProofs`, `PublishProofs` (with the handler map), `AppLifecycleProofs`, `TenantRegistryProofs`, `DeviceQueryProofs`, `StreamDiagnosticsProofs` | theorems | extend the modules they are about |
| `MC...` | model values for TLC | |

### InternalConnection

Threads are application goroutines (`Clients`), `reader`, `writer`, `processor`,
`ping`, and one goroutine per stream that the subscriber of a timed-out stream
spawns to run `disconnect`. `pc` says where each is, `on` which stream it is
blocked on. `mu`, `subsMu` and `wg` are the code's `c.mu`, `c.subs` and `c.wg`
(as the set of who is counted); `once` is `closeOnce`, and the closed channel is
`once # None`. `sub.wg` counts only the subscriber, so waiting for it is waiting
for `subscriber[s] = "off"`; the subscription's context is cancelled in the same
locked section that deletes it from the table, so `ctxDone(s)` is `s \notin
table`.

* `Connect`, `OpenAnswered`, `OpenFailed` are `connect`; `CallDisconnect`,
  `StartDisconnect`, `CloseTransport`, `JoinDisconnect` are `disconnect`.
* `ReaderFails`, `WriterWrites`, `WriterFails`, `StopOnClosed`, `Deliver`,
  `StartPing`, `PingAnswered`, `PingFails` are the goroutines; the order
  "wg.Done, then closeNotify" is `GivesUp`.
* `EnterClose` to `Report` are `closeNotify`, with `unsubscribeWithoutLock` as
  `CloseStream` and `StreamStopped`, or `CloseStreamFails` when the DELETE fails.
* `Subscribe`, `Unsubscribe`, `SendConsume`, `Deliver`, `Handoff`, `PollElapses`,
  `ConsumerTimesOut`, `ConsumerCancelled` and the `Subscriber...` actions are the
  life of a stream.

Abstractions: a message is where the stream's consume request is (`none`, in
`writerCh`, handler registered). `Deliver` covers the answer, an error and the
expiry of the handler. A full `writerCh` is the error branch of `SendConsume`. A
dropped message is an answer that never comes. The HTTP create runs under the
table's lock and is one step with it; so is a successful DELETE. One ping and one
spawned disconnect per stream run at a time. The broker answers no consume
request before the open. A close of the transport that fails is one that is down.

Two constants name behaviours of the environment: `DeleteFails`, the HTTP DELETE
may fail; `OpenStalls`, the open request may fail while the transport stays up.

`Settled` is the one assumption about time: the 15 s and 60 s timers do not fire
while a goroutine that was already woken (by a lost transport or the closed
channel) has not run.

### Connection

`session[k]` is what `ConnectionContract` says of the k-th `internalConnection`:
`unopened`, `up`, `closing`, `closed`. `conn` is the current one; `table[k]` its
streams. A call of the application is split where it leaves `c.mu`: its snapshot
of the session (`target`), the call on the session, and the update of
`subscriptions`. `Connect` and `Disconnect` share `lifecycleMu`; `attempt` is
`attemptConnectCancel`, `ctx` the context of the errorHandler, whose position is
`handler` and whose session is `handled`. `disconnect` of a session is one step
(`CloseSession`), after any connect of the same session that holds its `mu`.

The App calls Connect only on a new Connection (`app.go:406-416`), subscribes only
what is connected, and may call Disconnect at any time and more than once. A
consumer cannot time out between two steps of a call or of the errorHandler that
take no time (`Settled`).

### GapTracker and GapRecovery

Each operator of `GapTracker` is one call under `t.mu`; the event it produces
stays in the caller's `outbox` until `Emit` hands it to the handler, because the
code calls the handler after unlocking. The 16-entry buffer between the tracker
and the application's handler, and durations, are left out.

`GapRecovery` adds who calls: `Response`, `TimesOut` and `SubscriberReacts` are
the streams; `Reconnect`, `Connects`, `Subscribe`, `Announce`, `Subscribed` and
their failures are the manager, which is the errorHandler after a consume timeout
and the App's loop otherwise (`byApp`). The errorHandler subscribes all streams
and then announces them; the App announces each after it subscribed it. The App
as written subscribes one stream per region; the model allows several, which the
Connection's API does. The App's delay of 30 s before it connects outlasts the
15 s of a consumer that was started on a session already closed, so `Connects`
waits for the consumers to be off. `evidence` is a history variable: the
attempts on which a gap was detected, announced and answered.

### HandlerMap

`Begin` is the unlocked test of the time, `Rotate` the locked rotation, `Expire`
the calls of the expired handlers, `Register` and `Answer` the locked accesses. Both
`Expire` and `Answer` call a handler by `Call`, which remembers a second call as "twice".
Reading a time while it is written is a data race in the code; the model lets the
reader see the old or the new value. The module has no run of its own: `Publish`
extends it and every step of the map is a step of that run.

### Publish and PublishContract

`SendPublishMessage` queues a request or fails because `writerCh` is full; `AwaitResult`
is the moment Publish reaches its select, or PublishAsync returns. `WriterTakes` and
`Write` register the handler before the message reaches the broker (`Decide`), whose
answer `ProcessorTakes` finds a handler for, or not. Broker answers may be repeated or
missing. `Handle` is the handler with its lock held: it looks at `ack.ch`, reads the
answer (`Outcome`: success needs no error code and a status that says so) and offers the
result without blocking, so it is lost when nobody receives; `early` remembers that.
`Cancel` clears `ack.ch` under the same lock, `CloseChannel` is a caller that closes its
channel after a cancel, as the doc of PublishAsync allows. A send on a closed channel
would be a panic: `PublishTypeOK` has no value for it. Payloads, headers and publishes
without a result channel are left out.

### AppLifecycle

`conn[i]` is what became of the Connection in `app.conn[i]`; `pushed[i]` is the value
in its `Error` channel, which its errorHandler fills once, after a loss or a
Disconnect. `loop`, `at` and `closer`, `closeAt` are the positions of the connect
loop and of Close and the regions they have reached. A Disconnect beside a connect of
the same Connection cancels it (`CloseCancels`) and then waits for it; before the
connect it does nothing. `reportError` drops an error when `app.Error` is full and
would panic after it was closed. That Disconnect leaves nothing up is assumed here
(see finding 2 for when it is not so). `LinkDuringClose` says whether a first tenant
may be linked once Close has begun.

### TenantRegistry

Threads are the application (one call at a time), the connect loop that reloads the
lists, and one subscriber per region. A tenant is the number of the link it stands for, so
that a message, a list or a `*Tenant` of an earlier link can be told from the present one.
`deviceMap[t]` is the inner map; `Store` replaces it, after which a subscriber that had
loaded the old map writes to what nobody sees (`held`). Calls are split at every HTTP
request and every access to a map: `LinkTenant`, `StoreTenant`, `Fetched` or `FetchFails`,
`Store`, `TenantSet`; `UnlinkTenant` as `RemoveTenant`, `RemoveDevices`, `Deleted`;
`Reload`, `RangeNext`, `RangeEnds`, `ListReloaded`; the messages as `Take`, `LoadDevices`,
`LoadDevice`, `Lookup`, `StoreDevice`, `DropTenant`, `DropDevices` and
`HandlerReturns`. The cloud (`Change`, `CloudUnlinks`, `EndLink`, `DeviceSends`) enrols
and withdraws devices and appends what it tells the App to the streams; it is external.
`late` and `stale` are history: whose fetched list was overtaken by a message, and which
tenants' maps need not agree with the cloud because of a race or a failure: an overtaken
list was stored, a message missed the map, a message of an earlier link was applied, a
SetTenant could not fetch its list, or an app:disconnect dropped the devices after the tenant
it had dropped was linked again (`DropDevices`, between app.go:554 and 555). `ListsCurrent`
and `NoOrphanDevices` except those, so they show that nothing else makes a list wrong, not
that these cannot. The App is the only member of its group: that messages are distributed
among the members (app.go:118-128) is an environment the module does not have.

### DeviceQuery

A byte is its position in the body. `Read` is the one Read into a buffer of
`RequestBodyMax`, which may be short; `ReadPart` splits the body and spawns an upload per
part, whose ends (`Uploaded`, `UploadFails`) come in any order until `Wait`;
`CreateObject`, `ReadObject`, `UploadObject` are the single object; `Trigger`, `NotFound`
and `FallbackQuery`, `Sleep`, `Poll`, `Fetch` and `Close` the query itself. Every request
may fail (`Fail`), and once the context is done no answer counts. `ranOn` is what the
device was sent.

### StreamDiagnostics

One stream of one Connection with all the threads that report about it or are
reported on: consumer, subscriber, the subscriber's watchdog, the watchdog of the user's
handler, the status logger, and the App's thread that subscribes, unsubscribes and
disconnects, while sessions close and are renewed. Each method of `connStats` is one step.
The subscriber's watchdog tests the start under the lock (`WarningDue`) and writes its warning
after the unlock (`WarnSlow`); in between the callback may return. `timedOut` is the session's
`consumeTimeout`, set before `closeNotify` reads it ("marked") or after ("late"): a timeout is
also marked on a session that is closing already. A consumer that ends with another error has
the callback told (`ErrorTold`), which no watchdog watches. `begun` and `ended`
are history variables: when the message that the subscriber is with began, and whether the App
or the network ended the stream. `LeftOut` says that the messages of an interval are in no
summary, whose content is otherwise left out. The
clock counts thresholds; cursors, the counts of answers and the pace of reminders are left out.
The DELETE of a stream succeeds.

## 3. The runs

| Run | Configuration | Instance | Shows |
|---|---|---|---|
| connection_live | `MCInternalConnection.cfg` | 1 client, 1 stream, DELETEs succeed | `LossReported`, `DisconnectReturns`, `UnsubscribeCompletes`, `ImplementsContractFairly`, no deadlock |
| connection_safety | `MCInternalConnectionSafety.cfg` | 1 client, 2 streams (symmetric), DELETEs may fail | `TypeOK`, `NoCallbackAfterUnsubscribe`, `JoinImpliesClosed`, `NoCircularWait`, `ImplementsContract` |
| close_stuck | `MCCloseStuck.cfg` | as connection_live, DELETEs may fail | `LossReported` is violated (finding 1) |
| reconnect | `MCConnection.cfg` | 2 callers, 1 stream, 3 sessions | `TypeOK`, `OneSession`, `LossHandled`, `DisconnectCompletes`, `HandlerStops`, no deadlock |
| disconnect_leak | `MCDisconnectLeak.cfg` | as reconnect | `DisconnectIsFinal` is violated (finding 2) |
| gap_recovery | `MCGapRecovery.cfg` | 2 streams, 2 reasons, 4 sessions | `TypeOK`, `NoStuckGap`, `CountAdvances`, `EventsAlternate`, `RecoveryIsEarned`, no deadlock |
| app_lifecycle | `MCAppLifecycle.cfg` | 3 regions, 3 rounds | `TypeOK`, `DroppedDisconnected`, `LossHandled`, `CloseCompletes` |
| publish | `MCPublish.cfg` | a Publish and a PublishAsync, `writerCh` of 1, expiry 1, time up to 3 | `CalledOnce`, `PublishTypeOK`, `ImplementsContract`, `OnlyEarlyAnswersLost` |
| tenant_registry | `MCTenantRegistry.cfg` | 1 tenant, 1 device, 2 regions, 2 links, 2 changes, 1 reload | `TypeOK`, `ListsCurrent`, `NoOrphanDevices`, `UnlinkNotCalledBack` |
| link_error_lost | `MCLinkErrorLost.cfg` | 1 tenant, 1 device, 1 region | `LinkResult` is violated (finding 3) |
| device_query | `MCDeviceQuery.cfg` | bodies up to 9 bytes, buffer 3, parts of 2, objects up to 5, in parts up to 7, pause 1 to 5 | `QueryTypeOK`, `WholeBodySent`, `NoOrphanUpload`, `QueryReturns` |
| stream_diagnostics | `MCStreamDiagnostics.cfg` | 2 messages, 1 resubscription, 1 renewal, threshold 1 | `DiagnosticsTypeOK`, `StatsTruthful`, `ReportsFounded`, `SummariesComplete`, `DisconnectEnds` |

Deadlock is not checked in connection_safety, because a session whose DELETE
fails really may stop (finding 1): there `NoCircularWait` says that its threads wait for
each other in no other circle. Nor is it checked in close_stuck, nor for the App, which stops
when it is closed, nor for the publishes, the registry, the query and the diagnostics,
which are over when their calls are made and their bounds reached. Every property of a passing
run comes with a mutant in `PROJECT.json`: an operator beside the definition it
replaces (such as `GivesUpCounted` for `GivesUp`) that breaks the property.

**Why the bounds are enough.** One client can already be inside any operation
while every goroutine of the session runs, and the spawned disconnects give
`disconnect` more callers, so `mu` and `subsMu` are contended. Two streams let
`closeNotify`'s loop wait for one while the other times out, fails its DELETE or is
unsubscribed. Two callers put a Disconnect beside a Connect, a Subscribe or
another Disconnect; three sessions are a reconnect of a reconnect. Four sessions
let a gap survive a failed attempt of the errorHandler and one of the App and still
recover. Three regions let one fail between one that is up and one that is new, and three
rounds let what a round leaves behind meet the next two.

One synchronous and one asynchronous publish are on the way at once through a queue of
one, so one of them is refused or waits, and a time of three expiries lets the maps
rotate between test and lock of both users and lets a handler expire while its answer is
with the processor. Two regions let an app:disconnect on one stream overtake a device's
messages on the other; two links let a message, a list or an unlink meet the link after
the one it is about, and two changes let a device be withdrawn while the list that still
has it is on its way. Bodies up to 9 bytes pass each limit of the query by at least one and
split into up to four parts, so that parts end in every order with one failing. Two
messages are enough for a second callback to follow the first with its start
still in the watch; one renewal carries counters over a session.

Every safety property of the passing runs holds for every size by the theorems below; the
bounds matter to the liveness properties and to the runs that expect a violation. Bounds
in the modules: `MaxSessions`, `MaxAttempts`, `MaxTime`, `MaxLinks`,
`MaxChanges`, `MaxReloads`, `BodyMax`, `MaxMessages`, `MaxSubscribes`, `MaxRenewals`; at the
bound the Connection's reconnect fails (`RenewFails`) and the clock stands still.

**Fairness.** Go schedules every runnable goroutine, timers fire and callbacks
return: weak fairness of the goroutines' steps. `sync.Mutex` hands the lock to a
starving waiter, a `WaitGroup` releases its waiters when the counter reaches zero
(it cannot be missed by a waiter that is already blocked, though the counter may
rise again), and a `select` picks evenly among ready cases: strong fairness of
`TakeSubs`, `Report`, `JoinDisconnect`, `ConsumerCancelled`, and of
`DisconnectLocks` in `Connection`. A mutex acquisition that stays possible needs only
the weak fairness. A callback that never returns is outside the assumption; the
application would have to return from its handler for the session to end, and so
says the code's own wait. Nothing is assumed of the server, the network, or the
calls of the application. In `Connection` a session that closes is fair because
`ImplementsContractFairly` says so of the session. In `AppLifecycle` weak fairness of
the loop and of Close is enough: a connect attempt ends within 15 s and Close waits for
each lock once. In `DeviceQuery` the reader of the body returns and a sleep ends; an HTTP
request may hang until its context is done and is then aborted (`ctxDone /\ Fail`,
`UploadAborts`), because every request is made with it, so `QueryReturns` starts from the
context. In `StreamDiagnostics` every goroutine is scheduled and the user's handler
returns; a `select` takes a channel that is closed sooner or later although a
reminder or a tick is due as often (strong fairness of `HandlerWatchStops` and of the
logger's last round).

## 4. What the checks found

Three disagreements with what a comment of the code promises are kept as runs:

1. **close_stuck.** If the transport is lost while the processor is blocked in the
   handler of a late answer and the DELETE of that subscription fails,
   `unsubscribeWithoutLock` returns before it cancels the context
   (subscribe.go:127-131). The processor stays blocked, `closeNotify` waits for it
   (connection.go:436), and no error is ever reported, against connection.go:209. By
   the theorem `WaitsResolve` the threads of a session wait for each other in no other circle
   (unless an open stalls, see below).
2. **disconnect_leak.** `errorHandler` replaces the session without `lifecycleMu` or a look
   at its context. A Disconnect that took the old session as its snapshot returns,
   and the new session stays up, against reconnect.go:113-116. By the theorem `DisconnectFinal`
   this needs a consume timeout: without one Disconnect is final.
3. **link_error_lost.** When the devices of a tenant that was just linked cannot be fetched,
   LinkTenant unlinks it and returns the error of UnlinkTenant in place of its own; when
   that succeeded, it returns neither a tenant nor an error (app.go:760-770), against
   app.go:732, which has the caller store the returned tenant. By the theorem
   `UnlinkedWhenReturned` the link it says nothing about is gone, in the app and in the cloud.

Five properties are stated in the modules and refuted by TLC; no run keeps them, and
each can be seen by adding the property to the configuration named:

* `TimeoutKeepsSubscriptions` (`MCInternalConnection.cfg`): `closeNotify` reads the timeout
  flag once (connection.go:423). A consumer that times out after that still marks the session, and
  the reconnect reuses subscriptions that were deleted, against connection.go:424. The
  theorem `TimedOutKept` proves it for a timeout at any other moment.
* `SubscriptionsResumed` (`MCConnection.cfg`): a Subscribe that runs during a reconnect can
  succeed on the closed session after the subscriptions to resume were copied; its stream
  is served by no session, against reconnect.go:196. The theorem `StreamsResumed` proves it
  when no Subscribe or Unsubscribe overlaps a reconnect or another of them (two that
  overlap, on one stream, may store in the other order).
* `ExpiresAged` (`MCPublish.cfg`): writer and processor can both find the map expired and
  rotate twice in a row, so that a handler registered a moment ago is called with a
  timeout, against handlermap.go:13. The theorem `AgedWhenDue` proves it when every
  rotation is still due as it takes the lock, as a second test there would ensure.
* `CloseReleases` (`MCAppLifecycle.cfg`): Close disconnects a region's new Connection before the
  loop connects it; the loop connects and subscribes it, sees `app.ctx.Done` and returns without
  disconnecting it, so Close returns with the Connection up, against app.go:353. The
  theorem `ReleasedOnClose` proves it for a Close at any other time.
* `BodySent` (`MCDeviceQuery.cfg`): one Read decides whether a body is small (api.go:79). A
  reader that returns less than it has, as `io.Reader` allows, loses the rest of the body;
  `WholeBodySent` holds for every other reader.

Observed while modelling, without a property:

* With `OpenStalls = TRUE` a `connect` whose open request fails while the transport stays up
  runs `closeNotify` under `c.mu` and waits for a reader that nobody wakes, so
  `DisconnectReturns` fails (the liveness run assumes the failed open comes with a lost
  transport).
* With `LinkDuringClose = TRUE` a tenant linked while Close runs starts the loop after Close
  has waited for it, and an error is then sent to the closed `app.Error`.
* The app:disconnect that follows the application's own UnlinkTenant removes a tenant that
  was linked again before it arrived, and calls TenantUnlinkedHandler for that later link
  (app.go:542-558). `UnlinkNotCalledBack` says that the link it is about is not reported.
* After the download of a result Query checks the status of the last poll again
  (api.go:291), so an error page may be returned as the result; and only Close deletes the query
  in the cloud, so each error path leaves it there.
* An app:disconnect drops the tenant and then its devices (app.go:554-555). A LinkTenant that
  completes in between loses its new device list, and messages for its devices find none until
  the lists are loaded again. `DropDevices` marks this as `stale`.
* The subscriber's watchdog writes its warning after it has released the lock
  (sdk_processing_diagnostics.go:83-94), and the handler's watchdog after its look at `done`
  (app.go:684-690): either may name a callback or handler that has just returned.
  `ReportsFounded` says what is true of them nevertheless.
* The messages of the interval in which the application unsubscribes are in no summary:
  `SummariesComplete` excepts it.

## 5. The proofs

Proved by TLAPS for any value of the constants that meets their assumptions
(names are distinct, flags are Booleans, bounds are natural numbers, there is a reason for a
gap):

| Module | Theorem | Property |
|---|---|---|
| `InternalConnectionProofs` | `TypeCorrect` | `TypeOK` |
| | `CallbacksStop` | `NoCallbackAfterUnsubscribe` |
| | `JoinedIsClosed` | `JoinImpliesClosed` |
| | `WaitsResolve` | `NoCircularWait` |
| | `ReportFinal` | `ReportIsFinal`, in no run |
| | `TimedOutKept` | `TimeoutKeepsSubscriptions`, if no timeout comes during the sweep |
| | `Refinement` | `ImplementsContract` |
| `ConnectionProofs` | `TypeCorrect` | `TypeOK` |
| | `SingleSession` | `OneSession` |
| | `SessionsOpenedOnce` | `OpenedOnce`, stated there |
| | `LifecycleLocked` | `LockKept`, stated there |
| | `ErrorSentOnce` | `SendFinds`, stated there |
| | `DisconnectFinal` | `FinalUnlessTimeout`, stated there: `DisconnectIsFinal` without a consume timeout |
| | `StreamsResumed` | `SubscriptionsResumed`, if calls stay apart |
| `GapRecoveryProofs` | `TypeCorrect` | `TypeOK` |
| | `CountsAdvance` | `CountAdvances` |
| | `GapsNotStuck` | `NoStuckGap` |
| | `RecoveryEarned` | `RecoveryIsEarned` |
| | `EventsRefined` | `EventsAlternate` |
| `PublishProofs` | `TypeCorrect` | `TypeOK` (of the handler map alone) |
| | `HandlersKept` | `CalledOnce` (of the handler map alone) |
| | `AgedWhenDue` | `ExpiresAged` (of the handler map alone), if rotations are due |
| | `PublishTypeCorrect` | `PublishTypeOK` |
| | `PublishHandlersKept` | `CalledOnce` |
| | `PublishRefinement` | `ImplementsContract` |
| | `EarlyAnswersOnly` | `OnlyEarlyAnswersLost` |
| `TenantRegistryProofs` | `RegistryTypeCorrect` | `TypeOK` |
| | `RegistryUnlinkNotCalledBack` | `UnlinkNotCalledBack` |
| | `UnlinkedWhenReturned` | `UnlinkedOnReturn`, stated there |
| | `DeviceListsCurrent` | `ListsCurrent` |
| | `NoDevicesLeftOver` | `NoOrphanDevices` |
| `DeviceQueryProofs` | `QueryTypeCorrect` | `QueryTypeOK` |
| | `QueryWholeBodySent` | `WholeBodySent` |
| | `QueryNoOrphanUpload` | `NoOrphanUpload` |
| `AppLifecycleProofs` | `TypeCorrect` (without `LinkDuringClose`) | `TypeOK` |
| | `NoneDropped` (without `LinkDuringClose`) | `DroppedDisconnected` |
| | `ReleasedOnClose` (without `LinkDuringClose`) | `CloseReleases`, if Close is not called while the loop connects |
| `StreamDiagnosticsProofs` | `TypeCorrect` | `DiagnosticsTypeOK` |
| | `CountersTruthful` | `StatsTruthful` |
| | `NoFalseAlarm` | `ReportsFounded` |
| | `NothingSkipped` | `SummariesComplete` |

*The session.* None of the four invariants is inductive alone. The inductive
invariant adds who is counted in `wg` and when (`Counted`, `ProcessorCounted`), which
labels a goroutine can have (`GoroutineLabels`), that nothing runs before the dial
(`Unopened`), that one thread runs `closeNotify` (`OneCloser`), that whoever
visits or waits for a subscription holds the table's lock (`SubsLocked`),
that a close has a cause which leaves the transport down (`CloseCause`), and that a
report follows the drain (`ReportedDrained`). `JoinImpliesClosed` rests on
`ProcessorCounted`: `wg.Done` before `closeNotify` in reader, writer and ping is harmless
because the processor is counted until the channel is closed. The refinement maps
each action to the contract's action of the same meaning or to a stutter.

`NoCircularWait` cannot say that a thread is ENABLED; it spells out what each thread needs
to go on. A caller waits for the holder of `c.mu`, that one for the close, the
close for the holder of the table's lock and for the goroutines, and that holder for one
subscriber, which goes on by itself. Its invariant `WInv` adds to the first one where a thread can be
(`Places`) and which locks it holds there (`Holders`), that a stream somebody waits for
has left the table while one whose handler blocks has not (`Blocking`), that a subscriber
and its consumer run together (`Pairs`), and that, when DELETEs succeed, closeNotify leaves
no request that could still be answered (`Sweeping`, `Swept`): so no goroutine can block
behind its back. `Noticed` and `Opening` say that the reader is there to see the loss, and
the processor to take the answer of an open. The theorem assumes neither flag; the
circles that the code does have are its two exceptions, a goroutine left in a handler
(`Abandoned`, finding 1) and a close begun while the transport is up (`OpenStalls`).

*The refuted properties.* Five that TLC refutes are proved under a hypothesis on the steps
or states of a behaviour which names the interleaving that breaks them, and which most
behaviours meet; a sixth, `UnlinkedWhenReturned`, bounds what finding 3 costs.
`DisconnectFinal` and `StreamsResumed` use `Uses`, the latter with what the table and
`c.subscriptions` differ by at each label (`Resumed`). `TimedOutKept` needs that
`deleteSub` agrees with the flag during the sweep (`FlagCurrent`), `AgedWhenDue` how old the
contents of each map are (`Aged`), and `ReleasedOnClose` that everything behind Close's
position is released (`ClosedBehind`).

*The Connection.* Sessions follow each other (`Succession`: an older session is closed,
a later one is unopened), the errorHandler works on the
current session (`HandlerCurrent`) and exists only after Connect (`BeforeConnect`);
`SingleSession` follows, because the errorHandler dials only after the old session has
reported. `Uses` adds how they are used, and with `IInv` it is inductive: whoever is about
to open a session finds it unopened (`Opening`), `lifecycleMu` and the attempt say which
call is connecting or disconnecting (`Locking`), and the error channel is filled as the
errorHandler ends (`Reporting`). So no session is opened twice or used after it reported, two
calls are never opening or closing at once, and the send of the error into a channel
of one never blocks. `Closing` says that as long as no consume timed out there is one
session, and that whoever cancelled the errorHandler closes it: so finding 2 has no other
cause than the reconnect.

*The handler map.* `Bookkeeping` says which of the two users may hold expired handlers
and what has been registered when one of them is about to access the maps; with
`CalledOnce` and `TypeOK` it is inductive.

*The App.* `Released` says that `close` leaves no open Connection behind its position,
that none is open from there until the next `pubsubConnect` connects one, and that
only the region the loop works on is being connected; `LoopFirst` that Close ends
after the loop. `DroppedDisconnected` follows, because only `Install` drops a
Connection.

*The gap tracker.* Lemmas say what each call of the tracker does stream by stream
(`DetectEffect`, `StartedEffect`, `ResponseEffect`, `ReadyEffect`), so that the steps need
not look inside. The inductive invariant `GInv` adds that a failed consumer has its gap open
and that nobody subscribes meanwhile (`Phases`), whose event an outbox holds (`Owned`),
that the application lags the tracker by exactly the event under way (`KnownFollows`), which
number is larger than which (`Counted`), which attempt an observation belongs to (`Earned`),
and that on a live session only a due announcement separates polling from readiness
(`Announced`). `EventsAlternate` follows from `Owned` and `KnownFollows`: the event handed
over is the one the application's view is behind by.

*The publishes.* `PInv` is the handler map's invariant, the types, and `CallerInv`, which
relates where a caller is, whether its ack channel is set and what it was told. It
is preserved by the handler map's steps because those leave the callers alone. The
refinement reads a call's state off its caller and its result. `OnlyEarlyAnswersLost` needs one
conjunct more (`Answered`): a Publish that has not returned although its handler was called
was not at its select when the handler came.

*The registry.* `Bookkeeping` says which thread may be working for which tenant and link and
which messages a stream can hold; `Unlinked` that an unlink of the application removed the
tenant from the map before the cloud was told, so that its app:disconnect finds another
link or none. `ListsCurrent` and `NoOrphanDevices` say only what holds when no change
is under way, so their invariant (`CInv`, `Bookkeeping` and the rest with `Current`) has to say
what holds before. `UpToDate`: a set of devices differs from the cloud's only by devices
with a pending change, one that is in a stream (`Coming`) or that a subscriber has taken and not
yet applied (`InHand`). `MapOK` says so of the map of each tenant, `ListOK` of each list that is
fetched and not yet stored. `Mapped` says that a tenant has a map whenever it is in the
tenant map and nobody is at work on it, so that a linked tenant's list is not merely free of
wrong devices but there. A change leaves `Pending` as it is applied, and then the map agrees with the
cloud by `InOrder`: a device's messages are on the stream of its region in the order they were
sent, so that the last of them tells what the cloud has and an earlier one is followed by
another. `Numbered` is why a link that ended disturbs nothing: links are numbered, and a
message, a list or a tenant of an old number is recognised, except for the moment
at the start of LinkTenant. The exceptions of the properties are those of the invariant: a list
that a message has overtaken since it was fetched (`late`), and a tenant whose map was
written from such a list, missed the effect of a message, was not fetched, or was dropped for the
link before (`stale`).

*The query.* `Handed` is the heart: as long as no upload failed, every byte handed to an
upload is stored or in a part that is still running. At `Wait` nothing runs, so everything
is stored. `FirstRead` and `Unsent` say which labels a small and a large body can be at.
`NoOrphanUpload` has an invariant of one line (`Uploading`).

*The diagnostics.* Four properties share one inductive invariant, `SInv`. `Lives` says which
goroutines of a stream exist together. `Counters` balances the counters against what is on
its way: what was received and neither dispatched nor with the subscriber nor
offered to it was given up by a consumer that ended; starts and ends differ by the callback that
runs. `Times` orders the clocks: the time a watchdog
or a summary goes by is never before the callback it measures began, so none of them finds a
callback blocked too early. `Lives` and `Times` together say how late a warning can come: the
subscriber's watchdog is joined before the subscriber is gone, the handler's before the
callback returns. That is `ReportsFounded`. `Reports` says that a summary's snapshot lies
between the last one and the counter, and why a stream or a logger ended, which gives
`SummariesComplete`: what is not in a summary yet is in the next.

Only model-checked are the liveness properties, because fairness and ENABLED are out of
the prover's reach (`LossReported`, `DisconnectReturns`, `UnsubscribeCompletes` and
`ImplementsContractFairly` of the session, `LossHandled`, `DisconnectCompletes` and
`HandlerStops` of the Connection, `LossHandled` and `CloseCompletes` of the App,
`QueryReturns`, `DisconnectEnds`), and that the runs which check it do not deadlock; of the
session the circular waits are proved absent. The theorems about the App assume
that no tenant is linked while it closes, which is the assumption of its run; with it the loop
could start again after Close has waited (section 4).

## 6. Not modelled

Built in this order, the most important behaviour first: `InternalConnection` with its
contract, `Connection` on top of the contract, `GapTracker` with `GapRecovery`,
`HandlerMap`, `AppLifecycle`; then `Publish` on the handler map, `TenantRegistry`,
`DeviceQuery` and `StreamDiagnostics`. What could follow: several streams in
`StreamDiagnostics`.

Left out on purpose: the rpc codec (encoding without state; the reading of a publish
answer is in `Publish`), configuration, logging, AppInstance (HTTP calls without
concurrency of their own), cursors and the other fields of the statistics that no decision
reads, the pace of reminders, the test server and the examples. The `readerCh` and
`writerCh` queues are abstracted as described in section 2, except the queue of the
publishes; the 16-entry buffer of gap events is left out; consumers that are started
on a session already closed are followed in `GapRecovery` only.

----------------------------- MODULE GapTracker -----------------------------
(***************************************************************************)
(* ReadStreamGapTracker (internal/pubsub/gap_notifications.go), one per    *)
(* region.  Each operator is one call: it runs under t.mu, and the event   *)
(* it leaves in the caller's outbox is handed to the handler after the     *)
(* lock is released.                                                       *)
(***************************************************************************)
EXTENDS Integers

CONSTANTS
    Streams,
    Reasons,        \* broker_response_timeout, processing_backpressure
    Manager,        \* the goroutine that (re)connects and subscribes
    NoEvent

Callers == Streams \cup {Manager}   \* a stream's consumer carries the stream's name

ASSUME CallersDistinct == Manager \notin Streams

VARIABLES
    lifecycle,      \* t.streams
    reconnectCount, \* t.reconnectCount
    outbox          \* the event a caller has still to hand to the handler

trackerVars == <<lifecycle, reconnectCount, outbox>>

Lifecycles == [active : BOOLEAN, reason : Reasons, ready : BOOLEAN,
               response : BOOLEAN, count : Nat]
Events == [stream : Streams, state : {"detected", "recovered"}, reason : Reasons, count : Nat]

ASSUME TrackerAssumption == Reasons # {} /\ NoEvent \notin Events

TrackerInit ==
    /\ lifecycle = [s \in Streams |-> [active |-> FALSE, reason |-> CHOOSE r \in Reasons : TRUE,
                                       ready |-> FALSE, response |-> FALSE, count |-> 0]]
    /\ reconnectCount = 0
    /\ outbox = [t \in Callers |-> NoEvent]

\* detect's check for a gap that is already open.  Its mutant: every timeout is a gap.
AlwaysNew(s) == FALSE
GapOpen(s) == lifecycle[s].active

\* detect: opens a gap and emits it, unless one is open.
Detect(t, s, r) ==
    IF GapOpen(s)
      THEN UNCHANGED trackerVars
      ELSE /\ lifecycle' = [lifecycle EXCEPT ![s] =
                 [active |-> TRUE, reason |-> r, ready |-> FALSE, response |-> FALSE, count |-> 0]]
           /\ outbox' = [outbox EXCEPT ![t] =
                 [stream |-> s, state |-> "detected", reason |-> r, count |-> reconnectCount]]
           /\ UNCHANGED reconnectCount

\* subscriptionStarted: forgets the evidence of an earlier attempt.  Its mutants keep it,
\* or drop the whole lifecycle.
KeepEvidence(s) == UNCHANGED trackerVars
DropLifecycle(s) ==
    /\ lifecycle' = [x \in DOMAIN lifecycle \ {s} |-> lifecycle[x]]
    /\ UNCHANGED <<reconnectCount, outbox>>
SubscriptionStarted(s) ==
    /\ lifecycle' = IF lifecycle[s].active
                      THEN [lifecycle EXCEPT ![s].ready = FALSE, ![s].response = FALSE]
                      ELSE lifecycle
    /\ UNCHANGED <<reconnectCount, outbox>>

\* recoveryEventLocked: the lifecycle l of stream s is stored, closed and emitted when it
\* has both observations.
RecoverIfComplete(t, s, l) ==
    LET complete == l.ready /\ l.response IN
    /\ lifecycle' = [lifecycle EXCEPT ![s] = [l EXCEPT !.active = ~complete]]
    /\ outbox' = IF complete
                   THEN [outbox EXCEPT ![t] = [stream |-> s, state |-> "recovered",
                                               reason |-> l.reason, count |-> l.count]]
                   ELSE outbox

\* connectionReady: the first one of an attempt counts a reconnect, next is its number.
Ready(t, s, next) ==
    LET l == lifecycle[s] IN
    IF l.active /\ ~l.ready
      THEN /\ RecoverIfComplete(t, s, [l EXCEPT !.ready = TRUE, !.count = next])
           /\ reconnectCount' = next
      ELSE /\ IF l.active THEN RecoverIfComplete(t, s, l) ELSE UNCHANGED <<lifecycle, outbox>>
           /\ UNCHANGED reconnectCount

\* Mutants: the reconnect is not counted; it is noted only after a response.
ReadyUncounted(t, s) == Ready(t, s, reconnectCount)
ReadyNeedsResponse(t, s) ==
    IF lifecycle[s].response THEN Ready(t, s, reconnectCount + 1) ELSE UNCHANGED trackerVars
ConnectionReady(t, s) == Ready(t, s, reconnectCount + 1)

\* brokerResponse: either observation may come first.
BrokerResponse(t, s) ==
    IF ~lifecycle[s].active
      THEN UNCHANGED trackerVars
      ELSE /\ RecoverIfComplete(t, s, [lifecycle[s] EXCEPT !.response = TRUE])
           /\ UNCHANGED reconnectCount

TrackerTypeOK ==
    /\ lifecycle \in [Streams -> Lifecycles]
    /\ reconnectCount \in Nat
    /\ outbox \in [Callers -> Events \cup {NoEvent}]
=============================================================================

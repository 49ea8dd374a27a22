---------------------- MODULE InternalConnectionProofs ----------------------
(***************************************************************************)
(* Proofs about InternalConnection, for every set of clients and streams   *)
(* and every value of the two environment flags.                           *)
(***************************************************************************)
EXTENDS InternalConnection, TLAPS

LEMMA TypeInit == Init => TypeOK
<1> SUFFICES ASSUME Init PROVE TypeOK
  OBVIOUS
<1>1. pc \in [Threads -> Labels] /\ on \in [Threads -> Streams \cup {None}]
  BY DEF Init, Labels
<1>2. QED
  BY <1>1 DEF Init, TypeOK

LEMMA TypeStep == TypeOK /\ [Next]_vars => TypeOK'
<1> SUFFICES ASSUME TypeOK, [Next]_vars PROVE TypeOK'
  OBVIOUS
<1> USE DEF TypeOK, Labels, Goto, lockVars, connVars, subsVars, streamVars
<1>1. ASSUME NEW c \in Clients, Connect(c) PROVE TypeOK'
  BY <1>1 DEF Connect, Threads, Goroutines
<1>2. ASSUME NEW c \in Clients, OpenAnswered(c) PROVE TypeOK'
  BY <1>2 DEF OpenAnswered, Threads
<1>3. ASSUME NEW c \in Clients, OpenFailed(c) PROVE TypeOK'
  BY <1>3 DEF OpenFailed, Threads
<1>4. ASSUME NEW c \in Clients, CallDisconnect(c) PROVE TypeOK'
  BY <1>4 DEF CallDisconnect, Threads
<1>5. ASSUME NEW c \in Clients, UnsubscribeReturns(c) PROVE TypeOK'
  BY <1>5 DEF UnsubscribeReturns, Threads
<1>6. ASSUME NEW c \in Clients, NEW s \in Streams, Subscribe(c, s) PROVE TypeOK'
  BY <1>6 DEF Subscribe, SendConsume
<1>7. ASSUME NEW c \in Clients, NEW s \in Streams, Unsubscribe(c, s) PROVE TypeOK'
  BY <1>7 DEF Unsubscribe, AwaitSubscriber, Threads, Goroutines
<1>8. ASSUME NEW t \in Threads, DisconnectStep(t) PROVE TypeOK'
  BY <1>8 DEF DisconnectStep, StartDisconnect, CloseTransport, JoinDisconnect
<1>9. ASSUME NEW t \in Threads, CloseNotifyStep(t) PROVE TypeOK'
  <2>1. CASE EnterClose(t) \/ CloseAlreadyDone(t)
    BY <2>1 DEF EnterClose, CloseAlreadyDone, Leave
  <2>2. CASE TakeSubs(t) \/ ReleaseSubs(t)
    BY <2>2 DEF TakeSubs, ReleaseSubs
  <2>3. CASE \E s \in Streams : CloseStreamFails(t, s)
    BY <2>3 DEF CloseStreamFails
  <2>4. CASE \E s \in Streams : CloseStream(t, s)
    BY <2>4 DEF CloseStream, AwaitSubscriber
  <2>5. CASE StreamStopped(t) \/ Report(t)
    BY <2>5 DEF StreamStopped, Report, Leave
  <2>6. QED BY <1>9, <2>1, <2>2, <2>3, <2>4, <2>5 DEF CloseNotifyStep
<1>10. CASE GoroutineStep
  <2>1. CASE TransportLost
    BY <2>1 DEF TransportLost
  <2>2. CASE ReaderFails \/ PingFails
    BY <2>2 DEF ReaderFails, PingFails, GivesUp, Threads, Goroutines
  <2>7. CASE WriterFails
    BY <2>7 DEF WriterFails, GivesUp, Threads, Goroutines
  <2>8. CASE StartPing
    BY <2>8 DEF StartPing, Threads, Goroutines
  <2>9. CASE PingAnswered
    BY <2>9 DEF PingAnswered, Threads
  <2>3. CASE \E s \in Streams : WriterWrites(s)
    BY <2>3 DEF WriterWrites
  <2>4. CASE \E g \in Goroutines : StopOnClosed(g)
    BY <2>4 DEF StopOnClosed, Threads
  <2>5. CASE \E g \in Goroutines : \E s \in Streams : Deliver(g, s)
    BY <2>5 DEF Deliver, Threads
  <2>6. QED BY <1>10, <2>1, <2>2, <2>3, <2>4, <2>5, <2>7, <2>8, <2>9 DEF GoroutineStep
<1>11. ASSUME NEW s \in Streams, ConsumerStep(s) PROVE TypeOK'
  BY <1>11 DEF ConsumerStep, ConsumerTimesOut, ConsumerCancelled, PollElapses, Handoff, SendConsume
<1>12. ASSUME NEW s \in Streams, SubscriberStep(s) PROVE TypeOK'
  <2>1. CASE CallbackReturns(s) \/ SubscriberStops(s)
    BY <2>1 DEF CallbackReturns, SubscriberStops, Finish
  <2>2. CASE SubscriberFails(s)
    BY <2>2 DEF SubscriberFails
  <2>3. CASE SubscriberTimesOut(s)
    BY <2>3 DEF SubscriberTimesOut, Finish, Threads
  <2>4. QED BY <1>12, <2>1, <2>2, <2>3 DEF SubscriberStep
<1>13. CASE UNCHANGED vars
  BY <1>13 DEF vars
<1>14. QED
  BY <1>1, <1>2, <1>3, <1>4, <1>5, <1>6, <1>7, <1>8, <1>9, <1>10, <1>11, <1>12, <1>13
     DEF Next, ClientStep

\* TypeOK holds in every state: the variables of a connection, its locks, its table and
\* the positions of all its threads keep their types (connection.go, subscribe.go).
THEOREM TypeCorrect == Spec => []TypeOK
  BY TypeInit, TypeStep, PTL DEF Spec
-----------------------------------------------------------------------------
(* The inductive invariant                                                 *)

CloseLabels == {"subsLock", "loop", "wait", "drain"}

\* c.wg counts the connection's goroutines that are in their loop, and the streams
\* that have a subscriber.
Counted ==
    /\ \A g \in Goroutines : g \in wg <=> pc[g] \in {"run", "handler"}
    /\ \A s \in Streams : s \in wg <=> subscriber[s] # "off"

\* The connection's goroutines never run connect, disconnect or unsubscribe.
GoroutineLabels ==
    \A g \in Goroutines : pc[g] \notin {"open", "lock", "closing", "join", "unsubWait"}

\* Before the dial nothing runs that needs the websocket.
Unopened ==
    ws = "nil" => once = None /\ \A t \in Threads : pc[t] \in {"idle", "lock", "unsubWait"}

\* The body of closeOnce is run by one thread.
OneCloser == \A t \in Threads : pc[t] \in CloseLabels => once = t

\* Who visits or waits for a subscription holds the lock of the table.
SubsLocked == \A t \in Threads : pc[t] \in {"loop", "wait", "unsubWait"} => subsMu = t

\* The close begins, or is about to, only when the transport is gone or an open failed.
CloseCause ==
    closed \/ (\E t \in Threads : pc[t] = "once") => ws = "down" \/ OpenStalls

\* Until the close begins the processor is counted.
ProcessorCounted == ws # "nil" /\ ~closed => "processor" \in wg

\* After the report no goroutine is counted.
ReportedDrained == once = Done => wg \cap Goroutines = {}

IInv == /\ TypeOK /\ Counted /\ GoroutineLabels /\ Unopened /\ OneCloser /\ SubsLocked
        /\ CloseCause /\ ProcessorCounted /\ ReportedDrained /\ NoCallbackAfterUnsubscribe

LEMMA InvInit == Init => IInv
<1> SUFFICES ASSUME Init PROVE IInv
  OBVIOUS
<1>1. TypeOK
  BY TypeInit
<1>2. QED
  BY <1>1, NamesDistinct
     DEF Init, IInv, Counted, GoroutineLabels, Unopened, OneCloser, SubsLocked, CloseCause,
         ProcessorCounted, ReportedDrained, NoCallbackAfterUnsubscribe, CloseLabels,
         Threads, Goroutines, closed

LEMMA InvStep == IInv /\ [Next]_vars => IInv'
<1> SUFFICES ASSUME IInv, [Next]_vars PROVE IInv'
  OBVIOUS
<1>0. TypeOK'
  BY TypeStep DEF IInv
<1> USE <1>0, NamesDistinct
<1> USE DEF IInv, Counted, GoroutineLabels, Unopened, OneCloser, SubsLocked, CloseCause,
            ProcessorCounted, ReportedDrained, NoCallbackAfterUnsubscribe, CloseLabels,
            Threads, Goroutines, closed, TypeOK, Goto,
            lockVars, connVars, subsVars, streamVars
<1>1. ASSUME NEW c \in Clients, Connect(c) PROVE IInv'
  BY <1>1 DEF Connect, NotConnected
<1>2. ASSUME NEW c \in Clients, OpenAnswered(c) PROVE IInv'
  BY <1>2 DEF OpenAnswered
<1>3. ASSUME NEW c \in Clients, OpenFailed(c) PROVE IInv'
  BY <1>3 DEF OpenFailed
<1>4. ASSUME NEW c \in Clients, CallDisconnect(c) PROVE IInv'
  BY <1>4 DEF CallDisconnect
<1>5. ASSUME NEW c \in Clients, UnsubscribeReturns(c) PROVE IInv'
  BY <1>5 DEF UnsubscribeReturns, SubscriberGone
<1>6. ASSUME NEW c \in Clients, NEW s \in Streams, Subscribe(c, s) PROVE IInv'
  BY <1>6 DEF Subscribe
<1>7. ASSUME NEW c \in Clients, NEW s \in Streams, Unsubscribe(c, s) PROVE IInv'
  <2> USE <1>7 DEF Unsubscribe, AwaitSubscriber
  <2>1. \A t \in Threads : pc'[t] = IF t = c THEN "unsubWait"
                                  ELSE IF t \in Unblocked(s) THEN "run" ELSE pc[t]
    OBVIOUS
  <2>2. \A t \in Unblocked(s) : pc[t] = "handler"
    BY DEF Unblocked
  <2>3. on'[c] = s
    OBVIOUS
  <2>4. (Counted /\ GoroutineLabels /\ Unopened /\ OneCloser /\ SubsLocked)'
    BY <2>1, <2>2
  <2>5. (CloseCause /\ ProcessorCounted /\ ReportedDrained)'
    BY <2>1, <2>2
  <2>6. NoCallbackAfterUnsubscribe'
    BY <2>1, <2>3
  <2>7. QED BY <2>4, <2>5, <2>6
<1>8. ASSUME NEW t \in Threads, DisconnectStep(t) PROVE IInv'
  <2>1. CASE StartDisconnect(t)
    BY <2>1 DEF StartDisconnect
  <2>2. CASE CloseTransport(t)
    BY <2>2 DEF CloseTransport
  <2>3. CASE JoinDisconnect(t)
    BY <2>3 DEF JoinDisconnect
  <2>4. QED BY <1>8, <2>1, <2>2, <2>3 DEF DisconnectStep
<1>9. ASSUME NEW t \in Threads, CloseNotifyStep(t) PROVE IInv'
  <2>1. CASE EnterClose(t)
    BY <2>1 DEF EnterClose
  <2>2. CASE CloseAlreadyDone(t)
    BY <2>2 DEF CloseAlreadyDone, Leave
  <2>3. CASE TakeSubs(t)
    BY <2>3 DEF TakeSubs
  <2>4. CASE \E s \in Streams : CloseStreamFails(t, s)
    BY <2>4 DEF CloseStreamFails
  <2>5. ASSUME NEW s \in Streams, CloseStream(t, s) PROVE IInv'
    BY <2>5 DEF CloseStream, AwaitSubscriber, Unblocked
  <2>6. CASE StreamStopped(t)
    BY <2>6 DEF StreamStopped, SubscriberGone
  <2>7. CASE ReleaseSubs(t)
    BY <2>7 DEF ReleaseSubs
  <2>8. CASE Report(t)
    BY <2>8 DEF Report, Leave, Drained
  <2>9. QED BY <1>9, <2>1, <2>2, <2>3, <2>4, <2>5, <2>6, <2>7, <2>8 DEF CloseNotifyStep
<1>10. CASE GoroutineStep
  <2>1. CASE TransportLost
    BY <2>1 DEF TransportLost
  <2>2. CASE ReaderFails
    BY <2>2 DEF ReaderFails, GivesUp
  <2>3. CASE WriterFails
    BY <2>3 DEF WriterFails, GivesUp
  <2>4. CASE PingFails
    BY <2>4 DEF PingFails, GivesUp
  <2>5. CASE StartPing
    BY <2>5 DEF StartPing
  <2>6. CASE PingAnswered
    BY <2>6 DEF PingAnswered
  <2>7. CASE \E s \in Streams : WriterWrites(s)
    BY <2>7 DEF WriterWrites
  <2>8. ASSUME NEW g \in Goroutines, StopOnClosed(g) PROVE IInv'
    BY <2>8 DEF StopOnClosed, StopSignal
  <2>9. ASSUME NEW g \in Goroutines, NEW s \in Streams, Deliver(g, s) PROVE IInv'
    BY <2>9 DEF Deliver
  <2>10. QED
    <3>1. CASE \E g \in Goroutines : StopOnClosed(g) \/ \E s \in Streams : Deliver(g, s)
      BY <2>8, <2>9, <3>1
    <3>2. QED
      BY <1>10, <2>1, <2>2, <2>3, <2>4, <2>5, <2>6, <2>7, <3>1, Zenon DEF GoroutineStep
<1>11. ASSUME NEW s \in Streams, ConsumerStep(s) PROVE IInv'
  BY <1>11 DEF ConsumerStep, ConsumerTimesOut, ConsumerCancelled, PollElapses, Handoff
<1>12. ASSUME NEW s \in Streams, SubscriberStep(s) PROVE IInv'
  <2>1. CASE CallbackReturns(s)
    BY <2>1 DEF CallbackReturns, Finish
  <2>2. CASE SubscriberStops(s)
    BY <2>2 DEF SubscriberStops, Finish
  <2>3. CASE SubscriberFails(s)
    BY <2>3 DEF SubscriberFails
  <2>4. CASE SubscriberTimesOut(s)
    BY <2>4 DEF SubscriberTimesOut, Finish
  <2>5. QED BY <1>12, <2>1, <2>2, <2>3, <2>4 DEF SubscriberStep
<1>13. CASE UNCHANGED vars
  BY <1>13 DEF vars
<1>14. QED
  BY <1>1, <1>2, <1>3, <1>4, <1>5, <1>6, <1>7, <1>8, <1>9, <1>10, <1>11, <1>12, <1>13
     DEF Next, ClientStep

LEMMA Invariance == Spec => []IInv
  BY InvInit, InvStep, PTL DEF Spec

-----------------------------------------------------------------------------
(* The safety properties                                                   *)

\* Once unsubscribe has returned, and once closeNotify has gone past a stream, the stream's
\* subscriber is gone, so the application's callback is not called again for it
\* (unsubscribeWithoutLock, subscribe.go:133-135).
THEOREM CallbacksStop == Spec => []NoCallbackAfterUnsubscribe
<1>1. IInv => NoCallbackAfterUnsubscribe
  BY DEF IInv
<1>2. QED BY Invariance, <1>1, PTL

\* disconnect's wg.Wait never returns on a connection that still counts as connected,
\* although reader, writer and ping leave wg before they call closeNotify.
THEOREM JoinedIsClosed == Spec => []JoinImpliesClosed
<1>1. IInv => JoinImpliesClosed
  BY DEF IInv, ProcessorCounted, JoinImpliesClosed
<1>2. QED BY Invariance, <1>1, PTL

\* After the error has been reported, no goroutine of the connection is in its loop, in a
\* handler or in the body of closeOnce, and the transport is down.
THEOREM ReportFinal == Spec => []ReportIsFinal
<1>1. IInv => ReportIsFinal
  <2> SUFFICES ASSUME IInv, once = Done PROVE ReportIsFinal
    BY DEF ReportIsFinal
  <2>1. ws = "down" \/ OpenStalls
    BY NamesDistinct DEF IInv, CloseCause, closed
  <2>2. wg \cap Goroutines = {}
    BY DEF IInv, ReportedDrained
  <2>3. ASSUME NEW g \in Goroutines PROVE pc[g] \in {"idle", "once", "gone"}
    <3>1. pc[g] \in Labels /\ g \in Threads
      BY DEF IInv, TypeOK, Threads
    <3>2. pc[g] \notin {"run", "handler"}
      BY <2>2 DEF IInv, Counted
    <3>3. pc[g] \notin CloseLabels
      BY <3>1, NamesDistinct DEF IInv, OneCloser
    <3>4. pc[g] \notin {"open", "lock", "closing", "join", "unsubWait"}
      BY DEF IInv, GoroutineLabels
    <3>5. QED BY <3>1, <3>2, <3>3, <3>4 DEF Labels, CloseLabels
  <2>4. QED BY <2>1, <2>2, <2>3 DEF ReportIsFinal
<1>2. QED BY Invariance, <1>1, PTL

-----------------------------------------------------------------------------
(* Who waits for whom                                                      *)

\* The labels each kind of thread can have, and when it is blocked on a stream.
Places ==
    /\ \A c \in Clients : pc[c] \notin {"run", "handler", "gone"}
    /\ \A s \in Streams : pc[s] \in {"idle", "lock", "closing", "join"}
    /\ pc["reader"] # "handler" /\ pc["ping"] # "handler"
    /\ \A t \in Threads : on[t] # None <=> pc[t] \in {"wait", "unsubWait", "handler"}

\* A lock, or closeOnce, is held by whom its label says so, and by nobody else.
Holders ==
    /\ \A t \in Threads : subsMu = t => pc[t] \in {"loop", "wait", "unsubWait"}
    /\ \A t \in Threads : once = t => pc[t] \in CloseLabels
    /\ mu \notin Goroutines
    /\ \A t \in Threads :
         mu = t => pc[t] \in {"open", "closing", "join", "once"} \cup CloseLabels
    /\ \A t \in Threads : pc[t] \in {"open", "closing", "join"} => mu = t
    /\ \A c \in Clients : pc[c] \in {"once"} \cup CloseLabels => mu = c

\* A stream that is waited for has left the table; a stream whose handler blocks has not.
Blocking ==
    /\ \A t \in Threads : pc[t] \in {"wait", "unsubWait"} => on[t] \notin table
    /\ \A t \in Threads : pc[t] = "handler" => on[t] \in table

\* A subscriber and its consumer are started and end together.
Pairs ==
    \A s \in Streams : /\ subscriber[s] = "off" <=> consumer[s] = "off"
                       /\ subscriber[s] = "errorCallback" => consumer[s] = "error"

\* When every DELETE succeeds closeNotify leaves no stream in the table that could still
\* get an answer.
Sweeping == ~DeleteFails => \A t \in Threads : pc[t] \in {"loop", "wait"} => table = todo
Swept ==
    ~DeleteFails /\ ~OpenStalls /\ (once = Done \/ \E t \in Threads : pc[t] = "drain") =>
        /\ \A s \in table : request[s] # "asked"
        /\ \A t \in Threads : pc[t] # "handler"

\* The reader runs from the dial to the report, and a connect that waits for its answer
\* has a processor, unless the transport is down.
Noticed ==
    /\ ws # "nil" => pc["reader"] # "idle"
    /\ pc["reader"] = "gone" => once = Done
Opening ==
    /\ \A c \in Clients : pc[c] = "open" =>
         /\ ws # "nil"
         /\ \/ ws = "down"
            \/ ~closed /\ pc["processor"] = "run" /\ \A t \in Threads : pc[t] # "once"
    /\ \A t \in Threads : pc[t] = "join" => ws = "down"

WInv == Places /\ Holders /\ Blocking /\ Pairs /\ Sweeping /\ Swept /\ Noticed /\ Opening

LEMMA WaitInit == Init => WInv
<1> SUFFICES ASSUME Init PROVE WInv
  OBVIOUS
<1> USE NamesDistinct DEF Init, Threads, Goroutines
<1>1. Places /\ Blocking /\ Pairs
  BY DEF Places, Blocking, Pairs
<1>2. Holders
  BY DEF Holders, CloseLabels
<1>3. Sweeping /\ Swept /\ Noticed /\ Opening
  BY DEF Sweeping, Swept, Noticed, Opening
<1>4. QED
  BY <1>1, <1>2, <1>3 DEF WInv

LEMMA WaitStep == IInv /\ WInv /\ [Next]_vars => WInv'
<1> SUFFICES ASSUME IInv, WInv, [Next]_vars PROVE WInv'
  OBVIOUS
<1>0. TypeOK'
  BY TypeStep DEF IInv
<1> USE <1>0, NamesDistinct
<1> USE DEF IInv, WInv, Counted, GoroutineLabels, Unopened, OneCloser, SubsLocked, CloseCause,
            ProcessorCounted, ReportedDrained, CloseLabels,
            Places, Holders, Blocking, Pairs, Sweeping, Swept, Noticed, Opening,
            Threads, Goroutines, closed, TypeOK, Goto,
            lockVars, connVars, subsVars, streamVars
<1>1. ASSUME NEW c \in Clients, Connect(c) PROVE WInv'
  BY <1>1 DEF Connect, NotConnected
<1>2. ASSUME NEW c \in Clients, OpenAnswered(c) PROVE WInv'
  BY <1>2 DEF OpenAnswered
<1>3. ASSUME NEW c \in Clients, OpenFailed(c) PROVE WInv'
  BY <1>3 DEF OpenFailed
<1>4. ASSUME NEW c \in Clients, CallDisconnect(c) PROVE WInv'
  BY <1>4 DEF CallDisconnect
<1>5. ASSUME NEW c \in Clients, UnsubscribeReturns(c) PROVE WInv'
  BY <1>5 DEF UnsubscribeReturns, SubscriberGone
<1>6. ASSUME NEW c \in Clients, NEW s \in Streams, Subscribe(c, s) PROVE WInv'
  BY <1>6 DEF Subscribe, SendConsume
<1>7. ASSUME NEW c \in Clients, NEW s \in Streams, Unsubscribe(c, s) PROVE WInv'
  <2> USE DEF Unsubscribe, AwaitSubscriber
  <2>1. \A u \in Threads :
          /\ pc'[u] = IF u = c THEN "unsubWait" ELSE IF u \in Unblocked(s) THEN "run" ELSE pc[u]
          /\ on'[u] = IF u = c THEN s ELSE IF u \in Unblocked(s) THEN None ELSE on[u]
    BY <1>7
  <2>2. \A u \in Threads : u \in Unblocked(s) <=> pc[u] = "handler" /\ on[u] = s
    BY DEF Unblocked
  <2>3. Places' /\ Pairs'
    BY <1>7, <2>1, <2>2
  <2>4. Holders'
    BY <1>7, <2>1, <2>2
  <2>5. Blocking'
    BY <1>7, <2>1, <2>2
  <2>6. Sweeping'
    BY <1>7, <2>1, <2>2
  <2>7. Swept'
    <3>1. /\ table' \subseteq table /\ request' = request /\ once' = once
          /\ \A u \in Threads : pc'[u] \in {"drain", "handler"} => pc'[u] = pc[u]
      BY <1>7, <2>1
    <3>2. QED BY ONLY <3>1, Swept DEF Swept
  <2>8. Noticed' /\ Opening'
    BY <1>7, <2>1, <2>2
  <2>9. QED BY <2>3, <2>4, <2>5, <2>6, <2>7, <2>8
<1>8. ASSUME NEW t \in Threads, StartDisconnect(t) PROVE WInv'
  BY <1>8 DEF StartDisconnect
<1>9. ASSUME NEW t \in Threads, CloseTransport(t) PROVE WInv'
  BY <1>9 DEF CloseTransport
<1>10. ASSUME NEW t \in Threads, JoinDisconnect(t) PROVE WInv'
  BY <1>10 DEF JoinDisconnect
<1>11. ASSUME NEW t \in Threads, EnterClose(t) PROVE WInv'
  BY <1>11 DEF EnterClose
<1>12. ASSUME NEW t \in Threads, CloseAlreadyDone(t) PROVE WInv'
  BY <1>12 DEF CloseAlreadyDone, Leave
<1>13. ASSUME NEW t \in Threads, TakeSubs(t) PROVE WInv'
  BY <1>13 DEF TakeSubs
<1>14. ASSUME NEW t \in Threads, NEW s \in Streams, CloseStreamFails(t, s) PROVE WInv'
  BY <1>14 DEF CloseStreamFails
<1>15. ASSUME NEW t \in Threads, NEW s \in Streams, CloseStream(t, s) PROVE WInv'
  <2> USE DEF CloseStream, AwaitSubscriber
  <2>1. \A u \in Threads :
          /\ pc'[u] = IF u = t THEN "wait" ELSE IF u \in Unblocked(s) THEN "run" ELSE pc[u]
          /\ on'[u] = IF u = t THEN s ELSE IF u \in Unblocked(s) THEN None ELSE on[u]
    BY <1>15
  <2>2. \A u \in Threads : u \in Unblocked(s) <=> pc[u] = "handler" /\ on[u] = s
    BY DEF Unblocked
  <2>3. Places' /\ Pairs'
    BY <1>15, <2>1, <2>2
  <2>4. Holders'
    BY <1>15, <2>1, <2>2
  <2>5. Blocking'
    BY <1>15, <2>1, <2>2
  <2>6. Sweeping'
    BY <1>15, <2>1, <2>2
  <2>7. Swept'
    BY <1>15, <2>1, <2>2
  <2>8. Noticed' /\ Opening'
    BY <1>15, <2>1, <2>2
  <2>9. QED BY <2>3, <2>4, <2>5, <2>6, <2>7, <2>8
<1>16. ASSUME NEW t \in Threads, StreamStopped(t) PROVE WInv'
  BY <1>16 DEF StreamStopped, SubscriberGone
<1>17. ASSUME NEW t \in Threads, ReleaseSubs(t) PROVE WInv'
  BY <1>17 DEF ReleaseSubs
<1>18. ASSUME NEW t \in Threads, Report(t) PROVE WInv'
  BY <1>18 DEF Report, Leave, Drained
<1>19. CASE TransportLost
  BY <1>19 DEF TransportLost
<1>20. CASE ReaderFails
  BY <1>20 DEF ReaderFails, GivesUp
<1>21. CASE WriterFails
  BY <1>21 DEF WriterFails, GivesUp
<1>22. CASE PingFails
  BY <1>22 DEF PingFails, GivesUp
<1>23. CASE StartPing
  BY <1>23 DEF StartPing
<1>24. CASE PingAnswered
  BY <1>24 DEF PingAnswered
<1>25. ASSUME NEW s \in Streams, WriterWrites(s) PROVE WInv'
  BY <1>25 DEF WriterWrites
<1>26. ASSUME NEW g \in Goroutines, StopOnClosed(g) PROVE WInv'
  BY <1>26 DEF StopOnClosed, StopSignal
<1>27. ASSUME NEW g \in Goroutines, NEW s \in Streams, Deliver(g, s) PROVE WInv'
  BY <1>27 DEF Deliver, ctxDone
<1>28. ASSUME NEW s \in Streams, ConsumerStep(s) PROVE WInv'
  BY <1>28 DEF ConsumerStep, ConsumerTimesOut, ConsumerCancelled, PollElapses, Handoff, SendConsume
<1>29. ASSUME NEW s \in Streams, CallbackReturns(s) PROVE WInv'
  BY <1>29 DEF CallbackReturns, Finish
<1>30. ASSUME NEW s \in Streams, SubscriberStops(s) PROVE WInv'
  BY <1>30 DEF SubscriberStops, Finish
<1>31. ASSUME NEW s \in Streams, SubscriberFails(s) PROVE WInv'
  BY <1>31 DEF SubscriberFails
<1>32. ASSUME NEW s \in Streams, SubscriberTimesOut(s) PROVE WInv'
  BY <1>32 DEF SubscriberTimesOut, Finish
<1>33. CASE UNCHANGED vars
  BY <1>33 DEF vars
<1>34. ASSUME NEW c \in Clients, ClientStep(c) PROVE WInv'
  BY <1>34, <1>1, <1>2, <1>3, <1>4, <1>5, <1>6, <1>7 DEF ClientStep
<1>35. ASSUME NEW t \in Threads, DisconnectStep(t) \/ CloseNotifyStep(t) PROVE WInv'
  BY <1>35, <1>8, <1>9, <1>10, <1>11, <1>12, <1>13, <1>14, <1>15, <1>16, <1>17, <1>18
     DEF DisconnectStep, CloseNotifyStep
<1>36. CASE GoroutineStep
  <2>1. CASE \E g \in Goroutines : StopOnClosed(g) \/ \E s \in Streams : Deliver(g, s)
    BY <1>26, <1>27, <2>1
  <2>2. QED
    BY <1>36, <1>19, <1>20, <1>21, <1>22, <1>23, <1>24, <1>25, <2>1, Zenon DEF GoroutineStep
<1>37. ASSUME NEW s \in Streams, SubscriberStep(s) PROVE WInv'
  BY <1>37, <1>29, <1>30, <1>31, <1>32 DEF SubscriberStep
<1>38. QED
  BY <1>28, <1>33, <1>34, <1>35, <1>36, <1>37 DEF Next

LEMMA WaitInvariance == Spec => [](IInv /\ WInv)
  BY InvInit, InvStep, WaitInit, WaitStep, PTL DEF Spec

\* A stream whose subscriber runs has a step, unless it polls a connection that has goroutines
\* left which the close, or the loss, woke up.
LEMMA StreamGoesOn ==
    ASSUME IInv, WInv, NEW s \in Streams, subscriber[s] # "off"
    PROVE  StreamMoves(s) \/ (s \in table /\ ~Settled)
<1>1. consumer[s] \in {"await", "handoff", "poll", "done", "error", "timeout"}
  BY DEF IInv, TypeOK, WInv, Pairs
<1>2. subscriber[s] \in {"range", "callback", "errorCallback"}
  BY DEF IInv, TypeOK
<1>3. QED
  BY <1>1, <1>2 DEF StreamMoves

LEMMA WaitsForOne == IInv /\ WInv => TableFreed
<1> SUFFICES ASSUME IInv, WInv, NEW t \in Threads, subsMu = t, pc[t] # "loop"
             PROVE  /\ pc[t] \in {"wait", "unsubWait"}
                    /\ subscriber[on[t]] = "off" \/ StreamMoves(on[t])
  BY DEF TableFreed
<1>1. pc[t] \in {"wait", "unsubWait"}
  BY DEF WInv, Holders
<1>2. on[t] \in Streams /\ on[t] \notin table
  BY <1>1 DEF IInv, TypeOK, WInv, Places, Blocking
<1>3. QED
  BY <1>1, <1>2, StreamGoesOn

\* A goroutine that is counted once the close has begun on a lost transport goes on or is
\* blocked in a handler.
LEMMA DrainGoesOn ==
    ASSUME IInv, WInv, ws = "down", closed, once = Done \/ \E t \in Threads : pc[t] = "drain"
    PROVE  DrainAdvances
<1> SUFFICES ASSUME NEW w \in wg
             PROVE  \/ Moves(w) \/ Abandoned(w)
                    \/ w \in Streams /\ \E g \in wg \cap Goroutines : Moves(g)
  BY DEF DrainAdvances
<1>1. w \in Goroutines \/ w \in Streams
  BY DEF IInv, TypeOK
<1>2. \A g \in Goroutines : g \notin Streams
  BY NamesDistinct
<1>3. ASSUME NEW g \in Goroutines, pc[g] = "run" PROVE g \in wg /\ Moves(g)
  BY <1>2, <1>3 DEF IInv, Counted, Moves, GoroutineMoves
<1>4. CASE w \in Goroutines
  <2>1. pc[w] \in {"run", "handler"}
    BY <1>4 DEF IInv, Counted
  <2>2. CASE pc[w] = "handler"
    BY <1>4, <2>2 DEF WInv, Blocking, Swept, Abandoned, Threads
  <2>3. QED
    BY <1>3, <1>4, <2>1, <2>2
<1>5. CASE w \in Streams
  <2>1. StreamMoves(w) \/ ~Settled
    BY <1>5, StreamGoesOn DEF IInv, Counted
  <2>2. CASE ~Settled
    <3>1. \E g \in Goroutines : pc[g] = "run"
      BY <2>2 DEF Settled, closed, Goroutines
    <3>2. QED
      BY <1>3, <1>5, <3>1
  <2>3. QED
    BY <1>5, <2>1, <2>2 DEF Moves
<1>6. QED
  BY <1>1, <1>4, <1>5

LEMMA CloseGoesOn == IInv /\ WInv => CloseAdvances
<1> SUFFICES ASSUME IInv, WInv, ws = "down", once # Done,
                    ~GoroutineMoves("reader"),
                    once # None \/ \A t \in Threads : pc[t] # "once"
             PROVE  \E t \in Threads :
                      /\ once = t
                      /\ pc[t] = "subsLock" \/ subsMu = t \/ (pc[t] = "drain" /\ DrainAdvances)
  BY DEF CloseAdvances
<1>1. "reader" \in Threads /\ pc["reader"] \in Labels
  BY DEF Threads, Goroutines, IInv, TypeOK
<1>2. once # None
  <2>1. pc["reader"] \in {"once"} \cup CloseLabels
    BY <1>1 DEF GoroutineMoves, WInv, Noticed, Places, IInv, GoroutineLabels, Goroutines,
                Labels, CloseLabels
  <2>2. QED
    BY <1>1, <2>1, NamesDistinct DEF IInv, OneCloser
<1>3. PICK t \in Threads : once = t
  BY <1>2 DEF IInv, TypeOK
<1>4. pc[t] \in CloseLabels
  BY <1>3 DEF WInv, Holders
<1>5. pc[t] = "drain" => DrainAdvances
  BY <1>2, DrainGoesOn DEF closed
<1>6. pc[t] \in {"loop", "wait"} => subsMu = t
  BY DEF IInv, SubsLocked
<1>7. QED
  BY <1>3, <1>4, <1>5, <1>6 DEF CloseLabels

LEMMA MutexGoesOn == IInv /\ WInv => MutexFreed
<1> SUFFICES ASSUME IInv, WInv, NEW t \in Threads, mu = t
             PROVE  \/ pc[t] = "open" /\ (ws = "down" \/ (ws = "open" /\ pc["processor"] = "run"))
                    \/ pc[t] = "closing"
                    \/ (ws = "down" \/ OpenStalls) /\ (once = t \/ pc[t] = "once")
                    \/ ws = "down" /\ pc[t] = "join" /\ (once = Done => \A w \in wg : Moves(w))
  BY DEF MutexFreed
<1>1. pc[t] \in {"open", "closing", "join", "once"} \cup CloseLabels
  BY DEF WInv, Holders
<1>2. CASE pc[t] = "open"
  <2>1. t \in Clients
    BY <1>2 DEF WInv, Places, Threads, IInv, GoroutineLabels
  <2>2. QED
    BY <1>2, <2>1 DEF WInv, Opening, IInv, TypeOK
<1>3. CASE pc[t] \in {"once"} \cup CloseLabels
  BY <1>3, NamesDistinct DEF IInv, OneCloser, CloseCause, closed
<1>4. CASE pc[t] = "join"
  <2>1. ws = "down"
    BY <1>4 DEF WInv, Opening
  <2>2. ASSUME once = Done, NEW w \in wg PROVE Moves(w)
    <3>1. w \in Streams /\ w \notin Goroutines /\ subscriber[w] # "off"
      BY <2>2, NamesDistinct DEF IInv, TypeOK, ReportedDrained, Counted
    <3>2. closed /\ once # None
      BY <2>2, NamesDistinct DEF closed
    <3>3. \A g \in Goroutines : pc[g] # "run"
      BY <2>2 DEF IInv, ReportedDrained, Counted
    <3>4. Settled
      BY <3>2, <3>3 DEF Settled, Goroutines
    <3>5. QED
      BY <3>1, <3>4, StreamGoesOn DEF Moves
  <2>3. QED
    BY <1>4, <2>1, <2>2
<1>5. QED
  BY <1>1, <1>2, <1>3, <1>4

\* No circle of waiting threads ever arises over c.mu, the table's lock, closeOnce and the two
\* wait groups, for any number of callers and streams.  Where a close can be stuck nevertheless
\* is named: a goroutine abandoned in a handler after a DELETE failed (subscribe.go:127-131),
\* and a failed open on a transport that is still up (connection.go:285).
THEOREM WaitsResolve == Spec => []NoCircularWait
<1>1. IInv /\ WInv => NoCircularWait
  BY WaitsForOne, CloseGoesOn, MutexGoesOn DEF NoCircularWait
<1>2. QED
  BY WaitInvariance, <1>1, PTL

-----------------------------------------------------------------------------
(* Which subscriptions a close deletes                                     *)

Sweeps(t) == pc[t] \in {"loop", "wait"}

\* No consume times out while closeNotify goes through the table.
NoTimeoutInSweep ==
    [][consumeTimeout' # consumeTimeout => \A t \in Threads : ~Sweeps(t)]_vars

FlagCurrent == \A t \in Threads : Sweeps(t) => deleteSub = ~consumeTimeout

LEMMA FlagStep ==
    ASSUME IInv, FlagCurrent, [Next]_vars,
           [consumeTimeout' # consumeTimeout => \A t \in Threads : ~Sweeps(t)]_vars
    PROVE  FlagCurrent'
<1>0. TypeOK
  BY DEF IInv
<1> USE DEF Sweeps, TypeOK, Goto, Leave, lockVars, connVars, subsVars, streamVars
\* A step after which no other thread is in the sweep, and none has another flag.
<1>1. ASSUME UNCHANGED <<consumeTimeout, deleteSub>>,
             \A t \in Threads : Sweeps(t)' => Sweeps(t)
      PROVE  FlagCurrent'
  BY <1>1 DEF FlagCurrent
<1>2. ASSUME NEW t \in Threads, TakeSubs(t) PROVE FlagCurrent'
  BY <1>2 DEF TakeSubs, FlagCurrent
<1>3. ASSUME NEW s \in Streams, SubscriberTimesOut(s) PROVE FlagCurrent'
  <2>1. UNCHANGED deleteSub /\ \A t \in Threads : Sweeps(t)' => Sweeps(t)
    BY <1>0, <1>3 DEF SubscriberTimesOut, Finish, Threads
  <2>2. consumeTimeout' # consumeTimeout => \A t \in Threads : ~Sweeps(t)
    BY DEF vars
  <2>3. QED
    BY <1>0, <2>1, <2>2 DEF FlagCurrent
<1>4. ASSUME NEW c \in Clients, ClientStep(c) PROVE FlagCurrent'
  <2>1. UNCHANGED <<consumeTimeout, deleteSub>>
    BY <1>4 DEF ClientStep, Connect, OpenAnswered, OpenFailed, CallDisconnect, Subscribe,
                Unsubscribe, UnsubscribeReturns
  <2>2. \A t \in Threads : Sweeps(t)' => Sweeps(t)
    BY <1>0, <1>4
    DEF ClientStep, Connect, OpenAnswered, OpenFailed, CallDisconnect, Subscribe,
        Unsubscribe, UnsubscribeReturns, AwaitSubscriber, Unblocked, Threads, Goroutines
  <2>3. QED BY <1>1, <2>1, <2>2
<1>5. ASSUME NEW t \in Threads, DisconnectStep(t) PROVE FlagCurrent'
  BY <1>0, <1>1, <1>5 DEF DisconnectStep, StartDisconnect, CloseTransport, JoinDisconnect
<1>6. ASSUME NEW t \in Threads, CloseNotifyStep(t) PROVE FlagCurrent'
  <2>1. CASE EnterClose(t) \/ CloseAlreadyDone(t) \/ ReleaseSubs(t) \/ Report(t)
    BY <1>0, <1>1, <2>1 DEF EnterClose, CloseAlreadyDone, ReleaseSubs, Report
  <2>2. CASE (\E s \in Streams : CloseStreamFails(t, s)) \/ StreamStopped(t)
    BY <1>0, <1>1, <2>2 DEF CloseStreamFails, StreamStopped
  <2>3. ASSUME NEW s \in Streams, CloseStream(t, s) PROVE FlagCurrent'
    <3>1. UNCHANGED <<consumeTimeout, deleteSub>> /\ Sweeps(t)
      BY <2>3 DEF CloseStream
    <3>2. \A u \in Threads : u # t /\ Sweeps(u)' => Sweeps(u)
      BY <1>0, <2>3 DEF CloseStream, AwaitSubscriber, Unblocked
    <3>3. QED BY <1>1, <3>1, <3>2
  <2>4. QED
    BY <1>2, <1>6, <2>1, <2>2, <2>3 DEF CloseNotifyStep
<1>7. CASE GoroutineStep
  <2>1. UNCHANGED <<consumeTimeout, deleteSub>>
    BY <1>7 DEF GoroutineStep, TransportLost, ReaderFails, WriterFails, PingFails, GivesUp,
                StartPing, PingAnswered, WriterWrites, StopOnClosed, Deliver
  <2>2. \A t \in Threads : Sweeps(t)' => Sweeps(t)
    BY <1>0, <1>7
    DEF GoroutineStep, TransportLost, ReaderFails, WriterFails, PingFails, GivesUp,
        StartPing, PingAnswered, WriterWrites, StopOnClosed, Deliver, Threads, Goroutines
  <2>3. QED BY <1>1, <2>1, <2>2
<1>8. ASSUME NEW s \in Streams, ConsumerStep(s) PROVE FlagCurrent'
  BY <1>1, <1>8 DEF ConsumerStep, ConsumerTimesOut, ConsumerCancelled, PollElapses, Handoff
<1>9. ASSUME NEW s \in Streams, SubscriberStep(s) PROVE FlagCurrent'
  <2>1. CASE CallbackReturns(s) \/ SubscriberStops(s) \/ SubscriberFails(s)
    BY <1>1, <2>1 DEF CallbackReturns, SubscriberStops, SubscriberFails, Finish
  <2>2. QED
    BY <1>3, <1>9, <2>1 DEF SubscriberStep
<1>10. CASE UNCHANGED vars
  BY <1>1, <1>10 DEF vars
<1>11. QED
  BY <1>4, <1>5, <1>6, <1>7, <1>8, <1>9, <1>10 DEF Next

\* A close deletes no subscription of a session marked with a consume timeout, so that the
\* reconnect finds its ids, unless the timeout comes while closeNotify is at it: a mark set
\* before is seen, whoever set it (connection.go:423-434).
THEOREM TimedOutKept == Spec /\ NoTimeoutInSweep => []TimeoutKeepsSubscriptions
<1>1. Init => FlagCurrent
  BY NamesDistinct DEF Init, FlagCurrent, Sweeps, Threads, Goroutines
<1>2. FlagCurrent => TimeoutKeepsSubscriptions
  BY DEF FlagCurrent, Sweeps, TimeoutKeepsSubscriptions
<1>3. /\ IInv /\ FlagCurrent /\ [Next]_vars
      /\ [consumeTimeout' # consumeTimeout => \A t \in Threads : ~Sweeps(t)]_vars
      => FlagCurrent'
  BY FlagStep
<1>4. QED
  BY <1>1, <1>2, <1>3, Invariance, PTL DEF Spec, NoTimeoutInSweep

-----------------------------------------------------------------------------
(* The refinement                                                          *)

LEMMA ContractInit == Init => Contract!Init
  BY NamesDistinct DEF Init, Contract!Init, closed, Threads, Goroutines

LEMMA ContractStep == IInv /\ [Next]_vars => [Contract!Next]_(Contract!vars)
<1> SUFFICES ASSUME IInv, [Next]_vars PROVE [Contract!Next]_(Contract!vars)
  OBVIOUS
<1> USE NamesDistinct
<1> USE DEF Contract!vars, closed, Threads, Goroutines, connVars, subsVars, streamVars, lockVars
<1>1. ASSUME NEW c \in Clients, Connect(c) PROVE Contract!Open
  <2>1. once = None /\ ws = "nil"
    BY <1>1 DEF IInv, Unopened, Connect, NotConnected
  <2>2. wg \cap Goroutines = {}
    BY <2>1 DEF IInv, Unopened, Counted
  <2>3. QED BY <1>1, <2>1, <2>2 DEF Connect, Contract!Open
<1>2. ASSUME NEW c \in Clients, NEW s \in Streams, Subscribe(c, s)
      PROVE Contract!StartStream(s)
  <2>1. s \notin wg
    BY <1>2 DEF IInv, Counted, NoCallbackAfterUnsubscribe, Subscribe
  <2>2. QED BY <1>2, <2>1 DEF Subscribe, Contract!StartStream
<1>3. ASSUME NEW t \in Threads, EnterClose(t) PROVE Contract!Close
  <2>1. ws # "nil"
    BY <1>3 DEF IInv, Unopened, EnterClose
  <2>2. QED BY <1>3, <2>1 DEF EnterClose, Contract!Close
<1>4. ASSUME NEW t \in Threads, Report(t) PROVE Contract!Report
  <2>1. once = t
    BY <1>4 DEF IInv, OneCloser, CloseLabels, Report
  <2>2. QED BY <1>4, <2>1 DEF Report, Drained, Contract!Report
<1>5. ASSUME NEW g \in Goroutines, GivesUp(g), g # "processor", pc[g] = "run",
             ws # "nil", ws' # "nil", UNCHANGED once
      PROVE Contract!Stop(g)
  BY <1>5 DEF GivesUp, IInv, Counted, Contract!Stop
<1>6. ASSUME NEW g \in Goroutines, StopOnClosed(g) PROVE Contract!Stop(g)
  <2>1. g \in wg /\ once # Done
    BY <1>6 DEF IInv, Counted, ReportedDrained, StopOnClosed
  <2>2. QED BY <1>6, <2>1 DEF StopOnClosed, StopSignal, Contract!Stop
<1>7. ASSUME NEW s \in Streams, Finish(s), subscriber[s] # "off", UNCHANGED <<ws, once>>
      PROVE Contract!StopStream(s)
  BY <1>7 DEF Finish, IInv, Counted, Contract!StopStream
<1>8. CASE StartPing
  BY <1>8 DEF StartPing, IInv, Counted, Contract!Next, Contract!Ping
<1>9. CASE PingAnswered
  BY <1>9 DEF PingAnswered, IInv, Counted, Contract!Next, Contract!Stop
<1>10. ASSUME UNCHANGED <<once, wg>>, ws' = ws \/ (ws # "nil" /\ ws' # "nil")
       PROVE UNCHANGED Contract!vars
  BY <1>10
<1>11. ASSUME NEW c \in Clients, ClientStep(c) PROVE [Contract!Next]_(Contract!vars)
  <2>1. CASE OpenAnswered(c) \/ OpenFailed(c)
    BY <2>1, <1>10 DEF OpenAnswered, OpenFailed
  <2>2. CASE CallDisconnect(c) \/ UnsubscribeReturns(c)
    BY <2>2, <1>10 DEF CallDisconnect, UnsubscribeReturns
  <2>3. CASE \E s \in Streams : Unsubscribe(c, s)
    BY <2>3, <1>10 DEF Unsubscribe
  <2>4. QED BY <1>11, <1>1, <1>2, <2>1, <2>2, <2>3 DEF ClientStep, Contract!Next
<1>12. ASSUME NEW t \in Threads, DisconnectStep(t) PROVE [Contract!Next]_(Contract!vars)
  <2>1. CASE StartDisconnect(t) \/ JoinDisconnect(t)
    BY <2>1, <1>10 DEF StartDisconnect, JoinDisconnect
  <2>2. CASE CloseTransport(t)
    <3>1. ws # "nil" /\ ws' # "nil" /\ UNCHANGED <<once, wg>>
      BY <2>2 DEF CloseTransport, IInv, Unopened
    <3>2. QED BY <3>1, <1>10
  <2>3. QED BY <1>12, <2>1, <2>2 DEF DisconnectStep
<1>13. ASSUME NEW t \in Threads, CloseNotifyStep(t) PROVE [Contract!Next]_(Contract!vars)
  <2>1. CASE CloseAlreadyDone(t) \/ TakeSubs(t) \/ StreamStopped(t) \/ ReleaseSubs(t)
    BY <2>1, <1>10 DEF CloseAlreadyDone, TakeSubs, StreamStopped, ReleaseSubs
  <2>2. CASE \E s \in Streams : CloseStreamFails(t, s) \/ CloseStream(t, s)
    BY <2>2, <1>10 DEF CloseStreamFails, CloseStream
  <2>3. QED BY <1>13, <1>3, <1>4, <2>1, <2>2 DEF CloseNotifyStep, Contract!Next
<1>14. CASE GoroutineStep
  <2>1. CASE TransportLost
    BY <2>1, <1>10 DEF TransportLost
  <2>2. CASE ReaderFails
    <3>1. Contract!Stop("reader")
      BY <2>2, <1>5 DEF ReaderFails
    <3>2. QED BY <3>1 DEF Contract!Next
  <2>3. CASE WriterFails
    <3>1. ws # "nil"
      BY <2>3 DEF WriterFails, IInv, Unopened
    <3>2. Contract!Stop("writer")
      BY <2>3, <3>1, <1>5 DEF WriterFails
    <3>3. QED BY <3>2 DEF Contract!Next
  <2>4. CASE PingFails
    <3>1. ws # "nil"
      BY <2>4 DEF PingFails, IInv, Unopened
    <3>2. Contract!Stop("ping")
      BY <2>4, <3>1, <1>5 DEF PingFails
    <3>3. QED BY <3>2 DEF Contract!Next
  <2>5. CASE \E s \in Streams : WriterWrites(s)
    BY <2>5, <1>10 DEF WriterWrites
  <2>6. CASE \E g \in Goroutines : \E s \in Streams : Deliver(g, s)
    BY <2>6, <1>10 DEF Deliver
  <2>7. CASE \E g \in Goroutines : StopOnClosed(g)
    BY <2>7, <1>6 DEF Contract!Next
  <2>8. QED
    BY <1>14, <1>8, <1>9, <2>1, <2>2, <2>3, <2>4, <2>5, <2>6, <2>7 DEF GoroutineStep
<1>15. ASSUME NEW s \in Streams, ConsumerStep(s) PROVE UNCHANGED Contract!vars
  BY <1>15, <1>10 DEF ConsumerStep, ConsumerTimesOut, ConsumerCancelled, PollElapses, Handoff
<1>16. ASSUME NEW s \in Streams, SubscriberStep(s) PROVE [Contract!Next]_(Contract!vars)
  <2>1. CASE UNCHANGED <<ws, once, wg>>
    BY <2>1, <1>10
  <2>2. CASE Finish(s) /\ subscriber[s] # "off" /\ UNCHANGED <<ws, once>>
    BY <2>2, <1>7 DEF Contract!Next
  <2>3. QED
    BY <1>16, <2>1, <2>2 DEF SubscriberStep, CallbackReturns, SubscriberStops,
                             SubscriberFails, SubscriberTimesOut
<1>17. CASE UNCHANGED vars
  BY <1>17, <1>10 DEF vars
<1>18. QED
  BY <1>11, <1>12, <1>13, <1>14, <1>15, <1>16, <1>17 DEF Next

\* Every behaviour of the connection is one the contract allows: it is opened once, its
\* goroutines are counted from start to stop, and the close is reported once, when all of
\* them and all subscribers are gone.
THEOREM Refinement == Spec => ImplementsContract
  BY ContractInit, ContractStep, Invariance, PTL DEF Spec, ImplementsContract, Contract!Spec

=============================================================================

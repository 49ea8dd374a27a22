-------------------------- MODULE ConnectionProofs --------------------------
(***************************************************************************)
(* Proofs about Connection, for every set of callers and streams and every *)
(* bound on the sessions.                                                  *)
(***************************************************************************)
EXTENDS Connection, TLAPS

\* The numbers of sessions.
LEMMA Numbers ==
    /\ 1 \in Sessions
    /\ \A k \in Sessions : k \in Nat /\ k >= 1 /\ (k < MaxSessions => k + 1 \in Sessions)
  BY SessionBound DEF Sessions

LEMMA TypeInit == Init => TypeOK
  BY Numbers DEF Init, TypeOK

LEMMA TypeStep == TypeOK /\ [Next]_vars => TypeOK'
<1> SUFFICES ASSUME TypeOK, [Next]_vars PROVE TypeOK'
  OBVIOUS
<1> USE DEF TypeOK, Goto, Returns, ConnectionSnapshot,
            sessionVars, lifecycle, callerVars, handlerVars
<1>1. ASSUME NEW k \in Sessions, SessionFails(k) \/ SessionCloses(k) PROVE TypeOK'
  BY <1>1 DEF SessionFails, SessionCloses
<1>2. ASSUME NEW t \in Callers, Connect(t) \/ ConnectReturns(t) PROVE TypeOK'
  BY <1>2, Numbers DEF Connect, ConnectReturns, ConnectFails, ConnectSucceeds, ConnectEnds
<1>3. ASSUME NEW t \in Callers, Disconnect(t) \/ DisconnectLocks(t) PROVE TypeOK'
  BY <1>3 DEF Disconnect, DisconnectLocks
<1>4. ASSUME NEW t \in Callers, DisconnectReturns(t) PROVE TypeOK'
  BY <1>4, Numbers DEF DisconnectReturns, CloseSession
<1>5. ASSUME NEW t \in Callers, NEW s \in Streams, Subscribe(t, s) \/ Unsubscribe(t, s)
      PROVE TypeOK'
  BY <1>5 DEF Subscribe, Unsubscribe, Begin
<1>6. ASSUME NEW t \in Callers, CallReturns(t) PROVE TypeOK'
  BY <1>6, Numbers DEF CallReturns, CallFails, SessionSubscribes, SessionUnsubscribes, Store
<1>7. CASE Handler
  <2>1. CASE Snapshot \/ ContextDone \/ SessionError
    BY <2>1 DEF Snapshot, ContextDone, SessionError
  <2>2. CASE Renew \/ Dial \/ Connected \/ RenewFails
    BY <2>2, Numbers DEF Renew, Dial, Connected, RenewFails
  <2>3. CASE TakeSubscriptions \/ Reconnected \/ Return
    BY <2>3 DEF TakeSubscriptions, Reconnected, Return, PushError
  <2>4. CASE \E s \in Streams : Resubscribe(s)
    BY <2>4 DEF Resubscribe
  <2>5. QED BY <1>7, <2>1, <2>2, <2>3, <2>4 DEF Handler
<1>8. CASE UNCHANGED vars
  BY <1>8 DEF vars
<1>9. QED
  BY <1>1, <1>2, <1>3, <1>4, <1>5, <1>6, <1>7, <1>8 DEF Next

\* TypeOK holds in every state: c.conn and every snapshot of it name a session, the locks
\* have a known holder (reconnect.go).
THEOREM TypeCorrect == Spec => []TypeOK
  BY TypeInit, TypeStep, PTL DEF Spec

-----------------------------------------------------------------------------
(* The inductive invariant                                                 *)

\* Earlier sessions have reported, later ones are still to come.
Succession ==
    /\ \A k \in Sessions : /\ k < conn => session[k] = "closed"
                           /\ k > conn => session[k] = "unopened"
    /\ \A t \in Callers : target[t] <= conn

\* The errorHandler works on the current session, and replaces it when it has reported.
HandlerCurrent ==
    /\ handler \notin {"none", "loop"} => handled = conn
    /\ handler = "renewing" => session[conn] = "closed"

\* Until Connect succeeds there is no errorHandler and one session only; Connect and
\* Disconnect work under lifecycleMu.
BeforeConnect ==
    /\ ctx = "nil" <=> handler = "none"
    /\ ctx = "nil" => conn = 1
    /\ \A t \in Callers : /\ pc[t] \in {"connecting", "disconnecting"} => lifecycleMu = t
                          /\ pc[t] = "connecting" => ctx = "nil"

IInv == TypeOK /\ Succession /\ HandlerCurrent /\ BeforeConnect

LEMMA InvInit == Init => IInv
<1> SUFFICES ASSUME Init PROVE IInv
  OBVIOUS
<1>1. TypeOK
  BY TypeInit
<1>2. Succession
  <2>1. ASSUME NEW k \in Sessions PROVE ~(k < 1) /\ session[k] = "unopened" /\ conn = 1
    BY Numbers DEF Init
  <2>2. ASSUME NEW t \in Callers PROVE target[t] = 1 /\ conn = 1
    BY DEF Init
  <2>3. QED BY <2>1, <2>2 DEF Succession
<1>3. HandlerCurrent /\ BeforeConnect
  BY DEF Init, HandlerCurrent, BeforeConnect
<1>4. QED
  BY <1>1, <1>2, <1>3 DEF IInv

LEMMA InvStep == IInv /\ [Next]_vars => IInv'
<1> SUFFICES ASSUME IInv, [Next]_vars PROVE IInv'
  OBVIOUS
<1>0. TypeOK'
  BY TypeStep DEF IInv
<1> USE <1>0, Numbers, CallerNames
<1> USE DEF IInv, TypeOK, Succession, HandlerCurrent, BeforeConnect, Goto, Returns,
            ConnectionSnapshot, sessionVars, lifecycle, callerVars, handlerVars
<1>1. ASSUME NEW k \in Sessions, SessionFails(k) \/ SessionCloses(k) PROVE IInv'
  <2>1. Succession'
    BY <1>1 DEF SessionFails, SessionCloses
  <2>2. HandlerCurrent'
    BY <1>1 DEF SessionFails, SessionCloses
  <2>3. BeforeConnect'
    BY <1>1 DEF SessionFails, SessionCloses
  <2>4. QED BY <2>1, <2>2, <2>3
<1>2. ASSUME NEW t \in Callers, Connect(t) PROVE IInv'
  BY <1>2 DEF Connect
<1>3. ASSUME NEW t \in Callers, ConnectReturns(t) PROVE IInv'
  <2>1. Succession'
    BY <1>3 DEF ConnectReturns, ConnectFails, ConnectSucceeds, ConnectEnds
  <2>2. HandlerCurrent'
    BY <1>3 DEF ConnectReturns, ConnectFails, ConnectSucceeds, ConnectEnds
  <2>3. BeforeConnect'
    BY <1>3 DEF ConnectReturns, ConnectFails, ConnectSucceeds, ConnectEnds
  <2>4. QED BY <2>1, <2>2, <2>3
<1>4. ASSUME NEW t \in Callers, Disconnect(t) \/ DisconnectLocks(t) PROVE IInv'
  <2>1. Succession'
    <3>1. session' = session /\ conn' = conn /\ conn \in Nat
      BY <1>4 DEF Disconnect, DisconnectLocks
    <3>2. ASSUME NEW u \in Callers PROVE target'[u] \in {target[u], conn}
      BY <1>4 DEF Disconnect, DisconnectLocks
    <3>3. QED BY <3>1, <3>2
  <2>2. HandlerCurrent'
    BY <1>4 DEF Disconnect, DisconnectLocks
  <2>3. BeforeConnect'
    BY <1>4 DEF Disconnect, DisconnectLocks
  <2>4. QED BY <2>1, <2>2, <2>3
<1>5. ASSUME NEW t \in Callers, DisconnectReturns(t) PROVE IInv'
  <2>1. Succession'
    BY <1>5 DEF DisconnectReturns, CloseSession
  <2>2. HandlerCurrent'
    BY <1>5 DEF DisconnectReturns, CloseSession
  <2>3. BeforeConnect'
    BY <1>5 DEF DisconnectReturns
  <2>4. QED BY <2>1, <2>2, <2>3
<1>6. ASSUME NEW t \in Callers, NEW s \in Streams, Subscribe(t, s) \/ Unsubscribe(t, s)
      PROVE IInv'
  <2>1. Succession'
    <3>1. ASSUME NEW u \in Callers PROVE target'[u] <= conn'
      <4>1. /\ conn' = conn /\ conn \in Nat
            /\ (u = t => target'[u] = conn) /\ (u # t => target'[u] = target[u])
        BY <1>6 DEF Subscribe, Unsubscribe, Begin
      <4>2. target[u] <= conn
        OBVIOUS
      <4>3. QED BY <4>1, <4>2
    <3>2. QED BY <1>6, <3>1 DEF Subscribe, Unsubscribe, Begin
  <2>2. HandlerCurrent'
    BY <1>6 DEF Subscribe, Unsubscribe, Begin
  <2>3. BeforeConnect'
    BY <1>6 DEF Subscribe, Unsubscribe, Begin
  <2>4. QED BY <2>1, <2>2, <2>3
<1>7. ASSUME NEW t \in Callers, CallReturns(t) PROVE IInv'
  BY <1>7 DEF CallReturns, CallFails, SessionSubscribes, SessionUnsubscribes, Store
<1>8. CASE Handler
  <2>1. CASE Snapshot \/ ContextDone \/ SessionError
    BY <2>1 DEF Snapshot, ContextDone, SessionError, ErrorSeen, Cancelled
  <2>2. CASE Renew
    <3>1. Succession'
      <4>1. session' = session /\ target' = target /\ conn' = conn + 1 /\ session[conn] = "closed"
        BY <2>2 DEF Renew
      <4>2. ASSUME NEW k \in Sessions, k < conn + 1 PROVE session[k] = "closed"
        BY <4>1, <4>2
      <4>3. ASSUME NEW k \in Sessions, k > conn + 1 PROVE session[k] = "unopened"
        BY <4>1, <4>3
      <4>4. ASSUME NEW u \in Callers PROVE target[u] <= conn + 1
        <5>1. target[u] \in Nat /\ conn \in Nat /\ target[u] <= conn
          BY Numbers
        <5>2. QED BY <5>1
      <4>5. QED BY <4>1, <4>2, <4>3, <4>4
    <3>2. HandlerCurrent' /\ BeforeConnect'
      BY <2>2 DEF Renew
    <3>3. QED BY <3>1, <3>2
  <2>3. CASE Dial \/ Connected \/ RenewFails
    BY <2>3 DEF Dial, Connected, RenewFails
  <2>4. CASE TakeSubscriptions \/ Reconnected \/ Return
    BY <2>4 DEF TakeSubscriptions, Reconnected, Return
  <2>5. CASE \E s \in Streams : Resubscribe(s)
    BY <2>5 DEF Resubscribe
  <2>6. QED BY <1>8, <2>1, <2>2, <2>3, <2>4, <2>5 DEF Handler
<1>9. CASE UNCHANGED vars
  BY <1>9 DEF vars
<1>10. QED
  BY <1>1, <1>2, <1>3, <1>4, <1>5, <1>6, <1>7, <1>8, <1>9 DEF Next

\* Only the current session can be running.
LEMMA InvOneSession == IInv => OneSession
  BY Numbers DEF IInv, TypeOK, Succession, OneSession, Running

\* At most one session of a Connection runs at any time, however Connect, Disconnect and
\* the errorHandler's reconnect interleave (reconnect.go:74-144 and 197-253).
THEOREM SingleSession == Spec => []OneSession
  BY InvInit, InvStep, InvOneSession, PTL DEF Spec

-----------------------------------------------------------------------------
(* How the sessions are used *)

\* Where each session is when somebody is about to open it, and what the lock, the attempt and
\* the error channel say of who works.
Opening ==
    /\ \A t \in Callers : pc[t] = "connecting" => session[target[t]] = "unopened"
    /\ handler \in {"dialling", "connecting"} => session[handled] = "unopened"
Locking ==
    /\ \A t \in Callers : lifecycleMu = t <=> pc[t] \in {"connecting", "disconnecting"}
    /\ attempt = "nil" <=> \A t \in Callers : pc[t] # "connecting"
Reporting == errorSent <=> handler = "gone"

\* As long as no consume times out the first session is the only one, and whoever cancelled
\* the errorHandler closes it or has closed it.
Closing ==
    consumeTimeout = {} =>
        /\ conn = 1 /\ handler \in {"none", "loop", "select", "returning", "gone"}
        /\ ctx = "cancelled" =>
             session[1] # "up" \/ \E t \in Callers : pc[t] = "disconnecting"

Uses == Opening /\ Locking /\ Reporting /\ Closing

\* A session goes on: it is opened once, if ever, and not used again after it reported.
GoesOn(k) ==
    \/ session'[k] = session[k] \/ session[k] = "unopened"
    \/ session[k] = "up" /\ session'[k] \in {"closing", "closed"}
    \/ session[k] = "closing" /\ session'[k] = "closed"
OpenedOnce == [][\A k \in Sessions : GoesOn(k)]_vars

\* One thread at a time opens or closes sessions.
LockKept ==
    \A t \in Callers : pc[t] \in {"connecting", "disconnecting"} <=> lifecycleMu = t
SendFinds == handler = "returning" => ~errorSent
FinalUnlessTimeout ==
    consumeTimeout = {} => DisconnectIsFinal

LEMMA UsesInit == Init => Uses
<1> SUFFICES ASSUME Init PROVE Uses
  OBVIOUS
<1> USE CallerNames DEF Init
<1>1. Opening /\ Reporting /\ Closing
  BY DEF Opening, Reporting, Closing
<1>2. Locking
  BY DEF Locking
<1>3. QED
  BY <1>1, <1>2 DEF Uses

\* The steps that open or close no session, take no lock and end no errorHandler.
LEMMA UsesKept ==
    ASSUME Uses, UNCHANGED <<session, consumeTimeout, conn, ctx, lifecycleMu, attempt, errorSent>>,
           handler' = handler \/ {handler, handler'} \subseteq {"loop", "select", "returning"},
           handled' = handled \/ handler' \in {"select"},
           \A t \in Callers :
               \/ pc'[t] = pc[t] /\ target'[t] = target[t]
               \/ {pc[t], pc'[t]} \cap {"connecting", "disconnecting"} = {}
    PROVE  Uses'
<1>1. Opening'
  BY DEF Uses, Opening
<1>2. Locking'
  BY DEF Uses, Locking
<1>3. Reporting' /\ Closing'
  BY DEF Uses, Reporting, Closing
<1>4. QED
  BY <1>1, <1>2, <1>3 DEF Uses

LEMMA UsesStep == IInv /\ IInv' /\ Uses /\ [Next]_vars => Uses' /\ \A k \in Sessions : GoesOn(k)
<1> SUFFICES ASSUME IInv, IInv', Uses, [Next]_vars
             PROVE  Uses' /\ \A k \in Sessions : GoesOn(k)
  OBVIOUS
<1> USE Numbers, CallerNames
<1>0. TypeOK /\ Opening /\ Locking /\ Reporting /\ Closing
  BY DEF IInv, Uses
<1> USE DEF Goto, Returns, ConnectionSnapshot, sessionVars, lifecycle, callerVars, handlerVars
<1>1. ASSUME NEW k \in Sessions, SessionFails(k) \/ SessionCloses(k)
      PROVE  Uses' /\ \A j \in Sessions : GoesOn(j)
  <2>1. /\ session[k] \in {"up", "closing"} /\ consumeTimeout \subseteq consumeTimeout'
        /\ session' = [session EXCEPT ![k] = session'[k]]
        /\ session'[k] = "closing" \/ (session[k] = "closing" /\ session'[k] = "closed")
        /\ UNCHANGED <<conn, lifecycle, callerVars, handlerVars>>
    BY <1>0, <1>1 DEF SessionFails, SessionCloses, TypeOK
  <2>2. \A j \in Sessions : GoesOn(j)
    BY <1>0, <2>1 DEF GoesOn, TypeOK
  <2>3. Opening'
    BY <1>0, <2>1 DEF Opening, TypeOK
  <2>4. Locking' /\ Reporting'
    BY <1>0, <2>1 DEF Locking, Reporting
  <2>5. Closing'
    BY <1>0, <2>1 DEF Closing, TypeOK
  <2>6. QED
    BY <2>2, <2>3, <2>4, <2>5 DEF Uses
<1>2. ASSUME NEW t \in Callers, Connect(t) PROVE Uses' /\ \A j \in Sessions : GoesOn(j)
  <2>1. /\ pc[t] = "idle" /\ lifecycleMu = None /\ ctx = "nil" /\ session[1] = "unopened"
        /\ lifecycleMu' = t /\ attempt' = "set" /\ conn = 1
        /\ target' = [target EXCEPT ![t] = 1] /\ pc' = [pc EXCEPT ![t] = "connecting"]
        /\ UNCHANGED <<sessionVars, conn, ctx, handlerVars>>
    BY <1>2 DEF Connect, IInv, BeforeConnect
  <2>2. Opening'
    BY <1>0, <2>1 DEF Opening, TypeOK
  <2>3. Locking'
    BY <1>0, <2>1 DEF Locking, TypeOK
  <2>4. Reporting' /\ Closing'
    BY <1>0, <2>1 DEF Reporting, Closing
  <2>5. QED
    BY <2>1, <2>2, <2>3, <2>4 DEF Uses, GoesOn
<1>3. ASSUME NEW t \in Callers, ConnectReturns(t)
      PROVE  Uses' /\ \A j \in Sessions : GoesOn(j)
  <2>1. /\ pc[t] = "connecting" /\ ctx = "nil" /\ conn = 1 /\ handler = "none"
        /\ target[t] = 1 /\ session[1] = "unopened" /\ lifecycleMu = t
    BY <1>0, <1>3
    DEF ConnectReturns, ConnectFails, ConnectSucceeds, IInv, BeforeConnect, Opening, TypeOK,
        Succession
  <2>2. /\ \/ session' = session
           \/ session' = [session EXCEPT ![1] = "closed"]
           \/ session' = [session EXCEPT ![1] = "up"]
        /\ \/ UNCHANGED <<ctx, handler>>
           \/ ctx' = "live" /\ handler' = "loop"
        /\ UNCHANGED <<consumeTimeout, table, conn, handled, errorSent>>
        /\ lifecycleMu' = None /\ attempt' = "nil"
        /\ pc' = [pc EXCEPT ![t] = "idle"] /\ target' = [target EXCEPT ![t] = 1]
    BY <1>3, <2>1 DEF ConnectReturns, ConnectFails, ConnectSucceeds, ConnectEnds
  <2>3. \A u \in Callers \ {t} : pc[u] \notin {"connecting", "disconnecting"}
    BY <1>0, <2>1 DEF Locking
  <2>4. Opening'
    BY <1>0, <2>1, <2>2, <2>3 DEF Opening, TypeOK
  <2>5. Locking'
    BY <1>0, <2>1, <2>2, <2>3 DEF Locking, TypeOK
  <2>6. Reporting' /\ Closing'
    BY <1>0, <2>1, <2>2 DEF Reporting, Closing
  <2>7. \A j \in Sessions : GoesOn(j)
    BY <1>0, <2>1, <2>2 DEF GoesOn, TypeOK
  <2>8. QED
    BY <2>4, <2>5, <2>6, <2>7 DEF Uses
<1>4. ASSUME NEW t \in Callers, Disconnect(t) PROVE Uses' /\ \A j \in Sessions : GoesOn(j)
  <2>1. /\ pc[t] = "idle" /\ pc' = [pc EXCEPT ![t] = "locking"]
        /\ attempt' = "nil" <=> attempt = "nil"
        /\ UNCHANGED <<sessionVars, conn, lifecycleMu, ctx, target, handlerVars>>
    BY <1>4 DEF Disconnect
  <2>2. Opening' /\ Locking'
    BY <1>0, <2>1 DEF Opening, Locking, TypeOK
  <2>3. Reporting'
    BY <1>0, <2>1 DEF Reporting
  <2>4. Closing'
    BY <1>0, <2>1 DEF Closing, TypeOK
  <2>5. QED
    BY <2>1, <2>2, <2>3, <2>4 DEF Uses, GoesOn
<1>5. ASSUME NEW t \in Callers, DisconnectLocks(t) PROVE Uses' /\ \A j \in Sessions : GoesOn(j)
  <2>1. /\ pc[t] = "locking" /\ pc' = [pc EXCEPT ![t] = "disconnecting"]
        /\ lifecycleMu = None /\ lifecycleMu' = t
        /\ target' = [target EXCEPT ![t] = conn]
        /\ UNCHANGED <<sessionVars, conn, attempt, handlerVars>>
    BY <1>5 DEF DisconnectLocks
  <2>2. Opening'
    BY <1>0, <2>1 DEF Opening, TypeOK
  <2>3. Locking'
    BY <1>0, <2>1 DEF Locking, TypeOK
  <2>4. Reporting'
    BY <1>0, <2>1 DEF Reporting
  <2>5. Closing'
    BY <1>0, <2>1 DEF Closing, TypeOK
  <2>6. QED
    BY <2>1, <2>2, <2>3, <2>4, <2>5 DEF Uses, GoesOn
<1>6. ASSUME NEW t \in Callers, DisconnectReturns(t) PROVE Uses' /\ \A j \in Sessions : GoesOn(j)
  <2>1. /\ pc[t] = "disconnecting" /\ lifecycleMu = t /\ target[t] \in Sessions
        /\ target[t] <= conn
    BY <1>0, <1>6 DEF DisconnectReturns, IInv, BeforeConnect, Succession, TypeOK
  <2>2. PICK k \in Sessions : k = target[t]
    BY <2>1
  <2>3. /\ session' = [session EXCEPT ![k] = IF @ = "up" THEN "closed" ELSE @]
        /\ lifecycleMu' = None /\ pc' = [pc EXCEPT ![t] = "idle"]
        /\ target' = [target EXCEPT ![t] = 1]
        /\ UNCHANGED <<consumeTimeout, conn, attempt, ctx, handlerVars>>
    BY <1>6, <2>2 DEF DisconnectReturns, CloseSession
  <2>4. \A j \in Sessions : GoesOn(j)
    BY <1>0, <2>3 DEF GoesOn, TypeOK
  <2>5. Opening'
    BY <1>0, <2>3 DEF Opening, TypeOK
  <2>6. Locking'
    BY <1>0, <2>1, <2>3 DEF Locking, TypeOK
  <2>7. Reporting'
    BY <1>0, <2>3 DEF Reporting
  <2>8. Closing'
    <3>1. conn = 1 => k = 1
      BY <2>1, <2>2
    <3>2. k = 1 => session'[1] # "up"
      BY <1>0, <2>3 DEF TypeOK
    <3>3. QED
      BY <1>0, <2>3, <3>1, <3>2 DEF Closing
  <2>9. QED
    BY <2>4, <2>5, <2>6, <2>7, <2>8 DEF Uses
<1>7. ASSUME NEW t \in Callers,
             CallReturns(t) \/ \E s \in Streams : Subscribe(t, s) \/ Unsubscribe(t, s)
      PROVE  Uses' /\ \A j \in Sessions : GoesOn(j)
  <2>1. /\ UNCHANGED <<session, consumeTimeout, conn, lifecycle, handler, handled, errorSent>>
        /\ pc[t] \in {"idle", "subscribing", "unsubscribing", "storing", "forgetting"}
        /\ pc'[t] \in {"idle", "subscribing", "unsubscribing", "storing", "forgetting"}
        /\ \A u \in Callers \ {t} : pc'[u] = pc[u] /\ target'[u] = target[u]
    BY <1>0, <1>7
    DEF Subscribe, Unsubscribe, Begin, CallReturns, CallFails, SessionSubscribes,
        SessionUnsubscribes, Store, TypeOK
  <2>2. \A u \in Callers : \/ pc'[u] = pc[u] /\ target'[u] = target[u]
                           \/ {pc[u], pc'[u]} \cap {"connecting", "disconnecting"} = {}
    BY <2>1
  <2>3. Uses'
    BY <2>1, <2>2, UsesKept
  <2>4. QED
    BY <2>1, <2>3 DEF GoesOn
<1>8. CASE Handler
  <2>0. /\ UNCHANGED <<lifecycleMu, attempt, ctx, pc, target, consumeTimeout>>
        /\ handler # "none" /\ Locking'
    BY <1>0, <1>8
    DEF Handler, Snapshot, ContextDone, SessionError, Renew, Dial, Connected, RenewFails,
        TakeSubscriptions, Resubscribe, Reconnected, Return, Locking
  \* No caller is connecting beside the errorHandler.
  <2>1. \A t \in Callers : pc[t] # "connecting"
    BY <2>0 DEF IInv, BeforeConnect
  <2>2. CASE UNCHANGED <<session, conn>> /\ handler' \notin {"dialling", "connecting", "gone"}
    <3>1. Opening'
      BY <2>0, <2>1, <2>2 DEF Opening
    <3>2. handler # "gone" /\ errorSent' = errorSent
      BY <1>8, <2>2
      DEF Handler, Snapshot, ContextDone, SessionError, Renew, Dial, Connected, RenewFails,
          TakeSubscriptions, Resubscribe, Reconnected, Return
    <3>3. Reporting'
      BY <1>0, <2>2, <3>2 DEF Reporting
    <3>4. consumeTimeout = {} => handler' \in {"loop", "select", "returning"}
      BY <1>0, <1>8, <2>2
      DEF Handler, Snapshot, ContextDone, SessionError, Renew, Dial, Connected, RenewFails,
          TakeSubscriptions, Resubscribe, Reconnected, Return, Closing
    <3>5. Closing'
      BY <1>0, <2>0, <2>2, <3>4 DEF Closing
    <3>6. QED
      BY <2>0, <2>2, <3>1, <3>3, <3>5 DEF Uses, GoesOn
  <2>3. CASE Renew
    <3>1. /\ handler = "renewing" /\ conn' = conn + 1 /\ handled' = conn + 1 /\ conn \in Nat
          /\ handler' = "dialling" /\ conn + 1 \in Sessions /\ UNCHANGED <<session, errorSent>>
      BY <1>0, <2>3 DEF Renew, TypeOK
    <3>2. session[conn + 1] = "unopened"
      BY <3>1 DEF IInv, Succession
    <3>3. Opening' /\ Reporting'
      BY <1>0, <2>1, <2>0, <3>1, <3>2 DEF Opening, Reporting
    <3>4. Closing'
      BY <1>0, <2>0, <3>1 DEF Closing
    <3>5. QED
      BY <2>0, <3>1, <3>3, <3>4 DEF Uses, GoesOn
  <2>4. CASE Dial
    <3>1. /\ handler = "dialling" /\ handler' = "connecting"
          /\ UNCHANGED <<session, conn, handled, errorSent>>
      BY <2>4 DEF Dial
    <3>2. Opening' /\ Reporting' /\ Closing'
      BY <1>0, <2>0, <2>1, <3>1 DEF Opening, Reporting, Closing
    <3>3. QED
      BY <2>0, <3>1, <3>2 DEF Uses, GoesOn
  <2>5. CASE (Connected \/ RenewFails) /\ session' # session
    <3>1. /\ handler = "connecting" /\ handler' \in {"snapshot", "returning"}
          /\ handled \in Sessions /\ session[handled] = "unopened"
          /\ \E l \in {"up", "closed"} : session' = [session EXCEPT ![handled] = l]
          /\ UNCHANGED <<conn, handled, errorSent>>
      BY <1>0, <2>5 DEF Connected, RenewFails, Opening, TypeOK
    <3>2. \A j \in Sessions : GoesOn(j)
      BY <1>0, <3>1 DEF GoesOn, TypeOK
    <3>3. Opening' /\ Reporting' /\ Closing'
      BY <1>0, <2>0, <2>1, <3>1 DEF Opening, Reporting, Closing
    <3>4. QED
      BY <2>0, <3>2, <3>3 DEF Uses
  <2>6. CASE Return
    <3>1. /\ handler = "returning" /\ handler' = "gone" /\ errorSent' = TRUE
          /\ UNCHANGED <<session, conn>>
      BY <2>6 DEF Return, PushError
    <3>2. Opening' /\ Reporting' /\ Closing'
      BY <1>0, <2>0, <2>1, <3>1 DEF Opening, Reporting, Closing
    <3>3. QED
      BY <2>0, <3>1, <3>2 DEF Uses, GoesOn
  <2>7. QED
    BY <1>8, <2>2, <2>3, <2>4, <2>5, <2>6
    DEF Handler, Snapshot, ContextDone, SessionError, Connected, RenewFails,
        TakeSubscriptions, Resubscribe, Reconnected
<1>9. CASE UNCHANGED vars
  BY <1>0, <1>9 DEF vars, Uses, Opening, Locking, Reporting, Closing, GoesOn
<1>10. QED
  BY <1>1, <1>2, <1>3, <1>4, <1>5, <1>6, <1>7, <1>8, <1>9 DEF Next

UInv == IInv /\ Uses
LEMMA UInvInit == Init => UInv
  BY InvInit, UsesInit DEF UInv
LEMMA UInvStep == UInv /\ [Next]_vars => UInv' /\ \A k \in Sessions : GoesOn(k)
  BY InvStep, UsesStep DEF UInv

\* A session is opened at most once, by Connect or by the errorHandler, and is never used again
\* after it reported, which is all that ConnectionContract allows (reconnect.go:74-144, 218-225).
THEOREM SessionsOpenedOnce == Spec => OpenedOnce
<1>1. UInv /\ [Next]_vars => [\A k \in Sessions : GoesOn(k)]_vars
  BY UInvStep
<1>2. QED
  BY <1>1, UInvInit, UInvStep, PTL DEF Spec, OpenedOnce

\* lifecycleMu is held by the Connect or Disconnect in progress and by nobody else: no call
\* returns with it, on any path (reconnect.go:75-76, 128-129).
THEOREM LifecycleLocked == Spec => []LockKept
<1>1. UInv => LockKept
  BY DEF UInv, Uses, Locking, LockKept
<1>2. QED
  BY <1>1, UInvInit, UInvStep, PTL DEF Spec

\* One errorHandler runs in the life of a Connection and it sends one error, so its send to
\* the buffer of one in c.Error never blocks (reconnect.go:64, 197-202).
THEOREM ErrorSentOnce == Spec => []SendFinds
<1>1. UInv => SendFinds
  BY DEF UInv, Uses, Reporting, SendFinds
<1>2. QED
  BY <1>1, UInvInit, UInvStep, PTL DEF Spec

\* Disconnect is final as long as no consume times out: a reconnect in progress is the only way
\* in which it leaves a session up (reconnect.go:115-144, 207-225).
THEOREM DisconnectFinal == Spec => []FinalUnlessTimeout
<1>1. UInv => FinalUnlessTimeout
  <2> SUFFICES ASSUME UInv, consumeTimeout = {}, ctx = "cancelled",
                      \A t \in Callers : pc[t] \notin {"locking", "disconnecting"},
                      NEW k \in Sessions
               PROVE  session[k] # "up"
    BY DEF FinalUnlessTimeout, DisconnectIsFinal
  <2>1. conn = 1 /\ session[1] # "up"
    BY DEF UInv, Uses, Closing
  <2>2. CASE k = 1
    BY <2>1, <2>2
  <2>3. CASE k > 1
    BY <2>1, <2>3 DEF UInv, IInv, Succession
  <2>4. QED
    BY <2>2, <2>3, Numbers
<1>2. QED
  BY <1>1, UInvInit, UInvStep, PTL DEF Spec

-----------------------------------------------------------------------------
(* What a reconnect resumes *)

InCall(t) == pc[t] \in {"subscribing", "unsubscribing", "storing", "forgetting"}
Reconnecting == handler \in {"renewing", "dialling", "connecting", "snapshot", "subscribing"}

\* Subscribe and Unsubscribe overlap neither each other nor a reconnect.
CallsApart ==
    /\ \A t, u \in Callers : InCall(t) /\ InCall(u) => t = u
    /\ Reconnecting => \A t \in Callers : ~InCall(t)

\* A call works on the current session; there is nothing to resume before the first one.
CallsCurrent ==
    /\ \A t \in Callers : InCall(t) => target[t] = conn
    /\ handler = "none" => subscriptions = {} /\ \A t \in Callers : ~InCall(t)

\* While the current session is up, its table has the streams of c.subscriptions, but for those
\* that the errorHandler has still to visit or an Unsubscribe has still to forget.
Resumed ==
    session[conn] = "up" =>
        /\ handler \in {"loop", "select"} =>
             \A s \in subscriptions :
                 s \in table[conn] \/ \E t \in Callers : pc[t] = "forgetting" /\ stream[t] = s
        /\ handler = "subscribing" => subscriptions \ resubscribe \subseteq table[conn]
        /\ \A t \in Callers : pc[t] = "storing" => stream[t] \in table[conn]

RInv == CallsCurrent /\ Resumed

LEMMA ResumedStep == UInv /\ CallsApart /\ CallsApart' /\ RInv /\ [Next]_vars => RInv'
<1> SUFFICES ASSUME UInv, CallsApart, CallsApart', RInv, [Next]_vars PROVE RInv'
  OBVIOUS
<1>0. /\ TypeOK /\ Succession /\ HandlerCurrent /\ BeforeConnect /\ Opening
      /\ CallsCurrent /\ Resumed
  BY DEF UInv, IInv, Uses, RInv
<1> USE Numbers
<1> USE DEF Goto, Returns, ConnectionSnapshot, sessionVars, lifecycle, callerVars, handlerVars
\* A step that brings up no session and takes no stream from the table of one that is up.
<1>1. ASSUME UNCHANGED <<conn, subscriptions, callerVars, handler, resubscribe>>,
             \A k \in Sessions : session'[k] = "up" =>
                 session[k] = "up" /\ table[k] \subseteq table'[k]
      PROVE  RInv'
  <2>1. conn \in Sessions
    BY <1>0 DEF TypeOK
  <2>2. CallsCurrent'
    BY <1>0, <1>1 DEF CallsCurrent, InCall
  <2>3. Resumed'
    BY <1>0, <1>1, <2>1 DEF Resumed
  <2>4. QED BY <2>2, <2>3 DEF RInv
<1>2. ASSUME NEW k \in Sessions, SessionFails(k) \/ SessionCloses(k) PROVE RInv'
  BY <1>0, <1>1, <1>2 DEF SessionFails, SessionCloses, TypeOK
\* A call outside Subscribe and Unsubscribe goes on.
<1>3. ASSUME NEW t \in Callers, ~InCall(t), ~InCall(t)',
             pc' = [pc EXCEPT ![t] = pc'[t]], target' = [target EXCEPT ![t] = target'[t]],
             UNCHANGED <<conn, subscriptions, stream, handler, resubscribe>>,
             \A k \in Sessions : session'[k] = "up" =>
                 session[k] = "up" /\ table[k] \subseteq table'[k]
      PROVE  RInv'
  <2>1. \A u \in Callers : u # t => pc'[u] = pc[u] /\ target'[u] = target[u]
    BY <1>0, <1>3 DEF TypeOK
  <2>2. conn \in Sessions /\ pc[t] # "forgetting" /\ pc'[t] \notin {"storing", "forgetting"}
    BY <1>0, <1>3 DEF TypeOK, InCall
  <2>3. CallsCurrent'
    BY <1>0, <1>3, <2>1 DEF CallsCurrent, InCall
  <2>4. Resumed'
    BY <1>0, <1>3, <2>1, <2>2 DEF Resumed
  <2>5. QED BY <2>3, <2>4 DEF RInv
<1>4. ASSUME NEW t \in Callers, Connect(t) \/ ConnectFails(t) PROVE RInv'
  <2>1. ~InCall(t) /\ ~InCall(t)'
    BY <1>0, <1>4 DEF Connect, ConnectFails, ConnectEnds, InCall, TypeOK
  <2>2. QED
    BY <1>0, <1>3, <1>4, <2>1 DEF Connect, ConnectFails, ConnectEnds, TypeOK
<1>5. ASSUME NEW t \in Callers, ConnectSucceeds(t) PROVE RInv'
  <2>1. handler = "none" /\ subscriptions = {} /\ \A u \in Callers : ~InCall(u)
    BY <1>0, <1>5 DEF ConnectSucceeds, BeforeConnect, CallsCurrent
  <2>2. /\ handler' = "loop" /\ subscriptions' = {}
        /\ pc' = [pc EXCEPT ![t] = "idle"]
    BY <1>5, <2>1 DEF ConnectSucceeds, ConnectEnds
  <2>3. \A u \in Callers : ~InCall(u)'
    BY <1>0, <2>1, <2>2 DEF InCall, TypeOK
  <2>4. QED
    BY <2>2, <2>3 DEF RInv, CallsCurrent, Resumed, InCall
<1>6. ASSUME NEW t \in Callers, Disconnect(t) \/ DisconnectLocks(t) \/ DisconnectReturns(t)
      PROVE  RInv'
  <2>1. ~InCall(t) /\ ~InCall(t)'
    BY <1>0, <1>6 DEF Disconnect, DisconnectLocks, DisconnectReturns, InCall, TypeOK
  <2>2. \A k \in Sessions : session'[k] = "up" => session[k] = "up" /\ table'[k] = table[k]
    BY <1>0, <1>6 DEF Disconnect, DisconnectLocks, DisconnectReturns, CloseSession, TypeOK
  <2>3. QED
    BY <1>0, <1>3, <1>6, <2>1, <2>2
    DEF Disconnect, DisconnectLocks, DisconnectReturns, CloseSession, TypeOK
<1>7. ASSUME NEW t \in Callers, NEW s \in Streams, Subscribe(t, s) \/ Unsubscribe(t, s)
      PROVE  RInv'
  <2>1. /\ pc[t] = "idle" /\ handler # "none"
        /\ pc'[t] \in {"subscribing", "unsubscribing"} /\ target'[t] = conn
        /\ \A u \in Callers : u # t =>
              pc'[u] = pc[u] /\ target'[u] = target[u] /\ stream'[u] = stream[u]
        /\ UNCHANGED <<session, table, conn, subscriptions, handler, resubscribe>>
    BY <1>0, <1>7 DEF Subscribe, Unsubscribe, Begin, BeforeConnect, TypeOK
  <2>2. CallsCurrent'
    BY <1>0, <2>1 DEF CallsCurrent, InCall
  <2>3. Resumed'
    BY <1>0, <2>1 DEF Resumed
  <2>4. QED BY <2>2, <2>3 DEF RInv
<1>8. ASSUME NEW t \in Callers, CallReturns(t) PROVE RInv'
  <2>1. /\ InCall(t) /\ target[t] = conn /\ conn \in Sessions /\ stream[t] \in Streams
        /\ ~Reconnecting /\ handler # "none" /\ \A u \in Callers : u # t => ~InCall(u)
    BY <1>0, <1>8
    DEF CallReturns, CallFails, SessionSubscribes, SessionUnsubscribes, Store, InCall,
        CallsApart, CallsCurrent, TypeOK
  <2>2. /\ UNCHANGED <<session, conn, handler, resubscribe, stream>>
        /\ pc' = [pc EXCEPT ![t] = pc'[t]]
        /\ target'[t] = conn \/ pc'[t] = "idle"
        /\ \A u \in Callers : u # t => ~InCall(u)'
    BY <1>0, <1>8, <2>1
    DEF CallReturns, CallFails, SessionSubscribes, SessionUnsubscribes, Store, TypeOK, InCall
  <2>3. CallsCurrent'
    BY <2>1, <2>2 DEF CallsCurrent, InCall
  <2>4. handler' # "subscribing"
    BY <2>1, <2>2 DEF Reconnecting
  <2>5. CASE CallFails(t)
    <3>1. /\ pc[t] \in {"subscribing", "unsubscribing"} /\ pc'[t] = "idle"
          /\ UNCHANGED <<table, subscriptions>>
      BY <1>0, <2>5 DEF CallFails, TypeOK
    <3>2. Resumed'
      BY <1>0, <2>1, <2>2, <2>4, <3>1 DEF Resumed, InCall
    <3>3. QED BY <2>3, <3>2 DEF RInv
  <2>6. CASE SessionSubscribes(t)
    <3>1. /\ pc[t] = "subscribing" /\ pc'[t] = "storing"
          /\ table' = [table EXCEPT ![conn] = @ \cup {stream[t]}]
          /\ UNCHANGED subscriptions
      BY <1>0, <2>1, <2>6 DEF SessionSubscribes, TypeOK
    <3>2. Resumed'
      BY <1>0, <2>1, <2>2, <2>4, <3>1 DEF Resumed, InCall, TypeOK
    <3>3. QED BY <2>3, <3>2 DEF RInv
  <2>7. CASE SessionUnsubscribes(t)
    <3>1. /\ pc[t] = "unsubscribing" /\ pc'[t] = "forgetting"
          /\ table' = [table EXCEPT ![conn] = @ \ {stream[t]}]
          /\ UNCHANGED subscriptions
      BY <1>0, <2>1, <2>7 DEF SessionUnsubscribes, TypeOK
    <3>2. Resumed'
      BY <1>0, <2>1, <2>2, <2>4, <3>1 DEF Resumed, InCall, TypeOK
    <3>3. QED BY <2>3, <3>2 DEF RInv
  <2>8. CASE Store(t)
    <3>1. /\ pc[t] \in {"storing", "forgetting"} /\ pc'[t] = "idle"
          /\ subscriptions' = IF pc[t] = "storing" THEN subscriptions \cup {stream[t]}
                              ELSE subscriptions \ {stream[t]}
          /\ UNCHANGED table
      BY <1>0, <2>8 DEF Store, TypeOK
    <3>2. Resumed'
      BY <1>0, <2>1, <2>2, <2>4, <3>1 DEF Resumed, InCall
    <3>3. QED BY <2>3, <3>2 DEF RInv
  <2>9. QED
    BY <1>8, <2>5, <2>6, <2>7, <2>8 DEF CallReturns
<1>9. CASE Handler
  <2>1. UNCHANGED <<subscriptions, callerVars>> /\ handler # "none" /\ handler' # "none"
    BY <1>9
    DEF Handler, Snapshot, ContextDone, SessionError, Renew, Dial, Connected, RenewFails,
        TakeSubscriptions, Resubscribe, Reconnected, Return
  <2>2. CASE Snapshot \/ ContextDone \/ SessionError \/ Return
    <3>1. /\ UNCHANGED <<session, table, conn, resubscribe>>
          /\ handler' # "subscribing" /\ (handler' \in {"loop", "select"} => handler = "loop")
      BY <2>2 DEF Snapshot, ContextDone, SessionError, Return
    <3>2. QED
      BY <1>0, <2>1, <3>1 DEF RInv, CallsCurrent, Resumed, InCall
  <2>3. CASE Renew \/ Dial \/ Connected \/ RenewFails
    <3>1. Reconnecting /\ handler' \notin {"loop", "select", "subscribing"}
      BY <2>3 DEF Renew, Dial, Connected, RenewFails, Reconnecting
    <3>2. \A t \in Callers : ~InCall(t)
      BY <3>1 DEF CallsApart
    <3>3. QED
      BY <2>1, <3>1, <3>2 DEF RInv, CallsCurrent, Resumed, InCall
  <2>4. CASE TakeSubscriptions
    BY <1>0, <2>1, <2>4 DEF TakeSubscriptions, RInv, CallsCurrent, Resumed, InCall
  <2>5. ASSUME NEW s \in Streams, Resubscribe(s) PROVE RInv'
    <3>1. /\ handled = conn /\ conn \in Sessions /\ handler = "subscribing"
          /\ table' = [table EXCEPT ![conn] = @ \cup {s}] /\ resubscribe' = resubscribe \ {s}
          /\ UNCHANGED <<session, conn, handler>>
      BY <1>0, <2>5 DEF Resubscribe, HandlerCurrent, TypeOK
    <3>2. QED
      BY <1>0, <2>1, <3>1 DEF RInv, CallsCurrent, Resumed, InCall, TypeOK
  <2>6. CASE Reconnected
    BY <1>0, <2>1, <2>6 DEF Reconnected, RInv, CallsCurrent, Resumed, InCall
  <2>7. QED
    BY <1>9, <2>2, <2>3, <2>4, <2>5, <2>6 DEF Handler
<1>10. CASE UNCHANGED vars
  BY <1>0, <1>1, <1>10 DEF vars
<1>11. QED
  BY <1>2, <1>4, <1>5, <1>6, <1>7, <1>8, <1>9, <1>10 DEF Next, ConnectReturns

\* A reconnect resumes every stream, however sessions fail and whatever Connect, Disconnect and
\* the errorHandler do, unless a Subscribe or Unsubscribe overlaps it or another of them: the
\* snapshots and c.subscriptions of those calls are what it races with (reconnect.go:153-182,
\* 229-238).
THEOREM StreamsResumed == Spec /\ []CallsApart => []SubscriptionsResumed
<1>1. Init => RInv
  BY DEF Init, RInv, CallsCurrent, Resumed, InCall
<1>2. UInv /\ RInv => SubscriptionsResumed
  BY DEF RInv, Resumed, SubscriptionsResumed
<1>3. QED
  BY <1>1, <1>2, UInvInit, UInvStep, ResumedStep, PTL DEF Spec
=============================================================================

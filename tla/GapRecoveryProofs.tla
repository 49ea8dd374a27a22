-------------------------- MODULE GapRecoveryProofs --------------------------
(***************************************************************************)
(* Proofs about GapRecovery, for any streams and reasons and any number of *)
(* sessions.                                                               *)
(***************************************************************************)
EXTENDS GapRecovery, TLAPS

Open(s) == lifecycle[s].active
FromStream(s) == outbox[s] # NoEvent
FromManager(s) == outbox[Manager] # NoEvent /\ outbox[Manager].stream = s

\* The manager has nothing to do unless it subscribes; then no consumer has failed.
Phases ==
    /\ manager # "subscribing" => todo = {} /\ announce = {}
    /\ \A s \in todo : consumer[s] = "off"
    /\ \A s \in Streams : consumer[s] = "failed" => Open(s) /\ manager # "subscribing"

\* Whose event an outbox holds: the manager only recovers, a detection is the consumer's own
\* and leaves it failed.
OwnEvent(s) == FromStream(s) =>
    /\ outbox[s].stream = s
    /\ outbox[s].state = IF Open(s) THEN "detected" ELSE "recovered"
    /\ Open(s) => consumer[s] = "failed" /\ ~lifecycle[s].ready
ManagerRecovers == outbox[Manager] # NoEvent => outbox[Manager].state = "recovered"
Owned == ManagerRecovers /\ \A s \in Streams : OwnEvent(s)

\* What the application knows of a gap lags the lifecycle by the one event under way.
Lag(s) ==
    /\ Open(s) => ~FromManager(s) /\ (FromStream(s) <=> known[s] = NoGap)
    /\ ~Open(s) => /\ ~(FromStream(s) /\ FromManager(s))
                   /\ (FromStream(s) \/ FromManager(s)) <=> known[s] # NoGap
KnownFollows == \A s \in Streams : Lag(s)

\* The number of a reconnect is larger than those before it.
Count(s) ==
    /\ FromStream(s) /\ Open(s) => outbox[s].count <= reconnectCount
    /\ known[s] # NoGap =>
          /\ known[s].count <= reconnectCount
          /\ Open(s) /\ lifecycle[s].ready => lifecycle[s].count > known[s].count
Counted == CountAdvances /\ \A s \in Streams : Count(s)

\* The observations of an open gap belong to the attempt whose consumer polls or whose
\* announcement is due, and its detection to an earlier one.
EarnedOf(s) == Open(s) =>
    /\ consumer[s] = "polling" /\ lifecycle[s].ready => evidence[s].ready = attempt
    /\ s \in announce /\ lifecycle[s].response => evidence[s].response = attempt
    /\ evidence[s].detected <= attempt
    /\ consumer[s] = "polling" \/ s \in announce \cup todo => evidence[s].detected < attempt
Earned == \A s \in Streams : EarnedOf(s)

\* On a live session only an announcement still due separates a poll from readiness.
Announced == \A s \in Streams :
    session = "live" /\ consumer[s] = "polling" /\ Open(s) /\ s \notin announce
        => lifecycle[s].ready

GInv == TypeOK /\ Phases /\ Owned /\ KnownFollows /\ Counted /\ Earned /\ Announced

-----------------------------------------------------------------------------
(* The tracker's calls, stream by stream.                                  *)

\* The two observations: what they leave alone, and the gap they may close.
ObservedEffect(t, s) ==
    /\ TrackerTypeOK'
    /\ \A x \in Streams \ {s} : lifecycle'[x] = lifecycle[x]
    /\ \A u \in Callers \ {t} : outbox'[u] = outbox[u]
    /\ ~Open(s) => UNCHANGED trackerVars
    /\ Open(s)' => Open(s) /\ outbox'[t] = outbox[t]
    /\ Open(s) /\ ~Open(s)' =>
           /\ lifecycle'[s].ready /\ lifecycle'[s].response
           /\ outbox'[t] # NoEvent /\ outbox'[t].stream = s /\ outbox'[t].state = "recovered"
           /\ outbox'[t].count = lifecycle'[s].count

LEMMA RecoverEffect ==
    ASSUME TrackerTypeOK, NEW t \in Callers, NEW s \in Streams, NEW l \in Lifecycles,
           Open(s), reconnectCount' \in Nat, RecoverIfComplete(t, s, l)
    PROVE  /\ ObservedEffect(t, s)
           /\ lifecycle'[s].ready = l.ready /\ lifecycle'[s].response = l.response
           /\ lifecycle'[s].count = l.count
<1>1. CASE l.ready /\ l.response
  <2> DEFINE n == [l EXCEPT !.active = FALSE]
             e == [stream |-> s, state |-> "recovered", reason |-> l.reason, count |-> l.count]
  <2>1. lifecycle' = [lifecycle EXCEPT ![s] = n]
    BY <1>1 DEF RecoverIfComplete
  <2>2. n \in Lifecycles /\ ~n.active /\ n.ready = l.ready /\ n.response = l.response
        /\ n.count = l.count
    BY DEF Lifecycles
  <2>3. outbox' = [outbox EXCEPT ![t] = e]
    BY <1>1 DEF RecoverIfComplete
  <2>4. e \in Events /\ e # NoEvent /\ e.stream = s /\ e.state = "recovered" /\ e.count = l.count
    BY TrackerAssumption DEF Events, Lifecycles
  <2> HIDE DEF n, e
  <2>5. TrackerTypeOK' /\ lifecycle'[s] = n /\ outbox'[t] = e
    BY <2>1, <2>2, <2>3, <2>4 DEF TrackerTypeOK
  <2>6. (\A x \in Streams \ {s} : lifecycle'[x] = lifecycle[x])
        /\ \A u \in Callers \ {t} : outbox'[u] = outbox[u]
    BY <2>1, <2>3 DEF TrackerTypeOK
  <2> QED BY <1>1, <2>2, <2>4, <2>5, <2>6 DEF ObservedEffect, Open
<1>2. CASE ~(l.ready /\ l.response)
  <2> DEFINE n == [l EXCEPT !.active = TRUE]
  <2>1. lifecycle' = [lifecycle EXCEPT ![s] = n]
    BY <1>2 DEF RecoverIfComplete
  <2>2. n \in Lifecycles /\ n.active /\ n.ready = l.ready /\ n.response = l.response
        /\ n.count = l.count
    BY DEF Lifecycles
  <2>3. outbox' = outbox
    BY <1>2 DEF RecoverIfComplete
  <2> HIDE DEF n
  <2>4. TrackerTypeOK' /\ lifecycle'[s] = n
        /\ \A x \in Streams \ {s} : lifecycle'[x] = lifecycle[x]
    BY <2>1, <2>2, <2>3 DEF TrackerTypeOK
  <2> QED BY <1>2, <2>2, <2>3, <2>4 DEF ObservedEffect, Open
<1> QED BY <1>1, <1>2

LEMMA DetectEffect ==
    ASSUME TrackerTypeOK, NEW t \in Callers, NEW s \in Streams, NEW r \in Reasons, ~Open(s),
           Detect(t, s, r)
    PROVE  /\ TrackerTypeOK' /\ reconnectCount' = reconnectCount
           /\ \A x \in Streams \ {s} : lifecycle'[x] = lifecycle[x]
           /\ \A u \in Callers \ {t} : outbox'[u] = outbox[u]
           /\ lifecycle'[s].active /\ ~lifecycle'[s].ready /\ ~lifecycle'[s].response
           /\ outbox'[t] = [stream |-> s, state |-> "detected", reason |-> r,
                            count |-> reconnectCount]
<1> DEFINE l == [active |-> TRUE, reason |-> r, ready |-> FALSE, response |-> FALSE, count |-> 0]
           e == [stream |-> s, state |-> "detected", reason |-> r, count |-> reconnectCount]
<1>1. /\ lifecycle' = [lifecycle EXCEPT ![s] = l]
      /\ outbox' = [outbox EXCEPT ![t] = e] /\ reconnectCount' = reconnectCount
  BY DEF Detect, GapOpen, Open
<1>2. l \in Lifecycles /\ e \in Events
  BY DEF Lifecycles, Events, TrackerTypeOK
<1> QED BY <1>1, <1>2 DEF TrackerTypeOK

LEMMA StartedEffect ==
    ASSUME TrackerTypeOK, NEW s \in Streams, SubscriptionStarted(s)
    PROVE  /\ TrackerTypeOK' /\ reconnectCount' = reconnectCount /\ outbox' = outbox
           /\ \A x \in Streams \ {s} : lifecycle'[x] = lifecycle[x]
           /\ lifecycle'[s].active <=> lifecycle[s].active
           /\ lifecycle'[s].active => ~lifecycle'[s].ready /\ ~lifecycle'[s].response
<1>1. CASE lifecycle[s].active
  <2>1. lifecycle' = [lifecycle EXCEPT ![s] =
                         [lifecycle[s] EXCEPT !.ready = FALSE, !.response = FALSE]]
    BY <1>1 DEF SubscriptionStarted
  <2>2. [lifecycle[s] EXCEPT !.ready = FALSE, !.response = FALSE] \in Lifecycles
    BY DEF Lifecycles, TrackerTypeOK
  <2> QED BY <1>1, <2>1, <2>2 DEF TrackerTypeOK, SubscriptionStarted, Lifecycles
<1>2. CASE ~lifecycle[s].active
  BY <1>2 DEF TrackerTypeOK, SubscriptionStarted
<1> QED BY <1>1, <1>2

LEMMA ResponseEffect ==
    ASSUME TrackerTypeOK, NEW t \in Callers, NEW s \in Streams, BrokerResponse(t, s)
    PROVE  /\ ObservedEffect(t, s)
           /\ reconnectCount' = reconnectCount
           /\ lifecycle'[s].ready <=> lifecycle[s].ready
           /\ Open(s) => lifecycle'[s].response
           /\ lifecycle'[s].count = lifecycle[s].count
<1>1. CASE Open(s)
  <2> DEFINE l == [lifecycle[s] EXCEPT !.response = TRUE]
  <2>1. l \in Lifecycles /\ l.ready = lifecycle[s].ready /\ l.response
        /\ l.count = lifecycle[s].count
    BY DEF TrackerTypeOK, Lifecycles
  <2>2. RecoverIfComplete(t, s, l) /\ reconnectCount' = reconnectCount
    BY <1>1 DEF BrokerResponse, Open
  <2> HIDE DEF l
  <2>3. reconnectCount' \in Nat
    BY <2>2 DEF TrackerTypeOK
  <2>4. /\ ObservedEffect(t, s)
        /\ lifecycle'[s].ready = l.ready /\ lifecycle'[s].response = l.response
        /\ lifecycle'[s].count = l.count
    BY <1>1, <2>1, <2>2, <2>3, RecoverEffect
  <2> QED BY <2>1, <2>2, <2>4
<1>2. CASE ~Open(s)
  BY <1>2 DEF BrokerResponse, ObservedEffect, trackerVars, TrackerTypeOK, Open
<1> QED BY <1>1, <1>2

LEMMA ReadyEffect ==
    ASSUME TrackerTypeOK, NEW t \in Callers, NEW s \in Streams, ConnectionReady(t, s)
    PROVE  /\ ObservedEffect(t, s)
           /\ reconnectCount' >= reconnectCount
           /\ Open(s) => lifecycle'[s].ready
           /\ lifecycle'[s].response <=> lifecycle[s].response
           /\ Open(s) /\ lifecycle[s].ready => lifecycle'[s].count = lifecycle[s].count
           /\ Open(s) /\ ~lifecycle[s].ready => /\ lifecycle'[s].count = reconnectCount + 1
                                               /\ reconnectCount' = reconnectCount + 1
<1>1. CASE Open(s) /\ ~lifecycle[s].ready
  <2> DEFINE l == [lifecycle[s] EXCEPT !.ready = TRUE, !.count = reconnectCount + 1]
  <2>1. l \in Lifecycles /\ l.response = lifecycle[s].response /\ l.ready
        /\ l.count = reconnectCount + 1
    <3>1. lifecycle[s] \in Lifecycles /\ reconnectCount + 1 \in Nat
      BY DEF TrackerTypeOK
    <3> QED BY <3>1 DEF Lifecycles
  <2>2. RecoverIfComplete(t, s, l) /\ reconnectCount' = reconnectCount + 1
    BY <1>1 DEF ConnectionReady, Ready, Open
  <2> HIDE DEF l
  <2>3. reconnectCount' \in Nat
    BY <2>2 DEF TrackerTypeOK
  <2>4. /\ ObservedEffect(t, s)
        /\ lifecycle'[s].ready = l.ready /\ lifecycle'[s].response = l.response
        /\ lifecycle'[s].count = l.count
    BY <1>1, <2>1, <2>2, <2>3, RecoverEffect
  <2> QED BY <1>1, <2>1, <2>2, <2>4 DEF TrackerTypeOK
<1>2. CASE Open(s) /\ lifecycle[s].ready
  <2>1. lifecycle[s] \in Lifecycles
    BY DEF TrackerTypeOK
  <2>2. RecoverIfComplete(t, s, lifecycle[s]) /\ reconnectCount' = reconnectCount
    BY <1>2 DEF ConnectionReady, Ready, Open
  <2>3. reconnectCount' \in Nat
    BY <2>2 DEF TrackerTypeOK
  <2>4. /\ ObservedEffect(t, s)
        /\ lifecycle'[s].ready = lifecycle[s].ready
        /\ lifecycle'[s].response = lifecycle[s].response
        /\ lifecycle'[s].count = lifecycle[s].count
    BY <1>2, <2>1, <2>2, <2>3, RecoverEffect
  <2> QED BY <1>2, <2>1, <2>2, <2>4 DEF TrackerTypeOK
<1>3. CASE ~Open(s)
  BY <1>3 DEF ConnectionReady, Ready, ObservedEffect, trackerVars, TrackerTypeOK, Open
<1> QED BY <1>1, <1>2, <1>3

-----------------------------------------------------------------------------
LEMMA GapInit == Init => GInv
<1> SUFFICES ASSUME Init PROVE GInv
  OBVIOUS
<1>1. TypeOK
  <2>1. TrackerTypeOK
    BY TrackerAssumption DEF Init, TrackerInit, TrackerTypeOK, Lifecycles
  <2> QED BY <2>1 DEF Init, TypeOK, NoEvidence
<1>2. Phases /\ Owned /\ KnownFollows /\ Earned /\ Announced
  BY DEF Init, TrackerInit, Phases, Owned, OwnEvent, ManagerRecovers, KnownFollows, Lag,
    Earned, EarnedOf, Announced, Open,
    FromStream,
    FromManager, Callers
<1>3. Counted
  BY DEF Init, TrackerInit, Counted, Count, CountAdvances, FromStream, Callers
<1> QED BY <1>1, <1>2, <1>3 DEF GInv

\* The steps that leave the tracker alone.
LEMMA SessionSteps ==
    ASSUME GInv, [TransportLost \/ Closed \/ Reconnect \/ ConnectFails \/ Connects
                  \/ SubscribeFails \/ Subscribed \/ \E s \in Streams : StopConsumer(s)]_vars
    PROVE  GInv'
<1> USE RecoveryConstants DEF GInv
<1>a. /\ UNCHANGED <<trackerVars, known, evidence>>
      /\ \A s \in Streams : consumer[s] = "failed" => consumer'[s] = "failed"
  <2>1. CASE \E s \in Streams : StopConsumer(s)
    BY <2>1 DEF StopConsumer, TypeOK
  <2> QED BY <2>1 DEF TransportLost, Closed, Reconnect, ConnectFails, Connects, SubscribeFails,
    Subscribed, vars
<1>b. Owned'
  BY <1>a DEF Owned, OwnEvent, ManagerRecovers, FromStream, Open, trackerVars
<1>c. KnownFollows'
  BY <1>a DEF KnownFollows, Lag, FromStream, FromManager, Open, trackerVars
<1>d. Counted'
  BY <1>a DEF Counted, Count, CountAdvances, FromStream, Open, trackerVars
<1>1. CASE TransportLost
  <2>1. TypeOK'
    BY <1>1 DEF TransportLost, TypeOK, TrackerTypeOK, managerVars, trackerVars, Open
  <2>2. Phases'
    BY <1>1 DEF TransportLost, Phases, managerVars, trackerVars, Open
  <2>3. Earned'
    BY <1>1 DEF TransportLost, Earned, EarnedOf, Phases, managerVars, trackerVars, Open
  <2>4. Announced'
    BY <1>1 DEF TransportLost, Announced, Phases, Open
  <2> QED BY <2>1, <2>2, <2>3, <2>4, <1>b, <1>c, <1>d DEF GInv
<1>2. CASE Closed
  <2>1. TypeOK'
    BY <1>2 DEF Closed, TypeOK, TrackerTypeOK, managerVars, trackerVars, Open
  <2>2. Phases'
    BY <1>2 DEF Closed, Phases, managerVars, Open
  <2>3. Earned'
    BY <1>2 DEF Closed, Earned, EarnedOf, Phases, managerVars, trackerVars, Open
  <2>4. Announced'
    BY <1>2 DEF Closed, Announced, Phases, Open
  <2> QED BY <2>1, <2>2, <2>3, <2>4, <1>b, <1>c, <1>d DEF GInv
<1>3. CASE Reconnect
  <2>1. TypeOK'
    BY <1>3 DEF Reconnect, TypeOK, TrackerTypeOK, sessionVars, trackerVars, Open
  <2>2. Phases'
    BY <1>3 DEF Reconnect, Phases, trackerVars, Open
  <2>3. Earned'
    BY <1>3 DEF Reconnect, Earned, EarnedOf, Phases, sessionVars, trackerVars, Open
  <2>4. Announced'
    BY <1>3 DEF Reconnect, Announced, Phases, sessionVars, Open
  <2> QED BY <2>1, <2>2, <2>3, <2>4, <1>b, <1>c, <1>d DEF GInv
<1>4. CASE ConnectFails
  <2>1. TypeOK'
    BY <1>4 DEF ConnectFails, TypeOK, TrackerTypeOK, sessionVars, trackerVars, Open
  <2>2. Phases'
    BY <1>4 DEF ConnectFails, Phases, trackerVars, Open
  <2>3. Earned'
    BY <1>4 DEF ConnectFails, Earned, EarnedOf, Phases, sessionVars, trackerVars, Open
  <2>4. Announced'
    BY <1>4 DEF ConnectFails, Announced, Phases, sessionVars, trackerVars, Open
  <2> QED BY <2>1, <2>2, <2>3, <2>4, <1>b, <1>c, <1>d DEF GInv
<1>5. CASE Connects
  <2>1. TypeOK'
    <3>1. TrackerTypeOK'
      BY <1>5 DEF Connects, TypeOK, TrackerTypeOK, trackerVars
    <3>2. attempt' \in Nat
      BY <1>5 DEF Connects, TypeOK
    <3> QED BY <1>5, <3>1, <3>2 DEF Connects, TypeOK
  <2>2. Phases'
    BY <1>5 DEF Connects, Phases, Open
  <2>3. Earned'
    BY <1>5 DEF Connects, Earned, EarnedOf, Phases, trackerVars, TypeOK, Open
  <2>4. Announced'
    BY <1>5 DEF Connects, Announced, Phases, Open
  <2> QED BY <2>1, <2>2, <2>3, <2>4, <1>b, <1>c, <1>d DEF GInv
<1>6. CASE SubscribeFails
  <2>1. TypeOK'
    BY <1>6 DEF SubscribeFails, TypeOK, TrackerTypeOK, trackerVars, Open
  <2>2. Phases'
    BY <1>6 DEF SubscribeFails, Phases, Open
  <2>3. Earned'
    BY <1>6 DEF SubscribeFails, Earned, EarnedOf, Phases, trackerVars, Open
  <2>4. Announced'
    BY <1>6 DEF SubscribeFails, Announced, Phases, Open
  <2> QED BY <2>1, <2>2, <2>3, <2>4, <1>b, <1>c, <1>d DEF GInv
<1>7. CASE Subscribed
  <2>1. TypeOK'
    BY <1>7 DEF Subscribed, TypeOK, TrackerTypeOK, sessionVars, trackerVars, Open
  <2>2. Phases'
    BY <1>7 DEF Subscribed, Phases, Open
  <2>3. Earned'
    BY <1>7 DEF Subscribed, Earned, EarnedOf, Phases, sessionVars, trackerVars, Open
  <2>4. Announced'
    BY <1>7 DEF Subscribed, Announced, Phases, sessionVars, trackerVars, Open
  <2> QED BY <2>1, <2>2, <2>3, <2>4, <1>b, <1>c, <1>d DEF GInv
<1>8. ASSUME NEW s \in Streams, StopConsumer(s) PROVE GInv'
  <2>1. TypeOK'
    BY <1>8 DEF StopConsumer, TypeOK, TrackerTypeOK, sessionVars, managerVars, trackerVars,
      Open
  <2>2. Phases'
    BY <1>8 DEF StopConsumer, Phases, managerVars, trackerVars, Open
  <2>3. Earned'
    BY <1>8 DEF StopConsumer, Earned, EarnedOf, Phases, sessionVars, managerVars, trackerVars,
      Open
  <2>4. Announced'
    BY <1>8 DEF StopConsumer, Announced, Phases, sessionVars, Open
  <2> QED BY <2>1, <2>2, <2>3, <2>4, <1>b, <1>c, <1>d DEF GInv
<1>9. CASE UNCHANGED vars
  BY <1>9, <1>b, <1>c, <1>d DEF vars, sessionVars, managerVars, trackerVars, TypeOK, TrackerTypeOK,
    Phases, Earned, EarnedOf, Announced, Open
<1> QED BY <1>1, <1>2, <1>3, <1>4, <1>5, <1>6, <1>7, <1>8, <1>9

\* The steps that ask the tracker or hand over an event.
LEMMA TrackerSteps ==
    ASSUME GInv, (\E s \in Streams : Response(s) \/ TimesOut(s) \/ SubscriberReacts(s)
                                    \/ Subscribe(s) \/ Announce(s))
                 \/ \E t \in Callers : Emit(t)
    PROVE  GInv'
<1> USE CallersDistinct DEF GInv
<1>1. ASSUME NEW s \in Streams, Response(s) PROVE GInv'
  <2>1. ObservedEffect(s, s) /\ reconnectCount' = reconnectCount
        /\ (lifecycle'[s].ready <=> lifecycle[s].ready) /\ (Open(s) => lifecycle'[s].response)
        /\ lifecycle'[s].count = lifecycle[s].count
    BY <1>1, ResponseEffect DEF Response, TypeOK, Callers
  <2>2. TypeOK'
    BY <1>1, <2>1 DEF Response, TypeOK, sessionVars, managerVars, ObservedEffect, Open
  <2>3. Phases'
    BY <1>1, <2>1 DEF Response, Phases, ObservedEffect, managerVars, Open
  <2>4. Owned'
    <3>1. OwnEvent(s)'
      BY <1>1, <2>1, TrackerAssumption DEF Response, Owned, OwnEvent, ManagerRecovers,
        FromStream, ObservedEffect, trackerVars, Open
    <3>2. ASSUME NEW x \in Streams \ {s} PROVE OwnEvent(x)'
      BY <1>1, <2>1, <3>2, TrackerAssumption DEF Response, Owned, OwnEvent, ManagerRecovers,
        FromStream, ObservedEffect, Callers, Open
    <3>3. ManagerRecovers'
      BY <1>1, <2>1, TrackerAssumption DEF Response, Owned, OwnEvent, ManagerRecovers,
        FromStream, ObservedEffect, Callers, Open
    <3> QED BY <3>1, <3>2, <3>3 DEF Owned
  <2>5. KnownFollows'
    <3>1. Lag(s)'
      <4>1. CASE ~Open(s)
        BY <1>1, <2>1, <4>1 DEF Response, Lag, KnownFollows, ObservedEffect, FromStream,
          FromManager, trackerVars, Open
      <4>2. CASE Open(s)
        <5>1. ~FromStream(s) /\ known[s] # NoGap /\ ~FromManager(s) /\ known' = known
          BY <1>1, <4>2 DEF Response, Lag, KnownFollows, FromStream
        <5>2. outbox'[Manager] = outbox[Manager]
          BY <2>1 DEF ObservedEffect, Callers
        <5>3. ~FromManager(s)'
          BY <5>1, <5>2 DEF FromManager
        <5>4. CASE Open(s)'
          BY <2>1, <5>1, <5>3, <5>4 DEF ObservedEffect, Lag, FromStream
        <5>5. CASE ~Open(s)'
          BY <2>1, <4>2, <5>1, <5>3, <5>5 DEF ObservedEffect, Lag, FromStream
        <5> QED BY <5>4, <5>5
      <4> QED BY <4>1, <4>2
    <3>2. ASSUME NEW x \in Streams \ {s} PROVE Lag(x)'
      BY <1>1, <2>1, <3>2, TrackerAssumption DEF Response, KnownFollows, Lag, Owned, OwnEvent,
        ManagerRecovers, FromStream, FromManager, ObservedEffect, Callers, Open
    <3> QED BY <3>1, <3>2 DEF KnownFollows
  <2>6. Counted'
    <3>1. Count(s)'
      BY <1>1, <2>1, TrackerAssumption DEF Response, Counted, Count, CountAdvances,
        FromStream, KnownFollows, Lag, ObservedEffect, Open
    <3>2. ASSUME NEW x \in Streams \ {s} PROVE Count(x)'
      BY <1>1, <2>1, <3>2, TrackerAssumption DEF Response, Counted, Count, CountAdvances,
        FromStream, KnownFollows, Lag, ObservedEffect, Callers, Open
    <3>3. CountAdvances'
      <4>1. SUFFICES ASSUME NEW t \in Callers, outbox'[t] # NoEvent, outbox'[t].state = "recovered"
                     PROVE  /\ known[outbox'[t].stream] # NoGap
                            /\ outbox'[t].count > known[outbox'[t].stream].count
        BY <1>1 DEF Response, CountAdvances
      <4>2. CASE outbox'[t] = outbox[t]
        BY <4>1, <4>2 DEF Counted, CountAdvances
      <4>3. CASE outbox'[t] # outbox[t]
        <5>1. t = s /\ Open(s) /\ ~Open(s)'
          BY <2>1, <4>3 DEF ObservedEffect, trackerVars
        <5>2. ~FromStream(s) /\ known[s] # NoGap
          BY <1>1, <5>1 DEF Response, KnownFollows, Lag, Owned, OwnEvent, FromStream, Phases
        <5>3. lifecycle'[s].count > known[s].count
          BY <2>1, <5>1, <5>2 DEF ObservedEffect, Counted, Count
        <5> QED BY <2>1, <5>1, <5>2, <5>3 DEF ObservedEffect
      <4> QED BY <4>2, <4>3
    <3> QED BY <3>1, <3>2, <3>3 DEF Counted
  <2>7. Earned'
    BY <1>1, <2>1 DEF Response, Earned, EarnedOf, Phases, ObservedEffect, sessionVars,
      managerVars, TypeOK, Open
  <2>8. Announced'
    BY <1>1, <2>1 DEF Response, Announced, Phases, ObservedEffect, managerVars, Open
  <2> QED BY <2>2, <2>3, <2>4, <2>5, <2>6, <2>7, <2>8 DEF GInv
<1>2. ASSUME NEW s \in Streams, TimesOut(s), Open(s) PROVE GInv'
  <2>1. UNCHANGED <<trackerVars, evidence>>
    BY <1>2 DEF TimesOut, Detect, GapOpen, Open
  <2>2. TypeOK'
    BY <1>2, <2>1 DEF TimesOut, TypeOK, TrackerTypeOK, sessionVars, managerVars, trackerVars,
      Open
  <2>3. Phases'
    BY <1>2, <2>1 DEF TimesOut, Phases, managerVars, trackerVars, Open
  <2>4. Owned'
    BY <1>2, <2>1 DEF TimesOut, Owned, OwnEvent, ManagerRecovers, FromStream, trackerVars,
      Open
  <2>5. KnownFollows'
    BY <1>2, <2>1 DEF TimesOut, KnownFollows, Lag, Owned, OwnEvent, ManagerRecovers,
      FromStream, FromManager, trackerVars, Open
  <2>6. Counted'
    BY <1>2, <2>1 DEF TimesOut, Counted, Count, CountAdvances, FromStream, KnownFollows, Lag,
      trackerVars, Open
  <2>7. Earned'
    BY <1>2, <2>1 DEF TimesOut, Earned, EarnedOf, Phases, sessionVars, managerVars,
      trackerVars, TypeOK, Open
  <2>8. Announced'
    BY <1>2, <2>1 DEF TimesOut, Announced, Phases, sessionVars, trackerVars, Open
  <2> QED BY <2>2, <2>3, <2>4, <2>5, <2>6, <2>7, <2>8 DEF GInv
<1>3. ASSUME NEW s \in Streams, TimesOut(s), ~Open(s) PROVE GInv'
  <2>1. PICK r \in Reasons : Detect(s, s, r)
    BY <1>3 DEF TimesOut
  <2>2. /\ TrackerTypeOK' /\ reconnectCount' = reconnectCount
        /\ \A x \in Streams \ {s} : lifecycle'[x] = lifecycle[x]
        /\ \A u \in Callers \ {s} : outbox'[u] = outbox[u]
        /\ lifecycle'[s].active /\ ~lifecycle'[s].ready /\ ~lifecycle'[s].response
        /\ outbox'[s] = [stream |-> s, state |-> "detected", reason |-> r,
                         count |-> reconnectCount]
    BY <1>3, <2>1, DetectEffect DEF TypeOK, Callers
  <2>3. outbox'[s] # NoEvent /\ evidence' = [evidence EXCEPT ![s].detected = attempt]
    BY <1>3, <2>2, TrackerAssumption DEF TimesOut, GapOpen, Events, TrackerTypeOK, Open
  <2>4. TypeOK'
    BY <1>3, <2>1, <2>2, <2>3 DEF TimesOut, TypeOK, sessionVars, managerVars, Open
  <2>5. Phases'
    BY <1>3, <2>1, <2>2, <2>3 DEF TimesOut, Phases, managerVars, Open
  <2>6. Owned'
    BY <1>3, <2>1, <2>2, <2>3 DEF TimesOut, Owned, OwnEvent, ManagerRecovers, FromStream,
      TypeOK, Callers, Open
  <2>7. KnownFollows'
    BY <1>3, <2>1, <2>2, <2>3 DEF TimesOut, KnownFollows, Lag, Owned, OwnEvent,
      ManagerRecovers, FromStream, FromManager, Callers, Open
  <2>8. Counted'
    <3>1. Count(s)'
      BY <1>3, <2>1, <2>2, <2>3, TrackerAssumption DEF TimesOut, Counted, Count,
        CountAdvances, FromStream, KnownFollows, Lag, TrackerTypeOK, Open
    <3>2. ASSUME NEW x \in Streams \ {s} PROVE Count(x)'
      BY <1>3, <2>1, <2>2, <2>3, <3>2, TrackerAssumption DEF TimesOut, Counted, Count,
        CountAdvances, FromStream, KnownFollows, Lag, Callers, Open
    <3>3. CountAdvances'
      BY <1>3, <2>1, <2>2, <2>3, TrackerAssumption DEF TimesOut, Counted, Count,
        CountAdvances, FromStream, KnownFollows, Lag, Open
    <3> QED BY <3>1, <3>2, <3>3 DEF Counted
  <2>9. Earned'
    <3>1. EarnedOf(s)'
      BY <1>3, <2>1, <2>2, <2>3, TrackerAssumption DEF TimesOut, Earned, EarnedOf, Phases,
        sessionVars, managerVars, TypeOK, Open
    <3>2. ASSUME NEW x \in Streams \ {s} PROVE EarnedOf(x)'
      BY <1>3, <2>1, <2>2, <2>3, <3>2, TrackerAssumption DEF TimesOut, Earned, EarnedOf,
        Phases, sessionVars, managerVars, Open
    <3> QED BY <3>1, <3>2 DEF Earned
  <2>10. Announced'
    BY <1>3, <2>1, <2>2, <2>3 DEF TimesOut, Announced, Phases, sessionVars, TypeOK, Open
  <2> QED BY <2>4, <2>5, <2>6, <2>7, <2>8, <2>9, <2>10 DEF GInv
<1>4. ASSUME NEW s \in Streams, SubscriberReacts(s) PROVE GInv'
  <2>1. UNCHANGED trackerVars
    BY <1>4 DEF SubscriberReacts, Detect, GapOpen, Phases, Open
  <2>2. TypeOK'
    BY <1>4, <2>1 DEF SubscriberReacts, TypeOK, TrackerTypeOK, managerVars, trackerVars, Open
  <2>3. Phases'
    BY <1>4, <2>1 DEF SubscriberReacts, Phases, managerVars, trackerVars, Open
  <2>4. Owned'
    BY <1>4, <2>1 DEF SubscriberReacts, Owned, OwnEvent, ManagerRecovers, FromStream,
      trackerVars, Open
  <2>5. KnownFollows'
    BY <1>4, <2>1 DEF SubscriberReacts, KnownFollows, Lag, Owned, OwnEvent, ManagerRecovers,
      FromStream, FromManager, trackerVars, Open
  <2>6. Counted'
    BY <1>4, <2>1 DEF SubscriberReacts, Counted, Count, CountAdvances, FromStream,
      KnownFollows, Lag, trackerVars, Open
  <2>7. Earned'
    BY <1>4, <2>1 DEF SubscriberReacts, Earned, EarnedOf, Phases, managerVars, trackerVars,
      Open
  <2>8. Announced'
    BY <1>4, <2>1 DEF SubscriberReacts, Announced, Phases, Open
  <2> QED BY <2>2, <2>3, <2>4, <2>5, <2>6, <2>7, <2>8 DEF GInv
<1>5. ASSUME NEW s \in Streams, Subscribe(s) PROVE GInv'
  <2>1. /\ TrackerTypeOK' /\ reconnectCount' = reconnectCount /\ outbox' = outbox
        /\ \A x \in Streams \ {s} : lifecycle'[x] = lifecycle[x]
        /\ lifecycle'[s].active <=> lifecycle[s].active
        /\ lifecycle'[s].active => ~lifecycle'[s].ready /\ ~lifecycle'[s].response
    BY <1>5, StartedEffect DEF Subscribe, TypeOK
  <2>2. TypeOK'
    BY <1>5, <2>1 DEF Subscribe, TypeOK, sessionVars, Open
  <2>3. Phases'
    BY <1>5, <2>1 DEF Subscribe, Phases, Open
  <2>4. Owned'
    <3>1. OwnEvent(s)'
      <4>1. consumer[s] = "off" /\ outbox'[s] = outbox[s]
        BY <1>5, <2>1 DEF Subscribe, Phases
      <4>2. ~(FromStream(s) /\ Open(s))
        BY <4>1 DEF Owned, OwnEvent
      <4> QED BY <2>1, <4>1, <4>2 DEF Owned, OwnEvent, FromStream, Open
    <3>2. ASSUME NEW x \in Streams \ {s} PROVE OwnEvent(x)'
      BY <1>5, <2>1, <3>2, TrackerAssumption DEF Subscribe, Owned, OwnEvent, ManagerRecovers,
        FromStream, Open
    <3>3. ManagerRecovers'
      BY <1>5, <2>1, TrackerAssumption DEF Subscribe, Owned, OwnEvent, ManagerRecovers,
        FromStream, Open
    <3> QED BY <3>1, <3>2, <3>3 DEF Owned
  <2>5. KnownFollows'
    BY <1>5, <2>1 DEF Subscribe, KnownFollows, Lag, Owned, OwnEvent, ManagerRecovers,
      FromStream, FromManager, Open
  <2>6. Counted'
    BY <1>5, <2>1 DEF Subscribe, Counted, Count, CountAdvances, FromStream, KnownFollows, Lag,
      Open
  <2>7. Earned'
    BY <1>5, <2>1 DEF Subscribe, Earned, EarnedOf, Phases, sessionVars, Open
  <2>8. Announced'
    BY <1>5, <2>1 DEF Subscribe, Announced, Phases, sessionVars, Open
  <2> QED BY <2>2, <2>3, <2>4, <2>5, <2>6, <2>7, <2>8 DEF GInv
<1>6. ASSUME NEW s \in Streams, Announce(s) PROVE GInv'
  <2>1. /\ ObservedEffect(Manager, s)
        /\ reconnectCount' >= reconnectCount
        /\ Open(s) => lifecycle'[s].ready
        /\ lifecycle'[s].response <=> lifecycle[s].response
        /\ Open(s) /\ lifecycle[s].ready => lifecycle'[s].count = lifecycle[s].count
        /\ Open(s) /\ ~lifecycle[s].ready => /\ lifecycle'[s].count = reconnectCount + 1
                                            /\ reconnectCount' = reconnectCount + 1
    BY <1>6, ReadyEffect DEF Announce, TypeOK, Callers
  <2>2. TypeOK'
    BY <1>6, <2>1 DEF Announce, TypeOK, sessionVars, ObservedEffect, Open
  <2>3. Phases'
    BY <1>6, <2>1 DEF Announce, Phases, ObservedEffect, Open
  <2>4. Owned'
    <3>1. OwnEvent(s)'
      <4>1. outbox'[s] = outbox[s] /\ ~(FromStream(s) /\ Open(s))
        BY <1>6, <2>1 DEF Announce, ObservedEffect, Callers, Owned, OwnEvent, Phases
      <4>2. Open(s)' => Open(s)
        BY <2>1 DEF ObservedEffect
      <4> QED BY <4>1, <4>2 DEF Owned, OwnEvent, FromStream
    <3>2. ASSUME NEW x \in Streams \ {s} PROVE OwnEvent(x)'
      BY <1>6, <2>1, <3>2, TrackerAssumption DEF Announce, Owned, OwnEvent, ManagerRecovers,
        FromStream, ObservedEffect, Callers, Open
    <3>3. ManagerRecovers'
      BY <1>6, <2>1, TrackerAssumption DEF Announce, Owned, OwnEvent, ManagerRecovers,
        FromStream, ObservedEffect, trackerVars, Open
    <3> QED BY <3>1, <3>2, <3>3 DEF Owned
  <2>5. KnownFollows'
    <3>1. Lag(s)'
      <4>1. CASE ~Open(s)
        BY <1>6, <2>1, <4>1 DEF Announce, Lag, KnownFollows, ObservedEffect, FromStream,
          FromManager, trackerVars, Open
      <4>2. CASE Open(s)
        <5>1. ~FromStream(s) /\ known[s] # NoGap /\ ~FromManager(s) /\ known' = known
          BY <1>6, <4>2 DEF Announce, Lag, KnownFollows, Owned, OwnEvent, Phases
        <5>2. outbox'[s] = outbox[s]
          BY <2>1 DEF ObservedEffect, Callers
        <5>3. ~FromStream(s)'
          BY <5>1, <5>2 DEF FromStream
        <5>4. CASE Open(s)'
          BY <2>1, <5>1, <5>3, <5>4 DEF ObservedEffect, Lag, FromManager
        <5>5. CASE ~Open(s)'
          BY <2>1, <4>2, <5>1, <5>3, <5>5 DEF ObservedEffect, Lag, FromManager
        <5> QED BY <5>4, <5>5
      <4> QED BY <4>1, <4>2
    <3>2. ASSUME NEW x \in Streams \ {s} PROVE Lag(x)'
      BY <1>6, <2>1, <3>2, TrackerAssumption DEF Announce, KnownFollows, Lag, Owned, OwnEvent,
        ManagerRecovers, FromStream, FromManager, ObservedEffect, trackerVars, Callers, Open
    <3> QED BY <3>1, <3>2 DEF KnownFollows
  <2>6. Counted'
    <3>1. Count(s)'
      BY <1>6, <2>1, TrackerAssumption DEF Announce, Counted, Count, CountAdvances,
        FromStream, KnownFollows, Lag, ObservedEffect, TypeOK, TrackerTypeOK, Callers, Events,
        Open
    <3>2. ASSUME NEW x \in Streams \ {s} PROVE Count(x)'
      BY <1>6, <2>1, <3>2, TrackerAssumption DEF Announce, Counted, Count, CountAdvances,
        FromStream, KnownFollows, Lag, ObservedEffect, TypeOK, TrackerTypeOK, Callers, Events,
        Open
    <3>3. CountAdvances'
      <4>1. SUFFICES ASSUME NEW t \in Callers, outbox'[t] # NoEvent, outbox'[t].state = "recovered"
                     PROVE  /\ known[outbox'[t].stream] # NoGap
                            /\ outbox'[t].count > known[outbox'[t].stream].count
        BY <1>6 DEF Announce, CountAdvances
      <4>2. CASE outbox'[t] = outbox[t]
        BY <4>1, <4>2 DEF Counted, CountAdvances
      <4>3. CASE outbox'[t] # outbox[t]
        <5>1. t = Manager /\ Open(s) /\ ~Open(s)'
          BY <2>1, <4>3 DEF ObservedEffect, trackerVars
        <5>2. ~FromStream(s) /\ known[s] # NoGap
          BY <1>6, <5>1 DEF Announce, KnownFollows, Lag, Owned, OwnEvent, FromStream, Phases
        <5>3. lifecycle'[s].count > known[s].count
          BY <2>1, <5>1, <5>2 DEF ObservedEffect, Counted, Count, TypeOK, TrackerTypeOK
        <5> QED BY <2>1, <5>1, <5>2, <5>3 DEF ObservedEffect
      <4> QED BY <4>2, <4>3
    <3> QED BY <3>1, <3>2, <3>3 DEF Counted
  <2>7. Earned'
    BY <1>6, <2>1 DEF Announce, Earned, EarnedOf, Phases, ObservedEffect, sessionVars, TypeOK,
      Open
  <2>8. Announced'
    BY <1>6, <2>1 DEF Announce, Announced, Phases, ObservedEffect, sessionVars, Open
  <2> QED BY <2>2, <2>3, <2>4, <2>5, <2>6, <2>7, <2>8 DEF GInv
<1>7. ASSUME NEW t \in Callers, Emit(t) PROVE GInv'
  <2>1. /\ outbox[t] \in Events /\ outbox[t].stream \in Streams
        /\ known' = [known EXCEPT ![outbox[t].stream] =
               IF outbox[t].state = "detected"
                 THEN [reason |-> outbox[t].reason, count |-> outbox[t].count] ELSE NoGap]
    BY <1>7 DEF Emit, TypeOK, TrackerTypeOK, Events
  <2>2. TypeOK'
    BY <1>7, <2>1 DEF Emit, TypeOK, TrackerTypeOK, sessionVars, managerVars, Events, Open
  <2>3. Phases'
    BY <1>7, <2>1 DEF Emit, Phases, managerVars, Open
  <2>4. Owned'
    BY <1>7, <2>1 DEF Emit, Owned, OwnEvent, ManagerRecovers, FromStream, Open
  <2>5. KnownFollows'
    <3>1. SUFFICES ASSUME NEW s \in Streams PROVE Lag(s)'
      BY DEF KnownFollows
    <3>2. CASE outbox[t].stream # s
      <4>1. known'[s] = known[s] /\ t # s
        BY <1>7, <2>1, <3>2 DEF Owned, OwnEvent, FromStream, Emit
      <4>2. FromStream(s)' <=> FromStream(s)
        BY <1>7, <4>1 DEF Emit, FromStream
      <4>3. FromManager(s)' <=> FromManager(s)
        BY <1>7, <3>2 DEF Emit, FromManager
      <4> QED BY <1>7, <4>1, <4>2, <4>3 DEF KnownFollows, Lag, Emit, Open
    <3>3. CASE t = s
      <4>1. /\ FromStream(s) /\ ~FromStream(s)' /\ (FromManager(s)' <=> FromManager(s))
            /\ outbox[s].stream = s
        BY <1>7, <3>3 DEF Emit, FromStream, FromManager, TypeOK, TrackerTypeOK, Owned,
          OwnEvent
      <4>2. ~FromManager(s)
        BY <4>1 DEF KnownFollows, Lag
      <4>3. CASE Open(s)
        BY <1>7, <2>1, <3>3, <4>1, <4>2, <4>3, RecoveryConstants DEF Emit, Lag, Owned,
          OwnEvent, TypeOK, Events, Open
      <4>4. CASE ~Open(s)
        BY <1>7, <2>1, <3>3, <4>1, <4>2, <4>4 DEF Emit, Lag, Owned, OwnEvent, TypeOK, Open
      <4> QED BY <4>3, <4>4
    <3>4. CASE t = Manager /\ outbox[t].stream = s
      <4>1. /\ FromManager(s) /\ ~FromManager(s)' /\ (FromStream(s)' <=> FromStream(s))
        BY <1>7, <3>4 DEF Emit, FromStream, FromManager, TypeOK, TrackerTypeOK
      <4>2. ~Open(s) /\ ~FromStream(s)
        BY <4>1 DEF KnownFollows, Lag
      <4>3. known'[s] = NoGap /\ lifecycle' = lifecycle
        BY <1>7, <2>1, <3>4 DEF Emit, Owned, ManagerRecovers, TypeOK
      <4> QED BY <4>1, <4>2, <4>3 DEF Lag, Open
    <3> QED BY <1>7, <3>2, <3>3, <3>4 DEF Callers, Owned, OwnEvent, FromStream, Emit
  <2>6. Counted'
    <3>1. CountAdvances'
      <4>1. SUFFICES ASSUME NEW u \in Callers, outbox'[u] # NoEvent, outbox'[u].state = "recovered"
                     PROVE  /\ known'[outbox'[u].stream] # NoGap
                            /\ outbox'[u].count > known'[outbox'[u].stream].count
        BY DEF CountAdvances
      <4>2. u # t /\ outbox'[u] = outbox[u]
        BY <1>7, <4>1 DEF Emit, TypeOK, TrackerTypeOK
      <4>3. outbox[u] \in Events /\ outbox[u].stream \in Streams
        BY <4>1, <4>2 DEF TypeOK, TrackerTypeOK, Events
      <4>4. outbox[t].stream # outbox[u].stream
        <5>1. CASE u = Manager
          BY <1>7, <4>1, <4>2, <4>3, <5>1 DEF Emit, Owned, OwnEvent, KnownFollows, Lag,
            FromStream, FromManager, Callers
        <5>2. CASE t = Manager
          BY <1>7, <2>1, <4>1, <4>2, <4>3, <5>2 DEF Emit, Owned, OwnEvent, KnownFollows, Lag,
            FromStream, FromManager, Callers
        <5>3. CASE t \in Streams /\ u \in Streams
          BY <1>7, <4>1, <4>2, <5>3 DEF Emit, Owned, OwnEvent, FromStream
        <5> QED BY <5>1, <5>2, <5>3 DEF Callers
      <4>5. known'[outbox[u].stream] = known[outbox[u].stream]
        BY <2>1, <4>3, <4>4 DEF TypeOK
      <4> QED BY <4>1, <4>2, <4>5 DEF Counted, CountAdvances
    <3>2. ASSUME NEW s \in Streams PROVE Count(s)'
      <4>1. lifecycle' = lifecycle /\ reconnectCount' = reconnectCount
        BY <1>7 DEF Emit
      <4>2. outbox'[s] = NoEvent \/ outbox'[s] = outbox[s]
        BY <1>7 DEF Emit, TypeOK, TrackerTypeOK, Callers
      <4>3. CASE known'[s] = known[s] \/ known'[s] = NoGap
        BY <4>1, <4>2, <4>3 DEF Counted, Count, FromStream, Open
      <4>4. CASE known'[s] # known[s] /\ known'[s] # NoGap
        <5>1. /\ outbox[t].stream = s /\ outbox[t].state = "detected"
              /\ known'[s].count = outbox[t].count
          BY <2>1, <4>4 DEF TypeOK
        <5>2. t = s
          BY <1>7, <5>1 DEF Emit, Owned, OwnEvent, ManagerRecovers, FromStream, Callers
        <5>3. FromStream(s) /\ Open(s) /\ ~lifecycle[s].ready
          BY <1>7, <5>1, <5>2 DEF Emit, Owned, OwnEvent, FromStream
        <5> QED BY <4>1, <4>2, <5>1, <5>2, <5>3 DEF Counted, Count, FromStream, Open
      <4> QED BY <4>3, <4>4
    <3> QED BY <3>1, <3>2 DEF Counted
  <2>7. Earned'
    BY <1>7, <2>1 DEF Emit, Earned, EarnedOf, Phases, sessionVars, managerVars, Open
  <2>8. Announced'
    BY <1>7, <2>1 DEF Emit, Announced, Phases, sessionVars, managerVars, Open
  <2> QED BY <2>2, <2>3, <2>4, <2>5, <2>6, <2>7, <2>8 DEF GInv
<1> QED BY <1>1, <1>2, <1>3, <1>4, <1>5, <1>6, <1>7

LEMMA GapStep == GInv /\ [Next]_vars => GInv'
<1> SUFFICES ASSUME GInv, [Next]_vars PROVE GInv'
  OBVIOUS
<1>1. CASE \E s \in Streams : Response(s) \/ TimesOut(s) \/ SubscriberReacts(s) \/ Subscribe(s)
                              \/ Announce(s)
  BY <1>1, TrackerSteps
<1>2. CASE \E t \in Callers : Emit(t)
  BY <1>2, TrackerSteps
<1>3. CASE \E s \in Streams : StopConsumer(s)
  BY <1>3, SessionSteps
<1>4. CASE TransportLost \/ Closed \/ Reconnect \/ ConnectFails \/ Connects \/ SubscribeFails
           \/ Subscribed \/ UNCHANGED vars
  BY <1>4, SessionSteps
<1> QED BY <1>1, <1>2, <1>3, <1>4 DEF Next

LEMMA GapInvariant == Spec => []GInv
BY GapInit, GapStep, PTL DEF Spec

\* Every value stays in its type: no lifecycle, event or count is lost or half written.
THEOREM TypeCorrect == Spec => []TypeOK
<1>1. GInv => TypeOK
  BY DEF GInv
<1> QED BY GapInvariant, <1>1, PTL

\* The reconnect count of a recovery exceeds that of its detection (gap_notifications.go:135).
THEOREM CountsAdvance == Spec => []CountAdvances
<1>1. GInv => CountAdvances
  BY DEF GInv, Counted
<1> QED BY GapInvariant, <1>1, PTL

\* An established session that polls a stream with an open gap has announced the stream, so
\* the next response closes the gap (reconnect.go:244, app.go:906).
THEOREM GapsNotStuck == Spec => []NoStuckGap
<1>1. GInv => NoStuckGap
  BY DEF GInv, NoStuckGap, Announced, Phases, Open
<1> QED BY GapInvariant, <1>1, PTL

\* A gap is closed by an announcement and a response of one attempt, later than its detection.
THEOREM RecoveryEarned == Spec => RecoveryIsEarned
<1> DEFINE Closes(s) == lifecycle[s].active /\ ~lifecycle'[s].active
           EarnedNow(s) == /\ evidence'[s].ready = evidence'[s].response
                           /\ evidence'[s].detected < evidence'[s].ready
<1>1. ASSUME GInv, [Next]_vars, NEW s \in Streams, Closes(s) PROVE EarnedNow(s)
  <2> USE CallersDistinct, <1>1 DEF GInv
  <2>1. ASSUME NEW x \in Streams, Response(x) PROVE EarnedNow(s)
    <3>1. /\ ObservedEffect(x, x) /\ (lifecycle'[x].ready <=> lifecycle[x].ready)
      BY <2>1, ResponseEffect DEF Response, TypeOK, Callers
    <3>2. x = s /\ Open(s) /\ lifecycle[s].ready
      BY <3>1 DEF ObservedEffect, Open
    <3>3. /\ consumer[s] = "polling" /\ attempt \in Nat
          /\ evidence' = [evidence EXCEPT ![s].response = attempt]
      BY <2>1, <3>2 DEF Response, TypeOK
    <3> QED BY <3>2, <3>3 DEF Earned, EarnedOf, TypeOK
  <2>2. ASSUME NEW x \in Streams, Announce(x) PROVE EarnedNow(s)
    <3>1. ObservedEffect(Manager, x) /\ (lifecycle'[x].response <=> lifecycle[x].response)
      BY <2>2, ReadyEffect DEF Announce, TypeOK, Callers
    <3>2. x = s /\ Open(s) /\ lifecycle[s].response
      BY <3>1 DEF ObservedEffect, Open
    <3>3. /\ s \in announce /\ attempt \in Nat
          /\ evidence' = [evidence EXCEPT ![s].ready = attempt]
      BY <2>2, <3>2 DEF Announce, TypeOK
    <3> QED BY <3>2, <3>3 DEF Earned, EarnedOf, TypeOK
  <2>3. ASSUME NEW x \in Streams, TimesOut(x) \/ SubscriberReacts(x) PROVE EarnedNow(s)
    <3>1. PICK r \in Reasons : Detect(x, x, r)
      BY <2>3 DEF TimesOut, SubscriberReacts
    <3>2. CASE Open(x)
      BY <3>1, <3>2 DEF Detect, GapOpen, trackerVars, Open
    <3>3. CASE ~Open(x)
      BY <3>1, <3>3, DetectEffect DEF TypeOK, Callers, Open
    <3> QED BY <3>2, <3>3
  <2>4. ASSUME NEW x \in Streams, Subscribe(x) PROVE EarnedNow(s)
    BY <2>4, StartedEffect DEF Subscribe, TypeOK
  <2>5. ASSUME NEW x \in Streams, StopConsumer(x) PROVE EarnedNow(s)
    BY <2>5 DEF StopConsumer, trackerVars
  <2>6. ASSUME NEW t \in Callers, Emit(t) PROVE EarnedNow(s)
    BY <2>6 DEF Emit
  <2>7. CASE TransportLost \/ Closed \/ Reconnect \/ ConnectFails \/ Connects \/ SubscribeFails
             \/ Subscribed \/ UNCHANGED vars
    BY <2>7 DEF TransportLost, Closed, Reconnect, ConnectFails, Connects, SubscribeFails,
      Subscribed, vars, trackerVars
  <2> QED BY <2>1, <2>2, <2>3, <2>4, <2>5, <2>6, <2>7 DEF Next
<1>2. GInv /\ [Next]_vars => [\A s \in Streams : Closes(s) => EarnedNow(s)]_vars
  BY <1>1
<1> QED BY GapInvariant, <1>2, PTL DEF Spec, RecoveryIsEarned

\* What the application is told alternates for each stream: a recovery follows its detection,
\* and no gap is reported twice.
THEOREM EventsRefined == Spec => EventsAlternate
<1>1. Init => Contract!Init
  BY DEF Init, Contract!Init
<1>2. GInv /\ [Next]_vars => [Contract!Next]_known
  <2> SUFFICES ASSUME GInv, [Next]_vars, known' # known PROVE Contract!Next
    BY Zenon
  <2>1. PICK t \in Callers : Emit(t)
    BY DEF Next, Response, TimesOut, SubscriberReacts, StopConsumer, Subscribe, Announce,
      TransportLost, Closed, Reconnect, ConnectFails, Connects, SubscribeFails, Subscribed, vars
  <2> DEFINE e == outbox[t]
             s == e.stream
  <2>2. e \in Events /\ s \in Streams
    BY <2>1 DEF Emit, GInv, TypeOK, TrackerTypeOK
  <2>3. CASE e.state = "detected"
    <3>1. t = s /\ FromStream(s) /\ Open(s)
      BY <2>1, <2>3 DEF Emit, GInv, Owned, OwnEvent, ManagerRecovers, FromStream, Callers
    <3>2. known[s] = NoGap
      BY <2>2, <3>1 DEF GInv, KnownFollows, Lag
    <3>3. known' = [known EXCEPT ![s] = [reason |-> e.reason, count |-> e.count]]
      BY <2>1, <2>3 DEF Emit
    <3>4. Contract!Detected(s)
      BY <2>2, <3>2, <3>3 DEF Contract!Detected, GInv, TypeOK, Events
    <3> QED BY <2>2, <3>4 DEF Contract!Next
  <2>4. CASE e.state = "recovered"
    <3>1. known' = [known EXCEPT ![s] = NoGap]
      BY <2>1, <2>4 DEF Emit
    <3>2. known[s] # NoGap
      BY <2>1, <2>2, <2>4 DEF Emit, GInv, Counted, CountAdvances
    <3> QED BY <2>2, <3>1, <3>2 DEF Contract!Recovered, Contract!Next
  <2> QED BY <2>2, <2>3, <2>4 DEF Events
<1> QED BY GapInvariant, <1>1, <1>2, PTL DEF Spec, EventsAlternate, Contract!Spec
=============================================================================

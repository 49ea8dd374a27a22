--------------------------- MODULE PublishProofs ---------------------------
(***************************************************************************)
(* Proofs about HandlerMap and Publish, for every set of requests, every   *)
(* capacity of the writer's queue, every expiry period and every bound on  *)
(* the clock.                                                              *)
(***************************************************************************)
EXTENDS Publish, TLAPS

-----------------------------------------------------------------------------
(* The handler map. *)

\* The request the writer is about to register is new, and only the loop over the expired
\* handlers holds any.
Bookkeeping ==
    /\ pc["writer"] # "idle" => registered[id["writer"]] = Never
    /\ \A u \in Users : pc[u] # "expire" => expiredHandlers[u] = {}
    /\ \A i \in Ids : registered[i] = Never => outcome[i] = "none"

IInv == TypeOK /\ CalledOnce /\ Bookkeeping

LEMMA InvInit == Init => IInv
  BY Durations DEF Init, IInv, TypeOK, CalledOnce, Bookkeeping, Held, Users

LEMMA InvStep == IInv /\ [Next]_vars => IInv'
<1> SUFFICES ASSUME IInv, [Next]_vars PROVE IInv'
  OBVIOUS
<1> USE Durations, NeverIsNoTime
<1> USE DEF IInv, TypeOK, CalledOnce, Bookkeeping, Held, Users, Goto
<1>1. CASE Tick
  BY <1>1 DEF Tick
<1>2. ASSUME NEW i \in Ids, Set(i) \/ GetAndDelete(i) PROVE IInv'
  BY <1>2 DEF Set, GetAndDelete, Begin
<1>3. ASSUME NEW u \in Users, Rotate(u) PROVE IInv'
  BY <1>3 DEF Rotate, Emptied
<1>4. ASSUME NEW u \in Users, NEW i \in Ids, Expire(u, i) PROVE IInv'
  BY <1>4 DEF Expire, Call
<1>9. ASSUME NEW u \in Users, Expired(u) PROVE IInv'
  BY <1>9 DEF Expired
<1>5. CASE Register
  BY <1>5 DEF Register
<1>6. CASE Answer
  BY <1>6 DEF Answer, Call, Delete, Found
<1>7. CASE UNCHANGED vars
  BY <1>7 DEF vars
<1>8. QED
  BY <1>1, <1>2, <1>3, <1>4, <1>5, <1>6, <1>7, <1>9 DEF Next

\* TypeOK holds in every state: no handler is called twice, be it with an answer or because
\* it expired (handlermap.go:33-67).
THEOREM TypeCorrect == Spec => []TypeOK
<1>1. IInv => TypeOK
  BY DEF IInv
<1>2. QED
  BY <1>1, InvInit, InvStep, PTL DEF Spec

\* Every registered handler is in exactly one place until it is called: the unlocked test
\* of expireCheck, which lets two rotations follow each other, loses and duplicates none.
THEOREM HandlersKept == Spec => []CalledOnce
<1>1. IInv => CalledOnce
  BY DEF IInv
<1>2. QED
  BY <1>1, InvInit, InvStep, PTL DEF Spec

-----------------------------------------------------------------------------
(* How old the expired handlers are. *)

\* No rotation follows a test that another rotation has outdated.
RotationsDue == [][\A u \in Users : Rotate(u) => now >= newExpireTime]_vars

\* What was registered before the last rotation is in olderHandlers, and aged when the next
\* one is due.
Aged ==
    \A i \in Ids :
        /\ i \in currentHandlers => registered[i] <= now
        /\ i \in olderHandlers => registered[i] + ExpireDuration <= newExpireTime
        /\ \A u \in Users : i \in expiredHandlers[u] => registered[i] + ExpireDuration <= now

LEMMA RegisteredIsTime ==
    ASSUME IInv, NEW i \in Ids, Held(i) PROVE registered[i] \in Nat
  BY DEF IInv, TypeOK, CalledOnce

LEMMA AgedStep ==
    ASSUME IInv, Aged, [Next]_vars, [\A u \in Users : Rotate(u) => now >= newExpireTime]_vars
    PROVE  Aged'
<1>1. /\ now \in Nat /\ newExpireTime \in Nat /\ ExpireDuration \in Nat
      /\ pc["writer"] # "idle" => registered[id["writer"]] = Never
  BY Durations DEF IInv, TypeOK, Bookkeeping
<1>2. \A i \in Ids : Held(i) => registered[i] \in Nat
  BY RegisteredIsTime
<1>3. CASE Tick
  BY <1>1, <1>2, <1>3 DEF Tick, Aged, Held
<1>4. ASSUME NEW u \in Users, Rotate(u) PROVE Aged'
  <2>1. now >= newExpireTime
    BY <1>4 DEF vars, Rotate, Users, IInv, TypeOK, Goto
  <2>2. QED
    BY <1>1, <1>2, <1>4, <2>1 DEF Rotate, Emptied, Aged, Held, IInv, TypeOK
<1>5. CASE Register
  <2>1. /\ id["writer"] \in Ids /\ registered[id["writer"]] = Never
        /\ \A i \in Ids : Held(i) => i # id["writer"]
    BY <1>1, <1>5 DEF Register, IInv, TypeOK, CalledOnce, Users
  <2>2. /\ registered' = [registered EXCEPT ![id["writer"]] = now]
        /\ currentHandlers' = currentHandlers \cup {id["writer"]}
        /\ UNCHANGED <<now, newExpireTime, olderHandlers, expiredHandlers>>
    BY <1>5 DEF Register
  <2>3. QED
    BY <1>1, <2>1, <2>2 DEF Aged, Held, IInv, TypeOK
<1>6. ASSUME UNCHANGED <<now, newExpireTime, registered>>,
             currentHandlers' \subseteq currentHandlers, olderHandlers' \subseteq olderHandlers,
             \A u \in Users : expiredHandlers'[u] \subseteq expiredHandlers[u]
      PROVE  Aged'
  BY <1>6 DEF Aged
<1>7. CASE Answer
  BY <1>6, <1>7 DEF Answer, Delete
<1>8. ASSUME NEW u \in Users, NEW i \in Ids, Expire(u, i) PROVE Aged'
  BY <1>6, <1>8 DEF Expire, IInv, TypeOK
<1>9. CASE /\ UNCHANGED <<now, newExpireTime, registered>>
           /\ UNCHANGED <<currentHandlers, olderHandlers, expiredHandlers>>
  BY <1>6, <1>9
<1>10. QED
  BY <1>3, <1>4, <1>5, <1>7, <1>8, <1>9 DEF Next, Set, GetAndDelete, Begin, Expired, vars

\* A handler is called with a timeout before its time only because expireCheck does not test
\* the time again under the lock (handlermap.go:54-67): if every rotation is due, each expired
\* handler has waited for expireDuration, for any requests and any interleaving.
THEOREM AgedWhenDue == Spec /\ RotationsDue => []ExpiresAged
<1>1. Init => Aged
  BY DEF Init, Aged
<1>2. IInv /\ Aged => ExpiresAged
  <2> SUFFICES ASSUME IInv, Aged, NEW i \in Ids, NEW u \in Users, i \in expiredHandlers[u]
               PROVE  now - registered[i] >= ExpireDuration
    BY DEF ExpiresAged
  <2>1. registered[i] \in Nat /\ now \in Nat /\ ExpireDuration \in Nat
    BY RegisteredIsTime, Durations DEF Held, IInv, TypeOK
  <2>2. QED
    BY <2>1 DEF Aged
<1>3. IInv /\ Aged /\ [Next]_vars /\ [\A u \in Users : Rotate(u) => now >= newExpireTime]_vars
        => IInv' /\ Aged'
  BY InvStep, AgedStep
<1>4. QED
  BY <1>1, <1>2, <1>3, InvInit, PTL DEF Spec, RotationsDue

-----------------------------------------------------------------------------
(* The callers. *)

\* The request is in the queue, in the writer's hands or has had its handler registered.
Queued(i) == \E k \in 1..Len(writerCh) : writerCh[k] = i
Submitted(i) ==
    \/ Queued(i) \/ registered[i] # Never
    \/ pc["writer"] # "idle" /\ id["writer"] = i

\* A caller is told something once, and only after its request was queued or refused.
CallerInv ==
    \A i \in Ids :
        /\ caller[i] = "idle" => result[i] = "none" /\ ackOpen[i]
        /\ Submitted(i) => caller[i] # "idle" /\ result[i] # "refused"
        /\ i \in written => registered[i] # Never
        /\ verdict[i] # "none" => i \in written
        /\ result[i] = "refused" => caller[i] = "returned"
        /\ channel[i] = "closed" => ~ackOpen[i] \/ result[i] = "refused"
        /\ i \notin Async =>
               ackOpen[i] /\ (caller[i] \in {"sent", "waiting"} => result[i] = "none")
        /\ i \in Async =>
               /\ caller[i] = "returned" => result[i] = "refused"
               /\ result[i] # "timeout"
               /\ result[i] \in {"success", "failure"} => outcome[i] # "none"

PInv == IInv /\ CallTypeOK /\ CallerInv

\* Each step is a step of the handler map, or leaves it alone.
LEMMA StepOfMap == [PublishNext]_publishVars => [Next]_vars
<1>1. ASSUME PublishNext PROVE [Next]_vars
  BY <1>1 DEF PublishNext, MapOnly, Write, ProcessorAnswers, CloseSession, SendPublishMessage,
     AwaitResult, TimesOut, Cancel, CloseChannel, WriterTakes, Decide, ProcessorTakes,
     HandlerExpires, Next
<1>2. QED
  BY <1>1 DEF publishVars

LEMMA PInvInit == PublishInit => PInv
<1> SUFFICES ASSUME PublishInit PROVE CallTypeOK /\ CallerInv
  BY InvInit DEF PublishInit, PInv
<1>1. CallTypeOK
  BY PublishAssumption DEF PublishInit, CallTypeOK
<1>2. \A i \in Ids : ~Submitted(i)
  <2>1. Len(writerCh) = 0 /\ pc["writer"] = "idle"
    BY DEF PublishInit, Init, Users
  <2>2. \A i \in Ids : ~Queued(i)
    BY <2>1, 1..0 = {} DEF Queued
  <2>3. QED
    BY <2>1, <2>2 DEF PublishInit, Init, Submitted
<1>3. QED
  BY <1>1, <1>2 DEF PublishInit, CallerInv

\* The handler of a request is called while its caller waits or has been told nothing.
LEMMA HandleKeeps ==
    ASSUME CallTypeOK, CallerInv, NEW i \in Ids, NEW r \in {"success", "failure"},
           Submitted(i), outcome[i] = "none", outcome'[i] # "none",
           \A j \in Ids \ {i} : outcome'[j] = outcome[j],
           \A j \in Ids : Submitted(j)' => Submitted(j),
           Handle(i, r), UNCHANGED <<registered, brokerVars>>
    PROVE  CallTypeOK' /\ CallerInv'
<1> USE DEF CallTypeOK, CallerInv, brokerVars
<1>1. /\ caller[i] # "idle" /\ result[i] # "refused"
      /\ i \in Async => result[i] = "none"
  OBVIOUS
<1>2. CASE UNCHANGED <<caller, result>>
  BY <1>2 DEF Handle
<1>3. CASE Listening(i) /\ channel[i] = "closed"
  BY <1>1, <1>3 DEF Listening
<1>4. CASE /\ Receiving(i) /\ channel[i] = "open"
           /\ Told(i, IF result[i] = "none" THEN r ELSE "again")
           /\ IF i \in Async THEN UNCHANGED caller ELSE Moves(i, "returned")
  <2>1. result[i] = "none" /\ result' = [result EXCEPT ![i] = r]
    BY <1>1, <1>4 DEF Receiving, Told
  <2>2. QED
    BY <1>1, <1>4, <2>1 DEF Handle, Moves
<1>5. QED
  BY <1>2, <1>3, <1>4 DEF Handle

\* The queue of the writer.
LEMMA QueueAppend ==
    ASSUME writerCh \in Seq(Ids), NEW i \in Ids, writerCh' = Append(writerCh, i)
    PROVE  /\ writerCh' \in Seq(Ids) /\ Len(writerCh') = Len(writerCh) + 1
           /\ \A j \in Ids : Queued(j)' => Queued(j) \/ j = i
  BY DEF Queued
LEMMA QueueTail ==
    ASSUME writerCh \in Seq(Ids), writerCh # <<>>, writerCh' = Tail(writerCh)
    PROVE  /\ writerCh' \in Seq(Ids) /\ Len(writerCh') < Len(writerCh)
           /\ Queued(Head(writerCh)) /\ \A j \in Ids : Queued(j)' => Queued(j)
  BY DEF Queued

LEMMA PInvStep == PInv /\ [PublishNext]_publishVars => PInv'
<1> SUFFICES ASSUME PInv, [PublishNext]_publishVars PROVE CallTypeOK' /\ CallerInv'
  BY StepOfMap, InvStep DEF PInv
<1> USE NeverIsNoTime DEF callVars, brokerVars
<1>0. TypeOK /\ CallTypeOK /\ CallerInv /\ Users = {"writer", "processor"}
  BY DEF PInv, IInv, Users
<1>1. CASE MapOnly /\ UNCHANGED <<callVars, brokerVars>>
  <2>1. \A i \in Ids : (Submitted(i)' <=> Submitted(i)) /\ (outcome'[i] = outcome[i])
    BY <1>0, <1>1 DEF MapOnly, Tick, Rotate, Expired, Goto, TypeOK, Submitted, Queued
  <2>2. QED
    BY <1>0, <1>1, <2>1 DEF MapOnly, Tick, Rotate, Expired, CallTypeOK, CallerInv
<1>2. CASE Write
  <2>1. \A i \in Ids : Submitted(i)' => Submitted(i)
    BY <1>0, <1>2 DEF Write, Register, Goto, TypeOK, Submitted, Queued
  <2>2. registered' = [registered EXCEPT ![id["writer"]] = now] /\ now # Never
    BY <1>0, <1>2 DEF Write, Register, TypeOK
  <2>3. CallTypeOK'
    BY <1>0, <1>2 DEF Write, Register, TypeOK, CallTypeOK
  <2>4. \A i \in Ids : i \in written' => registered'[i] # Never
    BY <1>0, <1>2, <2>2 DEF Write, TypeOK, CallerInv
  <2>5. QED
    BY <1>0, <1>2, <2>1, <2>3, <2>4 DEF Write, Register, CallerInv
<1>3. CASE ProcessorAnswers
  <2> DEFINE i == id["processor"]
  <2>1. i \in Ids /\ (\A j \in Ids : Submitted(j)' => Submitted(j)) /\ registered' = registered
    BY <1>0, <1>3 DEF ProcessorAnswers, Answer, Goto, TypeOK, Submitted, Queued
  <2>2. CASE Found(i)
    <3>1. outcome[i] = "none" /\ Submitted(i)
      BY <2>1, <2>2 DEF PInv, IInv, CalledOnce, Held, Found, Submitted
    <3>2. outcome' = [outcome EXCEPT ![i] = "answered"]
      BY <1>0, <1>3, <2>2, <3>1 DEF ProcessorAnswers, Answer, Call, TypeOK
    <3>3. Handle(i, Outcome(verdict[i])) /\ Outcome(verdict[i]) \in {"success", "failure"}
      BY <1>3, <2>2 DEF ProcessorAnswers, Outcome
    <3>4. QED
      BY <1>0, <1>3, <2>1, <3>1, <3>2, <3>3, HandleKeeps DEF ProcessorAnswers, TypeOK
  <2>3. CASE ~Found(i)
    BY <1>0, <1>3, <2>1, <2>3 DEF ProcessorAnswers, Answer, CallTypeOK, CallerInv
  <2>4. QED
    BY <2>2, <2>3
<1>4. CASE CloseSession
  <2>1. \A i \in Ids : Submitted(i)' <=> Submitted(i)
    BY <1>4 DEF CloseSession, vars, Submitted, Queued
  <2>2. QED
    BY <1>0, <1>4, <2>1 DEF CloseSession, vars, CallTypeOK, CallerInv
<1>5. ASSUME NEW i \in Ids, SendPublishMessage(i) PROVE CallTypeOK' /\ CallerInv'
  <2> USE <1>0, <1>5 DEF SendPublishMessage, Moves, Told, vars
  <2>1. CASE Len(writerCh) < WriterCap
    <3>1. /\ writerCh' \in Seq(Ids) /\ Len(writerCh') = Len(writerCh) + 1
          /\ Len(writerCh) \in Nat
          /\ \A j \in Ids : Queued(j)' => Queued(j) \/ j = i
      BY <2>1, QueueAppend DEF CallTypeOK
    <3>2. CallTypeOK'
      BY <2>1, <3>1, PublishAssumption DEF CallTypeOK
    <3>3. \A j \in Ids : Submitted(j)' => Submitted(j) \/ j = i
      BY <3>1 DEF Submitted
    <3>4. QED
      BY <2>1, <3>2, <3>3 DEF CallTypeOK, CallerInv
  <2>2. CASE ~(Len(writerCh) < WriterCap)
    <3>1. \A j \in Ids : Submitted(j)' => Submitted(j)
      BY <2>2 DEF Submitted, Queued
    <3>2. QED
      BY <2>2, <3>1 DEF CallTypeOK, CallerInv
  <2>3. QED
    BY <2>1, <2>2
<1>6. ASSUME NEW i \in Ids, AwaitResult(i) \/ TimesOut(i) \/ Cancel(i) \/ CloseChannel(i)
      PROVE  CallTypeOK' /\ CallerInv'
  <2>1. \A j \in Ids : Submitted(j)' => Submitted(j)
    BY <1>6 DEF AwaitResult, TimesOut, Cancel, CloseChannel, vars, Submitted, Queued
  <2> USE <1>0, <2>1 DEF Moves, Told, vars
  <2>2. CASE AwaitResult(i)
    BY <2>2 DEF AwaitResult, CallTypeOK, CallerInv
  <2>3. CASE TimesOut(i)
    BY <2>3 DEF TimesOut, CallTypeOK, CallerInv
  <2>4. CASE Cancel(i)
    BY <2>4 DEF Cancel, CallTypeOK, CallerInv
  <2>5. CASE CloseChannel(i)
    BY <2>5 DEF CloseChannel, CallTypeOK, CallerInv
  <2>6. QED
    BY <1>6, <2>2, <2>3, <2>4, <2>5
<1>8. ASSUME NEW i \in Ids, WriterTakes(i) PROVE CallTypeOK' /\ CallerInv'
  <2>1. /\ writerCh' \in Seq(Ids) /\ Len(writerCh') < Len(writerCh)
        /\ Queued(i) /\ \A j \in Ids : Queued(j)' => Queued(j)
    BY <1>0, <1>8, QueueTail DEF WriterTakes, CallTypeOK
  <2>2. \A j \in Ids : Submitted(j)' => Submitted(j)
    BY <1>0, <1>8, <2>1 DEF WriterTakes, Set, Begin, Goto, TypeOK, Submitted
  <2>3. CallTypeOK'
    BY <1>0, <1>8, <2>1, PublishAssumption DEF WriterTakes, CallTypeOK
  <2>4. QED
    BY <1>0, <1>8, <2>2, <2>3 DEF WriterTakes, Set, Begin, CallerInv
<1>9. ASSUME NEW i \in Ids, Decide(i) PROVE CallTypeOK' /\ CallerInv'
  BY <1>0, <1>9 DEF Decide, vars, CallTypeOK, CallerInv, Submitted, Queued
<1>10. ASSUME NEW i \in Ids, ProcessorTakes(i) PROVE CallTypeOK' /\ CallerInv'
  <2>1. \A j \in Ids : Submitted(j)' => Submitted(j)
    BY <1>0, <1>10 DEF ProcessorTakes, GetAndDelete, Begin, Goto, TypeOK, Submitted, Queued
  <2>2. QED
    BY <1>0, <1>10, <2>1 DEF ProcessorTakes, GetAndDelete, Begin, CallTypeOK, CallerInv
<1>11. ASSUME NEW i \in Ids, NEW u \in Users, HandlerExpires(u, i)
       PROVE  CallTypeOK' /\ CallerInv'
  <2>1. outcome[i] = "none" /\ Submitted(i)
    BY <1>11 DEF HandlerExpires, Expire, PInv, IInv, CalledOnce, Held, Submitted
  <2>2. \A j \in Ids : Submitted(j)' => Submitted(j)
    BY <1>11 DEF HandlerExpires, Expire, Submitted, Queued
  <2>3. QED
    BY <1>0, <1>11, <2>1, <2>2, HandleKeeps DEF HandlerExpires, Expire, Call, TypeOK
<1>12. CASE UNCHANGED publishVars
  BY <1>0, <1>12 DEF publishVars, vars, CallTypeOK, CallerInv, Submitted, Queued
<1>13. QED
  BY <1>1, <1>2, <1>3, <1>4, <1>5, <1>6, <1>8, <1>9, <1>10, <1>11, <1>12 DEF PublishNext

LEMMA Always == PublishSpec => []PInv
  BY PInvInit, PInvStep, PTL DEF PublishSpec

\* No caller is told anything twice, and no handler sends to a closed channel
\* (publish.go:48-77).
THEOREM PublishTypeCorrect == PublishSpec => []PublishTypeOK
<1>1. PInv => PublishTypeOK
  BY DEF PInv, IInv, PublishTypeOK
<1>2. QED
  BY <1>1, Always, PTL

\* The handlers of the requests are kept and called once, as the map alone promises.
THEOREM PublishHandlersKept == PublishSpec => []CalledOnce
<1>1. PInv => CalledOnce
  BY DEF PInv, IInv
<1>2. QED
  BY <1>1, Always, PTL

LEMMA ContractInit == PublishInit => Contract!Init
  BY DEF PublishInit, Contract!Init, CallState, Verdicts

\* How a step shows in the contract.
LEMMA CallMoves ==
    ASSUME NEW i \in Ids, NEW s, CallState(i)' = s, UNCHANGED verdict,
           \A j \in Ids \ {i} : CallState(j)' = CallState(j)
    PROVE  Contract!Becomes(i, s)
  BY DEF Contract!Becomes
LEMMA CallsStay ==
    ASSUME \A j \in Ids : CallState(j)' = CallState(j), UNCHANGED verdict
    PROVE  UNCHANGED Contract!vars
  BY DEF Contract!vars

\* A handler that is called reports the broker's verdict, or its expiry, or nothing.
LEMMA HandleRefines ==
    ASSUME PInv, NEW i \in Ids, NEW r \in {"success", "failure"}, Submitted(i),
           outcome[i] = "none", r = "success" => verdict[i] = "success",
           Handle(i, r), UNCHANGED <<ackOpen, verdict>>
    PROVE  Contract!Next \/ UNCHANGED Contract!vars
<1> USE DEF PInv, CallTypeOK, CallerInv
<1>1. CASE UNCHANGED <<caller, result>>
  BY <1>1, CallsStay DEF CallState
<1>2. ~(Listening(i) /\ channel[i] = "closed")
  BY DEF Listening
<1>3. CASE /\ Listening(i) /\ Receiving(i)
           /\ Told(i, IF result[i] = "none" THEN r ELSE "again")
           /\ IF i \in Async THEN UNCHANGED caller ELSE Moves(i, "returned")
  <2>1. result[i] = "none" /\ caller[i] # "idle" /\ CallState(i) = "pending"
    BY <1>3 DEF Receiving, Listening, CallState
  <2>2. CallState(i)' = r /\ \A j \in Ids \ {i} : CallState(j)' = CallState(j)
    BY <1>3, <2>1 DEF Told, Moves, CallState
  <2>3. Contract!Becomes(i, r)
    BY <2>2, CallMoves
  <2>4. CASE r = "success"
    BY <2>1, <2>3, <2>4 DEF Contract!Next, Contract!Succeed
  <2>5. CASE r = "failure"
    BY <2>1, <2>3, <2>5 DEF Contract!Next, Contract!Fail
  <2>6. QED
    BY <2>4, <2>5
<1>4. QED
  BY <1>1, <1>2, <1>3 DEF Handle

LEMMA ContractStep ==
    PInv /\ [PublishNext]_publishVars => [Contract!Next]_(Contract!vars)
<1> SUFFICES ASSUME PInv, [PublishNext]_publishVars
             PROVE  Contract!Next \/ UNCHANGED Contract!vars
  OBVIOUS
<1> USE DEF callVars, brokerVars
<1>0. IInv /\ CallTypeOK /\ CallerInv
  BY DEF PInv
<1>1. CASE UNCHANGED <<caller, result, ackOpen, verdict>>
  BY <1>1, CallsStay DEF CallState
<1>2. CASE ProcessorAnswers
  <2> DEFINE i == id["processor"]
  <2>1. CASE Found(i)
    <3>1. i \in Ids /\ outcome[i] = "none" /\ Submitted(i)
      BY <1>0, <2>1 DEF IInv, TypeOK, CalledOnce, Held, Found, Submitted, Users
    <3>2. /\ Handle(i, Outcome(verdict[i])) /\ Outcome(verdict[i]) \in {"success", "failure"}
          /\ Outcome(verdict[i]) = "success" => verdict[i] = "success"
      BY <1>2, <2>1 DEF ProcessorAnswers, Outcome
    <3>3. QED
      BY <1>2, <3>1, <3>2, HandleRefines DEF ProcessorAnswers, Handle
  <2>2. CASE ~Found(i)
    BY <1>1, <1>2, <2>2 DEF ProcessorAnswers
  <2>3. QED
    BY <2>1, <2>2
<1>3. ASSUME NEW i \in Ids, NEW u \in Users, HandlerExpires(u, i)
      PROVE  Contract!Next \/ UNCHANGED Contract!vars
  <2>1. outcome[i] = "none" /\ Submitted(i)
    BY <1>0, <1>3 DEF HandlerExpires, Expire, IInv, CalledOnce, Held, Submitted
  <2>2. QED
    BY <1>3, <2>1, HandleRefines DEF HandlerExpires, Handle
<1>4. ASSUME NEW i \in Ids, SendPublishMessage(i) PROVE Contract!Next
  <2>1. CallState(i) = "idle" /\ CallState(i)' \in {"pending", "refused"}
    BY <1>0, <1>4 DEF SendPublishMessage, Moves, Told, CallState, CallTypeOK, CallerInv
  <2>2. \A j \in Ids \ {i} : CallState(j)' = CallState(j)
    BY <1>0, <1>4 DEF SendPublishMessage, Moves, Told, CallState, CallTypeOK
  <2>3. Contract!Becomes(i, CallState(i)')
    BY <1>4, <2>2, CallMoves DEF SendPublishMessage
  <2>4. QED
    BY <2>1, <2>3 DEF Contract!Next, Contract!Submit
<1>5. ASSUME NEW i \in Ids, AwaitResult(i) PROVE UNCHANGED Contract!vars
  BY <1>0, <1>5, CallsStay DEF AwaitResult, Moves, CallState, CallTypeOK
<1>6. ASSUME NEW i \in Ids, TimesOut(i) PROVE Contract!Next
  <2>1. i \notin Async /\ CallState(i) = "pending" /\ CallState(i)' = "timeout"
    BY <1>0, <1>6 DEF TimesOut, Moves, Told, CallState, CallTypeOK, CallerInv
  <2>2. \A j \in Ids \ {i} : CallState(j)' = CallState(j)
    BY <1>0, <1>6 DEF TimesOut, Moves, Told, CallState, CallTypeOK
  <2>3. QED
    BY <1>6, <2>1, <2>2, CallMoves DEF TimesOut, Contract!Next, Contract!GiveUp
<1>7. ASSUME NEW i \in Ids, Cancel(i) PROVE Contract!Next \/ UNCHANGED Contract!vars
  <2>1. \A j \in Ids \ {i} : CallState(j)' = CallState(j)
    BY <1>0, <1>7 DEF Cancel, CallState, CallTypeOK
  <2>2. CASE result[i] = "none"
    <3>1. i \in Async /\ CallState(i) = "pending" /\ CallState(i)' = "cancelled"
      BY <1>0, <1>7, <2>2 DEF Cancel, CallState, CallTypeOK
    <3>2. QED
      BY <1>7, <2>1, <3>1, CallMoves DEF Cancel, Contract!Next, Contract!Cancel
  <2>3. CASE result[i] # "none"
    <3>1. CallState(i)' = CallState(i)
      BY <1>7, <2>3 DEF Cancel, CallState
    <3>2. QED
      BY <1>7, <2>1, <3>1, CallsStay DEF Cancel
  <2>4. QED
    BY <2>2, <2>3
<1>8. ASSUME NEW i \in Ids, Decide(i) PROVE Contract!Next
  <2>1. \A j \in Ids : CallState(j)' = CallState(j)
    BY <1>8 DEF Decide, CallState
  <2>2. PICK v \in Verdicts : verdict' = [verdict EXCEPT ![i] = v]
    BY <1>8 DEF Decide
  <2>3. CallState(i) # "idle" /\ verdict[i] = "none"
    BY <1>0, <1>8 DEF Decide, CallState, CallTypeOK, CallerInv, Submitted
  <2>4. Contract!Decide(i)
    BY <1>0, <2>1, <2>2, <2>3 DEF Contract!Decide, Contract!Verdicts, Verdicts, CallTypeOK
  <2>5. QED
    BY <2>4 DEF Contract!Next
<1>9. QED
  <2>1. ASSUME NEW i \in Ids, CloseChannel(i) \/ WriterTakes(i) \/ ProcessorTakes(i)
        PROVE  UNCHANGED <<caller, result, ackOpen, verdict>>
    BY <2>1 DEF CloseChannel, WriterTakes, ProcessorTakes
  <2>2. QED
    BY <1>1, <1>2, <1>3, <1>4, <1>5, <1>6, <1>7, <1>8, <2>1
    DEF PublishNext, Write, CloseSession, publishVars

\* Publish and PublishAsync implement their contract: at most one result for each call,
\* success only for an accepted message, silence after a cancel (publish.go:36-127).
THEOREM PublishRefinement == PublishSpec => ImplementsContract
<1>1. PublishInit => Contract!Init
  BY ContractInit
<1>2. PInv /\ [PublishNext]_publishVars => [Contract!Next]_(Contract!vars)
  BY ContractStep
<1>3. QED
  BY <1>1, <1>2, Always, PTL DEF PublishSpec, ImplementsContract, Contract!Spec

-----------------------------------------------------------------------------
(* Lost answers. *)

\* A Publish that goes on although its handler was called has missed an early answer.
Answered ==
    \A i \in Ids \ Async :
        outcome[i] # "none" /\ caller[i] \in {"sent", "waiting"} => i \in early

\* A handler that finds Publish at its select ends the call.
LEMMA HandleAnswers ==
    ASSUME PInv, Answered, NEW i \in Ids, NEW r \in {"success", "failure"}, Handle(i, r),
           \A j \in Ids \ {i} : outcome'[j] = outcome[j]
    PROVE  Answered'
<1> USE DEF PInv, CallTypeOK, CallerInv, Answered
<1>1. \A j \in Ids \ {i} : caller'[j] = caller[j]
  BY DEF Handle, Moves
<1>2. \A j \in Ids : j \in early => j \in early'
  BY DEF Handle
<1>3. ASSUME i \notin Async, caller'[i] \in {"sent", "waiting"} PROVE i \in early'
  <2>1. CASE caller[i] = "sent"
    BY <1>3, <2>1 DEF Handle
  <2>2. CASE caller[i] = "waiting"
    <3>1. Listening(i) /\ Receiving(i) /\ channel[i] # "closed"
      BY <1>3, <2>2 DEF Listening, Receiving
    <3>2. caller'[i] = "returned"
      BY <1>3, <3>1 DEF Handle, Moves
    <3>3. QED
      BY <1>3, <3>2
  <2>3. CASE caller[i] \notin {"sent", "waiting"}
    BY <1>3, <2>3 DEF Handle, Moves
  <2>4. QED
    BY <2>1, <2>2, <2>3
<1>4. QED
  BY <1>1, <1>2, <1>3

LEMMA AnsweredStep == PInv /\ Answered /\ [PublishNext]_publishVars => Answered'
<1> SUFFICES ASSUME PInv, Answered, [PublishNext]_publishVars PROVE Answered'
  OBVIOUS
<1>0. TypeOK /\ CallTypeOK /\ CallerInv /\ Bookkeeping
  BY DEF PInv, IInv
<1>1. CASE UNCHANGED <<outcome, caller, early>>
  BY <1>1 DEF Answered
<1>2. CASE ProcessorAnswers
  <2> DEFINE i == id["processor"]
  <2>1. CASE Found(i)
    <3>1. i \in Ids /\ \A j \in Ids \ {i} : outcome'[j] = outcome[j]
      BY <1>0, <1>2, <2>1 DEF ProcessorAnswers, Answer, Call, TypeOK, Users
    <3>2. Handle(i, Outcome(verdict[i])) /\ Outcome(verdict[i]) \in {"success", "failure"}
      BY <1>2, <2>1 DEF ProcessorAnswers, Outcome
    <3>3. QED
      BY <3>1, <3>2, HandleAnswers
  <2>2. CASE ~Found(i)
    BY <1>1, <1>2, <2>2 DEF ProcessorAnswers, Answer, callVars
  <2>3. QED
    BY <2>1, <2>2
<1>3. ASSUME NEW i \in Ids, NEW u \in Users, HandlerExpires(u, i) PROVE Answered'
  <2>1. \A j \in Ids \ {i} : outcome'[j] = outcome[j]
    BY <1>0, <1>3 DEF HandlerExpires, Expire, Call, TypeOK
  <2>2. QED
    BY <1>3, <2>1, HandleAnswers DEF HandlerExpires
<1>4. ASSUME NEW i \in Ids, SendPublishMessage(i) PROVE Answered'
  <2>1. outcome[i] = "none"
    BY <1>0, <1>4 DEF SendPublishMessage, CallerInv, Submitted, Bookkeeping
  <2>2. QED
    BY <1>0, <1>4, <2>1 DEF SendPublishMessage, Moves, CallTypeOK, Answered, vars
<1>5. ASSUME NEW i \in Ids, AwaitResult(i) \/ TimesOut(i) PROVE Answered'
  BY <1>0, <1>5 DEF AwaitResult, TimesOut, Moves, CallTypeOK, Answered, vars
<1>6. ASSUME NEW i \in Ids, WriterTakes(i) \/ ProcessorTakes(i) PROVE Answered'
  BY <1>1, <1>6 DEF WriterTakes, ProcessorTakes, Set, GetAndDelete, Begin, callVars
<1>7. ASSUME NEW i \in Ids, Cancel(i) \/ CloseChannel(i) \/ Decide(i) PROVE Answered'
  BY <1>1, <1>7 DEF Cancel, CloseChannel, Decide, vars, callVars
<1>8. CASE MapOnly /\ UNCHANGED <<callVars, brokerVars>>
  BY <1>1, <1>8 DEF MapOnly, Tick, Rotate, Expired, callVars
<1>9. CASE Write \/ CloseSession
  BY <1>1, <1>9 DEF Write, Register, CloseSession, vars, callVars
<1>10. QED
  BY <1>1, <1>2, <1>3, <1>4, <1>5, <1>6, <1>7, <1>8, <1>9
  DEF PublishNext, publishVars, vars, callVars

\* A Publish that times out although its handler was called was not yet at its select when
\* the handler came: an answer that finds it there is never lost (publish.go:73-76,
\* 100-105).
THEOREM EarlyAnswersOnly == PublishSpec => OnlyEarlyAnswersLost
<1>1. PublishInit => Answered
  BY DEF PublishInit, Init, Answered
<1>2. PublishSpec => []Answered
  BY <1>1, Always, AnsweredStep, PTL DEF PublishSpec
<1>3. PInv /\ Answered /\ [PublishNext]_publishVars =>
          [\A i \in Ids : caller[i] = "waiting" /\ result'[i] = "timeout" =>
               outcome[i] = "none" \/ i \in early]_publishVars
  <2> SUFFICES ASSUME PInv, Answered, [PublishNext]_publishVars, NEW i \in Ids,
                      caller[i] = "waiting", result'[i] = "timeout"
               PROVE  outcome[i] = "none" \/ i \in early
    OBVIOUS
  <2>1. CallerInv' /\ CallTypeOK'
    BY PInvStep DEF PInv
  <2>2. i \notin Async
    BY <2>1 DEF CallerInv
  <2>3. QED
    BY <2>2 DEF Answered
<1>4. QED
  BY <1>2, <1>3, Always, PTL DEF PublishSpec, OnlyEarlyAnswersLost
=============================================================================

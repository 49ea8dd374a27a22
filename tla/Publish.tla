------------------------------ MODULE Publish ------------------------------
(***************************************************************************)
(* Publish and PublishAsync (internal/pubsub/publish.go) on top of the     *)
(* response handlers: callers queue requests for the writer, the broker    *)
(* answers, perhaps twice or never, and whoever finds or expires a handler *)
(* offers the result to the caller under the lock of its pubResultAck.     *)
(*                                                                         *)
(* The offer never blocks, so a result nobody is receiving is dropped.     *)
(* A section under the ack lock is one step.  Requests that are no         *)
(* publishes and publishes without a result channel have no part in it.    *)
(***************************************************************************)
EXTENDS HandlerMap, Sequences

CONSTANTS
    Async,      \* the requests made by PublishAsync; the others by Publish
    WriterCap   \* capacity of writerCh

ASSUME PublishAssumption == Async \subseteq Ids /\ WriterCap \in Nat

VARIABLES
    writerCh,   \* requests the writer has not taken
    written,    \* requests that reached the broker
    verdict,    \* what the broker answers to each
    caller,     \* where the caller of each request is
    ackOpen,    \* whether ack.ch is set
    channel,    \* what the caller of PublishAsync did with the result channel
    result,     \* what the caller was told
    early,      \* answers that came before the caller was at its select
    up          \* the session's goroutines run

callVars == <<caller, ackOpen, channel, result, early>>
brokerVars == <<writerCh, written, verdict, up>>
publishVars == <<vars, callVars, brokerVars>>

PublishInit ==
    /\ Init
    /\ writerCh = <<>> /\ written = {} /\ up = TRUE
    /\ verdict = [i \in Ids |-> "none"]
    /\ caller = [i \in Ids |-> "idle"]
    /\ ackOpen = [i \in Ids |-> TRUE]
    /\ channel = [i \in Ids |-> "open"]
    /\ result = [i \in Ids |-> "none"]
    /\ early = {}

-----------------------------------------------------------------------------
(* The callers. *)

Moves(i, state) == caller' = [caller EXCEPT ![i] = state]
Told(i, r) == result' = [result EXCEPT ![i] = r]

\* sendMessage queues the request or fails at once.
SendPublishMessage(i) ==
    /\ caller[i] = "idle"
    /\ IF Len(writerCh) < WriterCap
         THEN /\ writerCh' = Append(writerCh, i)
              /\ Moves(i, "sent") /\ UNCHANGED result
         ELSE Moves(i, "returned") /\ Told(i, "refused") /\ UNCHANGED writerCh
    /\ UNCHANGED <<vars, ackOpen, channel, early, written, verdict, up>>

\* Publish reaches its select; PublishAsync has returned its cancel function.
AwaitResult(i) ==
    /\ caller[i] = "sent" /\ Moves(i, "waiting")
    /\ UNCHANGED <<vars, ackOpen, channel, result, early, brokerVars>>

\* The context of Publish is done.
TimesOut(i) ==
    /\ i \notin Async /\ caller[i] = "waiting"
    /\ Moves(i, "returned") /\ Told(i, "timeout")
    /\ UNCHANGED <<vars, ackOpen, channel, early, brokerVars>>

Cancel(i) ==
    /\ i \in Async /\ caller[i] = "waiting" /\ ackOpen[i]
    /\ ackOpen' = [ackOpen EXCEPT ![i] = FALSE]
    /\ UNCHANGED <<vars, caller, channel, result, early, brokerVars>>

\* The caller closes its channel: after cancel, or after PublishAsync returned an error.
CloseChannel(i) ==
    /\ i \in Async /\ channel[i] = "open"
    /\ caller[i] = "returned" \/ ~ackOpen[i]
    /\ channel' = [channel EXCEPT ![i] = "closed"]
    /\ UNCHANGED <<vars, caller, ackOpen, result, early, brokerVars>>

-----------------------------------------------------------------------------
(* The handler of request i, called with outcome r. *)

\* The check of ack.ch in the handler.  Its mutant relies on the check before the send.
Unchecked(i) == TRUE
Listening(i) == ackOpen[i]

\* A Publish receives at its select only; the channel of a PublishAsync may be received
\* from, or have room, at any time.
AsyncOnly(i) == i \in Async
Receiving(i) == i \in Async \/ caller[i] = "waiting"

Handle(i, r) ==
    /\ \/ /\ ~Listening(i) \/ i \in Async \/ ~Receiving(i)
          /\ UNCHANGED <<caller, result>>
       \/ /\ Listening(i) /\ channel[i] = "closed"
          /\ Told(i, "panic") /\ UNCHANGED caller
       \/ /\ Listening(i) /\ channel[i] = "open" /\ Receiving(i)
          /\ Told(i, IF result[i] = "none" THEN r ELSE "again")
          /\ IF i \in Async THEN UNCHANGED caller ELSE Moves(i, "returned")
    /\ early' = IF i \notin Async /\ caller[i] = "sent" THEN early \cup {i} ELSE early
    /\ UNCHANGED <<ackOpen, channel>>

\* How the handler reads the answer: success is an answer without an error code whose
\* status says so.  Its mutant looks at the error code only.
Verdicts == {"success", "unsuccessful", "error"}
CodeOnly(v) == IF v = "error" THEN "failure" ELSE "success"
Outcome(v) == IF v = "success" THEN "success" ELSE "failure"

-----------------------------------------------------------------------------
(* The session: writer, broker, processor. *)

WriterTakes(i) ==
    /\ up /\ writerCh # <<>> /\ i = Head(writerCh)
    /\ Set(i)
    /\ writerCh' = Tail(writerCh)
    /\ UNCHANGED <<callVars, written, verdict, up>>

\* The handler is registered, then the request is written; a failed write ends the session.
Write ==
    /\ Register
    /\ \/ written' = written \cup {id["writer"]} /\ UNCHANGED up
       \/ up' = FALSE /\ UNCHANGED written
    /\ UNCHANGED <<callVars, writerCh, verdict>>

Decide(i) ==
    /\ i \in written /\ verdict[i] = "none"
    /\ \E v \in Verdicts : verdict' = [verdict EXCEPT ![i] = v]
    /\ UNCHANGED <<vars, callVars, writerCh, written, up>>

\* The processor takes an answer of the broker and looks for its handler.
ProcessorTakes(i) ==
    /\ up /\ verdict[i] # "none"
    /\ GetAndDelete(i)
    /\ UNCHANGED <<callVars, brokerVars>>

ProcessorAnswers ==
    /\ Answer
    /\ LET i == id["processor"] IN
         IF Found(i) THEN Handle(i, Outcome(verdict[i])) ELSE UNCHANGED callVars
    /\ UNCHANGED brokerVars

HandlerExpires(u, i) ==
    /\ Expire(u, i)
    /\ Handle(i, "failure")
    /\ UNCHANGED brokerVars

\* The session closes: its goroutines stop when they look at closed again.
CloseSession ==
    /\ up /\ up' = FALSE
    /\ UNCHANGED <<vars, callVars, writerCh, written, verdict>>

MapOnly == Tick \/ \E u \in Users : Rotate(u) \/ Expired(u)

PublishNext ==
    \/ MapOnly /\ UNCHANGED <<callVars, brokerVars>>
    \/ Write \/ ProcessorAnswers \/ CloseSession
    \/ \E i \in Ids :
         \/ SendPublishMessage(i) \/ AwaitResult(i) \/ TimesOut(i) \/ Cancel(i)
         \/ CloseChannel(i) \/ WriterTakes(i) \/ Decide(i) \/ ProcessorTakes(i)
         \/ \E u \in Users : HandlerExpires(u, i)

PublishSpec == PublishInit /\ [][PublishNext]_publishVars

-----------------------------------------------------------------------------
\* Type invariant; among the rest, no handler is called a second time, no caller is told a
\* second time, and nothing is sent on a channel its caller has closed.
CallTypeOK ==
    /\ writerCh \in Seq(Ids) /\ Len(writerCh) <= WriterCap
    /\ written \subseteq Ids /\ early \subseteq Ids /\ up \in BOOLEAN
    /\ verdict \in [Ids -> Verdicts \cup {"none"}]
    /\ caller \in [Ids -> {"idle", "sent", "waiting", "returned"}]
    /\ ackOpen \in [Ids -> BOOLEAN]
    /\ channel \in [Ids -> {"open", "closed"}]
    /\ result \in [Ids -> {"none", "refused", "success", "failure", "timeout"}]
PublishTypeOK == TypeOK /\ CallTypeOK

\* What the contract sees of a call and of the broker's answer.
CallState(i) ==
    IF result[i] # "none" THEN result[i]
    ELSE IF caller[i] = "idle" THEN "idle"
    ELSE IF ackOpen[i] THEN "pending" ELSE "cancelled"
Contract == INSTANCE PublishContract WITH
    call <- [i \in Ids |-> CallState(i)],
    verdict <- [i \in Ids |-> IF verdict[i] \in Verdicts \ {"success"} THEN "failure"
                              ELSE verdict[i]]

\* Each call reports at most one result, success only if the broker accepted the message,
\* and a cancelled PublishAsync reports nothing: the handler that comes between the cancel
\* and the close of the channel does not send to it (publish.go:55-77, 108-109).
ImplementsContract == Contract!Spec

\* Publish times out although its handler was called already only if the handler came
\* before Publish was at its select (publish.go:73-76, 100-105).
OnlyEarlyAnswersLost ==
    [][\A i \in Ids : caller[i] = "waiting" /\ result'[i] = "timeout" =>
          outcome[i] = "none" \/ i \in early]_publishVars
=============================================================================

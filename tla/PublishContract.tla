-------------------------- MODULE PublishContract --------------------------
(***************************************************************************)
(* What Publish and PublishAsync promise (internal/pubsub/publish.go): a   *)
(* call reports at most one result, success only for what the broker has   *)
(* accepted, and nothing after it was cancelled.                           *)
(***************************************************************************)
CONSTANTS Ids, Async

VARIABLES
    call,       \* what has become of each call
    verdict     \* what the broker made of each message

vars == <<call, verdict>>
Verdicts == {"success", "failure"}
Init ==
    /\ call = [i \in Ids |-> "idle"]
    /\ verdict = [i \in Ids |-> "none"]

Becomes(i, state) == call' = [call EXCEPT ![i] = state] /\ UNCHANGED verdict

\* The message is queued, or refused because the writer is busy.
Submit(i) == call[i] = "idle" /\ \E s \in {"pending", "refused"} : Becomes(i, s)

Decide(i) ==
    /\ call[i] # "idle" /\ verdict[i] = "none"
    /\ \E v \in Verdicts : verdict' = [verdict EXCEPT ![i] = v]
    /\ UNCHANGED call

\* The broker's verdict, or the expiry of the handler, is reported.
Succeed(i) == call[i] = "pending" /\ verdict[i] = "success" /\ Becomes(i, "success")
Fail(i) == call[i] = "pending" /\ Becomes(i, "failure")

\* The context of a Publish is done; the caller of a PublishAsync cancels.
GiveUp(i) == i \notin Async /\ call[i] = "pending" /\ Becomes(i, "timeout")
Cancel(i) == i \in Async /\ call[i] = "pending" /\ Becomes(i, "cancelled")

Next == \E i \in Ids :
    Submit(i) \/ Decide(i) \/ Succeed(i) \/ Fail(i) \/ GiveUp(i) \/ Cancel(i)

Spec == Init /\ [][Next]_vars
=============================================================================

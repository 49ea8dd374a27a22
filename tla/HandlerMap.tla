----------------------------- MODULE HandlerMap -----------------------------
(***************************************************************************)
(* The response handlers of a connection (internal/pubsub/handlermap.go):  *)
(* the writer registers the handler of each request it writes, the         *)
(* processor takes it when the response arrives, and whoever comes after   *)
(* newExpireTime ages the two maps.  Only the map accesses are locked.     *)
(***************************************************************************)
EXTENDS Integers

CONSTANTS
    Ids,            \* requests with a handler
    ExpireDuration, \* handlersExpiration, in ticks
    MaxTime,        \* bound on the clock
    Never           \* not registered yet

Users == {"writer", "processor"}

ASSUME Durations == ExpireDuration \in Nat \ {0} /\ MaxTime \in Nat
ASSUME NeverIsNoTime == Never \notin Nat

VARIABLES
    now,
    newExpireTime,
    currentHandlers,    \* requests whose handler is in each map
    olderHandlers,
    registered,         \* when each handler was registered
    outcome,            \* "none", or how the handler was called
    pc,                 \* where the writer and the processor are
    id,                 \* the request each of them works on
    expiredHandlers     \* each one's local expiredHandlers

vars == <<now, newExpireTime, currentHandlers, olderHandlers, registered, outcome,
          pc, id, expiredHandlers>>

Init ==
    /\ now = 0 /\ newExpireTime = ExpireDuration
    /\ currentHandlers = {} /\ olderHandlers = {}
    /\ registered = [i \in Ids |-> Never]
    /\ outcome = [i \in Ids |-> "none"]
    /\ pc = [u \in Users |-> "idle"]
    /\ id \in [Users -> Ids]
    /\ expiredHandlers = [u \in Users |-> {}]

Goto(u, label) == pc' = [pc EXCEPT ![u] = label]

Tick ==
    /\ now < MaxTime
    /\ now' = now + 1
    /\ UNCHANGED <<newExpireTime, currentHandlers, olderHandlers, registered, outcome,
                   pc, id, expiredHandlers>>

\* Set(i) and GetAndDelete(i) begin with expireCheck's test, outside the lock.  The read
\* races with a rotation and sees the old time or the new one.
Begin(u, i) ==
    /\ pc[u] = "idle"
    /\ id' = [id EXCEPT ![u] = i]
    /\ Goto(u, IF now < newExpireTime THEN "access" ELSE "rotate")
    /\ UNCHANGED <<now, newExpireTime, currentHandlers, olderHandlers, registered, outcome,
                   expiredHandlers>>

\* The writer has not used the id before; the processor takes whatever id a response has.
Set(i) == registered[i] = Never /\ Begin("writer", i)
GetAndDelete(i) == Begin("processor", i)

\* The map that becomes the current one.  Its mutant keeps the entries.
Unchanged == currentHandlers
Emptied == {}

\* expireCheck under the lock, without testing the time again.
Rotate(u) ==
    /\ pc[u] = "rotate"
    /\ newExpireTime' = now + ExpireDuration
    /\ expiredHandlers' = [expiredHandlers EXCEPT ![u] = olderHandlers]
    /\ olderHandlers' = currentHandlers
    /\ currentHandlers' = Emptied
    /\ Goto(u, "expire")
    /\ UNCHANGED <<now, registered, outcome, id>>

\* The handler of i is called; a second call is an outcome of its own.
Call(i, how) == outcome' = [outcome EXCEPT ![i] = IF @ = "none" THEN how ELSE "twice"]

\* The expired handlers are called with an error, one after the other.
Expire(u, i) ==
    /\ pc[u] = "expire" /\ i \in expiredHandlers[u]
    /\ expiredHandlers' = [expiredHandlers EXCEPT ![u] = @ \ {i}]
    /\ Call(i, "expired")
    /\ UNCHANGED <<now, newExpireTime, currentHandlers, olderHandlers, registered, pc, id>>

Expired(u) ==
    /\ pc[u] = "expire" /\ expiredHandlers[u] = {}
    /\ Goto(u, "access")
    /\ UNCHANGED <<now, newExpireTime, currentHandlers, olderHandlers, registered, outcome,
                   id, expiredHandlers>>

Register ==
    /\ pc["writer"] = "access"
    /\ currentHandlers' = currentHandlers \cup {id["writer"]}
    /\ registered' = [registered EXCEPT ![id["writer"]] = now]
    /\ Goto("writer", "idle")
    /\ UNCHANGED <<now, newExpireTime, olderHandlers, outcome, id, expiredHandlers>>

\* delete of the handler from both maps.  Its mutant deletes it from the current one only.
KeepOlder(i) == UNCHANGED olderHandlers /\ currentHandlers' = currentHandlers \ {i}
Delete(i) ==
    /\ currentHandlers' = currentHandlers \ {i}
    /\ olderHandlers' = IF i \in currentHandlers THEN olderHandlers ELSE olderHandlers \ {i}

Found(i) == i \in currentHandlers \cup olderHandlers

\* The processor calls the handler it found with the response.
Answer ==
    /\ pc["processor"] = "access"
    /\ LET i == id["processor"] IN
       /\ Delete(i)
       /\ IF Found(i) THEN Call(i, "answered") ELSE UNCHANGED outcome
    /\ Goto("processor", "idle")
    /\ UNCHANGED <<now, newExpireTime, registered, id, expiredHandlers>>

Next ==
    \/ Tick \/ Register \/ Answer
    \/ \E i \in Ids : Set(i) \/ GetAndDelete(i)
    \/ \E u \in Users : Rotate(u) \/ Expired(u) \/ \E i \in Ids : Expire(u, i)

Spec == Init /\ [][Next]_vars

-----------------------------------------------------------------------------
Held(i) ==
    i \in currentHandlers \/ i \in olderHandlers \/ \E u \in Users : i \in expiredHandlers[u]

\* Type invariant: among the rest, no handler is ever called a second time.
TypeOK ==
    /\ now \in Nat /\ newExpireTime \in Nat
    /\ currentHandlers \subseteq Ids /\ olderHandlers \subseteq Ids
    /\ registered \in [Ids -> Nat \cup {Never}]
    /\ outcome \in [Ids -> {"none", "answered", "expired"}]
    /\ pc \in [Users -> {"idle", "rotate", "expire", "access"}]
    /\ id \in [Users -> Ids]
    /\ expiredHandlers \in [Users -> SUBSET Ids]

\* A registered handler is held in one place until it is called, and called exactly once:
\* a response that races with the expiry neither loses a consumer's handler nor calls it
\* a second time.
CalledOnce ==
    \A i \in Ids :
        /\ Held(i) <=> registered[i] # Never /\ outcome[i] = "none"
        /\ ~(i \in currentHandlers /\ i \in olderHandlers)
        /\ \A u \in Users : i \in expiredHandlers[u] =>
               /\ i \notin currentHandlers \cup olderHandlers
               /\ \A v \in Users \ {u} : i \notin expiredHandlers[v]

\* A handler that is given up for expired has been waiting for at least expireDuration:
\* olderHandlers is still valid and its entries were aged in the current map
\* (handlermap.go:12-13).
ExpiresAged ==
    \A i \in Ids : \A u \in Users :
        i \in expiredHandlers[u] => now - registered[i] >= ExpireDuration
=============================================================================

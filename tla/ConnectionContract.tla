------------------------- MODULE ConnectionContract -------------------------
(***************************************************************************)
(* What an internalConnection promises the code that owns it: it is opened *)
(* at most once; its goroutines start with it and are counted until they   *)
(* stop; from the moment it starts to close, nothing but the goroutines    *)
(* and the streams still counted stands between it and the one report on   *)
(* its Error channel, and after that report its goroutines never run again *)
(* (a stream may still be subscribed on it: subscribe does not look).      *)
(***************************************************************************)
CONSTANTS Goroutines, Streams

VARIABLES
    phase,      \* "unopened", "up", "closing", "reported"
    running,    \* goroutines of the connection that have not stopped
    active      \* streams with a subscriber

vars == <<phase, running, active>>

Init == phase = "unopened" /\ running = {} /\ active = {}

Open ==
    /\ phase = "unopened"
    /\ phase' = "up"
    /\ running' = {"reader", "writer", "processor"}
    /\ UNCHANGED active

\* The processor starts a ping, so only while it runs itself.
Ping ==
    /\ "processor" \in running
    /\ running' = running \cup {"ping"}
    /\ UNCHANGED <<phase, active>>

\* The processor serves every answer until the connection closes.
Stop(g) ==
    /\ g \in running
    /\ g = "processor" => phase = "closing"
    /\ running' = running \ {g}
    /\ UNCHANGED <<phase, active>>

Close ==
    /\ phase = "up"
    /\ phase' = "closing"
    /\ UNCHANGED <<running, active>>

Report ==
    /\ phase = "closing" /\ running = {} /\ active = {}
    /\ phase' = "reported"
    /\ UNCHANGED <<running, active>>

StartStream(s) ==
    /\ s \notin active
    /\ active' = active \cup {s}
    /\ UNCHANGED <<phase, running>>

StopStream(s) ==
    /\ s \in active
    /\ active' = active \ {s}
    /\ UNCHANGED <<phase, running>>

Next ==
    \/ Open \/ Ping \/ Close \/ Report
    \/ \E g \in Goroutines : Stop(g)
    \/ \E s \in Streams : StartStream(s) \/ StopStream(s)

\* A closing connection drains and reports.
Fairness == SF_vars(Report) /\ \A g \in Goroutines : WF_vars(phase = "closing" /\ Stop(g))

Spec == Init /\ [][Next]_vars
FairSpec == Spec /\ Fairness
=============================================================================

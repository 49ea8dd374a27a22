----------------------------- MODULE GapEvents -----------------------------
(***************************************************************************)
(* What the application sees of read-stream gaps: for each stream one      *)
(* detection opens a gap and one recovery closes it, in turn.              *)
(***************************************************************************)
EXTENDS Integers

CONSTANTS Streams, Reasons, NoGap

VARIABLE gap        \* NoGap, or the reason and the count of the open detection

Init == gap = [s \in Streams |-> NoGap]

Detected(s) ==
    /\ gap[s] = NoGap
    /\ gap'[s] \in [reason : Reasons, count : Nat]
    /\ gap' = [gap EXCEPT ![s] = gap'[s]]

Recovered(s) ==
    /\ gap[s] # NoGap
    /\ gap' = [gap EXCEPT ![s] = NoGap]

Next == \E s \in Streams : Detected(s) \/ Recovered(s)

Spec == Init /\ [][Next]_gap
=============================================================================

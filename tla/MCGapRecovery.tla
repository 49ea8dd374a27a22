--------------------------- MODULE MCGapRecovery ---------------------------
(* Model values of the instances TLC checks of GapRecovery.                *)
EXTENDS GapRecovery

CONSTANTS s1, s2, timeout, backpressure
TwoStreams == {s1, s2}
OneStream == {s1}
BothReasons == {timeout, backpressure}
=============================================================================

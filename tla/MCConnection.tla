---------------------------- MODULE MCConnection ----------------------------
(* Model values of the instances TLC checks of Connection.                 *)
EXTENDS Connection

CONSTANTS app, closer, s1, s2
BothCallers == {app, closer}
OneCaller == {app}
OneStream == {s1}
TwoStreams == {s1, s2}
=============================================================================

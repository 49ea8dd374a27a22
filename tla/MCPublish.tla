----------------------------- MODULE MCPublish -----------------------------
(* Model values of the instance TLC checks of Publish.                     *)
EXTENDS Publish, TLC

CONSTANTS m1, m2
Messages == {m1, m2}
AsyncMessages == {m2}
=============================================================================

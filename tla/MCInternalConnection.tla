----------------------- MODULE MCInternalConnection -----------------------
(* Model values of the instances TLC checks of InternalConnection.         *)
EXTENDS InternalConnection, TLC

CONSTANTS c1, c2, s1, s2
TwoClients == {c1, c2}
OneClient == {c1}
OneStream == {s1}
TwoStreams == {s1, s2}

StreamSymmetry == Permutations(Streams)
=============================================================================

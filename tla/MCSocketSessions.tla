---------------------------- MODULE MCSocketSessions ----------------------------
(* An instance of SocketSessions for TLC.                                   *)
EXTENDS SocketSessions, TLC

CONSTANTS s1, s2, s3, s4, s5, sys1, sys2

FiveSockets == {s1, s2, s3, s4, s5}
TwoSystems == {sys1, sys2}
LastToOther == [s \in Sockets |-> IF s = s5 THEN sys2 ELSE sys1]
Interchangeable == Permutations({s1, s2, s3, s4})
=============================================================================

----------------------------- MODULE MCPublication -----------------------------
(* Instances of Publication for TLC.                                         *)
EXTENDS Publication

CONSTANTS a, b, u1, u2, d, s1, s2

TwoRows == {a, b}
TwoRuns == {u1, u2}
OneDevice == {d}
BothList == [r \in TwoRows |-> {d}]
TwoSenders == [r \in TwoRows |-> IF r = a THEN s1 ELSE s2]
=============================================================================

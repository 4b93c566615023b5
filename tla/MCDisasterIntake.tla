--------------------------- MODULE MCDisasterIntake ---------------------------
(* Instances of DisasterIntake for TLC.                                      *)
EXTENDS DisasterIntake, TLC

CONSTANTS m1, m2, m3, id1, id2, c1, c2

ThreeMessages == {m1, m2, m3}
TwoCalls == {c1, c2}
TwoIdentifiers == {id1, id2}
SecondAlone == [m \in Messages |-> IF m = m2 THEN id2 ELSE id1]
LastMessage == {m3}

Interchangeable == Permutations(Calls)
=============================================================================

-------------------------- MODULE MCDisasterTransmit --------------------------
(* An instance of DisasterTransmit for TLC.                                  *)
EXTENDS DisasterTransmit

CONSTANTS a, sys1, u1, u2

OneRow == {a}
OneSystem == {sys1}
AllToOne == [r \in Rows |-> sys1]
TwoRuns == {u1, u2}
=============================================================================

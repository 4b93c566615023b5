---------------------------- MODULE MCConsumption ----------------------------
(* Instances of Consumption for TLC.                                         *)
EXTENDS Consumption

CONSTANTS m1, s1, s2

OneMessage == {m1}
TwoSystems == {s1, s2}
OneSystem == {s1}
=============================================================================

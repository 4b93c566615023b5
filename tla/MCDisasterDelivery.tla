-------------------------- MODULE MCDisasterDelivery --------------------------
(* Instances of DisasterDelivery for TLC.                                    *)
EXTENDS DisasterDelivery

CONSTANTS d1, s1, s2

OneDisaster == {d1}
TwoSystems == {s1, s2}
OneSystem == {s1}
=============================================================================

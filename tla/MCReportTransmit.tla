--------------------------- MODULE MCReportTransmit ---------------------------
(* Instances of ReportTransmit for TLC.                                     *)
EXTENDS ReportTransmit

CONSTANTS a, b, u1, t1, t2

TwoRows == {a, b}
Second == {b}
None == {}
SharedId == [r \in Rows |-> a]   \* two results of one disaster
OneRun == {u1}
OneTask == {t1}
TwoTasks == {t1, t2}
=============================================================================

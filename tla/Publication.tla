------------------------------ MODULE Publication ------------------------------
(***************************************************************************)
(* The publishing outbox of either service.  A process is one of           *)
(* central-service, whose rows are disasters, or one of external-service,  *)
(* whose rows are reports; both have the worker and the channel of         *)
(* PublishOutbox.                                                          *)
(***************************************************************************)
EXTENDS ReportPublish, DisasterPublish

VARIABLE service   \* the service this is a process of

publicationVars == <<vars, service>>

Central == service = "central"
External == service = "external"

PublicationInit ==
    /\ service \in {"central", "external"}
    /\ Init

PublicationNext ==
    /\ \/ Central /\ DisasterNext /\ UNCHANGED tables
       \/ External /\ Next
    /\ UNCHANGED service

PublicationSpec == PublicationInit /\ [][PublicationNext]_publicationVars

\* The interval keeps firing, the database answers or pg gives up, and requests are
\* handled; the broker need take nothing and need not come back.
PublicationFairness ==
    /\ WF_vars(BecomeCalm /\ UNCHANGED tables)
    /\ WF_vars(\E n \in Runs : Poll(n) /\ UNCHANGED tables)
    /\ WF_vars(\E j \in jobs : \/ Central /\ DisasterJobStep(j) /\ UNCHANGED tables
                               \/ External /\ JobStep(j))
    /\ WF_vars(\E r \in Rows : External /\ RequestStep(r))

FairPublicationSpec == PublicationSpec /\ PublicationFairness
-----------------------------------------------------------------------------
(* Properties.                                                              *)

\* A row is given up only after the failures were counted for it, MAX_RETRIES for
\* a disaster and one more for a report, since the workers compare with >= and >:
\* stale copies of it in other runs, crashes and refused queries do not shorten that.
GivesUpExhausted ==
    \A r \in Rows : status[r] = "FAILED" =>
        retry[r] >= IF External THEN MaxRetries + 1 ELSE MaxRetries

\* The other way round, overlapping runs of the worker of disasters charge a row
\* less often than MAX_RETRIES and the number of the runs together: only copies
\* read before the limit was reached publish.
ChargesBounded == Central => RetriesBounded

\* A report is taken as a whole or not at all (ReportsAreWhole).
TakenWhole == External => ReportsAreWhole
=============================================================================

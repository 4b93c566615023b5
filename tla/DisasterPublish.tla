--------------------------- MODULE DisasterPublish ---------------------------
(***************************************************************************)
(* The outbox of the central service: disaster_publish_logs, filled by     *)
(* disasterHandler and published by disasterPublishWorker.                 *)
(***************************************************************************)
EXTENDS PublishOutbox

\* disasterHandler commits a row.
CreateLog(r) ==
    /\ status[r] = "ABSENT"
    /\ status' = [status EXCEPT ![r] = "PENDING"]
    /\ UNCHANGED <<retry, jobs, network, handed, calm>>

\* Mutant: the limit is passed over by one, as with > instead of >=.
DisasterExhaustedLate(j) == j.retry > MaxRetries

\* Mutant: rows are given up one failure too early.
DisasterExhaustedEarly(j) == j.retry + 1 >= MaxRetries

DisasterExhausted(j) == j.retry >= MaxRetries

DisasterJobStep(j) ==
    \/ Process(j, DisasterExhausted(j)) \/ GiveUp(j) \/ MarkSuccess(j) \/ IncrementRetryCount(j)

\* updateStatusById FAILED has a try of its own, which logs the error.
DisasterGiveUpRefused(j) ==
    /\ ~calm
    /\ j.pc = "giveup"
    /\ Ends(j)
    /\ UNCHANGED <<database, network, handed, calm>>

DisasterNext ==
    \/ \E r \in Rows : CreateLog(r) \/ BrokerTakes(r)
    \/ \E n \in Runs : Poll(n)
    \/ \E j \in jobs : DisasterJobStep(j) \/ QueryError(j) \/ DisasterGiveUpRefused(j)
    \/ ConnectionLost \/ Reconnect \/ Restart \/ BecomeCalm

DisasterSpec == OutboxInit /\ [][DisasterNext]_outboxVars

-----------------------------------------------------------------------------
(* Properties.                                                              *)

\* A row is given up only after MAX_RETRIES failures were counted for it: stale
\* copies of it in other runs, crashes and refused queries do not shorten that.
FailedDisastersExhausted == \A r \in Rows : status[r] = "FAILED" => retry[r] >= MaxRetries

\* Overlapping runs charge a row less often than MAX_RETRIES and the number of
\* the runs together: only copies read before the limit was reached publish.
RetriesBounded == \A r \in Rows : retry[r] < MaxRetries + Cardinality(Runs)
=============================================================================

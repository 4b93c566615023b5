---------------------------- MODULE ReportPublish ----------------------------
(***************************************************************************)
(* How the external service takes reports and passes them on: the API      *)
(* under /api/reports, whose handlers write a report to api_receive_logs,  *)
(* to the tables of devices and to report_publish_logs in one transaction, *)
(* and reportPublishWorker, which publishes the rows.                      *)
(*                                                                         *)
(* A request has a row of its own; a system that got no answer sends its   *)
(* report in another request.  What a transaction wrote is seen by nobody  *)
(* until its COMMIT, so it is written there; a wait for the lock of a      *)
(* device is a slow query.                                                 *)
(***************************************************************************)
EXTENDS PublishOutbox

CONSTANTS
    Devices,    (* device_id of devices                                      *)
    DevicesOf,  (* the devices a device-info report lists, {} for the others *)
    SystemOf,   (* the system that sends the request of a row                *)
    PoolSize,   (* max of the pool                                           *)
    MaxCount    (* bound: retry counts a refused FAILED may still increment  *)

ASSUME RequestsAssumption ==
    /\ DevicesOf \in [Rows -> SUBSET Devices]
    /\ DOMAIN SystemOf = Rows
    /\ PoolSize \in Nat \ {0}
    /\ MaxCount \in Nat

VARIABLES
    request,   \* how far the request of a row is
    answer,    \* the status code that was sent
    received,  \* api_receive_logs
    devices    \* the report a row of devices has its values from

api == <<request, answer>>
vars == <<outboxVars, api, received, devices>>

Steps == {"none", "auth", "client", "write", "commit", "rollback", "answered", "cut"}

TypeOK ==
    /\ OutboxTypeOK
    /\ request \in [Rows -> Steps]
    /\ answer \in [Rows -> {"none", "200", "4xx", "500"}]
    /\ received \subseteq Rows
    /\ devices \in [Devices -> SUBSET Rows]

Init ==
    /\ OutboxInit
    /\ request = [r \in Rows |-> "none"]
    /\ answer = [r \in Rows |-> "none"]
    /\ received = {}
    /\ devices = [d \in Devices |-> {}]

-----------------------------------------------------------------------------
(* The API.                                                                 *)

RequestGoesTo(r, step) == request' = [request EXCEPT ![r] = step] /\ UNCHANGED answer

Answered(r, code) ==
    /\ request' = [request EXCEPT ![r] = "answered"]
    /\ answer' = [answer EXCEPT ![r] = code]

Requested(r) ==
    /\ request[r] = "none"
    /\ RequestGoesTo(r, "auth")
    /\ UNCHANGED <<outboxVars, received, devices>>

\* authMiddleware, the validators and handleValidationErrors, with their queries.
Authenticate(r) ==
    /\ request[r] = "auth"
    /\ RequestGoesTo(r, "client") \/ Answered(r, "4xx")
    /\ UNCHANGED <<outboxVars, received, devices>>

Holding == {r \in Rows : request[r] \in {"write", "commit", "rollback"}}

GetClient(r) ==
    /\ request[r] = "client"
    /\ Cardinality(Holding) < PoolSize
    /\ RequestGoesTo(r, "write")
    /\ UNCHANGED <<outboxVars, received, devices>>

\* connectionTimeoutMillis.
NoClient(r) ==
    /\ request[r] = "client"
    /\ Cardinality(Holding) = PoolSize \/ ~calm
    /\ Answered(r, "500")
    /\ UNCHANGED <<outboxVars, received, devices>>

\* device_id is unique in the table, and the upsert looks for it by system.
Taken(r) == \E d \in DevicesOf[r], q \in Rows : q \in devices[d] /\ SystemOf[q] # SystemOf[r]

\* Mutant: the log of the request is written on the pool.
WriteLogOutside(r) ==
    /\ request[r] = "write"
    /\ RequestGoesTo(r, "commit")
    /\ received' = received \cup {r}
    /\ UNCHANGED <<outboxVars, devices>>

\* BEGIN and the three writes.
Write(r) ==
    /\ request[r] = "write"
    /\ RequestGoesTo(r, "commit")
    /\ UNCHANGED <<outboxVars, received, devices>>

Committed(r) ==
    /\ received' = received \cup {r}
    /\ devices' = [d \in Devices |-> IF d \in DevicesOf[r] THEN {r} ELSE devices[d]]
    /\ status' = [status EXCEPT ![r] = "PENDING"]

Commit(r) ==
    /\ request[r] = "commit"
    /\ ~Taken(r)
    /\ Committed(r)
    /\ Answered(r, "200")
    /\ UNCHANGED <<retry, jobs, network, handed, calm>>

\* The upsert meets a device of another system.
Conflict(r) ==
    /\ request[r] = "commit"
    /\ Taken(r)
    /\ RequestGoesTo(r, "rollback")
    /\ UNCHANGED <<outboxVars, received, devices>>

\* Also a COMMIT that is in, but whose answer is lost.
HandlerFails(r) ==
    /\ ~calm
    /\ request[r] \in {"write", "commit"}
    /\ RequestGoesTo(r, "rollback")
    /\ \/ UNCHANGED <<status, received, devices>>
       \/ request[r] = "commit" /\ ~Taken(r) /\ Committed(r)
    /\ UNCHANGED <<retry, jobs, network, handed, calm>>

\* Mutant: the error is not passed on, and the client is not given back.
RollbackSilently(r) ==
    /\ request[r] = "rollback"
    /\ UNCHANGED vars

\* next(err) after the ROLLBACK; express does it for a ROLLBACK that throws.
Rollback(r) ==
    /\ request[r] = "rollback"
    /\ Answered(r, "500")
    /\ UNCHANGED <<outboxVars, received, devices>>

\* authMiddleware answers by itself, the validators through next.
AuthFails(r) ==
    /\ ~calm
    /\ request[r] = "auth"
    /\ Answered(r, "500")
    /\ UNCHANGED <<outboxVars, received, devices>>

RequestStep(r) ==
    \/ Authenticate(r) \/ GetClient(r) \/ NoClient(r) \/ Write(r)
    \/ Commit(r) \/ Conflict(r) \/ Rollback(r)

-----------------------------------------------------------------------------
(* The worker.                                                              *)

tables == <<api, received, devices>>

\* Mutant: the limit is the one of the other worker.
ExhaustedEarly(j) == j.retry >= MaxRetries

Exhausted(j) == j.retry > MaxRetries

JobStep(j) ==
    /\ \/ Process(j, Exhausted(j)) \/ GiveUp(j) \/ MarkSuccess(j) \/ IncrementRetryCount(j)
    /\ UNCHANGED tables

\* updateStatusById FAILED has no try of its own: its error is charged.
GiveUpRefused(j) ==
    /\ ~calm
    /\ j.pc = "giveup"
    /\ IF retry[j.row] < MaxCount THEN GoesTo(j, "bump") ELSE Ends(j)
    /\ UNCHANGED <<database, network, handed, calm, tables>>

\* The requests under way are cut with the process.
RestartService ==
    /\ Restart
    /\ request' = [r \in Rows |-> IF request[r] \in {"none", "answered"} THEN request[r]
                                  ELSE "cut"]
    /\ UNCHANGED <<answer, received, devices>>

Next ==
    \/ \E r \in Rows : Requested(r) \/ RequestStep(r) \/ HandlerFails(r) \/ AuthFails(r)
    \/ \E r \in Rows : BrokerTakes(r) /\ UNCHANGED tables
    \/ \E n \in Runs : Poll(n) /\ UNCHANGED tables
    \/ \E j \in jobs : JobStep(j) \/ (QueryError(j) /\ UNCHANGED tables) \/ GiveUpRefused(j)
    \/ (ConnectionLost \/ Reconnect \/ BecomeCalm) /\ UNCHANGED tables
    \/ RestartService

Spec == Init /\ [][Next]_vars

-----------------------------------------------------------------------------
(* Properties.                                                              *)

\* A report is taken as a whole or not at all, through refused queries, lost
\* COMMITs and restarts: the log of the request, the values of the devices and
\* the row for the central service are there together, and an answer 200 says so
\* (the handlers of reportHandler pass their client to every repository).
ReportsAreWhole ==
    /\ \A r \in Rows : r \in received <=> status[r] # "ABSENT"
    /\ \A r \in Rows : answer[r] = "200" => r \in received
    /\ \A d \in Devices : devices[d] \subseteq {r \in received : d \in DevicesOf[r]}

\* A report is given up only after MAX_RETRIES + 1 failures were counted, one
\* more than a disaster: this worker compares with >, the other with >=.
FailedMeansExhausted == \A r \in Rows : status[r] = "FAILED" => retry[r] > MaxRetries

\* Every request gets its answer, unless the process goes, and no request keeps
\* a client of the pool for ever.
EventuallyAnswered == <>[](\A r \in Rows : request[r] \in {"none", "answered", "cut"})
=============================================================================

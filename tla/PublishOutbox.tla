---------------------------- MODULE PublishOutbox ----------------------------
(***************************************************************************)
(* What the two publishing outboxes share.  disasterPublishWorker of the   *)
(* central service and reportPublishWorker of the external service are the *)
(* same code, but for their limit and for a FAILED that is refused: they   *)
(* poll a table and publish its rows through the channel of the message    *)
(* broker service.  DisasterPublish and ReportPublish extend this module.  *)
(*                                                                         *)
(* A run works on the rows as it read them, and setInterval starts the     *)
(* next one whether or not the last has ended.                             *)
(***************************************************************************)
EXTENDS Naturals, FiniteSets

CONSTANTS
    Rows,             (* rows of the table                                   *)
    Runs,             (* bound: runs of the worker that can overlap          *)
    MaxRetries,       (* MAX_RETRIES                                         *)
    ConcurrencyLimit  (* CONCURRENCY_LIMIT                                   *)

ASSUME OutboxAssumption ==
    /\ MaxRetries \in Nat
    /\ ConcurrencyLimit \in Nat \ {0}
    /\ IsFiniteSet(Runs) /\ Runs # {}

VARIABLES
    status, retry,  \* the columns of the table
    jobs,           \* calls of _processOutboxMessage, the ones pLimit holds back too
    channel,        \* is the module's channel set?
    buffer,         \* rows whose message is on its way to the broker
    delivered,      \* rows whose message the broker has
    handed,         \* rows channel.publish took, ever (ghost)
    calm            \* no more faults; queries come back before the next poll

database == <<status, retry>>
network == <<channel, buffer, delivered>>
outboxVars == <<database, jobs, network, handed, calm>>

Final == {"SUCCESS", "FAILED"}

Job == [run : Runs, row : Rows, retry : Nat, pc : {"queued", "giveup", "mark", "bump"}]

OutboxTypeOK ==
    /\ status \in [Rows -> {"ABSENT", "PENDING"} \cup Final]
    /\ retry \in [Rows -> Nat]
    /\ jobs \subseteq Job
    /\ channel \in BOOLEAN
    /\ buffer \subseteq Rows
    /\ delivered \subseteq Rows
    /\ handed \subseteq Rows
    /\ calm \in BOOLEAN

OutboxInit ==
    /\ status = [r \in Rows |-> "ABSENT"]
    /\ retry = [r \in Rows |-> 0]
    /\ jobs = {}
    /\ channel = TRUE
    /\ buffer = {} /\ delivered = {} /\ handed = {}
    /\ calm = FALSE

-----------------------------------------------------------------------------
(* The database.                                                            *)

Unprocessed == {r \in Rows : status[r] = "PENDING"}

\* updateStatusById looks at the id alone.
SetStatus(r, s) == status' = [status EXCEPT ![r] = s]

-----------------------------------------------------------------------------
(* The worker.                                                              *)

\* _run: jobs carry the retry count as it was read.
Poll(n) ==
    /\ \A j \in jobs : j.run # n
    /\ calm => jobs = {}
    /\ Unprocessed # {}
    /\ jobs' = jobs \cup {[run |-> n, row |-> r, retry |-> retry[r], pc |-> "queued"] :
                          r \in Unprocessed}
    /\ UNCHANGED <<database, network, handed, calm>>

GoesTo(j, pc) == jobs' = (jobs \ {j}) \cup {[j EXCEPT !.pc = pc]}
Ends(j) == jobs' = jobs \ {j}
Running == {j \in jobs : j.pc # "queued"}

\* Mutant: the channel is not looked at.
PublishBlindly(j) ==
    GoesTo(j, "mark") /\ UNCHANGED <<buffer, handed>>

\* publishDisaster and publishReport throw without a channel, else the message is
\* in the buffer of its socket.
PublishMessage(j) ==
    \/ /\ channel
       /\ buffer' = buffer \cup {j.row}
       /\ handed' = handed \cup {j.row}
       /\ GoesTo(j, "mark")
    \/ /\ ~channel
       /\ GoesTo(j, "bump")
       /\ UNCHANGED <<buffer, handed>>

\* _processOutboxMessage up to its first await; exhausted is its own test of the
\* count the row had when it was read.
Process(j, exhausted) ==
    /\ j.pc = "queued"
    /\ Cardinality(Running) < ConcurrencyLimit
    /\ \/ /\ exhausted
          /\ GoesTo(j, "giveup")
          /\ UNCHANGED <<buffer, handed>>
       \/ ~exhausted /\ PublishMessage(j)
    /\ UNCHANGED <<database, channel, delivered, calm>>

GiveUp(j) ==
    /\ j.pc = "giveup"
    /\ SetStatus(j.row, "FAILED")
    /\ Ends(j)
    /\ UNCHANGED <<retry, network, handed, calm>>

MarkSuccess(j) ==
    /\ j.pc = "mark"
    /\ SetStatus(j.row, "SUCCESS")
    /\ Ends(j)
    /\ UNCHANGED <<retry, network, handed, calm>>

\* Mutant: a failure is not counted.
ForgetFailure(j) ==
    /\ j.pc = "bump"
    /\ Ends(j)
    /\ UNCHANGED <<database, network, handed, calm>>

\* Mutant: the failed row is made PENDING again, as the transmit workers do.
IncrementAndReopen(j) ==
    /\ j.pc = "bump"
    /\ retry' = [retry EXCEPT ![j.row] = @ + 1]
    /\ SetStatus(j.row, "PENDING")
    /\ Ends(j)
    /\ UNCHANGED <<network, handed, calm>>

IncrementRetryCount(j) ==
    /\ j.pc = "bump"
    /\ retry' = [retry EXCEPT ![j.row] = @ + 1]
    /\ Ends(j)
    /\ UNCHANGED <<status, network, handed, calm>>

\* A failed SUCCESS is charged like a failed publication, also when the UPDATE
\* is in and its answer lost; a failed increment is only logged.
QueryError(j) ==
    /\ ~calm
    /\ \/ j.pc = "mark" /\ GoesTo(j, "bump") /\ UNCHANGED status
       \/ j.pc = "mark" /\ GoesTo(j, "bump") /\ SetStatus(j.row, "SUCCESS")
       \/ j.pc = "bump" /\ Ends(j) /\ UNCHANGED status
    /\ UNCHANGED <<retry, network, handed, calm>>

-----------------------------------------------------------------------------
(* The broker and the process.                                              *)

BrokerTakes(r) ==
    /\ channel
    /\ r \in buffer
    /\ buffer' = buffer \ {r}
    /\ delivered' = delivered \cup {r}
    /\ UNCHANGED <<database, jobs, channel, handed, calm>>

\* 'close': what was not sent is gone with the socket.
ConnectionLost ==
    /\ ~calm
    /\ channel' = FALSE
    /\ buffer' = {}
    /\ UNCHANGED <<database, jobs, delivered, handed, calm>>

\* start(), 5 s later or in a new process.
Reconnect ==
    /\ ~channel
    /\ channel' = TRUE
    /\ UNCHANGED <<database, jobs, buffer, delivered, handed, calm>>

Restart ==
    /\ ~calm
    /\ jobs' = {}
    /\ channel' = TRUE
    /\ buffer' = {}
    /\ UNCHANGED <<database, delivered, handed, calm>>

BecomeCalm ==
    /\ ~calm
    /\ calm' = TRUE
    /\ UNCHANGED <<database, jobs, network, handed>>

-----------------------------------------------------------------------------
(* Properties.                                                              *)

\* A row is SUCCESS only if an open channel took its message, whatever runs
\* overlap and whenever the connection goes (publishDisaster and publishReport
\* throw, so the UPDATE is not reached).
SuccessWasHanded == \A r \in Rows : status[r] = "SUCCESS" => r \in handed

\* If faults stop every row ends up SUCCESS or FAILED for good, also when the
\* broker never comes back.
EventuallyFinal == \A r \in Rows : <>[](status[r] \in Final \cup {"ABSENT"})

\* What the table shows of the queue: the promise of Outbox.
Promise == INSTANCE Outbox WITH phase <- status

\* A row that got a verdict is never open again, and SUCCESS comes after a
\* publication: stale copies of a row in overlapping runs, lost answers and
\* restarts do not undo that (the worker writes verdicts and counts, and nothing
\* else).
ImplementsOutbox == Promise!Spec
=============================================================================

---------------------------- MODULE ReportTransmit ----------------------------
(***************************************************************************)
(* The report outbox of the central service: rows of report_transmit_logs  *)
(* are picked up by a polling worker, sent over TCP to the central system, *)
(* marked SENT, guarded by an in-memory ACK timer and retried with a new   *)
(* sequence number until they are SUCCESS or FAILED.                       *)
(*                                                                         *)
(* A JavaScript function runs without interruption up to its next await,   *)
(* so a step below is the execution of one database query, or the code     *)
(* that runs between two awaits.  The two are merged where that code only  *)
(* issues the next query, which is executed by a later step in any case.   *)
(***************************************************************************)
EXTENDS Naturals, Sequences, FiniteSets

CONSTANTS
    Rows,             (* ids of report_transmit_logs                          *)
    ResultRows,       (* the rows of type DISASTER_RESULT                     *)
    OutboundId,       (* the outbound_id of each row                          *)
    LateRows,         (* bound: rows that are written once faults have stopped *)
    Runs,             (* bound: worker runs whose jobs may overlap            *)
    Tasks,            (* bound: timer and answer callbacks running at a time  *)
    MaxRetries,       (* MAX_RETRIES                                          *)
    ConcurrencyLimit, (* CONCURRENCY_LIMIT of p-limit                         *)
    MaxWire           (* bound: messages and answers in flight                *)

ASSUME ConstantsAssumption ==
    /\ ResultRows \subseteq Rows
    /\ DOMAIN OutboundId = Rows
    /\ MaxRetries \in Nat
    /\ ConcurrencyLimit \in Nat \ {0}
    /\ MaxWire \in Nat \ {0}
    /\ IsFiniteSet(Tasks) /\ Tasks # {}

VARIABLES
    status, retry, seq, \* columns status, retry_count, report_sequence
    due,                \* rows whose updated_at is older than TRANSMISSION_TIMEOUT
    timers,             \* keys of activeTimeouts
    jobs,               \* processMessage calls, with the row as the worker read it
    lookups,            \* processAck calls awaiting their row
    flows,              \* the rest of processAck, and processFailure
    connected,          \* sessionManager.isConnected()
    toCentral, answers, \* the two directions of the TCP connection
    accepted,           \* messages the central system took (ghost)
    calm                \* no more faults, queries finish before the next event

database == <<status, retry, seq, due>>
memory == <<timers, jobs, lookups, flows>>
network == <<connected, toCentral, answers>>
vars == <<database, memory, network, accepted, calm>>

Ids == {OutboundId[r] : r \in Rows}
Final == {"SUCCESS", "FAILED"}
Statuses == {"ABSENT", "PENDING", "SENT"} \cup Final

Job == [run : Runs, row : Rows, seq : Nat, retry : Nat,
        pc : {"queued", "lookup", "mark", "arm", "fail"}]
Lookup == [task : Tasks, id : Ids, seq : Nat, ok : BOOLEAN]
Flow == [task : Tasks, row : Rows,
         pc : {"foundOk", "foundNack", "foundFinal", "success",
               "check", "giveup", "bump", "repend"}]
Message == [row : Rows, id : Ids, seq : Nat]
Answer == [id : Ids, seq : Nat, ok : BOOLEAN]

TypeOK ==
    /\ status \in [Rows -> Statuses]
    /\ retry \in [Rows -> Nat]
    /\ seq \in [Rows -> Nat]
    /\ due \subseteq Rows
    /\ timers \subseteq Rows
    /\ jobs \subseteq Job
    /\ lookups \subseteq Lookup
    /\ flows \subseteq Flow
    /\ connected \in BOOLEAN
    /\ toCentral \in Seq(Message)
    /\ answers \in Seq(Answer)
    /\ accepted \subseteq Message
    /\ calm \in BOOLEAN

Init ==
    /\ status = [r \in Rows |-> "ABSENT"]
    /\ retry = [r \in Rows |-> 0]
    /\ seq = [r \in Rows |-> 1]
    /\ due = {}
    /\ timers = {} /\ jobs = {} /\ lookups = {} /\ flows = {}
    /\ connected = FALSE
    /\ toCentral = <<>> /\ answers = <<>>
    /\ accepted = {}
    /\ calm = FALSE

-----------------------------------------------------------------------------
(* Who is running, and what a callback may overtake.                        *)

Quiet == jobs = {} /\ lookups = {} /\ flows = {}
Room == Len(toCentral) + Len(answers) < MaxWire

\* Timers, polls and socket events may overtake queries in flight until calm.
MayInterrupt == calm => Quiet

IdleTask(t) == \A x \in lookups \cup flows : x.task # t
IdleRun(n) == \A j \in jobs : j.run # n
Running == {j \in jobs : j.pc # "queued"}

SetStatus(r, s) ==
    /\ status' = [status EXCEPT ![r] = s]
    /\ due' = due \ {r}
    /\ UNCHANGED <<retry, seq>>

JobGoesTo(j, pc) == jobs' = (jobs \ {j}) \cup {[j EXCEPT !.pc = pc]}
FlowGoesTo(f, pc) == flows' = (flows \ {f}) \cup {[f EXCEPT !.pc = pc]}

-----------------------------------------------------------------------------
(* The worker and processMessage.                                           *)

CreateLog(r) ==
    /\ status[r] = "ABSENT"
    /\ r \in LateRows => calm
    /\ status' = [status EXCEPT ![r] = "PENDING"]
    /\ UNCHANGED <<retry, seq, due, memory, network, accepted, calm>>

\* Mutant: rows left SENT are never picked up again.
PendingOnly == {r \in Rows : status[r] = "PENDING"}

Unprocessed == {r \in Rows : status[r] = "PENDING" \/ (status[r] = "SENT" /\ r \in due)}

Snapshot(n, r) ==
    [run |-> n, row |-> r, seq |-> seq[r], retry |-> retry[r], pc |-> "queued"]

\* Nothing keeps a run from starting while the jobs of the last one are unfinished.
Poll(n) ==
    /\ IdleRun(n)
    /\ MayInterrupt
    /\ jobs' = jobs \cup {Snapshot(n, r) : r \in Unprocessed}
    /\ UNCHANGED <<database, timers, lookups, flows, network, accepted, calm>>

\* The catch block: the row's timer goes, an UPDATE to FAILED is issued.
Throw(j) ==
    /\ JobGoesTo(j, "fail")
    /\ timers' = timers \ {j.row}
    /\ UNCHANGED network

\* The message may be built from unusable content.  send only logs when cut off;
\* when it has no buffer to write, or the write throws, it destroys the connection.
BuildAndSend(j) ==
    \/ Throw(j)
    \/ /\ connected
       /\ Room
       /\ toCentral' = Append(toCentral,
                              [row |-> j.row, id |-> OutboundId[j.row], seq |-> j.seq])
       /\ JobGoesTo(j, "mark")
       /\ UNCHANGED <<timers, connected, answers>>
    \/ /\ connected' = FALSE
       /\ toCentral' = <<>> /\ answers' = <<>>
       /\ JobGoesTo(j, "mark")
       /\ UNCHANGED timers

StartJob(j) ==
    /\ j.pc = "queued"
    /\ Cardinality(Running) < ConcurrencyLimit
    /\ \/ /\ j.retry > MaxRetries
          /\ Throw(j)
       \/ /\ j.retry <= MaxRetries
          /\ ~connected
          /\ jobs' = jobs \ {j}
          /\ UNCHANGED <<timers, network>>
       \/ /\ j.retry <= MaxRetries
          /\ connected
          /\ j.row \in ResultRows
          /\ JobGoesTo(j, "lookup")
          /\ UNCHANGED <<timers, network>>
       \/ /\ j.retry <= MaxRetries
          /\ connected
          /\ j.row \notin ResultRows
          /\ BuildAndSend(j)
    /\ UNCHANGED <<database, lookups, flows, accepted, calm>>

LookUpOriginal(j) ==
    /\ j.pc = "lookup"
    /\ BuildAndSend(j)
    /\ UNCHANGED <<database, lookups, flows, accepted, calm>>

MarkSent(j) ==
    /\ j.pc = "mark"
    /\ SetStatus(j.row, "SENT")
    /\ JobGoesTo(j, "arm")
    /\ UNCHANGED <<timers, lookups, flows, network, accepted, calm>>

ArmTimer(j) ==
    /\ j.pc = "arm"
    /\ timers' = timers \cup {j.row}
    /\ jobs' = jobs \ {j}
    /\ UNCHANGED <<database, lookups, flows, network, accepted, calm>>

MarkFailed(j) ==
    /\ j.pc = "fail"
    /\ SetStatus(j.row, "FAILED")
    /\ jobs' = jobs \ {j}
    /\ UNCHANGED <<timers, lookups, flows, network, accepted, calm>>

JobStep(j) ==
    StartJob(j) \/ LookUpOriginal(j) \/ MarkSent(j) \/ ArmTimer(j) \/ MarkFailed(j)

-----------------------------------------------------------------------------
(* processAck.                                                              *)

AnswerArrives(t) ==
    /\ answers # <<>>
    /\ IdleTask(t)
    /\ MayInterrupt \/ ~Room
    /\ LET answer == Head(answers) IN
           lookups' = lookups \cup {[task |-> t, id |-> answer.id, seq |-> answer.seq, ok |-> answer.ok]}
    /\ answers' = Tail(answers)
    /\ UNCHANGED <<database, timers, jobs, flows, connected, toCentral, accepted, calm>>

Matches(a) == {r \in Rows : status[r] # "ABSENT" /\ OutboundId[r] = a.id /\ seq[r] = a.seq}

\* Mutant: the result code of the answer is not looked at.
VerdictWithoutCode(a, r) == IF status[r] \in Final THEN "foundFinal" ELSE "foundOk"

\* What the rest of processAck will do was fixed by the row as it was read.
Verdict(a, r) ==
    CASE status[r] \in Final -> "foundFinal"
      [] status[r] \notin Final /\ a.ok -> "foundOk"
      [] OTHER -> "foundNack"

FindAnswered(a) ==
    /\ lookups' = lookups \ {a}
    /\ \/ /\ Matches(a) = {}
          /\ UNCHANGED flows
       \/ \E r \in Matches(a) :
              flows' = flows \cup {[task |-> a.task, row |-> r, pc |-> Verdict(a, r)]}
    /\ UNCHANGED <<database, timers, jobs, network, accepted, calm>>

StopTimer(f) ==
    /\ \/ f.pc = "foundFinal" /\ flows' = flows \ {f}
       \/ f.pc = "foundOk" /\ FlowGoesTo(f, "success")
       \/ f.pc = "foundNack" /\ FlowGoesTo(f, "check")
    /\ timers' = timers \ {f.row}
    /\ UNCHANGED <<database, jobs, lookups, network, accepted, calm>>

\* Mutant: a status the table does not know is written.
RecordAcknowledged(f) ==
    /\ f.pc = "success"
    /\ SetStatus(f.row, "ACK")
    /\ flows' = flows \ {f}
    /\ UNCHANGED <<timers, jobs, lookups, network, accepted, calm>>

RecordSuccess(f) ==
    /\ f.pc = "success"
    /\ SetStatus(f.row, "SUCCESS")
    /\ flows' = flows \ {f}
    /\ UNCHANGED <<timers, jobs, lookups, network, accepted, calm>>

-----------------------------------------------------------------------------
(* The ACK timer and processFailure.                                        *)

TimerFires(r, t) ==
    /\ r \in timers
    /\ IdleTask(t)
    /\ MayInterrupt
    /\ timers' = timers \ {r}
    /\ flows' = flows \cup {[task |-> t, row |-> r, pc |-> "check"]}
    /\ UNCHANGED <<database, jobs, lookups, network, accepted, calm>>

\* Mutant: a row is given up one retry too early.
VerdictTooEarly(f) == IF retry[f.row] + 1 >= MaxRetries THEN "giveup" ELSE "bump"

\* Mutant: the number of retries is not limited here.
VerdictWithoutLimit(f) == "bump"

FailureVerdict(f) == IF retry[f.row] + 1 > MaxRetries THEN "giveup" ELSE "bump"

\* Mutant: a failure is processed without looking at the row's state again.
CheckWithoutState(f) ==
    /\ f.pc = "check"
    /\ FlowGoesTo(f, FailureVerdict(f))
    /\ UNCHANGED <<database, timers, jobs, lookups, network, accepted, calm>>

CheckFailure(f) ==
    /\ f.pc = "check"
    /\ \/ status[f.row] \in Final /\ flows' = flows \ {f}
       \/ /\ status[f.row] \notin Final
          /\ FlowGoesTo(f, FailureVerdict(f))
    /\ UNCHANGED <<database, timers, jobs, lookups, network, accepted, calm>>

GiveUp(f) ==
    /\ f.pc = "giveup"
    /\ SetStatus(f.row, "FAILED")
    /\ flows' = flows \ {f}
    /\ UNCHANGED <<timers, jobs, lookups, network, accepted, calm>>

IncrementRetryCountAndReportSequence(f) ==
    /\ f.pc = "bump"
    /\ retry' = [retry EXCEPT ![f.row] = @ + 1]
    /\ seq' = [seq EXCEPT ![f.row] = @ + 1]
    /\ due' = due \ {f.row}
    /\ FlowGoesTo(f, "repend")
    /\ UNCHANGED <<status, timers, jobs, lookups, network, accepted, calm>>

Requeue(f) ==
    /\ f.pc = "repend"
    /\ SetStatus(f.row, "PENDING")
    /\ flows' = flows \ {f}
    /\ UNCHANGED <<timers, jobs, lookups, network, accepted, calm>>

FlowStep(f) ==
    \/ StopTimer(f) \/ RecordSuccess(f) \/ CheckFailure(f)
    \/ GiveUp(f) \/ IncrementRetryCountAndReportSequence(f) \/ Requeue(f)

-----------------------------------------------------------------------------
(* A query is refused: what each function does with the error.              *)

QueryErrorInJob(j) ==
    /\ ~calm
    /\ \/ j.pc \in {"lookup", "mark"} /\ Throw(j)
       \/ j.pc = "fail" /\ jobs' = jobs \ {j} /\ UNCHANGED <<timers, network>>
    /\ UNCHANGED <<database, lookups, flows, accepted, calm>>

QueryErrorInLookup(a) ==
    /\ ~calm
    /\ lookups' = lookups \ {a}
    /\ UNCHANGED <<database, timers, jobs, flows, network, accepted, calm>>

QueryErrorInFlow(f) ==
    /\ ~calm
    /\ \/ /\ f.pc = "success"
          /\ FlowGoesTo(f, "check")
          /\ timers' = timers \ {f.row}
       \/ /\ f.pc \in {"check", "giveup", "bump", "repend"}
          /\ flows' = flows \ {f}
          /\ UNCHANGED timers
    /\ UNCHANGED <<database, jobs, lookups, network, accepted, calm>>

-----------------------------------------------------------------------------
(* The rest of the world.                                                   *)

\* updated_at of a SENT row passes TRANSMISSION_TIMEOUT.  The row's timer was
\* started just after updated_at was set: while queries are prompt it fires
\* before a poll sees the row as overdue.
BecomesDue(r) ==
    /\ status[r] = "SENT"
    /\ r \notin due
    /\ calm => Quiet /\ r \notin timers
    /\ due' = due \cup {r}
    /\ UNCHANGED <<status, retry, seq, memory, network, accepted, calm>>

\* The central system takes or refuses a report, and may stay silent either way.
CentralReceives ==
    /\ toCentral # <<>>
    /\ MayInterrupt \/ ~Room
    /\ LET m == Head(toCentral) IN
       \E ok \in BOOLEAN :
           /\ accepted' = IF ok THEN accepted \cup {m} ELSE accepted
           /\ answers' \in {answers, Append(answers, [id |-> m.id, seq |-> m.seq, ok |-> ok])}
    /\ toCentral' = Tail(toCentral)
    /\ UNCHANGED <<database, memory, connected, calm>>

Connect ==
    /\ ~connected
    /\ connected' = TRUE
    /\ UNCHANGED <<database, memory, toCentral, answers, accepted, calm>>

Disconnect ==
    /\ ~calm
    /\ connected
    /\ connected' = FALSE
    /\ toCentral' = <<>> /\ answers' = <<>>
    /\ UNCHANGED <<database, memory, accepted, calm>>

\* gracefulShutdown or a kill, then a restart: only the table is left.
Restart ==
    /\ ~calm
    /\ timers' = {} /\ jobs' = {} /\ lookups' = {} /\ flows' = {}
    /\ connected' = FALSE
    /\ toCentral' = <<>> /\ answers' = <<>>
    /\ UNCHANGED <<database, accepted, calm>>

BecomeCalm ==
    /\ ~calm
    /\ calm' = TRUE
    /\ UNCHANGED <<database, memory, network, accepted>>

Faults ==
    \/ \E j \in jobs : QueryErrorInJob(j)
    \/ \E a \in lookups : QueryErrorInLookup(a)
    \/ \E f \in flows : QueryErrorInFlow(f)
    \/ Disconnect
    \/ Restart

Next ==
    \/ \E r \in Rows : CreateLog(r) \/ BecomesDue(r)
    \/ \E n \in Runs : Poll(n)
    \/ \E j \in jobs : JobStep(j)
    \/ \E t \in Tasks : AnswerArrives(t)
    \/ \E a \in lookups : FindAnswered(a)
    \/ \E f \in flows : FlowStep(f)
    \/ \E r \in Rows, t \in Tasks : TimerFires(r, t)
    \/ CentralReceives
    \/ Connect
    \/ Faults
    \/ BecomeCalm

Spec == Init /\ [][Next]_vars

\* The event loop runs every callback, the poll interval and the ACK timers
\* keep firing, the database and the connection answer.  Nothing is assumed of
\* the reports that arrive or of what the central system answers.
Fairness ==
    /\ WF_vars(BecomeCalm)
    /\ WF_vars(Connect)
    /\ WF_vars(CentralReceives)
    /\ WF_vars(\E n \in Runs : Poll(n))
    /\ WF_vars(\E r \in Rows : BecomesDue(r))
    /\ WF_vars(\E j \in jobs : JobStep(j))
    /\ WF_vars(\E t \in Tasks : AnswerArrives(t))
    /\ WF_vars(\E a \in lookups : FindAnswered(a))
    /\ WF_vars(\E f \in flows : FlowStep(f))
    /\ WF_vars(\E r \in Rows, t \in Tasks : TimerFires(r, t))

FairSpec == Spec /\ Fairness
-----------------------------------------------------------------------------
(* Properties.                                                              *)

\* Whatever callbacks overlap, the sequence number on the wire counts the
\* retries that were charged: one UPDATE moves both columns
\* (incrementRetryCountAndReportSequence).
SequenceTracksRetries == \A r \in Rows : seq[r] = retry[r] + 1

\* The central system took a report with this outbound_id, in attempt n or before.
AcceptedAs(id, n) == \E m \in accepted : OutboundId[m.row] = id /\ m.seq <= n

\* A row is SUCCESS only if the central system took a report with its outbound_id,
\* in an attempt the row had made, across restarts, stale answers, resends and
\* overlapping callbacks (processAck).  It is the row's own report if no other row
\* has its id; the query by outbound_id and sequence cannot tell rows apart that do.
SuccessMeansAccepted ==
    \A r \in Rows : status[r] = "SUCCESS" => AcceptedAs(OutboundId[r], seq[r])

\* Why SuccessMeansAccepted holds: acceptance travels with the answer, from the
\* wire to the callback that writes SUCCESS, by outbound_id and sequence number,
\* and sequence numbers only grow.
AcceptanceTrail ==
    /\ \A i \in 1..Len(toCentral) : toCentral[i].id = OutboundId[toCentral[i].row]
    /\ \A i \in 1..Len(answers) : answers[i].ok => AcceptedAs(answers[i].id, answers[i].seq)
    /\ \A a \in lookups : a.ok => AcceptedAs(a.id, a.seq)
    /\ \A f \in flows : f.pc \in {"foundOk", "success"} => AcceptedAs(OutboundId[f.row], seq[f.row])
    /\ SuccessMeansAccepted

\* The outbound_id is the unique identifier of its message (capService): a row is
\* SUCCESS only if the central system took this very report.
SuccessIsItsOwn == \A r \in Rows : status[r] = "SUCCESS" => \E m \in accepted : m.row = r

\* processFailure runs once per timer and once per NACK, side by side: the
\* retries charged to a row overshoot MAX_RETRIES by less than the number of
\* callbacks that can run together.
OvershootBounded == \A r \in Rows : retry[r] < MaxRetries + Cardinality(Tasks)

\* A row is given up only when its retries are used up or processMessage threw
\* for it: a NACK, a timeout, a lost connection or a restart alone never does.
GivesUpWithCause ==
    \A r \in Rows : status[r] # "FAILED" /\ status'[r] = "FAILED" =>
        \/ retry[r] >= MaxRetries
        \/ \E j \in jobs : j.row = r /\ j.pc = "fail"

GivesUpOnlyWhenExhausted == [][GivesUpWithCause]_vars

\* Why GivesUpOnlyWhenExhausted holds: the count a callback read never shrinks.
GiveUpsAreExhausted == \A f \in flows : f.pc = "giveup" => retry[f.row] >= MaxRetries

\* No job holds a copy of the row, no callback is about to write it.
Settled(r) ==
    /\ status[r] \in Final
    /\ \A j \in jobs : j.row # r
    /\ \A f \in flows : f.row = r => f.pc \in {"foundFinal", "check"}

\* Once nothing in flight remembers the row as open, its verdict is kept for
\* good: late answers, an old timer and every later poll leave it alone.
KeepsVerdicts ==
    \A r \in Rows : Settled(r) =>
        Settled(r)' /\ status'[r] = status[r] /\ retry'[r] = retry[r]

FinalStaysFinal == [][KeepsVerdicts]_vars

\* Every report ends up SUCCESS or FAILED and stays there, if faults stop and
\* queries become prompt at some time, even if the central system never answers.
EventuallyFinal == \A r \in Rows : <>[](status[r] \in Final \cup {"ABSENT"})
=============================================================================

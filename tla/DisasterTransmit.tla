--------------------------- MODULE DisasterTransmit ---------------------------
(***************************************************************************)
(* The disaster outbox of the external service: rows of                    *)
(* disaster_transmit_logs are polled, offered to the socket registered for *)
(* their external system with an acknowledgement callback and a timer, and *)
(* offered again until they are SUCCESS or FAILED.                         *)
(*                                                                         *)
(* A step is the execution of one database query, or the code between two  *)
(* awaits; the continuation of a query is merged with it where it only     *)
(* issues the next query.                                                  *)
(***************************************************************************)
EXTENDS Naturals, FiniteSets

CONSTANTS
    Rows,             (* ids of disaster_transmit_logs                        *)
    Systems,          (* ids of external_systems                              *)
    SystemOf,         (* external_system_id of each row                       *)
    Runs,             (* bound: worker runs with attempts still outstanding   *)
    MaxRetries,       (* MAX_RETRIES                                          *)
    ConcurrencyLimit  (* CONCURRENCY_LIMIT of p-limit                         *)

ASSUME ConstantsAssumption ==
    /\ SystemOf \in [Rows -> Systems]
    /\ MaxRetries \in Nat
    /\ ConcurrencyLimit \in Nat \ {0}

VARIABLES
    status, retry,  \* columns status and retry_count
    due,            \* rows whose updated_at is older than TRANSMISSION_TIMEOUT
    attempts,       \* _processMessage calls and the closures they leave behind
    flows,          \* _processAck and _processFailure calls
    session,        \* what getSocketBySystemId returns: none, a live or a dead socket
    acknowledged,   \* rows their external system acknowledged (ghost)
    calm            \* no more faults, queries finish before the next event

database == <<status, retry, due>>
vars == <<database, attempts, flows, session, acknowledged, calm>>

Final == {"SUCCESS", "FAILED"}
Statuses == {"ABSENT", "PENDING", "SENT"} \cup Final

\* retry is the count _processMessage read; live tells whether the socket it
\* found is still connected; answer is what the client sent back and is on its
\* way.  An attempt whose timer went off stays: its callback can still be called.
Attempt == [run : Runs, row : Rows, retry : Nat,
            pc : {"find", "expire", "offline", "mark", "waiting", "late"},
            live : BOOLEAN, answer : {"none", "ack", "nack"}]
Flow == [run : Runs, row : Rows, retry : Nat, by : {"call", "timer", "answer"},
         pc : {"findAck", "success", "check", "bump", "requeue", "giveup"}]

TypeOK ==
    /\ status \in [Rows -> Statuses]
    /\ retry \in [Rows -> Nat]
    /\ due \subseteq Rows
    /\ attempts \subseteq Attempt
    /\ flows \subseteq Flow
    /\ session \in [Systems -> {"none", "live", "dead"}]
    /\ acknowledged \subseteq Rows
    /\ calm \in BOOLEAN

Init ==
    /\ status = [r \in Rows |-> "ABSENT"]
    /\ retry = [r \in Rows |-> 0]
    /\ due = {}
    /\ attempts = {} /\ flows = {}
    /\ session = [s \in Systems |-> "none"]
    /\ acknowledged = {}
    /\ calm = FALSE

-----------------------------------------------------------------------------
Outstanding == {c \in attempts : c.pc \in {"waiting", "late"}}
Running == {c \in attempts : c.pc \in {"expire", "offline", "mark"}}
Quiet == attempts = Outstanding /\ flows = {}

\* Timers, polls and socket events may overtake queries in flight until calm.
MayInterrupt == calm => Quiet

IdleRun(n) == \A c \in attempts \cup flows : c.run # n

SetStatus(r, s) ==
    /\ status' = [status EXCEPT ![r] = s]
    /\ due' = due \ {r}
    /\ UNCHANGED retry

Becomes(c, d) == attempts' = (attempts \ {c}) \cup {d}
FlowGoesTo(f, pc) == flows' = (flows \ {f}) \cup {[f EXCEPT !.pc = pc]}
FlowOf(c, by, pc) == [run |-> c.run, row |-> c.row, retry |-> c.retry, by |-> by, pc |-> pc]
StartFlow(c, by, pc) == flows' = flows \cup {FlowOf(c, by, pc)}

-----------------------------------------------------------------------------
(* The worker and _processMessage.                                          *)

CreateLog(r) ==
    /\ status[r] = "ABSENT"
    /\ status' = [status EXCEPT ![r] = "PENDING"]
    /\ UNCHANGED <<retry, due, attempts, flows, session, acknowledged, calm>>

\* Mutant: rows left SENT are never picked up again.
PendingOnly == {r \in Rows : status[r] = "PENDING"}

Unprocessed == {r \in Rows : status[r] = "PENDING" \/ (status[r] = "SENT" /\ r \in due)}

Queued(n, r) ==
    [run |-> n, row |-> r, retry |-> 0, pc |-> "find", live |-> FALSE, answer |-> "none"]

Poll(n) ==
    /\ IdleRun(n)
    /\ MayInterrupt
    /\ attempts' = attempts \cup {Queued(n, r) : r \in Unprocessed}
    /\ UNCHANGED <<database, flows, session, acknowledged, calm>>

\* findById, then the checks that lead to the next query.
FindLog(c) ==
    LET count == retry[c.row]
        socket == session[SystemOf[c.row]]
    IN
    /\ c.pc = "find"
    /\ Cardinality(Running) < ConcurrencyLimit
    /\ \/ /\ status[c.row] \in Final
          /\ attempts' = attempts \ {c}
       \/ /\ status[c.row] \notin Final
          /\ count >= MaxRetries
          /\ Becomes(c, [c EXCEPT !.pc = "expire", !.retry = count])
       \/ /\ status[c.row] = "SENT"
          /\ count < MaxRetries
          /\ socket = "none"
          /\ Becomes(c, [c EXCEPT !.pc = "offline", !.retry = count])
       \/ /\ status[c.row] = "PENDING"
          /\ count < MaxRetries
          /\ socket = "none"
          /\ attempts' = attempts \ {c}
       \/ /\ status[c.row] \notin Final
          /\ count < MaxRetries
          /\ socket # "none"
          /\ Becomes(c, [c EXCEPT !.pc = "mark", !.retry = count, !.live = (socket = "live")])
    /\ UNCHANGED <<database, flows, session, acknowledged, calm>>

Expire(c) ==
    /\ c.pc = "expire"
    /\ SetStatus(c.row, "FAILED")
    /\ attempts' = attempts \ {c}
    /\ UNCHANGED <<flows, session, acknowledged, calm>>

SendBackOffline(c) ==
    /\ c.pc = "offline"
    /\ SetStatus(c.row, "PENDING")
    /\ attempts' = attempts \ {c}
    /\ UNCHANGED <<flows, session, acknowledged, calm>>

MarkSent(c) ==
    /\ c.pc = "mark"
    /\ SetStatus(c.row, "SENT")
    /\ Becomes(c, [c EXCEPT !.pc = "waiting"])
    /\ UNCHANGED <<flows, session, acknowledged, calm>>

AttemptStep(c) == FindLog(c) \/ Expire(c) \/ SendBackOffline(c) \/ MarkSent(c)

-----------------------------------------------------------------------------
(* The external system, the acknowledgement callback and the timer.         *)

\* Only 'ack' with the row's own id counts; any other answer is a refusal.
ClientAnswers(c) ==
    /\ c.pc \in {"waiting", "late"}
    /\ c.live
    /\ c.answer = "none"
    /\ \/ /\ Becomes(c, [c EXCEPT !.answer = "ack"])
          /\ acknowledged' = acknowledged \cup {c.row}
       \/ /\ Becomes(c, [c EXCEPT !.answer = "nack"])
          /\ UNCHANGED acknowledged
    /\ UNCHANGED <<database, flows, session, calm>>

\* Mutant: whatever the client answers counts as an acknowledgement.
AnyAnswerAcknowledges(c) ==
    /\ c.pc \in {"waiting", "late"}
    /\ c.answer # "none"
    /\ MayInterrupt
    /\ attempts' = attempts \ {c}
    /\ StartFlow(c, "answer", "findAck")
    /\ UNCHANGED <<database, session, acknowledged, calm>>

AnswerArrives(c) ==
    /\ c.pc \in {"waiting", "late"}
    /\ c.answer # "none"
    /\ MayInterrupt
    /\ attempts' = attempts \ {c}
    /\ StartFlow(c, "answer", IF c.answer = "ack" THEN "findAck" ELSE "check")
    /\ UNCHANGED <<database, session, acknowledged, calm>>

\* The timer leaves ackReceived alone: an answer that comes later still counts.
TimerFires(c) ==
    /\ c.pc = "waiting"
    /\ MayInterrupt
    /\ Becomes(c, [c EXCEPT !.pc = "late"])
    /\ StartFlow(c, "timer", "check")
    /\ UNCHANGED <<database, session, acknowledged, calm>>

\* A closure nobody will call again.
NeverAnswered(c) ==
    /\ c.pc = "late"
    /\ c.answer = "none"
    /\ attempts' = attempts \ {c}
    /\ UNCHANGED <<database, flows, session, acknowledged, calm>>

-----------------------------------------------------------------------------
(* _processAck and _processFailure.                                         *)

FindAcknowledged(f) ==
    /\ f.pc = "findAck"
    /\ \/ status[f.row] \in Final /\ flows' = flows \ {f}
       \/ status[f.row] \notin Final /\ FlowGoesTo(f, "success")
    /\ UNCHANGED <<database, attempts, session, acknowledged, calm>>

RecordSuccess(f) ==
    /\ f.pc = "success"
    /\ SetStatus(f.row, "SUCCESS")
    /\ flows' = flows \ {f}
    /\ UNCHANGED <<attempts, session, acknowledged, calm>>

\* Mutant: a failure is processed without looking at the row's state again.
CheckWithoutState(f) ==
    /\ f.pc = "check"
    /\ FlowGoesTo(f, "bump")
    /\ UNCHANGED <<database, attempts, session, acknowledged, calm>>

CheckFailure(f) ==
    /\ f.pc = "check"
    /\ \/ status[f.row] \in Final /\ flows' = flows \ {f}
       \/ status[f.row] \notin Final /\ FlowGoesTo(f, "bump")
    /\ UNCHANGED <<database, attempts, session, acknowledged, calm>>

\* Mutant: a row is given up one retry too early.
GivingUpEarly(f) == FlowGoesTo(f, IF f.retry + 1 >= MaxRetries THEN "giveup" ELSE "requeue")

\* The verdict uses the count the attempt had read, not the row's own.
AfterIncrement(f) == FlowGoesTo(f, IF f.retry + 1 > MaxRetries THEN "giveup" ELSE "requeue")

\* Every test of the count is against MAX_RETRIES, so counts above it are alike:
\* they are kept at MaxRetries + 1 (refused status updates would let them grow).
Incremented(n) == IF n > MaxRetries THEN n ELSE n + 1

IncrementRetryCount(f) ==
    /\ f.pc = "bump"
    /\ retry' = [retry EXCEPT ![f.row] = Incremented(@)]
    /\ due' = due \ {f.row}
    /\ AfterIncrement(f)
    /\ UNCHANGED <<status, attempts, session, acknowledged, calm>>

Requeue(f) ==
    /\ f.pc = "requeue"
    /\ SetStatus(f.row, "PENDING")
    /\ flows' = flows \ {f}
    /\ UNCHANGED <<attempts, session, acknowledged, calm>>

GiveUp(f) ==
    /\ f.pc = "giveup"
    /\ SetStatus(f.row, "FAILED")
    /\ flows' = flows \ {f}
    /\ UNCHANGED <<attempts, session, acknowledged, calm>>

FlowStep(f) ==
    \/ FindAcknowledged(f) \/ RecordSuccess(f) \/ CheckFailure(f)
    \/ IncrementRetryCount(f) \/ Requeue(f) \/ GiveUp(f)

-----------------------------------------------------------------------------
(* Faults.                                                                  *)

QueryErrorInAttempt(c) ==
    /\ ~calm
    /\ c.pc \in {"find", "expire", "offline", "mark"}
    /\ attempts' = attempts \ {c}
    /\ \/ c.pc = "find" /\ UNCHANGED flows
       \/ c.pc # "find" /\ StartFlow(c, "call", "check")
    /\ UNCHANGED <<database, session, acknowledged, calm>>

\* A refused increment is logged and the verdict is written all the same.
QueryErrorInFlow(f) ==
    /\ ~calm
    /\ \/ f.pc = "bump" /\ AfterIncrement(f)
       \/ f.pc # "bump" /\ flows' = flows \ {f}
    /\ UNCHANGED <<database, attempts, session, acknowledged, calm>>

BecomesDue(r) ==
    /\ status[r] = "SENT"
    /\ r \notin due
    /\ MayInterrupt
    /\ due' = due \cup {r}
    /\ UNCHANGED <<status, retry, attempts, flows, session, acknowledged, calm>>

Connect(s) ==
    /\ session[s] # "live"
    /\ session' = [session EXCEPT ![s] = "live"]
    /\ UNCHANGED <<database, attempts, flows, acknowledged, calm>>

\* The registered socket goes away, and the answers on it; or a socket that is
\* already closed gets registered (addSocket resumes after a disconnect).
LoseSession(s, left) ==
    /\ ~calm
    /\ session[s] # left
    /\ session' = [session EXCEPT ![s] = left]
    /\ attempts' = {IF SystemOf[c.row] = s THEN [c EXCEPT !.live = FALSE, !.answer = "none"]
                                           ELSE c : c \in attempts}
    /\ UNCHANGED <<database, flows, acknowledged, calm>>

Restart ==
    /\ ~calm
    /\ attempts' = {} /\ flows' = {}
    /\ session' = [s \in Systems |-> "none"]
    /\ UNCHANGED <<database, acknowledged, calm>>

BecomeCalm ==
    /\ ~calm
    /\ calm' = TRUE
    /\ UNCHANGED <<database, attempts, flows, session, acknowledged>>

Faults ==
    \/ \E c \in attempts : QueryErrorInAttempt(c)
    \/ \E f \in flows : QueryErrorInFlow(f)
    \/ \E s \in Systems, left \in {"none", "dead"} : LoseSession(s, left)
    \/ Restart

Next ==
    \/ \E r \in Rows : CreateLog(r) \/ BecomesDue(r)
    \/ \E n \in Runs : Poll(n)
    \/ \E c \in attempts : AttemptStep(c)
    \/ \E c \in attempts :
           ClientAnswers(c) \/ AnswerArrives(c) \/ TimerFires(c) \/ NeverAnswered(c)
    \/ \E f \in flows : FlowStep(f)
    \/ \E s \in Systems : Connect(s)
    \/ Faults
    \/ BecomeCalm

Spec == Init /\ [][Next]_vars

\* Callbacks run, the poll interval and the timers keep firing, the database
\* answers and the external system reconnects.  It may never answer an offer:
\* then the timer goes off and the closure is forgotten.
Fairness ==
    /\ WF_vars(BecomeCalm)
    /\ WF_vars(\E s \in Systems : Connect(s))
    /\ WF_vars(\E n \in Runs : Poll(n))
    /\ WF_vars(\E r \in Rows : BecomesDue(r))
    /\ WF_vars(\E c \in attempts : AttemptStep(c))
    /\ WF_vars(\E c \in attempts : AnswerArrives(c) \/ NeverAnswered(c))
    /\ WF_vars(\E c \in attempts : TimerFires(c))
    /\ WF_vars(\E f \in flows : FlowStep(f))

FairSpec == Spec /\ Fairness
-----------------------------------------------------------------------------
(* Properties.                                                              *)

\* A row is SUCCESS only if its external system acknowledged that row, across
\* late answers, repeated offers, replaced sockets and restarts (_processAck).
SuccessMeansAcknowledged == \A r \in Rows : status[r] = "SUCCESS" => r \in acknowledged

\* Why it holds: an acknowledgement is only written by the callback of its row.
AcknowledgementTrail ==
    /\ \A c \in attempts : c.answer = "ack" => c.row \in acknowledged
    /\ \A f \in flows : f.pc \in {"findAck", "success"} => f.row \in acknowledged
    /\ SuccessMeansAcknowledged

\* A disaster message is given up only when its retries are used up: neither
\* being offline nor a refused query nor a restart alone gives it up.
FailedMeansExhausted == \A r \in Rows : status[r] = "FAILED" => retry[r] >= MaxRetries

\* Why it holds: the count a verdict was based on never shrinks.
VerdictsAreExhausted ==
    /\ \A c \in attempts : c.pc # "find" => c.retry <= retry[c.row]
    /\ \A c \in attempts : c.pc = "expire" => retry[c.row] >= MaxRetries
    /\ \A f \in flows : f.retry <= retry[f.row]
    /\ \A f \in flows : f.pc = "giveup" => retry[f.row] >= MaxRetries
    /\ FailedMeansExhausted

\* Nothing in flight remembers the row as open.
Settled(r) ==
    /\ status[r] \in Final
    /\ \A c \in attempts : c.row = r => c.pc \in {"find", "waiting", "late"}
    /\ \A f \in flows : f.row = r => f.pc \in {"findAck", "check"}

\* Once no call is about to write the row its verdict is kept: late answers,
\* old timers and queued jobs find it final and leave it alone.
KeepsVerdicts ==
    \A r \in Rows : Settled(r) =>
        Settled(r)' /\ status'[r] = status[r] /\ retry'[r] = retry[r]

FinalStaysFinal == [][KeepsVerdicts]_vars

\* Every disaster message ends up SUCCESS or FAILED and stays there, if faults
\* stop, queries become prompt and the system reconnects for good.
EventuallyFinal == \A r \in Rows : <>[](status[r] \in Final \cup {"ABSENT"})
=============================================================================

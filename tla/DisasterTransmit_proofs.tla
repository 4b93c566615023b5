------------------------ MODULE DisasterTransmit_proofs ------------------------
(* Theorems about DisasterTransmit, for every value of its constants.       *)
EXTENDS DisasterTransmit, TLAPS

\* An UPDATE of the status column.
LEMMA SetStatusType ==
    ASSUME TypeOK, NEW r \in Rows, NEW s \in Statuses, SetStatus(r, s)
    PROVE  /\ status' \in [Rows -> Statuses]
           /\ retry' \in [Rows -> Nat]
           /\ due' \subseteq Rows
BY DEF TypeOK, SetStatus

\* A callback that goes on to its next query.
LEMMA FlowGoesToType ==
    ASSUME TypeOK, NEW f \in flows, NEW pc \in {"success", "bump", "requeue", "giveup"},
           FlowGoesTo(f, pc)
    PROVE  flows' \subseteq Flow
BY DEF TypeOK, FlowGoesTo, Flow

\* The callback of an attempt starts.
LEMMA StartFlowType ==
    ASSUME TypeOK, NEW c \in attempts, NEW by \in {"call", "timer", "answer"},
           NEW pc \in {"findAck", "check"}, StartFlow(c, by, pc)
    PROVE  flows' \subseteq Flow
BY DEF TypeOK, StartFlow, FlowOf, Flow, Attempt

\* What an attempt carries.
LEMMA AttemptType ==
    ASSUME TypeOK, NEW c \in attempts
    PROVE  /\ c \in Attempt
           /\ c.row \in Rows
           /\ c.run \in Runs
           /\ c.retry \in Nat
           /\ retry[c.row] \in Nat
BY DEF TypeOK, Attempt

\* What a callback carries.
LEMMA FlowType ==
    ASSUME TypeOK, NEW f \in flows
    PROVE  /\ f \in Flow
           /\ f.row \in Rows
           /\ f.retry \in Nat
           /\ retry[f.row] \in Nat
BY DEF TypeOK, Flow

\* incrementRetryCount never lowers the column.
LEMMA IncrementType ==
    ASSUME TypeOK, NEW f \in flows, IncrementRetryCount(f)
    PROVE  /\ retry' \in [Rows -> Nat]
           /\ \A r \in Rows : retry'[r] >= retry[r]
<1>1. Incremented(retry[f.row]) \in Nat /\ Incremented(retry[f.row]) >= retry[f.row]
    BY FlowType, ConstantsAssumption DEF Incremented, ConstantsAssumption
<1>2. retry' = [retry EXCEPT ![f.row] = Incremented(retry[f.row])]
    BY DEF IncrementRetryCount
<1> HIDE DEF Incremented
<1> QED
    BY <1>1, <1>2, FlowType DEF TypeOK

\* An attempt that goes on after findById carries the row's own count.
LEMMA FindLogOutcome ==
    ASSUME TypeOK, NEW c \in attempts, FindLog(c)
    PROVE  \/ attempts' = attempts \ {c}
           \/ \E d \in Attempt : /\ Becomes(c, d)
                                 /\ d.row = c.row /\ d.retry = retry[c.row]
                                 /\ d.pc = "expire" => retry[c.row] >= MaxRetries
<1> DEFINE count == retry[c.row]
           socket == session[SystemOf[c.row]]
           Checked(pc) == [c EXCEPT !.pc = pc, !.retry = count]
           Offer == [c EXCEPT !.pc = "mark", !.retry = count, !.live = (socket = "live")]
<1>1. \A pc \in {"expire", "offline"} :
          Checked(pc) \in Attempt /\ Checked(pc).row = c.row
              /\ Checked(pc).retry = count /\ Checked(pc).pc = pc
    BY AttemptType DEF Attempt
<1>2. Offer \in Attempt /\ Offer.row = c.row /\ Offer.retry = count /\ Offer.pc = "mark"
    <2>1. (socket = "live") \in BOOLEAN
        OBVIOUS
    <2>2. \A up \in BOOLEAN, n \in Nat :
              LET d == [c EXCEPT !.pc = "mark", !.retry = n, !.live = up] IN
              d \in Attempt /\ d.row = c.row /\ d.retry = n /\ d.pc = "mark"
        BY AttemptType DEF Attempt
    <2>3. count \in Nat
        BY AttemptType
    <2> HIDE DEF count, socket
    <2> QED
        BY <2>1, <2>2, <2>3
<1>3. \/ attempts' = attempts \ {c}
      \/ Becomes(c, Checked("expire")) /\ count >= MaxRetries
      \/ Becomes(c, Checked("offline"))
      \/ Becomes(c, Offer)
    BY DEF FindLog
<1> HIDE DEF Checked, Offer
<1> QED
    BY <1>1, <1>2, <1>3

\* A step of an attempt.
LEMMA AttemptStepType ==
    ASSUME TypeOK, NEW c \in attempts, AttemptStep(c)
    PROVE  TypeOK'
<1>1. CASE FindLog(c)
    <2>3. attempts' \subseteq Attempt
        BY <1>1, FindLogOutcome, AttemptType DEF TypeOK, Becomes
    <2> QED
        BY <1>1, <2>3 DEF TypeOK, FindLog, database
<1>2. CASE Expire(c)
    BY <1>2, AttemptType, SetStatusType DEF TypeOK, Expire, Statuses, Final
<1>3. CASE SendBackOffline(c)
    BY <1>3, AttemptType, SetStatusType DEF TypeOK, SendBackOffline, Statuses
<1>4. CASE MarkSent(c)
    <2>1. attempts' \subseteq Attempt
        BY <1>4, AttemptType DEF TypeOK, MarkSent, Becomes, Attempt
    <2> QED
        BY <1>4, <2>1, AttemptType, SetStatusType DEF TypeOK, MarkSent, Statuses
<1> QED
    BY <1>1, <1>2, <1>3, <1>4 DEF AttemptStep

\* The client answers, or the acknowledgement timer ends the wait.
LEMMA AnswersType ==
    ASSUME TypeOK, NEW c \in attempts,
           ClientAnswers(c) \/ AnswerArrives(c) \/ TimerFires(c) \/ NeverAnswered(c)
    PROVE  TypeOK'
<1>1. CASE ClientAnswers(c)
    <2>1. attempts' \subseteq Attempt
        BY <1>1, AttemptType DEF TypeOK, ClientAnswers, Becomes, Attempt
    <2> QED
        BY <1>1, <2>1, AttemptType DEF TypeOK, ClientAnswers, database
<1>2. CASE AnswerArrives(c)
    BY <1>2, StartFlowType DEF TypeOK, AnswerArrives, database
<1>3. CASE TimerFires(c)
    <2>1. attempts' \subseteq Attempt
        BY <1>3, AttemptType DEF TypeOK, TimerFires, Becomes, Attempt
    <2> QED
        BY <1>3, <2>1, StartFlowType DEF TypeOK, TimerFires, database
<1>4. CASE NeverAnswered(c)
    BY <1>4 DEF TypeOK, NeverAnswered, database
<1> QED
    BY <1>1, <1>2, <1>3, <1>4

\* A step of a callback.
LEMMA FlowStepType ==
    ASSUME TypeOK, NEW f \in flows, FlowStep(f)
    PROVE  TypeOK'
<1>1. CASE FindAcknowledged(f)
    BY <1>1, FlowGoesToType DEF TypeOK, FindAcknowledged, database
<1>2. CASE RecordSuccess(f)
    BY <1>2, FlowType, SetStatusType DEF TypeOK, RecordSuccess, Statuses, Final
<1>3. CASE CheckFailure(f)
    BY <1>3, FlowGoesToType DEF TypeOK, CheckFailure, database
<1>4. CASE IncrementRetryCount(f)
    <2>1. flows' \subseteq Flow
        BY <1>4, FlowGoesToType DEF IncrementRetryCount, AfterIncrement
    <2> QED
        BY <1>4, <2>1, IncrementType DEF TypeOK, IncrementRetryCount
<1>5. CASE Requeue(f)
    BY <1>5, FlowType, SetStatusType DEF TypeOK, Requeue, Statuses
<1>6. CASE GiveUp(f)
    BY <1>6, FlowType, SetStatusType DEF TypeOK, GiveUp, Statuses, Final
<1> QED
    BY <1>1, <1>2, <1>3, <1>4, <1>5, <1>6 DEF FlowStep

\* A socket that goes, or a restart.
LEMMA FaultsType ==
    ASSUME TypeOK, Faults
    PROVE  TypeOK'
<1>1. ASSUME NEW c \in attempts, QueryErrorInAttempt(c)
      PROVE  TypeOK'
    BY <1>1, StartFlowType DEF TypeOK, QueryErrorInAttempt, database
<1>2. ASSUME NEW f \in flows, QueryErrorInFlow(f)
      PROVE  TypeOK'
    BY <1>2, FlowGoesToType DEF TypeOK, QueryErrorInFlow, AfterIncrement, database
<1>3. ASSUME NEW s \in Systems, NEW left \in {"none", "dead"}, LoseSession(s, left)
      PROVE  TypeOK'
    <2>1. \A c \in attempts : [c EXCEPT !.live = FALSE, !.answer = "none"] \in Attempt
        BY AttemptType DEF Attempt
    <2>2. attempts' \subseteq Attempt
        BY <1>3, <2>1, AttemptType DEF LoseSession
    <2> QED
        BY <1>3, <2>2 DEF TypeOK, LoseSession, database
<1>4. CASE Restart
    BY <1>4 DEF TypeOK, Restart, database
<1> QED
    BY <1>1, <1>2, <1>3, <1>4 DEF Faults

\* Every step keeps the types.
LEMMA NextKeepsTypes ==
    ASSUME TypeOK, [Next]_vars
    PROVE  TypeOK'
<1>1. ASSUME NEW r \in Rows, CreateLog(r) \/ BecomesDue(r)
      PROVE  TypeOK'
    BY <1>1 DEF TypeOK, CreateLog, BecomesDue, Statuses
<1>2. ASSUME NEW n \in Runs, Poll(n)
      PROVE  TypeOK'
    <2>1. \A r \in Unprocessed : Queued(n, r) \in Attempt
        BY DEF Unprocessed, Queued, Attempt
    <2> QED
        BY <1>2, <2>1 DEF TypeOK, Poll, database
<1>3. ASSUME NEW c \in attempts, AttemptStep(c)
      PROVE  TypeOK'
    BY <1>3, AttemptStepType
<1>4. ASSUME NEW c \in attempts,
             ClientAnswers(c) \/ AnswerArrives(c) \/ TimerFires(c) \/ NeverAnswered(c)
      PROVE  TypeOK'
    BY <1>4, AnswersType
<1>5. ASSUME NEW f \in flows, FlowStep(f)
      PROVE  TypeOK'
    BY <1>5, FlowStepType
<1>6. ASSUME NEW s \in Systems, Connect(s)
      PROVE  TypeOK'
    BY <1>6 DEF TypeOK, Connect, database
<1>7. CASE Faults
    BY <1>7, FaultsType
<1>8. CASE BecomeCalm
    BY <1>8 DEF TypeOK, BecomeCalm, database
<1>9. CASE UNCHANGED vars
    BY <1>9 DEF TypeOK, vars, database
<1> QED
    BY <1>1, <1>2, <1>3, <1>4, <1>5, <1>6, <1>7, <1>8, <1>9 DEF Next

\* No sequence of handlers, faults or restarts leaves the records out of shape.
THEOREM TypeCorrect == Spec => []TypeOK
<1>1. Init => TypeOK
    <2> SUFFICES ASSUME Init
                 PROVE  TypeOK
        OBVIOUS
    <2>1. status \in [Rows -> Statuses] /\ retry \in [Rows -> Nat]
        BY DEF Init, Statuses
    <2>2. session \in [Systems -> {"none", "live", "dead"}]
        BY DEF Init
    <2> QED
        BY <2>1, <2>2 DEF Init, TypeOK
<1>2. TypeOK /\ [Next]_vars => TypeOK'
    BY NextKeepsTypes
<1> QED
    BY <1>1, <1>2, PTL DEF Spec

-----------------------------------------------------------------------------
(* What the table may become in one step.                                   *)

\* The statements that write a transmission row, and where their authors stand.
LEMMA WritersOfTheTable ==
    ASSUME TypeOK, [Next]_vars, NEW r \in Rows
    PROVE  \/ UNCHANGED <<status[r], retry[r]>>
           \/ status[r] = "ABSENT" /\ status'[r] = "PENDING" /\ UNCHANGED retry[r]
           \/ \E c \in attempts : /\ c.row = r
                                  /\ \/ c.pc = "mark" /\ status'[r] = "SENT"
                                     \/ c.pc = "offline" /\ status'[r] = "PENDING"
                                     \/ c.pc = "expire" /\ status'[r] = "FAILED"
                                  /\ UNCHANGED retry[r]
           \/ \E f \in flows : /\ f.row = r
                               /\ \/ f.pc = "success" /\ status'[r] = "SUCCESS"
                                  \/ f.pc = "requeue" /\ status'[r] = "PENDING"
                                  \/ f.pc = "giveup" /\ status'[r] = "FAILED"
                               /\ UNCHANGED retry[r]
           \/ \E f \in flows : f.row = r /\ f.pc = "bump" /\ UNCHANGED status[r]
<1> USE DEF TypeOK, SetStatus, database
<1>1. ASSUME NEW q \in Rows, CreateLog(q) \/ BecomesDue(q)
      PROVE  \/ UNCHANGED <<status[r], retry[r]>>
             \/ status[r] = "ABSENT" /\ status'[r] = "PENDING" /\ UNCHANGED retry[r]
    BY <1>1 DEF CreateLog, BecomesDue
<1>2. ASSUME NEW c \in attempts, AttemptStep(c)
      PROVE  \/ UNCHANGED <<status[r], retry[r]>>
             \/ /\ c.row = r
                /\ \/ c.pc = "mark" /\ status'[r] = "SENT"
                   \/ c.pc = "offline" /\ status'[r] = "PENDING"
                   \/ c.pc = "expire" /\ status'[r] = "FAILED"
                /\ UNCHANGED retry[r]
    BY <1>2, AttemptType DEF AttemptStep, FindLog, Expire, SendBackOffline, MarkSent
<1>3. ASSUME NEW f \in flows, FlowStep(f)
      PROVE  \/ UNCHANGED <<status[r], retry[r]>>
             \/ /\ f.row = r
                /\ \/ f.pc = "success" /\ status'[r] = "SUCCESS"
                   \/ f.pc = "requeue" /\ status'[r] = "PENDING"
                   \/ f.pc = "giveup" /\ status'[r] = "FAILED"
                /\ UNCHANGED retry[r]
             \/ f.row = r /\ f.pc = "bump" /\ UNCHANGED status[r]
    BY <1>3, FlowType DEF FlowStep, FindAcknowledged, RecordSuccess, CheckFailure,
                          IncrementRetryCount, Requeue, GiveUp
<1>4. ASSUME \/ \E n \in Runs : Poll(n)
             \/ \E c \in attempts : ClientAnswers(c) \/ AnswerArrives(c)
                                        \/ TimerFires(c) \/ NeverAnswered(c)
             \/ \E s \in Systems : Connect(s)
             \/ Faults \/ BecomeCalm \/ UNCHANGED vars
      PROVE  UNCHANGED <<status[r], retry[r]>>
    BY <1>4 DEF Poll, ClientAnswers, AnswerArrives, TimerFires, NeverAnswered, Connect, Faults,
                QueryErrorInAttempt, QueryErrorInFlow, LoseSession, Restart, BecomeCalm, vars
<1> QED
    BY <1>1, <1>2, <1>3, <1>4 DEF Next

\* A settled row gets no attempt and no callback that would write it.
LEMMA SettledStays ==
    ASSUME TypeOK, [Next]_vars, NEW r \in Rows, Settled(r)
    PROVE  Settled(r)'
<1> USE DEF Settled
<1>1. status'[r] = status[r]
    BY WritersOfTheTable DEF Final
<1>2. \A c \in attempts' : c.row = r => c.pc \in {"find", "waiting", "late"}
    <2>1. ASSUME NEW n \in Runs, Poll(n)
          PROVE  \A c \in attempts' : c.row = r => c.pc \in {"find", "waiting", "late"}
        BY <2>1 DEF Poll, Queued
    <2>2. ASSUME NEW d \in attempts, AttemptStep(d)
          PROVE  \A c \in attempts' : c.row = r => c.pc \in {"find", "waiting", "late"}
        <3>1. CASE FindLog(d)
            <4>1. PICK c \in Attempt : \/ attempts' = attempts \ {d}
                                       \/ Becomes(d, c) /\ c.row = d.row
                BY <3>1, FindLogOutcome, AttemptType
            <4>2. CASE d.row = r
                <5>1. /\ status[d.row] \in Final
                      /\ status[d.row] # "SENT" /\ status[d.row] # "PENDING"
                    BY <4>2 DEF Final
                <5>2. attempts' = attempts \ {d}
                    BY <3>1, <5>1, Zenon DEF FindLog
                <5> QED
                    BY <5>2
            <4>3. CASE d.row # r
                BY <4>1, <4>3 DEF Becomes
            <4> QED
                BY <4>2, <4>3
        <3>2. CASE Expire(d) \/ SendBackOffline(d) \/ MarkSent(d)
            BY <3>2, AttemptType DEF Expire, SendBackOffline, MarkSent, Becomes, Attempt
        <3> QED
            BY <2>2, <3>1, <3>2 DEF AttemptStep
    <2>3. ASSUME NEW d \in attempts,
                 ClientAnswers(d) \/ AnswerArrives(d) \/ TimerFires(d) \/ NeverAnswered(d)
          PROVE  \A c \in attempts' : c.row = r => c.pc \in {"find", "waiting", "late"}
        BY <2>3, AttemptType DEF ClientAnswers, AnswerArrives, TimerFires, NeverAnswered,
                                 Becomes, Attempt
    <2>4. ASSUME NEW s \in Systems, NEW left \in {"none", "dead"}, LoseSession(s, left)
          PROVE  \A c \in attempts' : c.row = r => c.pc \in {"find", "waiting", "late"}
        BY <2>4, AttemptType DEF LoseSession, Attempt
    <2>5. ASSUME NEW f \in flows, FlowStep(f) \/ QueryErrorInFlow(f)
          PROVE  attempts' = attempts
        BY <2>5 DEF FlowStep, FindAcknowledged, RecordSuccess, CheckFailure,
                    IncrementRetryCount, Requeue, GiveUp, QueryErrorInFlow
    <2>6. CASE \/ \E q \in Rows : CreateLog(q) \/ BecomesDue(q)
               \/ \E c \in attempts : QueryErrorInAttempt(c)
               \/ \E s \in Systems : Connect(s)
               \/ Restart \/ BecomeCalm \/ UNCHANGED vars
        BY <2>6 DEF CreateLog, BecomesDue, QueryErrorInAttempt, Connect, Restart, BecomeCalm, vars
    <2> QED
        BY <2>1, <2>2, <2>3, <2>4, <2>5, <2>6 DEF Next, Faults
<1>3. \A f \in flows' : f.row = r => f.pc \in {"findAck", "check"}
    <2>1. ASSUME NEW c \in attempts, AnswerArrives(c) \/ TimerFires(c) \/ QueryErrorInAttempt(c)
          PROVE  \A f \in flows' : f.row = r => f.pc \in {"findAck", "check"}
        BY <2>1 DEF AnswerArrives, TimerFires, QueryErrorInAttempt, StartFlow, FlowOf
    <2>2. ASSUME NEW g \in flows, FlowStep(g) \/ QueryErrorInFlow(g)
          PROVE  \A f \in flows' : f.row = r => f.pc \in {"findAck", "check"}
        <3>1. CASE g.row = r
            BY <2>2, <3>1 DEF FlowStep, FindAcknowledged, RecordSuccess, CheckFailure,
                IncrementRetryCount, Requeue, GiveUp, QueryErrorInFlow
        <3>2. CASE g.row # r
            BY <2>2, <3>2, FlowType DEF Flow, FlowStep, FindAcknowledged, RecordSuccess,
                CheckFailure, IncrementRetryCount, AfterIncrement, Requeue, GiveUp,
                QueryErrorInFlow, FlowGoesTo
        <3> QED
            BY <3>1, <3>2
    <2>3. CASE \/ \E q \in Rows : CreateLog(q) \/ BecomesDue(q)
               \/ \E n \in Runs : Poll(n)
               \/ \E c \in attempts : AttemptStep(c) \/ ClientAnswers(c) \/ NeverAnswered(c)
               \/ \E s \in Systems : Connect(s)
               \/ \E s \in Systems, left \in {"none", "dead"} : LoseSession(s, left)
               \/ Restart \/ BecomeCalm \/ UNCHANGED vars
        BY <2>3 DEF CreateLog, BecomesDue, Poll, AttemptStep, FindLog, Expire, SendBackOffline,
                    MarkSent, ClientAnswers, NeverAnswered, Connect, LoseSession, Restart,
                    BecomeCalm, vars
    <2> QED
        BY <2>1, <2>2, <2>3 DEF Next, Faults
<1> QED
    BY <1>1, <1>2, <1>3

\* Once no call is about to write a row, none ever will be, and its verdict is
\* kept for good (_processAck, _processFailure and the worker read it first).
THEOREM VerdictsAreKept == Spec => FinalStaysFinal
<1>1. TypeOK /\ [Next]_vars => [KeepsVerdicts]_vars
    <2> SUFFICES ASSUME TypeOK, [Next]_vars, NEW r \in Rows, Settled(r)
                 PROVE  Settled(r)' /\ status'[r] = status[r] /\ retry'[r] = retry[r]
        BY DEF KeepsVerdicts
    <2>1. status'[r] = status[r] /\ retry'[r] = retry[r]
        BY WritersOfTheTable DEF Settled, Final
    <2> QED
        BY <2>1, SettledStays
<1> QED
    BY <1>1, TypeCorrect, PTL DEF Spec, FinalStaysFinal

-----------------------------------------------------------------------------
(* SUCCESS means acknowledged.                                              *)

\* No step breaks the trail from an acknowledgement to SUCCESS.
LEMMA NextTrail ==
    ASSUME TypeOK, AcknowledgementTrail, [Next]_vars
    PROVE  AcknowledgementTrail'
<1> USE DEF AcknowledgementTrail, SuccessMeansAcknowledged
<1>1. ASSUME NEW r \in Rows, CreateLog(r) \/ BecomesDue(r)
      PROVE  AcknowledgementTrail'
    BY <1>1 DEF TypeOK, CreateLog, BecomesDue
<1>2. ASSUME NEW n \in Runs, Poll(n)
      PROVE  AcknowledgementTrail'
    BY <1>2 DEF Poll, Queued, database
<1>3. ASSUME NEW c \in attempts, AttemptStep(c)
      PROVE  AcknowledgementTrail'
    <2>1. CASE FindLog(c)
        BY <2>1, AttemptType DEF FindLog, Becomes, Attempt, database
    <2>2. CASE Expire(c) \/ SendBackOffline(c) \/ MarkSent(c)
        BY <2>2, AttemptType DEF TypeOK, Expire, SendBackOffline, MarkSent, SetStatus,
                                 Becomes, Attempt
    <2> QED
        BY <1>3, <2>1, <2>2 DEF AttemptStep
<1>4. ASSUME NEW c \in attempts,
             ClientAnswers(c) \/ AnswerArrives(c) \/ TimerFires(c) \/ NeverAnswered(c)
      PROVE  AcknowledgementTrail'
    <2>1. CASE ClientAnswers(c)
        <3>1. acknowledged \subseteq acknowledged'
            BY <2>1 DEF ClientAnswers
        <3>2. \A d \in attempts' : d.answer = "ack" => d.row \in acknowledged'
            BY <2>1, <3>1, AttemptType DEF ClientAnswers, Becomes, Attempt
        <3> QED
            BY <2>1, <3>1, <3>2 DEF ClientAnswers, database
    <2>2. CASE AnswerArrives(c)
        BY <2>2, AttemptType DEF Attempt, AnswerArrives, StartFlow, FlowOf, database
    <2>3. CASE TimerFires(c)
        BY <2>3, AttemptType DEF TimerFires, Becomes, Attempt, StartFlow, FlowOf, database
    <2>4. CASE NeverAnswered(c)
        BY <2>4 DEF NeverAnswered, database
    <2> QED
        BY <1>4, <2>1, <2>2, <2>3, <2>4
<1>5. ASSUME NEW f \in flows, FlowStep(f)
      PROVE  AcknowledgementTrail'
    <2>1. CASE FindAcknowledged(f) \/ CheckFailure(f)
        BY <2>1, FlowType DEF FindAcknowledged, CheckFailure, FlowGoesTo, Flow, database
    <2>2. CASE RecordSuccess(f) \/ Requeue(f) \/ GiveUp(f)
        BY <2>2, FlowType DEF TypeOK, RecordSuccess, Requeue, GiveUp, SetStatus
    <2>3. CASE IncrementRetryCount(f)
        BY <2>3, FlowType DEF IncrementRetryCount, AfterIncrement, FlowGoesTo, Flow
    <2> QED
        BY <1>5, <2>1, <2>2, <2>3 DEF FlowStep
<1>6. ASSUME NEW s \in Systems, Connect(s)
      PROVE  AcknowledgementTrail'
    BY <1>6 DEF Connect, database
<1>7. CASE Faults
    <2>1. ASSUME NEW c \in attempts, QueryErrorInAttempt(c)
          PROVE  AcknowledgementTrail'
        BY <2>1 DEF QueryErrorInAttempt, StartFlow, FlowOf, database
    <2>2. ASSUME NEW f \in flows, QueryErrorInFlow(f)
          PROVE  AcknowledgementTrail'
        BY <2>2, FlowType DEF QueryErrorInFlow, AfterIncrement, FlowGoesTo, Flow, database
    <2>3. ASSUME NEW s \in Systems, NEW left \in {"none", "dead"}, LoseSession(s, left)
          PROVE  AcknowledgementTrail'
        <3>1. \A d \in attempts' : d.answer = "ack" => d.row \in acknowledged
            BY <2>3, AttemptType DEF LoseSession, Attempt
        <3> QED
            BY <2>3, <3>1 DEF LoseSession, database
    <2>4. CASE Restart
        BY <2>4 DEF Restart, database
    <2> QED
        BY <1>7, <2>1, <2>2, <2>3, <2>4 DEF Faults
<1>8. CASE BecomeCalm
    BY <1>8 DEF BecomeCalm, database
<1>9. CASE UNCHANGED vars
    BY <1>9 DEF vars, database
<1> QED
    BY <1>1, <1>2, <1>3, <1>4, <1>5, <1>6, <1>7, <1>8, <1>9 DEF Next

\* A row is SUCCESS only if its external system acknowledged that row.
THEOREM SuccessIsAcknowledged == Spec => []SuccessMeansAcknowledged
<1>1. Init => AcknowledgementTrail
    BY DEF Init, AcknowledgementTrail, SuccessMeansAcknowledged
<1>2. TypeOK /\ AcknowledgementTrail /\ [Next]_vars => AcknowledgementTrail'
    BY NextTrail
<1>3. AcknowledgementTrail => SuccessMeansAcknowledged
    BY DEF AcknowledgementTrail
<1> QED
    BY <1>1, <1>2, <1>3, TypeCorrect, PTL DEF Spec
-----------------------------------------------------------------------------
(* FAILED means the retries are used up.                                    *)

\* No statement lowers retry_count.
LEMMA RetriesGrow ==
    ASSUME TypeOK, [Next]_vars, NEW r \in Rows
    PROVE  retry[r] \in Nat /\ retry'[r] \in Nat /\ retry'[r] >= retry[r]
<1>1. CASE \E f \in flows : IncrementRetryCount(f)
    BY <1>1, IncrementType DEF TypeOK
<1>2. CASE ~ \E f \in flows : IncrementRetryCount(f)
    <2>1. retry' = retry
        BY <1>2 DEF Next, CreateLog, BecomesDue, Poll, AttemptStep, FindLog, Expire,
              SendBackOffline, MarkSent, ClientAnswers, AnswerArrives, TimerFires,
              NeverAnswered, FlowStep, FindAcknowledged, RecordSuccess, CheckFailure, Requeue,
              GiveUp, Connect, Faults, QueryErrorInAttempt, QueryErrorInFlow, LoseSession,
              Restart, BecomeCalm, SetStatus, vars, database
    <2> QED
        BY <2>1 DEF TypeOK
<1> QED
    BY <1>1, <1>2

\* Where the counts that callbacks carry come from.
LEMMA CountsComeFromTheRow ==
    ASSUME TypeOK, VerdictsAreExhausted, [Next]_vars
    PROVE  /\ \A c \in attempts' : c.pc # "find" => c.row \in Rows /\ c.retry <= retry[c.row]
           /\ \A c \in attempts' : c.pc = "expire" => retry[c.row] >= MaxRetries
<1> USE DEF VerdictsAreExhausted
<1>1. ASSUME NEW n \in Runs, Poll(n)
      PROVE  /\ \A c \in attempts' : c.pc # "find" => c.row \in Rows /\ c.retry <= retry[c.row]
             /\ \A c \in attempts' : c.pc = "expire" => retry[c.row] >= MaxRetries
    BY <1>1, AttemptType DEF Poll, Queued
<1>2. ASSUME NEW c \in attempts, FindLog(c)
      PROVE  /\ \A d \in attempts' : d.pc # "find" => d.row \in Rows /\ d.retry <= retry[d.row]
             /\ \A d \in attempts' : d.pc = "expire" => retry[d.row] >= MaxRetries
    <2>1. \A d \in attempts' : \/ d \in attempts
                               \/ /\ d.row = c.row
                                  /\ d.retry = retry[c.row]
                                  /\ d.pc = "expire" => retry[c.row] >= MaxRetries
        BY <1>2, FindLogOutcome DEF Becomes
    <2> QED
        BY <2>1, AttemptType
<1>3. ASSUME NEW s \in Systems, NEW left \in {"none", "dead"}, LoseSession(s, left)
      PROVE  /\ \A c \in attempts' : c.pc # "find" => c.row \in Rows /\ c.retry <= retry[c.row]
             /\ \A c \in attempts' : c.pc = "expire" => retry[c.row] >= MaxRetries
    <2>1. \A d \in attempts' : \E c \in attempts :
              d.row = c.row /\ d.retry = c.retry /\ d.pc = c.pc
        BY <1>3, AttemptType DEF LoseSession, Attempt
    <2> QED
        BY <2>1, AttemptType
<1>4. ASSUME NEW c \in attempts, ClientAnswers(c) \/ TimerFires(c) \/ MarkSent(c)
      PROVE  /\ \A d \in attempts' : d.pc # "find" => d.row \in Rows /\ d.retry <= retry[d.row]
             /\ \A d \in attempts' : d.pc = "expire" => retry[d.row] >= MaxRetries
    <2>1. \A d \in attempts' : \/ d \in attempts
                               \/ /\ d.row = c.row /\ d.retry = c.retry
                                  /\ c.pc # "find" /\ d.pc # "expire"
        BY <1>4, AttemptType DEF ClientAnswers, TimerFires, MarkSent, Becomes, Attempt
    <2> QED
        BY <2>1, AttemptType
<1>5. CASE attempts' \subseteq attempts
    BY <1>5, AttemptType
<1> QED
    BY <1>1, <1>2, <1>3, <1>4, <1>5
       DEF Next, CreateLog, BecomesDue, AttemptStep, Expire, SendBackOffline, AnswerArrives,
           NeverAnswered, FlowStep, FindAcknowledged, RecordSuccess, CheckFailure,
           IncrementRetryCount, Requeue, GiveUp, Connect, Faults, QueryErrorInAttempt,
           QueryErrorInFlow, Restart, BecomeCalm, vars

\* A count that a callback read is at most the one in the row, and a verdict on
\* it was given at the limit.
LEMMA FlowCountsComeFromTheRow ==
    ASSUME TypeOK, VerdictsAreExhausted, [Next]_vars
    PROVE  /\ \A f \in flows' : f.row \in Rows /\ f.retry <= retry[f.row]
           /\ \A f \in flows' : f.pc = "giveup" => retry[f.row] >= MaxRetries
<1> USE DEF VerdictsAreExhausted
<1>1. ASSUME NEW c \in attempts, NEW by, NEW pc \in {"findAck", "check"},
             c.pc # "find", StartFlow(c, by, pc)
      PROVE  /\ \A f \in flows' : f.row \in Rows /\ f.retry <= retry[f.row]
             /\ \A f \in flows' : f.pc = "giveup" => retry[f.row] >= MaxRetries
    BY <1>1, AttemptType, FlowType DEF StartFlow, FlowOf
<1>2. ASSUME NEW f \in flows, NEW pc, FlowGoesTo(f, pc),
             pc = "giveup" => f.retry + 1 > MaxRetries
      PROVE  /\ \A g \in flows' : g.row \in Rows /\ g.retry <= retry[g.row]
             /\ \A g \in flows' : g.pc = "giveup" => retry[g.row] >= MaxRetries
    <2>1. \A g \in flows' : \/ g \in flows
                            \/ g.row = f.row /\ g.retry = f.retry /\ g.pc = pc
        BY <1>2, FlowType DEF FlowGoesTo, Flow
    <2>2. pc = "giveup" => retry[f.row] >= MaxRetries
        BY <1>2, FlowType, ConstantsAssumption DEF ConstantsAssumption
    <2> QED
        BY <2>1, <2>2, FlowType
<1>3. CASE flows' \subseteq flows
    BY <1>3, FlowType
<1>4. ASSUME NEW c \in attempts,
             AnswerArrives(c) \/ TimerFires(c) \/ QueryErrorInAttempt(c)
      PROVE  \/ flows' \subseteq flows
             \/ \E by \in {"call", "timer", "answer"}, pc \in {"findAck", "check"} :
                    c.pc # "find" /\ StartFlow(c, by, pc)
    BY <1>4 DEF AnswerArrives, TimerFires, QueryErrorInAttempt
<1>5. ASSUME NEW f \in flows, FlowStep(f) \/ QueryErrorInFlow(f)
      PROVE  \/ flows' \subseteq flows
             \/ \E pc \in {"success", "bump", "requeue", "giveup"} :
                    /\ FlowGoesTo(f, pc)
                    /\ pc = "giveup" => f.retry + 1 > MaxRetries
    BY <1>5 DEF FlowStep, QueryErrorInFlow, FindAcknowledged, RecordSuccess, CheckFailure,
                IncrementRetryCount, AfterIncrement, Requeue, GiveUp
<1>6. CASE \E c \in attempts : AnswerArrives(c) \/ TimerFires(c) \/ QueryErrorInAttempt(c)
    BY <1>1, <1>3, <1>4, <1>6
<1>7. CASE \E f \in flows : FlowStep(f) \/ QueryErrorInFlow(f)
    BY <1>2, <1>3, <1>5, <1>7
<1> QED
    BY <1>3, <1>6, <1>7
       DEF Next, CreateLog, BecomesDue, Poll, AttemptStep, FindLog, Expire, SendBackOffline,
           MarkSent, ClientAnswers, NeverAnswered, Connect, Faults, LoseSession, Restart,
           BecomeCalm, vars

\* A disaster message is FAILED only when its retries are used up.
THEOREM FailedIsExhausted == Spec => []FailedMeansExhausted
<1>1. Init => VerdictsAreExhausted
    BY DEF Init, VerdictsAreExhausted, FailedMeansExhausted
<1>2. TypeOK /\ VerdictsAreExhausted /\ [Next]_vars => VerdictsAreExhausted'
    <2> SUFFICES ASSUME TypeOK, VerdictsAreExhausted, [Next]_vars
                 PROVE  VerdictsAreExhausted'
        OBVIOUS
    <2> USE ConstantsAssumption DEF ConstantsAssumption
    <2>1. \A c \in attempts' : c.pc # "find" => c.retry <= retry'[c.row]
        <3> SUFFICES ASSUME NEW c \in attempts', c.pc # "find"
                     PROVE  c.retry <= retry'[c.row]
            OBVIOUS
        <3>1. c.row \in Rows /\ c.retry <= retry[c.row]
            BY CountsComeFromTheRow
        <3>2. c.retry \in Nat
            BY NextKeepsTypes DEF TypeOK, Attempt
        <3> QED
            BY <3>1, <3>2, RetriesGrow
    <2>2. \A c \in attempts' : c.pc = "expire" => retry'[c.row] >= MaxRetries
        BY CountsComeFromTheRow, RetriesGrow
    <2>3. \A f \in flows' : f.retry <= retry'[f.row]
        <3> SUFFICES ASSUME NEW f \in flows'
                     PROVE  f.retry <= retry'[f.row]
            OBVIOUS
        <3>1. f.row \in Rows /\ f.retry <= retry[f.row]
            BY FlowCountsComeFromTheRow
        <3>2. f.retry \in Nat
            BY NextKeepsTypes DEF TypeOK, Flow
        <3> QED
            BY <3>1, <3>2, RetriesGrow
    <2>4. \A f \in flows' : f.pc = "giveup" => retry'[f.row] >= MaxRetries
        BY FlowCountsComeFromTheRow, RetriesGrow
    <2>5. ASSUME NEW r \in Rows, status'[r] = "FAILED"
          PROVE  retry'[r] >= MaxRetries
        <3>1. retry[r] >= MaxRetries
            BY <2>5, WritersOfTheTable DEF VerdictsAreExhausted, FailedMeansExhausted
        <3> QED
            BY <3>1, RetriesGrow
    <2> QED
        BY <2>1, <2>2, <2>3, <2>4, <2>5 DEF VerdictsAreExhausted, FailedMeansExhausted
<1>3. VerdictsAreExhausted => FailedMeansExhausted
    BY DEF VerdictsAreExhausted
<1> QED
    BY <1>1, <1>2, <1>3, TypeCorrect, PTL DEF Spec
=============================================================================

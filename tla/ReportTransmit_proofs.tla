------------------------- MODULE ReportTransmit_proofs -------------------------
(* Theorems about ReportTransmit, for every value of its constants.         *)
EXTENDS ReportTransmit, FiniteSetTheorems, TLAPS

\* Wires with nothing on them.
LEMMA EmptyWires == <<>> \in Seq(Message) /\ <<>> \in Seq(Answer)
<1>1. <<>> \in Seq(Message)
    OBVIOUS
<1>2. <<>> \in Seq(Answer)
    OBVIOUS
<1> QED
    BY <1>1, <1>2

\* The step helpers of the worker and of processAck keep their collections typed.
LEMMA JobGoesToType ==
    ASSUME jobs \subseteq Job, NEW j \in jobs, NEW pc \in {"queued", "lookup", "mark", "arm", "fail"},
           JobGoesTo(j, pc)
    PROVE  jobs' \subseteq Job
BY DEF JobGoesTo, Job

\* A callback that goes on to its next query.
LEMMA FlowGoesToType ==
    ASSUME flows \subseteq Flow, NEW f \in flows,
           NEW pc \in {"success", "check", "giveup", "bump", "repend"},
           FlowGoesTo(f, pc)
    PROVE  flows' \subseteq Flow
BY DEF FlowGoesTo, Flow

\* An UPDATE of the status column.
LEMMA SetStatusType ==
    ASSUME TypeOK, NEW r \in Rows, NEW s \in Statuses, SetStatus(r, s)
    PROVE  /\ status' \in [Rows -> Statuses]
           /\ retry' \in [Rows -> Nat]
           /\ seq' \in [Rows -> Nat]
           /\ due' \subseteq Rows
BY DEF TypeOK, SetStatus

\* A report is built and written to the socket.
LEMMA BuildAndSendType ==
    ASSUME TypeOK, NEW j \in jobs, BuildAndSend(j)
    PROVE  /\ jobs' \subseteq Job
           /\ timers' \subseteq Rows
           /\ connected' \in BOOLEAN
           /\ toCentral' \in Seq(Message)
           /\ answers' \in Seq(Answer)
<1>0. j \in Job
    BY DEF TypeOK
<1>1. CASE Throw(j)
    BY <1>1, JobGoesToType DEF TypeOK, Throw, network
<1>2. CASE /\ toCentral' = Append(toCentral,
                              [row |-> j.row, id |-> OutboundId[j.row], seq |-> j.seq])
           /\ JobGoesTo(j, "mark")
           /\ UNCHANGED <<timers, connected, answers>>
    <2>1. [row |-> j.row, id |-> OutboundId[j.row], seq |-> j.seq] \in Message
        BY <1>0 DEF Job, Message, Ids
    <2>2. toCentral' \in Seq(Message)
        BY <1>2, <2>1 DEF TypeOK
    <2> QED
        BY <1>2, <2>2, JobGoesToType DEF TypeOK
<1>3. CASE /\ connected' = FALSE /\ toCentral' = <<>> /\ answers' = <<>>
           /\ JobGoesTo(j, "mark") /\ UNCHANGED timers
    <2>1. toCentral' \in Seq(Message) /\ answers' \in Seq(Answer)
        BY <1>3
    <2>2. jobs' \subseteq Job /\ timers' \subseteq Rows
        BY <1>3, JobGoesToType DEF TypeOK
    <2> QED
        BY <1>3, <2>1, <2>2
<1> QED
    BY <1>1, <1>2, <1>3 DEF BuildAndSend

\* A step of a job.
LEMMA JobStepType ==
    ASSUME TypeOK, NEW j \in jobs, JobStep(j)
    PROVE  TypeOK'
<1>0. j \in Job /\ j.row \in Rows
    BY DEF TypeOK, Job
<1>1. CASE StartJob(j)
    <2>1. CASE Throw(j)
        BY <1>1, <2>1, JobGoesToType DEF TypeOK, StartJob, Throw, database, network
    <2>2. CASE jobs' = jobs \ {j} /\ UNCHANGED <<timers, network>>
        BY <1>1, <2>2 DEF TypeOK, StartJob, database, network
    <2>3. CASE JobGoesTo(j, "lookup") /\ UNCHANGED <<timers, network>>
        BY <1>1, <2>3, JobGoesToType DEF TypeOK, StartJob, database, network
    <2>4. CASE BuildAndSend(j)
        BY <1>1, <2>4, BuildAndSendType DEF TypeOK, StartJob, database, network
    <2> QED
        BY <1>1, <2>1, <2>2, <2>3, <2>4 DEF StartJob
<1>2. CASE LookUpOriginal(j)
    BY <1>2, BuildAndSendType DEF TypeOK, LookUpOriginal, database, network
<1>3. CASE MarkSent(j)
    BY <1>0, <1>3, SetStatusType, JobGoesToType DEF TypeOK, MarkSent, Statuses, network
<1>4. CASE ArmTimer(j)
    BY <1>0, <1>4 DEF TypeOK, ArmTimer, database, network
<1>5. CASE MarkFailed(j)
    BY <1>0, <1>5, SetStatusType DEF TypeOK, MarkFailed, Statuses, Final, network
<1> QED
    BY <1>1, <1>2, <1>3, <1>4, <1>5 DEF JobStep

\* A step of a callback.
LEMMA FlowStepType ==
    ASSUME TypeOK, NEW f \in flows, FlowStep(f)
    PROVE  TypeOK'
<1>0. f \in Flow /\ f.row \in Rows
    BY DEF TypeOK, Flow
<1>1. CASE StopTimer(f)
    BY <1>1, FlowGoesToType DEF TypeOK, StopTimer, database, network
<1>2. CASE RecordSuccess(f)
    BY <1>0, <1>2, SetStatusType DEF TypeOK, RecordSuccess, Statuses, Final, network
<1>3. CASE CheckFailure(f)
    BY <1>3, FlowGoesToType DEF TypeOK, CheckFailure, FailureVerdict, database, network
<1>4. CASE GiveUp(f)
    BY <1>0, <1>4, SetStatusType DEF TypeOK, GiveUp, Statuses, Final, network
<1>5. CASE IncrementRetryCountAndReportSequence(f)
    BY <1>0, <1>5, FlowGoesToType
       DEF TypeOK, IncrementRetryCountAndReportSequence, network
<1>6. CASE Requeue(f)
    BY <1>0, <1>6, SetStatusType DEF TypeOK, Requeue, Statuses, network
<1> QED
    BY <1>1, <1>2, <1>3, <1>4, <1>5, <1>6 DEF FlowStep

\* A connection that goes, or a restart.
LEMMA FaultsType ==
    ASSUME TypeOK, Faults
    PROVE  TypeOK'
<1>1. ASSUME NEW j \in jobs, QueryErrorInJob(j)
      PROVE  TypeOK'
    <2>1. CASE Throw(j)
        BY <1>1, <2>1, JobGoesToType DEF TypeOK, QueryErrorInJob, Throw, database, network
    <2>2. CASE jobs' = jobs \ {j} /\ UNCHANGED <<timers, network>>
        BY <1>1, <2>2 DEF TypeOK, QueryErrorInJob, database, network
    <2> QED
        BY <1>1, <2>1, <2>2 DEF QueryErrorInJob
<1>2. ASSUME NEW a \in lookups, QueryErrorInLookup(a)
      PROVE  TypeOK'
    BY <1>2 DEF TypeOK, QueryErrorInLookup, database, network
<1>3. ASSUME NEW f \in flows, QueryErrorInFlow(f)
      PROVE  TypeOK'
    BY <1>3, FlowGoesToType DEF TypeOK, QueryErrorInFlow, database, network
<1>4. CASE Disconnect
    BY <1>4, EmptyWires DEF TypeOK, Disconnect, database, memory
<1>5. CASE Restart
    BY <1>5, EmptyWires DEF TypeOK, Restart, database
<1> QED
    BY <1>1, <1>2, <1>3, <1>4, <1>5 DEF Faults

\* No sequence of handlers, faults or restarts leaves the records out of shape.
THEOREM TypeCorrect == Spec => []TypeOK
<1>1. Init => TypeOK
    <2> SUFFICES ASSUME Init
                 PROVE  TypeOK
        OBVIOUS
    <2>1. /\ status \in [Rows -> Statuses]
          /\ retry \in [Rows -> Nat]
          /\ seq \in [Rows -> Nat]
        BY DEF Init, Statuses
    <2>2. toCentral \in Seq(Message) /\ answers \in Seq(Answer)
        BY EmptyWires DEF Init
    <2> QED
        BY <2>1, <2>2 DEF Init, TypeOK
<1>2. TypeOK /\ [Next]_vars => TypeOK'
    <2> SUFFICES ASSUME TypeOK, [Next]_vars
                 PROVE  TypeOK'
        OBVIOUS
    <2>1. ASSUME NEW r \in Rows, CreateLog(r) \/ BecomesDue(r)
          PROVE  TypeOK'
        BY <2>1 DEF TypeOK, CreateLog, BecomesDue, Statuses, memory, network
    <2>2. ASSUME NEW n \in Runs, Poll(n)
          PROVE  TypeOK'
        <3>1. \A r \in Unprocessed : Snapshot(n, r) \in Job
            BY DEF TypeOK, Unprocessed, Snapshot, Job
        <3> QED
            BY <2>2, <3>1 DEF TypeOK, Poll, database, network
    <2>3. ASSUME NEW j \in jobs, JobStep(j)
          PROVE  TypeOK'
        BY <2>3, JobStepType
    <2>4. ASSUME NEW t \in Tasks, AnswerArrives(t)
          PROVE  TypeOK'
        <3>1. Head(answers) \in Answer /\ Tail(answers) \in Seq(Answer)
            BY <2>4 DEF TypeOK, AnswerArrives
        <3> QED
            BY <2>4, <3>1 DEF TypeOK, AnswerArrives, Answer, Lookup, database, network
    <2>5. ASSUME NEW a \in lookups, FindAnswered(a)
          PROVE  TypeOK'
        <3>1. \A r \in Matches(a) : [task |-> a.task, row |-> r, pc |-> Verdict(a, r)] \in Flow
            BY DEF TypeOK, Matches, Verdict, Lookup, Flow
        <3> QED
            BY <2>5, <3>1 DEF TypeOK, FindAnswered, database, network
    <2>6. ASSUME NEW f \in flows, FlowStep(f)
          PROVE  TypeOK'
        BY <2>6, FlowStepType
    <2>7. ASSUME NEW r \in Rows, NEW t \in Tasks, TimerFires(r, t)
          PROVE  TypeOK'
        BY <2>7 DEF TypeOK, TimerFires, Flow, database, network
    <2>8. CASE CentralReceives
        <3>1. Head(toCentral) \in Message /\ Tail(toCentral) \in Seq(Message)
            BY <2>8 DEF TypeOK, CentralReceives
        <3>2. accepted' \subseteq Message
            BY <2>8, <3>1 DEF TypeOK, CentralReceives, Message
        <3>3. \A ok \in BOOLEAN : [id |-> Head(toCentral).id, seq |-> Head(toCentral).seq,
                                   ok |-> ok] \in Answer
            BY <3>1 DEF Message, Answer
        <3>4. answers' \in Seq(Answer)
            <4>1. PICK ok \in BOOLEAN :
                      answers' \in {answers, Append(answers, [id |-> Head(toCentral).id,
                                                 seq |-> Head(toCentral).seq, ok |-> ok])}
                BY <2>8 DEF CentralReceives
            <4>2. answers \in Seq(Answer)
                BY DEF TypeOK
            <4> QED
                BY <4>1, <4>2, <3>3
        <3> QED
            BY <2>8, <3>1, <3>2, <3>4 DEF TypeOK, CentralReceives, database, memory
    <2>9. CASE Connect
        BY <2>9 DEF TypeOK, Connect, database, memory
    <2>10. CASE Faults
        BY <2>10, FaultsType
    <2>11. CASE BecomeCalm
        BY <2>11 DEF TypeOK, BecomeCalm, database, memory, network
    <2>12. CASE UNCHANGED vars
        BY <2>12 DEF TypeOK, vars, database, memory, network
    <2> QED
        BY <2>1, <2>2, <2>3, <2>4, <2>5, <2>6, <2>7, <2>8, <2>9, <2>10, <2>11, <2>12 DEF Next
<1> QED
    BY <1>1, <1>2, PTL DEF Spec
-----------------------------------------------------------------------------
(* What a SUCCESS row proves about the central system.                      *)

\* What is sent carries the id of its row, and the acceptances on the wire stay true.
LEMMA BuildAndSendTrail ==
    ASSUME TypeOK, AcceptanceTrail, NEW j \in jobs, BuildAndSend(j)
    PROVE  /\ \A i \in 1..Len(toCentral') : toCentral'[i].id = OutboundId[toCentral'[i].row]
           /\ \A i \in 1..Len(answers') : answers'[i].ok => AcceptedAs(answers'[i].id, answers'[i].seq)
<1>1. CASE UNCHANGED network
    BY <1>1 DEF network, AcceptanceTrail
<1>2. CASE /\ toCentral' = Append(toCentral,
                              [row |-> j.row, id |-> OutboundId[j.row], seq |-> j.seq])
           /\ answers' = answers
    <2>1. toCentral \in Seq(Message)
        BY DEF TypeOK
    <2>2. \A i \in 1..Len(toCentral') :
              \/ i \in 1..Len(toCentral) /\ toCentral'[i] = toCentral[i]
              \/ toCentral'[i] = [row |-> j.row, id |-> OutboundId[j.row], seq |-> j.seq]
        BY <1>2, <2>1
    <2> QED
        BY <1>2, <2>2 DEF AcceptanceTrail
<1>3. CASE toCentral' = <<>> /\ answers' = <<>>
    BY <1>3
<1> QED
    BY <1>1, <1>2, <1>3 DEF BuildAndSend, Throw, network

\* A step of a job keeps the trail of an acceptance.
LEMMA JobStepTrail ==
    ASSUME TypeOK, AcceptanceTrail, NEW j \in jobs, JobStep(j)
    PROVE  AcceptanceTrail'
<1>0. j \in Job /\ j.row \in Rows
    BY DEF TypeOK, Job
<1>1. CASE StartJob(j)
    <2>1. /\ \A i \in 1..Len(toCentral') : toCentral'[i].id = OutboundId[toCentral'[i].row]
          /\ \A i \in 1..Len(answers') : answers'[i].ok => AcceptedAs(answers'[i].id, answers'[i].seq)
        <3>1. CASE UNCHANGED network
            BY <3>1 DEF network, AcceptanceTrail
        <3>2. CASE BuildAndSend(j)
            BY <3>2, BuildAndSendTrail
        <3> QED
            BY <1>1, <3>1, <3>2 DEF StartJob, Throw
    <2> QED
        BY <1>1, <2>1 DEF StartJob, AcceptanceTrail, AcceptedAs, SuccessMeansAccepted, database
<1>2. CASE LookUpOriginal(j)
    BY <1>2, BuildAndSendTrail
       DEF LookUpOriginal, AcceptanceTrail, AcceptedAs, SuccessMeansAccepted, database
<1>3. CASE MarkSent(j)
    BY <1>0, <1>3 DEF TypeOK, MarkSent, SetStatus, AcceptanceTrail, AcceptedAs,
                      SuccessMeansAccepted, network
<1>4. CASE ArmTimer(j)
    BY <1>4 DEF ArmTimer, AcceptanceTrail, AcceptedAs, SuccessMeansAccepted, database, network
<1>5. CASE MarkFailed(j)
    BY <1>0, <1>5 DEF TypeOK, MarkFailed, SetStatus, AcceptanceTrail, AcceptedAs,
                      SuccessMeansAccepted, network
<1> QED
    BY <1>1, <1>2, <1>3, <1>4, <1>5 DEF JobStep

\* So does one of a callback.
LEMMA FlowStepTrail ==
    ASSUME TypeOK, AcceptanceTrail, NEW f \in flows, FlowStep(f)
    PROVE  AcceptanceTrail'
<1>0. f \in Flow /\ f.row \in Rows
    BY DEF TypeOK, Flow
<1> USE DEF AcceptanceTrail, AcceptedAs, SuccessMeansAccepted, network
<1>1. CASE StopTimer(f)
    BY <1>0, <1>1 DEF Flow, StopTimer, FlowGoesTo, database
<1>2. CASE RecordSuccess(f)
    BY <1>0, <1>2 DEF TypeOK, RecordSuccess, SetStatus
<1>3. CASE CheckFailure(f)
    BY <1>0, <1>3 DEF Flow, CheckFailure, FailureVerdict, FlowGoesTo, database
<1>4. CASE GiveUp(f)
    BY <1>0, <1>4 DEF TypeOK, GiveUp, SetStatus
<1>5. CASE IncrementRetryCountAndReportSequence(f)
    <2>1. /\ \A r \in Rows : seq[r] \in Nat /\ seq'[r] \in Nat /\ seq[r] <= seq'[r]
          /\ \A g \in flows : g.row \in Rows
        BY <1>0, <1>5 DEF TypeOK, Flow, IncrementRetryCountAndReportSequence
    <2>2. \A q \in accepted : q.seq \in Nat
        BY DEF TypeOK, Message
    <2>3. \A r \in Rows : AcceptedAs(OutboundId[r], seq[r]) =>
              \E q \in accepted : OutboundId[q.row] = OutboundId[r] /\ q.seq <= seq'[r]
        BY <2>1, <2>2
    <2>4. \A g \in flows' : g.pc \in {"foundOk", "success"} => g \in flows
        BY <1>0, <1>5 DEF Flow, IncrementRetryCountAndReportSequence, FlowGoesTo
    <2>5. UNCHANGED <<status, toCentral, answers, lookups, accepted>>
        BY <1>5 DEF IncrementRetryCountAndReportSequence
    <2> QED
        BY <2>1, <2>3, <2>4, <2>5
<1>6. CASE Requeue(f)
    BY <1>0, <1>6 DEF TypeOK, Requeue, SetStatus
<1> QED
    BY <1>1, <1>2, <1>3, <1>4, <1>5, <1>6 DEF FlowStep

\* So does a fault.
LEMMA FaultsTrail ==
    ASSUME TypeOK, AcceptanceTrail, Faults
    PROVE  AcceptanceTrail'
<1> USE DEF AcceptanceTrail, AcceptedAs, SuccessMeansAccepted, network, database
<1>1. ASSUME NEW j \in jobs, QueryErrorInJob(j)
      PROVE  AcceptanceTrail'
    BY <1>1 DEF QueryErrorInJob, Throw
<1>2. ASSUME NEW a \in lookups, QueryErrorInLookup(a)
      PROVE  AcceptanceTrail'
    BY <1>2 DEF QueryErrorInLookup
<1>3. ASSUME NEW f \in flows, QueryErrorInFlow(f)
      PROVE  AcceptanceTrail'
    BY <1>3 DEF TypeOK, Flow, QueryErrorInFlow, FlowGoesTo
<1>4. CASE Disconnect
    BY <1>4 DEF Disconnect, memory
<1>5. CASE Restart
    BY <1>5 DEF Restart
<1> QED
    BY <1>1, <1>2, <1>3, <1>4, <1>5 DEF Faults

\* The central system accepts a report before it says so of its id and attempt.
LEMMA CentralReceivesTrail ==
    ASSUME TypeOK, AcceptanceTrail, CentralReceives
    PROVE  AcceptanceTrail'
<1> DEFINE m == Head(toCentral)
           Reply(ok) == [id |-> m.id, seq |-> m.seq, ok |-> ok]
           Taken(id, n) == \E q \in accepted' : OutboundId[q.row] = id /\ q.seq <= n
<1>1. /\ toCentral \in Seq(Message)
      /\ toCentral # <<>>
      /\ answers \in Seq(Answer)
    BY DEF TypeOK, CentralReceives
<1>2. m \in Message /\ m.id = OutboundId[m.row] /\ m.seq \in Nat
    <2>1. m \in Message /\ m = toCentral[1] /\ 1 \in 1..Len(toCentral)
        BY <1>1
    <2>2. m.id = OutboundId[m.row]
        BY <2>1 DEF AcceptanceTrail
    <2> QED
        BY <2>1, <2>2 DEF Message
<1>3. PICK ok \in BOOLEAN :
          /\ accepted' = IF ok THEN accepted \cup {m} ELSE accepted
          /\ answers' \in {answers, Append(answers, Reply(ok))}
    BY DEF CentralReceives
<1>4. \A id, n : AcceptedAs(id, n) => Taken(id, n)
    BY <1>3 DEF AcceptedAs
<1>5. ok => Taken(m.id, m.seq)
    BY <1>2, <1>3
<1>6. \A i \in 1..Len(toCentral') : toCentral'[i].id = OutboundId[toCentral'[i].row]
    <2>1. toCentral' = Tail(toCentral)
        BY DEF CentralReceives
    <2>2. \A i \in 1..Len(toCentral') : i + 1 \in 1..Len(toCentral) /\ toCentral'[i] = toCentral[i + 1]
        BY <1>1, <2>1
    <2> QED
        BY <2>2 DEF AcceptanceTrail
<1>7. \A i \in 1..Len(answers') : answers'[i].ok => Taken(answers'[i].id, answers'[i].seq)
    <2>1. \A i \in 1..Len(answers') :
              \/ i \in 1..Len(answers) /\ answers'[i] = answers[i]
              \/ answers'[i] = Reply(ok)
        <3>1. answers' \in {answers, Append(answers, Reply(ok))}
            BY <1>3
        <3> HIDE DEF Reply, Taken, m
        <3> QED
            BY <1>1, <3>1
    <2>2. \A i \in 1..Len(answers) : answers[i].ok => Taken(answers[i].id, answers[i].seq)
        BY <1>4 DEF AcceptanceTrail
    <2>3. Reply(ok).ok => Taken(Reply(ok).id, Reply(ok).seq)
        BY <1>5
    <2> HIDE DEF Reply, Taken
    <2> QED
        BY <2>1, <2>2, <2>3
<1>8. UNCHANGED <<lookups, flows, status, seq>>
    BY DEF CentralReceives, memory, database
<1>9. \A a \in lookups' : a.ok => Taken(a.id, a.seq)
    BY <1>4, <1>8 DEF AcceptanceTrail
<1>10. \A f \in flows' : f.pc \in {"foundOk", "success"} => Taken(OutboundId[f.row], seq'[f.row])
    BY <1>4, <1>8 DEF AcceptanceTrail
<1>11. \A r \in Rows : status'[r] = "SUCCESS" => Taken(OutboundId[r], seq'[r])
    BY <1>4, <1>8 DEF AcceptanceTrail, SuccessMeansAccepted
<1> QED
    BY <1>6, <1>7, <1>9, <1>10, <1>11 DEF AcceptanceTrail, AcceptedAs, SuccessMeansAccepted

\* A row is SUCCESS only if the central system took a report with its id, in an
\* attempt the row had made: no restart, duplicate, stale or overtaking answer
\* breaks it, whatever ids the rows share.
THEOREM SuccessIsAccepted == Spec => []SuccessMeansAccepted
<1>1. Init => AcceptanceTrail
    BY DEF Init, AcceptanceTrail, SuccessMeansAccepted
<1>2. TypeOK /\ AcceptanceTrail /\ [Next]_vars => AcceptanceTrail'
    <2> SUFFICES ASSUME TypeOK, AcceptanceTrail, [Next]_vars
                 PROVE  AcceptanceTrail'
        OBVIOUS
    <2>1. ASSUME NEW r \in Rows, CreateLog(r) \/ BecomesDue(r)
          PROVE  AcceptanceTrail'
        BY <2>1 DEF TypeOK, CreateLog, BecomesDue, AcceptanceTrail, AcceptedAs,
                    SuccessMeansAccepted, memory, network
    <2>2. ASSUME NEW n \in Runs, Poll(n)
          PROVE  AcceptanceTrail'
        BY <2>2 DEF Poll, AcceptanceTrail, AcceptedAs, SuccessMeansAccepted, database, network
    <2>3. ASSUME NEW j \in jobs, JobStep(j)
          PROVE  AcceptanceTrail'
        BY <2>3, JobStepTrail
    <2>4. ASSUME NEW t \in Tasks, AnswerArrives(t)
          PROVE  AcceptanceTrail'
        <3>1. answers \in Seq(Answer) /\ answers # <<>> /\ answers' = Tail(answers)
            BY <2>4 DEF TypeOK, AnswerArrives
        <3>2. \A i \in 1..Len(answers') : i + 1 \in 1..Len(answers) /\ answers'[i] = answers[i + 1]
            BY <3>1
        <3>3. Head(answers).ok => AcceptedAs(Head(answers).id, Head(answers).seq)
            BY <3>1 DEF AcceptanceTrail
        <3>4. \A i \in 1..Len(answers') : answers'[i].ok => AcceptedAs(answers'[i].id, answers'[i].seq)
            BY <3>2 DEF AcceptanceTrail
        <3>5. \A a \in lookups' : a.ok => AcceptedAs(a.id, a.seq)
            BY <2>4, <3>3 DEF AnswerArrives, AcceptanceTrail
        <3> QED
            BY <2>4, <3>4, <3>5 DEF AnswerArrives, AcceptanceTrail, AcceptedAs,
                                    SuccessMeansAccepted, database
    <2>5. ASSUME NEW a \in lookups, FindAnswered(a)
          PROVE  AcceptanceTrail'
        <3>1. \A f \in flows' : f.pc \in {"foundOk", "success"} => AcceptedAs(OutboundId[f.row], seq[f.row])
            BY <2>5 DEF FindAnswered, Matches, Verdict, AcceptanceTrail, AcceptedAs
        <3> QED
            BY <2>5, <3>1 DEF FindAnswered, AcceptanceTrail, AcceptedAs,
                              SuccessMeansAccepted, database, network
    <2>6. ASSUME NEW f \in flows, FlowStep(f)
          PROVE  AcceptanceTrail'
        BY <2>6, FlowStepTrail
    <2>7. ASSUME NEW r \in Rows, NEW t \in Tasks, TimerFires(r, t)
          PROVE  AcceptanceTrail'
        BY <2>7 DEF TimerFires, AcceptanceTrail, AcceptedAs, SuccessMeansAccepted,
                    database, network
    <2>8. CASE CentralReceives
        BY <2>8, CentralReceivesTrail
    <2>9. CASE Connect
        BY <2>9 DEF Connect, AcceptanceTrail, AcceptedAs, SuccessMeansAccepted, database, memory
    <2>10. CASE Faults
        BY <2>10, FaultsTrail
    <2>11. CASE BecomeCalm
        BY <2>11 DEF BecomeCalm, AcceptanceTrail, AcceptedAs, SuccessMeansAccepted,
                     database, memory, network
    <2>12. CASE UNCHANGED vars
        BY <2>12 DEF vars, AcceptanceTrail, AcceptedAs, SuccessMeansAccepted,
                     database, memory, network
    <2> QED
        BY <2>1, <2>2, <2>3, <2>4, <2>5, <2>6, <2>7, <2>8, <2>9, <2>10, <2>11, <2>12 DEF Next
<1>3. AcceptanceTrail => SuccessMeansAccepted
    BY DEF AcceptanceTrail
<1> QED
    BY <1>1, <1>2, <1>3, TypeCorrect, PTL DEF Spec
-----------------------------------------------------------------------------
(* What a verdict is worth.                                                 *)

\* Which steps write the table: the rows they write, and with what.
LEMMA WritersOfTheTable ==
    ASSUME TypeOK, [Next]_vars, NEW r \in Rows
    PROVE  \/ UNCHANGED <<status[r], retry[r], seq[r]>>
           \/ status[r] = "ABSENT" /\ status'[r] = "PENDING" /\ UNCHANGED <<retry[r], seq[r]>>
           \/ \E j \in jobs : /\ j.row = r
                              /\ \/ j.pc = "mark" /\ status'[r] = "SENT"
                                 \/ j.pc = "fail" /\ status'[r] = "FAILED"
                              /\ UNCHANGED <<retry[r], seq[r]>>
           \/ \E f \in flows : /\ f.row = r
                               /\ \/ f.pc = "success" /\ status'[r] = "SUCCESS"
                                  \/ f.pc = "giveup" /\ status'[r] = "FAILED"
                                  \/ f.pc = "repend" /\ status'[r] = "PENDING"
                               /\ UNCHANGED <<retry[r], seq[r]>>
           \/ \E f \in flows : /\ f.row = r /\ f.pc = "bump"
                               /\ status'[r] = status[r]
                               /\ retry'[r] = retry[r] + 1
                               /\ seq'[r] = seq[r] + 1
<1> USE DEF TypeOK, SetStatus
<1>1. ASSUME NEW q \in Rows, CreateLog(q) \/ BecomesDue(q)
      PROVE  \/ UNCHANGED <<status[r], retry[r], seq[r]>>
             \/ status[r] = "ABSENT" /\ status'[r] = "PENDING" /\ UNCHANGED <<retry[r], seq[r]>>
    BY <1>1 DEF CreateLog, BecomesDue
<1>2. ASSUME NEW j \in jobs, JobStep(j)
      PROVE  \/ UNCHANGED <<status[r], retry[r], seq[r]>>
             \/ /\ j.row = r
                /\ \/ j.pc = "mark" /\ status'[r] = "SENT"
                   \/ j.pc = "fail" /\ status'[r] = "FAILED"
                /\ UNCHANGED <<retry[r], seq[r]>>
    BY <1>2 DEF Job, JobStep, StartJob, LookUpOriginal, MarkSent, ArmTimer, MarkFailed, database
<1>3. ASSUME NEW f \in flows, FlowStep(f)
      PROVE  \/ UNCHANGED <<status[r], retry[r], seq[r]>>
             \/ /\ f.row = r
                /\ \/ f.pc = "success" /\ status'[r] = "SUCCESS"
                   \/ f.pc = "giveup" /\ status'[r] = "FAILED"
                   \/ f.pc = "repend" /\ status'[r] = "PENDING"
                /\ UNCHANGED <<retry[r], seq[r]>>
             \/ /\ f.row = r /\ f.pc = "bump"
                /\ status'[r] = status[r]
                /\ retry'[r] = retry[r] + 1
                /\ seq'[r] = seq[r] + 1
    BY <1>3 DEF Flow, FlowStep, StopTimer, RecordSuccess, CheckFailure, FailureVerdict, GiveUp,
                IncrementRetryCountAndReportSequence, Requeue, database
<1>4. ASSUME \/ \E n \in Runs : Poll(n)
             \/ \E t \in Tasks : AnswerArrives(t)
             \/ \E a \in lookups : FindAnswered(a)
             \/ \E q \in Rows, t \in Tasks : TimerFires(q, t)
             \/ CentralReceives \/ Connect \/ Faults \/ BecomeCalm
             \/ UNCHANGED vars
      PROVE  UNCHANGED <<status[r], retry[r], seq[r]>>
    BY <1>4 DEF Poll, AnswerArrives, FindAnswered, TimerFires, CentralReceives, Connect,
                Faults, QueryErrorInJob, QueryErrorInLookup, QueryErrorInFlow,
                Disconnect, Restart, BecomeCalm, vars, database
<1> QED
    BY <1>1, <1>2, <1>3, <1>4 DEF Next

\* The sequence number counts the retries for any number of rows and callbacks.
THEOREM SequenceCountsRetries == Spec => []SequenceTracksRetries
<1>1. Init => SequenceTracksRetries
    BY DEF Init, SequenceTracksRetries
<1>2. TypeOK /\ SequenceTracksRetries /\ [Next]_vars => SequenceTracksRetries'
    <2> SUFFICES ASSUME TypeOK, SequenceTracksRetries, [Next]_vars, NEW r \in Rows
                 PROVE  seq'[r] = retry'[r] + 1
        BY DEF SequenceTracksRetries
    <2>1. retry[r] \in Nat /\ seq[r] = retry[r] + 1
        BY DEF TypeOK, SequenceTracksRetries
    <2> QED
        BY <2>1, WritersOfTheTable
<1> QED
    BY <1>1, <1>2, TypeCorrect, PTL DEF Spec

\* A settled row gets no job and no callback that would write it.
LEMMA SettledStays ==
    ASSUME TypeOK, [Next]_vars, NEW r \in Rows, Settled(r)
    PROVE  Settled(r)'
<1> USE DEF Settled
<1>1. status'[r] = status[r]
    BY WritersOfTheTable DEF Final
<1>2. \A j \in jobs' : j.row # r
    <2>1. ASSUME NEW n \in Runs, Poll(n) PROVE \A j \in jobs' : j.row # r
        BY <2>1 DEF Poll, Snapshot, Unprocessed, Final
    <2>2. ASSUME NEW j \in jobs, JobStep(j) PROVE \A k \in jobs' : k.row # r
        BY <2>2 DEF TypeOK, Job, JobStep, StartJob, BuildAndSend, LookUpOriginal, MarkSent,
                    ArmTimer, MarkFailed, Throw, JobGoesTo
    <2>3. ASSUME NEW j \in jobs, QueryErrorInJob(j) PROVE \A k \in jobs' : k.row # r
        BY <2>3 DEF TypeOK, Job, QueryErrorInJob, Throw, JobGoesTo
    <2>4. ASSUME NEW f \in flows, FlowStep(f) PROVE jobs' = jobs
        BY <2>4 DEF FlowStep, StopTimer, RecordSuccess, CheckFailure, GiveUp,
                    IncrementRetryCountAndReportSequence, Requeue
    <2>5. CASE \/ \E q \in Rows : CreateLog(q) \/ BecomesDue(q)
               \/ \E t \in Tasks : AnswerArrives(t)
               \/ \E a \in lookups : FindAnswered(a) \/ QueryErrorInLookup(a)
               \/ \E q \in Rows, t \in Tasks : TimerFires(q, t)
               \/ \E f \in flows : QueryErrorInFlow(f)
               \/ CentralReceives \/ Connect \/ Disconnect \/ Restart \/ BecomeCalm
               \/ UNCHANGED vars
        BY <2>5 DEF CreateLog, BecomesDue, AnswerArrives, FindAnswered, QueryErrorInLookup,
                    TimerFires, QueryErrorInFlow, CentralReceives, Connect, Disconnect,
                    Restart, BecomeCalm, vars, memory
    <2> QED
        BY <2>1, <2>2, <2>3, <2>4, <2>5 DEF Next, Faults
<1>3. \A f \in flows' : f.row = r => f.pc \in {"foundFinal", "check"}
    <2>1. ASSUME NEW a \in lookups, FindAnswered(a)
          PROVE  \A f \in flows' : f.row = r => f.pc \in {"foundFinal", "check"}
        BY <2>1 DEF FindAnswered, Verdict
    <2>2. ASSUME NEW q \in Rows, NEW t \in Tasks, TimerFires(q, t)
          PROVE  \A f \in flows' : f.row = r => f.pc \in {"foundFinal", "check"}
        BY <2>2 DEF TimerFires
    <2>3. ASSUME NEW g \in flows, FlowStep(g) \/ QueryErrorInFlow(g)
          PROVE  \A f \in flows' : f.row = r => f.pc \in {"foundFinal", "check"}
        <3>1. CASE g.row = r
            BY <2>3, <3>1 DEF FlowStep, StopTimer, RecordSuccess, CheckFailure, GiveUp,
                IncrementRetryCountAndReportSequence, Requeue, QueryErrorInFlow
        <3>2. CASE g.row # r
            BY <2>3, <3>2 DEF TypeOK, Flow, FlowStep, StopTimer, RecordSuccess, CheckFailure,
                GiveUp, IncrementRetryCountAndReportSequence, Requeue, QueryErrorInFlow,
                FlowGoesTo
        <3> QED
            BY <3>1, <3>2
    <2>4. CASE \/ \E q \in Rows : CreateLog(q) \/ BecomesDue(q)
               \/ \E n \in Runs : Poll(n)
               \/ \E j \in jobs : JobStep(j) \/ QueryErrorInJob(j)
               \/ \E t \in Tasks : AnswerArrives(t)
               \/ \E a \in lookups : QueryErrorInLookup(a)
               \/ CentralReceives \/ Connect \/ Disconnect \/ Restart \/ BecomeCalm
               \/ UNCHANGED vars
        BY <2>4 DEF CreateLog, BecomesDue, Poll, JobStep, StartJob, LookUpOriginal, MarkSent,
                    ArmTimer, MarkFailed, QueryErrorInJob, AnswerArrives, QueryErrorInLookup,
                    CentralReceives, Connect, Disconnect, Restart, BecomeCalm, vars, memory
    <2> QED
        BY <2>1, <2>2, <2>3, <2>4 DEF Next, Faults
<1> QED
    BY <1>1, <1>2, <1>3

\* Once no job and no callback remembers the row as open, none ever will, and
\* its verdict is final (processAck and processFailure look at the status first).
THEOREM VerdictsAreKept == Spec => FinalStaysFinal
<1>1. TypeOK /\ [Next]_vars => [KeepsVerdicts]_vars
    <2> SUFFICES ASSUME TypeOK, [Next]_vars, NEW r \in Rows, Settled(r)
                 PROVE  Settled(r)' /\ status'[r] = status[r] /\ retry'[r] = retry[r]
        BY DEF KeepsVerdicts
    <2>1. status'[r] = status[r] /\ retry'[r] = retry[r]
        BY WritersOfTheTable DEF Settled, Final
    <2> QED
        BY <2>1, SettledStays
<1> QED
    BY <1>1, TypeCorrect, PTL DEF Spec, FinalStaysFinal

\* A verdict FAILED was given at the limit.
LEMMA GiveUpsStayExhausted ==
    ASSUME TypeOK, GiveUpsAreExhausted, [Next]_vars
    PROVE  GiveUpsAreExhausted'
<1> SUFFICES ASSUME NEW f \in flows', f.pc = "giveup"
             PROVE  retry'[f.row] >= MaxRetries
    BY DEF GiveUpsAreExhausted
<1>1. \A r \in Rows : retry[r] \in Nat /\ (retry'[r] = retry[r] \/ retry'[r] = retry[r] + 1)
    BY WritersOfTheTable DEF TypeOK
<1>2. CASE f \in flows
    <2>1. f.row \in Rows /\ retry[f.row] >= MaxRetries
        BY <1>2 DEF TypeOK, Flow, GiveUpsAreExhausted
    <2> QED
        BY <2>1, <1>1, ConstantsAssumption DEF ConstantsAssumption
<1>3. CASE f \notin flows
    <2>1. PICK g \in flows : /\ CheckFailure(g)
                             /\ f.row = g.row /\ g.row \in Rows
                             /\ retry[g.row] + 1 > MaxRetries
        <3>1. ASSUME NEW g \in flows, FlowStep(g)
              PROVE  /\ CheckFailure(g)
                     /\ f.row = g.row /\ g.row \in Rows
                     /\ retry[g.row] + 1 > MaxRetries
            BY <1>3, <3>1 DEF TypeOK, Flow, FlowStep, StopTimer, RecordSuccess, CheckFailure, FailureVerdict,
                  GiveUp, IncrementRetryCountAndReportSequence, Requeue, FlowGoesTo
        <3>2. ~ \/ \E q \in Rows : CreateLog(q) \/ BecomesDue(q)
                \/ \E n \in Runs : Poll(n)
                \/ \E j \in jobs : JobStep(j)
                \/ \E t \in Tasks : AnswerArrives(t)
                \/ CentralReceives \/ Connect \/ BecomeCalm
                \/ UNCHANGED vars
            BY <1>3 DEF CreateLog, BecomesDue, Poll, JobStep, StartJob, LookUpOriginal,
                  MarkSent, ArmTimer, MarkFailed, AnswerArrives, CentralReceives, Connect,
                  BecomeCalm, vars, memory
        <3>3. ~ \/ \E a \in lookups : FindAnswered(a)
                \/ \E q \in Rows, t \in Tasks : TimerFires(q, t)
            BY <1>3 DEF FindAnswered, Verdict, TimerFires
        <3>4. ~Faults
            BY <1>3 DEF TypeOK, Flow, Faults, QueryErrorInJob, QueryErrorInLookup,
                  QueryErrorInFlow, FlowGoesTo, Disconnect, Restart, memory
        <3> QED
            BY <3>1, <3>2, <3>3, <3>4 DEF Next
    <2>2. retry' = retry
        BY <2>1 DEF CheckFailure, FailureVerdict, database
    <2> QED
        BY <2>1, <2>2, <1>1, ConstantsAssumption DEF ConstantsAssumption
<1> QED
    BY <1>2, <1>3

\* No timeout, NACK, lost connection or restart gives a row up before its
\* retries are used up.
THEOREM GivingUpHasACause == Spec => GivesUpOnlyWhenExhausted
<1>1. Init => GiveUpsAreExhausted
    BY DEF Init, GiveUpsAreExhausted
<1>2. TypeOK /\ GiveUpsAreExhausted /\ [Next]_vars => GiveUpsAreExhausted'
    BY GiveUpsStayExhausted
<1>3. TypeOK /\ GiveUpsAreExhausted /\ [Next]_vars => [GivesUpWithCause]_vars
    <2> SUFFICES ASSUME TypeOK, GiveUpsAreExhausted, [Next]_vars, NEW r \in Rows,
                        status[r] # "FAILED", status'[r] = "FAILED"
                 PROVE  \/ retry[r] >= MaxRetries
                        \/ \E j \in jobs : j.row = r /\ j.pc = "fail"
        BY DEF GivesUpWithCause
    <2> QED
        BY WritersOfTheTable DEF GiveUpsAreExhausted
<1> QED
    BY <1>1, <1>2, <1>3, TypeCorrect, PTL DEF Spec, GivesUpOnlyWhenExhausted
-----------------------------------------------------------------------------
(* How far the retries overshoot.                                           *)

\* A callback is one flow, or the lookup it begins with.
OneFlowPerTask ==
    /\ \A f \in flows, g \in flows : f.task = g.task => f = g
    /\ \A a \in lookups, f \in flows : a.task # f.task
    /\ \A a \in lookups, b \in lookups : a.task = b.task => a = b

\* The callbacks that found retries left for a row and have not charged theirs.
Charging(r) == {t \in Tasks : \E f \in flows : f.task = t /\ f.row = r /\ f.pc = "bump"}

\* Why OvershootBounded holds: what is charged counts with what is about to be.
ChargesCounted ==
    \A r \in Rows : retry[r] + Cardinality(Charging(r)) < MaxRetries + Cardinality(Tasks)

\* A callback that goes on or ends shares its task with no other.
LEMMA FlowKeepsTask ==
    ASSUME TypeOK, OneFlowPerTask, NEW f \in flows,
           UNCHANGED lookups,
           \/ flows' = flows \ {f}
           \/ \E pc \in {"success", "check", "giveup", "bump", "repend"} : FlowGoesTo(f, pc)
    PROVE  OneFlowPerTask'
<1>1. CASE flows' = flows \ {f}
    BY <1>1 DEF OneFlowPerTask
<1>2. ASSUME NEW pc \in {"success", "check", "giveup", "bump", "repend"}, FlowGoesTo(f, pc)
      PROVE  OneFlowPerTask'
    <2> DEFINE g == [f EXCEPT !.pc = pc]
    <2>1. f \in Flow /\ g.task = f.task
        BY DEF TypeOK, Flow
    <2>2. flows' = (flows \ {f}) \cup {g}
        BY <1>2 DEF FlowGoesTo
    <2> HIDE DEF g
    <2> QED
        BY <2>1, <2>2 DEF OneFlowPerTask
<1> QED
    BY <1>1, <1>2

\* No step gives a task a second callback.
LEMMA OneFlowStays ==
    ASSUME TypeOK, OneFlowPerTask, [Next]_vars
    PROVE  OneFlowPerTask'
<1>1. CASE UNCHANGED <<lookups, flows>>
    BY <1>1 DEF OneFlowPerTask
<1>2. CASE lookups' = {} /\ flows' = {}
    BY <1>2 DEF OneFlowPerTask
<1>3. ASSUME NEW t \in Tasks, AnswerArrives(t)
      PROVE  OneFlowPerTask'
    <2>1. PICK a : a.task = t /\ lookups' = lookups \cup {a}
        BY <1>3 DEF AnswerArrives
    <2>2. \A x \in lookups \cup flows : x.task # t
        BY <1>3 DEF AnswerArrives, IdleTask
    <2>3. flows' = flows
        BY <1>3 DEF AnswerArrives
    <2> QED
        BY <2>1, <2>2, <2>3 DEF OneFlowPerTask
<1>4. ASSUME NEW a \in lookups, FindAnswered(a)
      PROVE  OneFlowPerTask'
    <2>1. lookups' = lookups \ {a}
        BY <1>4 DEF FindAnswered
    <2>2. CASE flows' = flows
        BY <2>1, <2>2 DEF OneFlowPerTask
    <2>3. ASSUME NEW f, f.task = a.task, flows' = flows \cup {f}
          PROVE  OneFlowPerTask'
        BY <2>1, <2>3 DEF OneFlowPerTask
    <2>4. flows' = flows \/ \E f : f.task = a.task /\ flows' = flows \cup {f}
        BY <1>4 DEF FindAnswered
    <2> QED
        BY <2>2, <2>3, <2>4
<1>5. ASSUME NEW f \in flows, FlowStep(f)
      PROVE  OneFlowPerTask'
    BY <1>5, FlowKeepsTask
       DEF FlowStep, StopTimer, RecordSuccess, CheckFailure, FailureVerdict, GiveUp,
           IncrementRetryCountAndReportSequence, Requeue
<1>6. ASSUME NEW r \in Rows, NEW t \in Tasks, TimerFires(r, t)
      PROVE  OneFlowPerTask'
    <2>1. PICK f : f.task = t /\ flows' = flows \cup {f}
        BY <1>6 DEF TimerFires
    <2>2. \A x \in lookups \cup flows : x.task # t
        BY <1>6 DEF TimerFires, IdleTask
    <2>3. lookups' = lookups
        BY <1>6 DEF TimerFires
    <2> QED
        BY <2>1, <2>2, <2>3 DEF OneFlowPerTask
<1>7. CASE Faults
    <2>1. ASSUME NEW a \in lookups, QueryErrorInLookup(a)
          PROVE  OneFlowPerTask'
        BY <2>1 DEF QueryErrorInLookup, OneFlowPerTask
    <2>2. ASSUME NEW f \in flows, QueryErrorInFlow(f)
          PROVE  OneFlowPerTask'
        BY <2>2, FlowKeepsTask DEF QueryErrorInFlow
    <2> QED
        BY <1>1, <1>2, <1>7, <2>1, <2>2
           DEF Faults, QueryErrorInJob, Disconnect, Restart, memory
<1>8. CASE \/ \E r \in Rows : CreateLog(r) \/ BecomesDue(r)
           \/ \E n \in Runs : Poll(n)
           \/ \E j \in jobs : JobStep(j)
           \/ CentralReceives \/ Connect \/ BecomeCalm \/ UNCHANGED vars
    <2>1. UNCHANGED <<lookups, flows>>
        BY <1>8 DEF CreateLog, BecomesDue, Poll, JobStep, StartJob, LookUpOriginal, MarkSent,
                    ArmTimer, MarkFailed, CentralReceives, Connect, BecomeCalm, vars, memory
    <2> QED
        BY <1>1, <2>1
<1> QED
    BY <1>3, <1>4, <1>5, <1>6, <1>7, <1>8 DEF Next

\* A step charges what was about to be charged, or finds retries left, or leaves
\* the sum where it is.
LEMMA HowChargesChange ==
    ASSUME TypeOK, OneFlowPerTask, [Next]_vars, NEW r \in Rows
    PROVE  \/ retry'[r] = retry[r] /\ Charging(r)' \subseteq Charging(r)
           \/ retry'[r] = retry[r] /\ retry[r] < MaxRetries
           \/ /\ retry'[r] = retry[r] + 1
              /\ \E t \in Charging(r) : Charging(r)' \subseteq Charging(r) \ {t}
<1> USE DEF TypeOK
<1>1. ASSUME flows' \subseteq flows, retry' = retry
      PROVE  retry'[r] = retry[r] /\ Charging(r)' \subseteq Charging(r)
    BY <1>1 DEF Charging
<1>2. ASSUME NEW f, f.pc # "bump", flows' \subseteq flows \cup {f}, retry' = retry
      PROVE  retry'[r] = retry[r] /\ Charging(r)' \subseteq Charging(r)
    BY <1>2 DEF Charging
<1>3. ASSUME NEW a \in lookups, FindAnswered(a)
      PROVE  retry'[r] = retry[r] /\ Charging(r)' \subseteq Charging(r)
    <2>1. retry' = retry
        BY <1>3 DEF FindAnswered, database
    <2>2. CASE flows' = flows
        BY <1>1, <2>1, <2>2
    <2>3. ASSUME NEW q \in Matches(a),
                 flows' = flows \cup {[task |-> a.task, row |-> q, pc |-> Verdict(a, q)]}
          PROVE  retry'[r] = retry[r] /\ Charging(r)' \subseteq Charging(r)
        <3> DEFINE g == [task |-> a.task, row |-> q, pc |-> Verdict(a, q)]
        <3>1. Verdict(a, q) \in {"foundOk", "foundNack", "foundFinal"}
            BY DEF Verdict
        <3>2. g.pc # "bump" /\ flows' \subseteq flows \cup {g}
            BY <2>3, <3>1
        <3> HIDE DEF g
        <3> QED
            BY <1>2, <2>1, <3>2
    <2> QED
        BY <1>3, <2>2, <2>3 DEF FindAnswered
<1>4. ASSUME NEW q \in Rows, NEW t \in Tasks, TimerFires(q, t)
      PROVE  retry'[r] = retry[r] /\ Charging(r)' \subseteq Charging(r)
    BY <1>2, <1>4 DEF TimerFires, database
<1>5. ASSUME NEW f \in flows, FlowStep(f)
      PROVE  \/ retry'[r] = retry[r] /\ Charging(r)' \subseteq Charging(r)
             \/ retry'[r] = retry[r] /\ retry[r] < MaxRetries
             \/ /\ retry'[r] = retry[r] + 1
                /\ \E t \in Charging(r) : Charging(r)' \subseteq Charging(r) \ {t}
    <2>0. f \in Flow
        OBVIOUS
    <2>1. CASE StopTimer(f)
        BY <1>1, <1>2, <2>0, <2>1 DEF StopTimer, FlowGoesTo, Flow, database
    <2>2. CASE RecordSuccess(f) \/ GiveUp(f) \/ Requeue(f)
        BY <1>1, <2>2 DEF RecordSuccess, GiveUp, Requeue, SetStatus
    <2>3. CASE CheckFailure(f)
        <3>1. retry' = retry
            BY <2>3 DEF CheckFailure, database
        <3>2. CASE flows' = flows \ {f}
            BY <1>1, <3>1, <3>2
        <3>3. CASE FlowGoesTo(f, "giveup")
            BY <1>2, <2>0, <3>1, <3>3 DEF FlowGoesTo, Flow
        <3>4. CASE f.row # r /\ FlowGoesTo(f, "bump")
            BY <2>0, <3>1, <3>4 DEF FlowGoesTo, Flow, Charging
        <3>5. CASE f.row = r /\ retry[f.row] + 1 <= MaxRetries
            BY <3>1, <3>5, ConstantsAssumption
        <3>6. retry[f.row] + 1 > MaxRetries \/ retry[f.row] + 1 <= MaxRetries
            BY <2>0, ConstantsAssumption DEF Flow
        <3> QED
            BY <2>3, <3>2, <3>3, <3>4, <3>5, <3>6 DEF CheckFailure, FailureVerdict
    <2>4. CASE IncrementRetryCountAndReportSequence(f)
        <3> DEFINE g == [f EXCEPT !.pc = "repend"]
        <3>1. g.pc = "repend" /\ g.task = f.task /\ g.row = f.row
            BY <2>0 DEF Flow
        <3>2. flows' = (flows \ {f}) \cup {g}
            BY <2>4 DEF IncrementRetryCountAndReportSequence, FlowGoesTo
        <3> HIDE DEF g
        <3>3. CASE f.row # r
            <4>1. retry'[r] = retry[r]
                BY <2>0, <2>4, <3>3 DEF IncrementRetryCountAndReportSequence, Flow
            <4>2. Charging(r)' \subseteq Charging(r)
                BY <3>1, <3>2 DEF Charging
            <4> QED
                BY <4>1, <4>2
        <3>4. CASE f.row = r
            <4>1. retry'[r] = retry[r] + 1
                BY <2>0, <2>4, <3>4 DEF IncrementRetryCountAndReportSequence, Flow
            <4>2. f.task \in Charging(r)
                BY <2>0, <2>4, <3>4 DEF IncrementRetryCountAndReportSequence, Flow, Charging
            <4>3. Charging(r)' \subseteq Charging(r) \ {f.task}
                BY <3>1, <3>2 DEF Charging, OneFlowPerTask
            <4> QED
                BY <4>1, <4>2, <4>3
        <3> QED
            BY <3>3, <3>4
    <2> QED
        BY <1>5, <2>1, <2>2, <2>3, <2>4 DEF FlowStep
<1>6. CASE Faults
    <2>1. retry' = retry
        BY <1>6 DEF Faults, QueryErrorInJob, QueryErrorInLookup, QueryErrorInFlow, Disconnect,
                    Restart, database
    <2>2. ASSUME NEW f \in flows, QueryErrorInFlow(f)
          PROVE  retry'[r] = retry[r] /\ Charging(r)' \subseteq Charging(r)
        <3>1. f \in Flow
            OBVIOUS
        <3> QED
            BY <1>1, <1>2, <2>1, <2>2, <3>1 DEF QueryErrorInFlow, FlowGoesTo, Flow
    <2>3. (\E f \in flows : QueryErrorInFlow(f)) \/ flows' \subseteq flows
        BY <1>6 DEF Faults, QueryErrorInJob, QueryErrorInLookup, Disconnect, Restart, memory
    <2> QED
        BY <1>1, <2>1, <2>2, <2>3
<1>7. CASE \/ \E q \in Rows : CreateLog(q) \/ BecomesDue(q)
           \/ \E n \in Runs : Poll(n)
           \/ \E j \in jobs : JobStep(j)
           \/ \E t \in Tasks : AnswerArrives(t)
           \/ CentralReceives \/ Connect \/ BecomeCalm \/ UNCHANGED vars
    <2>1. flows' = flows /\ retry' = retry
        BY <1>7 DEF CreateLog, BecomesDue, Poll, JobStep, StartJob, LookUpOriginal, MarkSent,
                    ArmTimer, MarkFailed, AnswerArrives, CentralReceives, Connect, BecomeCalm,
                    vars, memory, database, SetStatus
    <2> QED
        BY <1>1, <2>1
<1> QED
    BY <1>3, <1>4, <1>5, <1>6, <1>7 DEF Next

\* No step takes the column and the charges under way above the bound.
LEMMA ChargesStayCounted ==
    ASSUME TypeOK, OneFlowPerTask, ChargesCounted, [Next]_vars
    PROVE  ChargesCounted'
<1> SUFFICES ASSUME NEW r \in Rows
             PROVE  retry'[r] + Cardinality(Charging(r)') < MaxRetries + Cardinality(Tasks)
    BY DEF ChargesCounted
<1> DEFINE B == Charging(r)
           C == Charging(r)'
<1>1. /\ IsFiniteSet(B) /\ Cardinality(B) \in Nat
      /\ IsFiniteSet(C) /\ Cardinality(C) \in Nat
      /\ Cardinality(C) <= Cardinality(Tasks) /\ Cardinality(Tasks) \in Nat
    <2>1. B \in SUBSET Tasks /\ C \in SUBSET Tasks
        BY DEF Charging
    <2> QED
        BY <2>1, FS_Subset, FS_CardinalityType, ConstantsAssumption
<1>2. retry[r] \in Nat /\ retry[r] + Cardinality(B) < MaxRetries + Cardinality(Tasks)
    BY DEF TypeOK, ChargesCounted
<1>3. MaxRetries \in Nat
    BY ConstantsAssumption
<1>4. ASSUME NEW S, S \subseteq B, C \subseteq S
      PROVE  IsFiniteSet(S) /\ Cardinality(C) <= Cardinality(S)
    <2>1. IsFiniteSet(S)
        BY <1>1, <1>4, FS_Subset
    <2> QED
        BY <1>4, <2>1, FS_Subset
<1>5. CASE retry'[r] = retry[r] /\ C \subseteq B
    <2>1. Cardinality(C) <= Cardinality(B)
        BY <1>4, <1>5
    <2> HIDE DEF B, C
    <2>2. retry'[r] + Cardinality(C) < MaxRetries + Cardinality(Tasks)
        BY <1>1, <1>2, <1>3, <1>5, <2>1
    <2> QED
        BY <2>2 DEF C
<1>6. CASE retry'[r] = retry[r] /\ retry[r] < MaxRetries
    <2> HIDE DEF B, C
    <2>1. retry'[r] + Cardinality(C) < MaxRetries + Cardinality(Tasks)
        BY <1>1, <1>2, <1>3, <1>6
    <2> QED
        BY <2>1 DEF C
<1>7. ASSUME retry'[r] = retry[r] + 1, NEW t \in B, C \subseteq B \ {t}
      PROVE  retry'[r] + Cardinality(C) < MaxRetries + Cardinality(Tasks)
    <2>1. Cardinality(B \ {t}) = Cardinality(B) - 1
        BY <1>1, <1>7, FS_RemoveElement
    <2>2. Cardinality(C) <= Cardinality(B \ {t})
        BY <1>4, <1>7
    <2> HIDE DEF B, C
    <2> QED
        BY <1>1, <1>2, <1>3, <1>7, <2>1, <2>2
<1> QED
    BY <1>5, <1>6, <1>7, HowChargesChange

\* However many callbacks process failures of a row side by side, it is charged
\* less than their number beyond MAX_RETRIES.
THEOREM OvershootIsBounded == Spec => []OvershootBounded
<1>1. Init => OneFlowPerTask /\ ChargesCounted
    <2>1. ASSUME Init, NEW r \in Rows
          PROVE  retry[r] + Cardinality(Charging(r)) < MaxRetries + Cardinality(Tasks)
        <3>1. Charging(r) = {} /\ retry[r] = 0
            BY <2>1 DEF Init, Charging
        <3>2. Cardinality(Tasks) \in Nat /\ Cardinality(Tasks) # 0
            BY ConstantsAssumption, FS_CardinalityType, FS_EmptySet
        <3> QED
            BY <3>1, <3>2, FS_EmptySet, ConstantsAssumption
    <2> QED
        BY <2>1 DEF Init, OneFlowPerTask, ChargesCounted
<1>2. /\ TypeOK /\ OneFlowPerTask /\ ChargesCounted /\ [Next]_vars
      => OneFlowPerTask' /\ ChargesCounted'
    BY OneFlowStays, ChargesStayCounted
<1>3. TypeOK /\ ChargesCounted => OvershootBounded
    <2> SUFFICES ASSUME TypeOK, ChargesCounted, NEW r \in Rows
                 PROVE  retry[r] < MaxRetries + Cardinality(Tasks)
        BY DEF OvershootBounded
    <2>1. Cardinality(Charging(r)) \in Nat /\ Cardinality(Tasks) \in Nat
        <3>1. Charging(r) \in SUBSET Tasks
            BY DEF Charging
        <3> QED
            BY <3>1, ConstantsAssumption, FS_Subset, FS_CardinalityType
    <2>2. retry[r] \in Nat /\ MaxRetries \in Nat
        BY ConstantsAssumption DEF TypeOK
    <2> QED
        BY <2>1, <2>2 DEF ChargesCounted
<1> QED
    BY <1>1, <1>2, <1>3, TypeCorrect, PTL DEF Spec
=============================================================================

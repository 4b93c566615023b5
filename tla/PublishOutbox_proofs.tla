------------------------- MODULE PublishOutbox_proofs -------------------------
(***************************************************************************)
(* Theorems about the two publishing outboxes, DisasterPublish and         *)
(* ReportPublish, for every value of their constants: first what their     *)
(* workers share, then one and the other, and last the process that is one *)
(* of them, Publication.                                                   *)
(*                                                                         *)
(* The inductive invariants say what a job still knows of its row: its     *)
(* count is one the row had, at "mark" its message was taken, at "giveup"  *)
(* the limit was reached.  The bound on the retry count needs the runs     *)
(* that can still charge a row, and the API that a request which has not   *)
(* committed has no row.                                                   *)
(***************************************************************************)
EXTENDS Publication, TLAPS, FiniteSetTheorems

\* A job is about a row that is there, its count is one the row had, and at
\* "mark" its message was taken.
JobsFollowRows ==
    \A j \in jobs : /\ status[j.row] # "ABSENT"
                    /\ j.retry <= retry[j.row]
                    /\ j.pc = "mark" => j.row \in handed

OutboxInv ==
    /\ OutboxTypeOK
    /\ JobsFollowRows
    /\ SuccessWasHanded

\* What the abstract outbox sees of a step.
PromiseStep == [Promise!Next]_<<status, handed>>
-----------------------------------------------------------------------------
\* An empty outbox.
LEMMA InitKeeps == OutboxInit => OutboxInv /\ Promise!Init
<1> SUFFICES ASSUME OutboxInit PROVE OutboxInv /\ Promise!Init
    OBVIOUS
<1>1. OutboxTypeOK
    BY DEF OutboxInit, OutboxTypeOK
<1>2. JobsFollowRows /\ SuccessWasHanded
    BY DEF OutboxInit, JobsFollowRows, SuccessWasHanded
<1>3. Promise!Init
    BY DEF OutboxInit, Promise!Init
<1> QED
    BY <1>1, <1>2, <1>3 DEF OutboxInv

\* A job that goes on to its next statement.
LEMMA GoesToType ==
    ASSUME OutboxTypeOK, NEW j \in jobs, NEW pc \in {"giveup", "mark", "bump"}, GoesTo(j, pc)
    PROVE  jobs' \subseteq Job
BY DEF OutboxTypeOK, GoesTo, Job

\* A job that ends.
LEMMA EndsType ==
    ASSUME OutboxTypeOK, NEW j \in jobs, Ends(j)
    PROVE  jobs' \subseteq Job
BY DEF OutboxTypeOK, Ends

\* What a job may do to its row: its message is handed over, or the verdict that
\* fits where the job stands is written, or a failure is counted.
LEMMA JobKeeps ==
    ASSUME OutboxInv, NEW j \in jobs, NEW pc \in {"giveup", "mark", "bump"},
           Ends(j) \/ GoesTo(j, pc),
           pc = "mark" => j.row \in handed',
           UNCHANGED <<channel, delivered, calm>>, buffer' \subseteq Rows,
           \/ handed' = handed \cup {j.row} /\ status' = status
           \/ handed' = handed /\ status' = status
           \/ handed' = handed /\ SetStatus(j.row, "SUCCESS") /\ j.pc = "mark"
           \/ handed' = handed /\ SetStatus(j.row, "FAILED"),
           retry' \in {retry, [retry EXCEPT ![j.row] = @ + 1]}
    PROVE  OutboxInv' /\ PromiseStep
<1> USE DEF OutboxInv
<1>1. j \in Job /\ j.row \in Rows /\ j.retry \in Nat
    BY DEF OutboxTypeOK, Job
<1>2. OutboxTypeOK'
  <2>1. jobs' \subseteq Job
      BY GoesToType, EndsType
  <2>2. status' \in [Rows -> {"ABSENT", "PENDING"} \cup Final]
      BY <1>1 DEF OutboxTypeOK, SetStatus, Final
  <2>3. retry' \in [Rows -> Nat]
      BY <1>1 DEF OutboxTypeOK
  <2>4. handed' \subseteq Rows
      BY <1>1 DEF OutboxTypeOK
  <2> QED
      BY <2>1, <2>2, <2>3, <2>4 DEF OutboxTypeOK
<1>3. /\ handed \subseteq handed'
      /\ \A r \in Rows : /\ retry[r] \in Nat /\ retry'[r] \in Nat /\ retry[r] <= retry'[r]
                         /\ status[r] # "ABSENT" => status'[r] # "ABSENT"
    BY <1>1 DEF OutboxTypeOK, SetStatus
<1>4. JobsFollowRows'
  <2> DEFINE d == [j EXCEPT !.pc = pc]
  <2>1. d.row = j.row /\ d.retry = j.retry /\ d.pc = pc
      BY <1>1 DEF Job
  <2>2. \A k \in jobs' : k \in jobs \/ (k = d /\ GoesTo(j, pc))
      BY DEF GoesTo, Ends
  <2>3. \A k \in jobs : k.row \in Rows /\ k.retry \in Nat
      BY DEF OutboxTypeOK, Job
  <2> HIDE DEF d
  <2> QED
      BY <1>3, <2>1, <2>2, <2>3 DEF JobsFollowRows
<1>5. SuccessWasHanded'
    BY <1>1, <1>3 DEF OutboxTypeOK, SuccessWasHanded, SetStatus, JobsFollowRows
<1>6. PromiseStep
  <2>1. status[j.row] # "ABSENT"
      BY DEF JobsFollowRows
  <2>2. CASE handed' = handed \cup {j.row} /\ status' = status
      BY <1>1, <2>1, <2>2 DEF PromiseStep, Promise!Next, Promise!HandOver
  <2>3. CASE handed' = handed /\ SetStatus(j.row, "SUCCESS") /\ j.pc = "mark"
    <3>1. j.row \in handed
        BY <2>3 DEF JobsFollowRows
    <3>2. Promise!Decide(j.row, "SUCCESS")
        BY <2>1, <2>3, <3>1 DEF Promise!Decide, SetStatus
    <3> QED
        BY <1>1, <3>2 DEF PromiseStep, Promise!Next, Promise!Verdicts
  <2>4. CASE handed' = handed /\ SetStatus(j.row, "FAILED")
    <3>1. Promise!Decide(j.row, "FAILED")
        BY <2>1, <2>4 DEF Promise!Decide, SetStatus
    <3> QED
        BY <1>1, <3>1 DEF PromiseStep, Promise!Next, Promise!Verdicts
  <2>5. CASE handed' = handed /\ status' = status
      BY <2>5 DEF PromiseStep
  <2> QED
      BY <2>2, <2>3, <2>4, <2>5
<1> QED
    BY <1>2, <1>4, <1>5, <1>6

\* The four steps of a job that both workers share.
LEMMA JobStepKeeps ==
    ASSUME OutboxInv, NEW j \in jobs, NEW exhausted \in BOOLEAN,
           \/ Process(j, exhausted)
           \/ GiveUp(j) \/ MarkSuccess(j) \/ IncrementRetryCount(j) \/ QueryError(j)
    PROVE  OutboxInv' /\ PromiseStep
<1>1. j.row \in Rows /\ buffer \subseteq Rows
    BY DEF OutboxInv, OutboxTypeOK, Job
<1>2. CASE Process(j, exhausted)
  <2>1. PICK pc \in {"giveup", "mark", "bump"} :
          /\ GoesTo(j, pc)
          /\ buffer' \in {buffer, buffer \cup {j.row}}
          /\ handed' \in {handed, handed \cup {j.row}}
          /\ pc = "mark" => j.row \in handed'
      BY <1>2 DEF Process, PublishMessage
  <2> QED
      BY <1>1, <1>2, <2>1, JobKeeps DEF Process, database
<1>3. CASE GiveUp(j)
    BY <1>1, <1>3, JobKeeps DEF GiveUp, network
<1>4. CASE MarkSuccess(j)
    BY <1>1, <1>4, JobKeeps DEF MarkSuccess, network
<1>5. CASE IncrementRetryCount(j)
    BY <1>1, <1>5, JobKeeps DEF IncrementRetryCount, network
<1>6. CASE QueryError(j)
    BY <1>1, <1>6, JobKeeps DEF QueryError, network
<1> QED
    BY <1>2, <1>3, <1>4, <1>5, <1>6

\* A poll takes the PENDING rows it finds as jobs.
LEMMA PollKeeps ==
    ASSUME OutboxInv, NEW n \in Runs, Poll(n)
    PROVE  OutboxInv' /\ PromiseStep
<1> USE DEF OutboxInv, Poll, database, network
<1> DEFINE fresh == {[run |-> n, row |-> r, retry |-> retry[r], pc |-> "queued"] :
                     r \in Unprocessed}
<1>1. jobs' = jobs \cup fresh
    OBVIOUS
<1>2. \A k \in fresh : /\ k \in Job
                       /\ k.retry <= retry[k.row]
                       /\ k.pc = "queued"
                       /\ status[k.row] # "ABSENT"
    BY DEF OutboxTypeOK, Job, Unprocessed
<1> HIDE DEF fresh
<1>3. OutboxTypeOK'
    BY <1>1, <1>2 DEF OutboxTypeOK
<1>4. JobsFollowRows'
    BY <1>1, <1>2 DEF JobsFollowRows
<1> QED
    BY <1>3, <1>4 DEF SuccessWasHanded, PromiseStep

\* The broker, the connection and the process leave the table alone.
LEMMA OthersKeep ==
    ASSUME OutboxInv,
           \/ \E r \in Rows : BrokerTakes(r)
           \/ ConnectionLost \/ Reconnect \/ Restart \/ BecomeCalm \/ UNCHANGED outboxVars
    PROVE  OutboxInv' /\ PromiseStep
<1> USE DEF OutboxInv, database, network
<1>1. UNCHANGED <<status, retry, handed>> /\ jobs' \in {jobs, {}}
    BY DEF BrokerTakes, ConnectionLost, Reconnect, Restart, BecomeCalm, outboxVars
<1>2. OutboxTypeOK'
    BY DEF BrokerTakes, ConnectionLost, Reconnect, Restart, BecomeCalm, outboxVars, OutboxTypeOK
<1> QED
    BY <1>1, <1>2 DEF JobsFollowRows, SuccessWasHanded, PromiseStep

-----------------------------------------------------------------------------
(* Disasters.                                                               *)

\* The jobs of a run are about different rows.
OneJobPerRun == \A j, k \in jobs : j.run = k.run /\ j.row = k.row => j = k

JobsKnow ==
    \A j \in jobs : /\ j.retry <= retry[j.row]
                    /\ j.pc = "mark" => j.row \in handed
                    /\ j.pc = "giveup" => j.retry >= MaxRetries
                    /\ j.pc \in {"mark", "bump"} => j.retry < MaxRetries

\* The runs whose job for a row was read below the limit.
Chargers(r) == {n \in Runs : \E j \in jobs : j.run = n /\ j.row = r /\ j.retry < MaxRetries}

RetriesLeft ==
    \A r \in Rows : retry[r] >= MaxRetries =>
        retry[r] + Cardinality(Chargers(r)) < MaxRetries + Cardinality(Runs)

DisasterIInv ==
    /\ OutboxTypeOK
    /\ OneJobPerRun
    /\ JobsKnow
    /\ SuccessWasHanded
    /\ FailedDisastersExhausted
    /\ RetriesLeft
-----------------------------------------------------------------------------
(* What a step does to the jobs.                                            *)

\* A job that goes on charges no row it did not charge before.
LEMMA GoesToSame ==
    ASSUME OutboxTypeOK, OneJobPerRun, NEW j \in jobs,
           NEW pc \in {"giveup", "mark", "bump"}, GoesTo(j, pc)
    PROVE  /\ OneJobPerRun'
           /\ \A r \in Rows : Chargers(r)' \subseteq Chargers(r)
<1> DEFINE d == [j EXCEPT !.pc = pc]
<1>1. d.run = j.run /\ d.row = j.row /\ d.retry = j.retry
    BY DEF OutboxTypeOK, Job
<1>2. \A k \in jobs' : k \in jobs \ {j} \/ k = d
    BY DEF GoesTo
<1> HIDE DEF d
<1>3. OneJobPerRun'
    BY <1>1, <1>2 DEF OneJobPerRun
<1>4. \A r \in Rows : Chargers(r)' \subseteq Chargers(r)
    BY <1>1, <1>2 DEF Chargers
<1> QED
    BY <1>3, <1>4

\* Nor does one that ends.
LEMMA EndsSame ==
    ASSUME OneJobPerRun, NEW j \in jobs, Ends(j)
    PROVE  /\ OneJobPerRun'
           /\ \A r \in Rows : Chargers(r)' \subseteq Chargers(r)
BY DEF OneJobPerRun, Ends, Chargers

\* A run charges a row at most once.
LEMMA ChargersFinite ==
    ASSUME NEW r \in Rows
    PROVE  /\ IsFiniteSet(Chargers(r))
           /\ Cardinality(Chargers(r)) \in Nat
           /\ Cardinality(Runs) \in Nat \ {0}
           /\ Cardinality(Chargers(r)) <= Cardinality(Runs)
<1>1. Chargers(r) \subseteq Runs
    BY DEF Chargers
<1>2. IsFiniteSet(Runs) /\ Runs # {}
    BY OutboxAssumption DEF OutboxAssumption
<1>3. Cardinality(Runs) # 0
    BY <1>2, FS_EmptySet
<1> QED
    BY <1>1, <1>2, <1>3, FS_Subset, FS_CardinalityType

\* No retry count moves and no run comes to charge a row: what was left is left.
LEMMA RetriesLeftStays ==
    ASSUME RetriesLeft, retry \in [Rows -> Nat], retry' = retry,
           \A r \in Rows : Chargers(r)' \subseteq Chargers(r)
    PROVE  RetriesLeft'
<1> SUFFICES ASSUME NEW r \in Rows, retry[r] >= MaxRetries
             PROVE  retry[r] + Cardinality(Chargers(r)') < MaxRetries + Cardinality(Runs)
    BY DEF RetriesLeft
<1>1. retry[r] + Cardinality(Chargers(r)) < MaxRetries + Cardinality(Runs)
    BY DEF RetriesLeft
<1>2. /\ Cardinality(Chargers(r)') <= Cardinality(Chargers(r))
      /\ IsFiniteSet(Chargers(r)')
    BY ChargersFinite, FS_Subset
<1>3. Cardinality(Chargers(r)') \in Nat
    BY <1>2, FS_CardinalityType
<1> QED
    BY <1>1, <1>2, <1>3, ChargersFinite, OutboxAssumption DEF OutboxAssumption

-----------------------------------------------------------------------------
\* The invariant of the disaster publication holds of an empty outbox.
THEOREM DisasterInitIInv == OutboxInit => DisasterIInv
<1> SUFFICES ASSUME OutboxInit PROVE DisasterIInv
    OBVIOUS
<1>1. OutboxTypeOK
    BY DEF OutboxInit, OutboxTypeOK
<1>2. OneJobPerRun /\ JobsKnow /\ SuccessWasHanded /\ FailedDisastersExhausted
    BY DEF OutboxInit, OneJobPerRun, JobsKnow, SuccessWasHanded, FailedDisastersExhausted
<1>3. RetriesLeft
  <2> SUFFICES ASSUME NEW r \in Rows
               PROVE  retry[r] + Cardinality(Chargers(r)) < MaxRetries + Cardinality(Runs)
      BY DEF RetriesLeft
  <2>1. Chargers(r) = {}
      BY DEF OutboxInit, Chargers
  <2>2. Cardinality(Chargers(r)) = 0
      BY <2>1, FS_EmptySet
  <2>3. retry[r] = 0
      BY DEF OutboxInit
  <2> QED
      BY <2>2, <2>3, ChargersFinite, OutboxAssumption DEF OutboxAssumption
<1> QED
    BY <1>1, <1>2, <1>3 DEF DisasterIInv

-----------------------------------------------------------------------------
(* One lemma for an action that changes the database or the jobs.           *)

\* A poll (_run).
LEMMA PollIInv ==
    ASSUME DisasterIInv, NEW n \in Runs, Poll(n)
    PROVE  DisasterIInv'
<1> USE DEF DisasterIInv, Poll, database, network
<1> DEFINE fresh == {[run |-> n, row |-> r, retry |-> retry[r], pc |-> "queued"] :
                     r \in Unprocessed}
<1>1. jobs' = jobs \cup fresh
    OBVIOUS
<1>2. \A k \in fresh : /\ k \in Job
                       /\ k.run = n
                       /\ k.retry = retry[k.row]
                       /\ k.pc = "queued"
    BY DEF OutboxTypeOK, Job, Unprocessed
<1>3. \A j, k \in fresh : j.row = k.row => j = k
    OBVIOUS
<1> HIDE DEF fresh
<1>4. OutboxTypeOK'
    BY <1>1, <1>2 DEF OutboxTypeOK
<1>5. OneJobPerRun'
    BY <1>1, <1>2, <1>3 DEF OneJobPerRun
<1>6. JobsKnow'
    BY <1>1, <1>2 DEF JobsKnow, OutboxTypeOK, Job
<1>7. SuccessWasHanded' /\ FailedDisastersExhausted'
    BY DEF SuccessWasHanded, FailedDisastersExhausted
<1>8. RetriesLeft'
  <2> SUFFICES ASSUME NEW r \in Rows, retry[r] >= MaxRetries
               PROVE  retry[r] + Cardinality(Chargers(r)') < MaxRetries + Cardinality(Runs)
      BY DEF RetriesLeft
  <2>1. \A k \in fresh : k.row = r => ~(k.retry < MaxRetries)
      BY <1>2, OutboxAssumption DEF OutboxTypeOK, OutboxAssumption
  <2>2. Chargers(r)' = Chargers(r)
      BY <1>1, <2>1 DEF Chargers
  <2> QED
      BY <2>2 DEF RetriesLeft
<1> QED
    BY <1>4, <1>5, <1>6, <1>7, <1>8

\* A job hands its message to the broker, or gives up (_processOutboxMessage).
LEMMA ProcessIInv ==
    ASSUME DisasterIInv, NEW j \in jobs, Process(j, DisasterExhausted(j))
    PROVE  DisasterIInv'
<1> USE DEF DisasterIInv, database
<1>1. /\ status' = status /\ retry' = retry
      /\ channel' = channel /\ delivered' = delivered /\ calm' = calm
    BY DEF Process
<1>2. j \in Job /\ j.row \in Rows /\ j.retry \in Nat
    BY DEF OutboxTypeOK, Job
<1>3. PICK pc \in {"giveup", "mark", "bump"} :
        /\ GoesTo(j, pc)
        /\ buffer' \in {buffer, buffer \cup {j.row}}
        /\ handed \subseteq handed' /\ handed' \subseteq handed \cup {j.row}
        /\ pc = "mark" => j.row \in handed'
        /\ pc = "giveup" => j.retry >= MaxRetries
        /\ pc # "giveup" => j.retry < MaxRetries
    BY <1>2, OutboxAssumption DEF Process, PublishMessage, DisasterExhausted, OutboxAssumption
<1>4. OutboxTypeOK'
    BY <1>1, <1>2, <1>3, GoesToType DEF OutboxTypeOK
<1>5. OneJobPerRun' /\ RetriesLeft'
    BY <1>1, <1>3, GoesToSame, RetriesLeftStays DEF OutboxTypeOK
<1>6. JobsKnow'
  <2> DEFINE d == [j EXCEPT !.pc = pc]
  <2>1. d.row = j.row /\ d.retry = j.retry /\ d.pc = pc
      BY <1>2 DEF Job
  <2>2. \A k \in jobs' : k \in jobs \/ k = d
      BY <1>3 DEF GoesTo
  <2> HIDE DEF d
  <2> QED
      BY <1>1, <1>3, <2>1, <2>2 DEF JobsKnow
<1>7. SuccessWasHanded' /\ FailedDisastersExhausted'
    BY <1>1, <1>3 DEF SuccessWasHanded, FailedDisastersExhausted
<1> QED
    BY <1>4, <1>5, <1>6, <1>7

\* GiveUp, MarkSuccess and what a failed query does to the row.
LEMMA StatusIInv ==
    ASSUME DisasterIInv, NEW j \in jobs,
           Ends(j) \/ (j.pc = "mark" /\ GoesTo(j, "bump")),
           \/ status' = status
           \/ j.pc = "mark" /\ SetStatus(j.row, "SUCCESS")
           \/ j.pc = "giveup" /\ SetStatus(j.row, "FAILED"),
           retry' = retry, network' = network, handed' = handed, calm' = calm
    PROVE  DisasterIInv'
<1> USE DEF DisasterIInv, network
<1>1. j \in Job /\ j.row \in Rows /\ j.retry \in Nat
    BY DEF OutboxTypeOK, Job
<1>2. jobs' \subseteq Job
    BY GoesToType, EndsType
<1>3. status' \in [Rows -> {"ABSENT", "PENDING"} \cup Final]
    BY DEF OutboxTypeOK, SetStatus, Final
<1>4. OutboxTypeOK'
    BY <1>2, <1>3 DEF OutboxTypeOK
<1>5. OneJobPerRun' /\ RetriesLeft'
    BY GoesToSame, EndsSame, RetriesLeftStays DEF OutboxTypeOK
<1>6. JobsKnow'
  <2>1. CASE Ends(j)
      BY <2>1 DEF Ends, JobsKnow
  <2>2. CASE j.pc = "mark" /\ GoesTo(j, "bump")
    <3> DEFINE d == [j EXCEPT !.pc = "bump"]
    <3>1. d.row = j.row /\ d.retry = j.retry /\ d.pc = "bump"
        BY <1>1 DEF Job
    <3>2. \A k \in jobs' : k \in jobs \/ k = d
        BY <2>2 DEF GoesTo
    <3>3. j.retry < MaxRetries /\ j.retry <= retry[j.row]
        BY <2>2 DEF JobsKnow
    <3> HIDE DEF d
    <3> QED
        BY <3>1, <3>2, <3>3 DEF JobsKnow
  <2> QED
      BY <2>1, <2>2
<1>7. \A r \in Rows : \/ status'[r] = status[r]
                      \/ r = j.row /\ j.pc = "mark" /\ status'[r] = "SUCCESS"
                      \/ r = j.row /\ j.pc = "giveup" /\ status'[r] = "FAILED"
    BY DEF OutboxTypeOK, SetStatus
<1>8. SuccessWasHanded'
    BY <1>7 DEF SuccessWasHanded, JobsKnow
<1>9. FailedDisastersExhausted'
  <2>1. j.pc = "giveup" => retry[j.row] >= MaxRetries
      BY <1>1, OutboxAssumption DEF JobsKnow, OutboxTypeOK, OutboxAssumption
  <2> QED
      BY <1>7, <2>1 DEF FailedDisastersExhausted
<1> QED
    BY <1>4, <1>5, <1>6, <1>8, <1>9

\* A failure is charged to the row (incrementRetryCount).
LEMMA IncrementIInv ==
    ASSUME DisasterIInv, NEW j \in jobs, IncrementRetryCount(j)
    PROVE  DisasterIInv'
<1> USE DEF DisasterIInv, IncrementRetryCount, network
<1>1. j \in Job /\ j.row \in Rows /\ j.run \in Runs /\ j.retry \in Nat
    BY DEF OutboxTypeOK, Job
<1>2. \A r \in Rows : /\ retry[r] \in Nat
                      /\ retry'[r] = IF r = j.row THEN retry[r] + 1 ELSE retry[r]
    BY <1>1 DEF OutboxTypeOK
<1>3. retry' \in [Rows -> Nat]
    BY <1>1 DEF OutboxTypeOK
<1>4. OutboxTypeOK'
    BY <1>3, EndsType DEF OutboxTypeOK
<1>5. OneJobPerRun'
    BY EndsSame
<1>6. JobsKnow'
    BY <1>2 DEF Ends, JobsKnow, OutboxTypeOK, Job
<1>7. SuccessWasHanded' /\ FailedDisastersExhausted'
    BY <1>2, OutboxAssumption DEF SuccessWasHanded, FailedDisastersExhausted, OutboxAssumption
<1>8. RetriesLeft'
  <2> SUFFICES ASSUME NEW r \in Rows, retry'[r] >= MaxRetries
               PROVE  retry'[r] + Cardinality(Chargers(r)') < MaxRetries + Cardinality(Runs)
      BY DEF RetriesLeft
  <2> DEFINE before == Cardinality(Chargers(r))
             after == Cardinality(Chargers(r)')
  <2>1. Chargers(r)' \subseteq Chargers(r)
      BY EndsSame
  <2>2. before \in Nat /\ after \in Nat /\ after <= before
        /\ before <= Cardinality(Runs) /\ Cardinality(Runs) \in Nat \ {0}
      BY <2>1, ChargersFinite, FS_Subset, FS_CardinalityType
  <2>3. CASE r # j.row
    <3>1. retry'[r] = retry[r] /\ retry[r] + before < MaxRetries + Cardinality(Runs)
        BY <1>2, <2>3 DEF RetriesLeft
    <3> QED
        BY <1>2, <2>2, <3>1, OutboxAssumption DEF OutboxAssumption
  <2>4. CASE r = j.row
    \* The run of the job charges the row no more.
    <3>1. j.run \in Chargers(r)
        BY <1>1, <2>4 DEF Chargers, JobsKnow
    <3>2. j.run \notin Chargers(r)'
        BY <2>4 DEF Chargers, Ends, OneJobPerRun
    <3>3. after < before
      <4>1. Chargers(r)' \subseteq Chargers(r) \ {j.run}
          BY <2>1, <3>2
      <4>2. /\ IsFiniteSet(Chargers(r) \ {j.run})
            /\ Cardinality(Chargers(r) \ {j.run}) = before - 1
          BY <3>1, ChargersFinite, FS_RemoveElement
      <4>3. after <= Cardinality(Chargers(r) \ {j.run})
          BY <4>1, <4>2, FS_Subset
      <4> QED
          BY <2>2, <4>2, <4>3
    <3>4. retry'[r] = retry[r] + 1
        BY <1>2, <2>4
    <3>5. retry[r] >= MaxRetries => retry[r] + before < MaxRetries + Cardinality(Runs)
        BY DEF RetriesLeft
    <3> QED
        BY <1>2, <2>2, <3>3, <3>4, <3>5, OutboxAssumption DEF OutboxAssumption
  <2> QED
      BY <2>3, <2>4
<1> QED
    BY <1>4, <1>5, <1>6, <1>7, <1>8

\* Steps that leave the rows and handed alone, and at most drop jobs.
LEMMA DisasterOtherIInv ==
    ASSUME DisasterIInv, UNCHANGED <<status, retry, handed>>, jobs' \in {jobs, {}},
           OutboxTypeOK'
    PROVE  DisasterIInv'
<1> USE DEF DisasterIInv
<1>1. \A r \in Rows : Chargers(r)' \subseteq Chargers(r)
    BY DEF Chargers
<1>2. RetriesLeft'
    BY <1>1, RetriesLeftStays DEF OutboxTypeOK
<1>3. OneJobPerRun' /\ JobsKnow' /\ SuccessWasHanded' /\ FailedDisastersExhausted'
    BY DEF OneJobPerRun, JobsKnow, SuccessWasHanded, FailedDisastersExhausted
<1> QED
    BY <1>2, <1>3

\* Every step of the disaster publication keeps the invariant.
THEOREM DisasterNextIInv == DisasterIInv /\ [DisasterNext]_outboxVars => DisasterIInv'
<1> SUFFICES ASSUME DisasterIInv, [DisasterNext]_outboxVars
             PROVE  DisasterIInv'
    OBVIOUS
<1>1. ASSUME NEW r \in Rows, CreateLog(r) PROVE DisasterIInv'
  <2>1. OutboxTypeOK'
      BY <1>1 DEF DisasterIInv, OutboxTypeOK, CreateLog, SetStatus, network
  <2>2. \A x \in Rows : status'[x] = status[x] \/ status'[x] = "PENDING"
      BY <1>1 DEF DisasterIInv, OutboxTypeOK, CreateLog, SetStatus, network
  <2>3. SuccessWasHanded' /\ FailedDisastersExhausted'
      BY <1>1, <2>2 DEF DisasterIInv, CreateLog, network, SuccessWasHanded, FailedDisastersExhausted
  <2>4. \A x \in Rows : Chargers(x)' \subseteq Chargers(x)
      BY <1>1 DEF CreateLog, network, Chargers
  <2>5. RetriesLeft'
      BY <1>1, <2>4, RetriesLeftStays DEF DisasterIInv, OutboxTypeOK, CreateLog, network
  <2>6. OneJobPerRun' /\ JobsKnow'
      BY <1>1 DEF DisasterIInv, CreateLog, network, OneJobPerRun, JobsKnow
  <2> QED
      BY <2>1, <2>3, <2>5, <2>6 DEF DisasterIInv
<1>2. ASSUME NEW r \in Rows, BrokerTakes(r) PROVE DisasterIInv'
    BY <1>2, DisasterOtherIInv DEF BrokerTakes, database, network, DisasterIInv, OutboxTypeOK
<1>3. ASSUME NEW n \in Runs, Poll(n) PROVE DisasterIInv'
    BY <1>3, PollIInv
<1>4. ASSUME NEW j \in jobs, Process(j, DisasterExhausted(j)) PROVE DisasterIInv'
    BY <1>4, ProcessIInv
<1>5. ASSUME NEW j \in jobs, GiveUp(j) PROVE DisasterIInv'
    BY <1>5, StatusIInv DEF GiveUp
<1>6. ASSUME NEW j \in jobs, MarkSuccess(j) PROVE DisasterIInv'
    BY <1>6, StatusIInv DEF MarkSuccess
<1>7. ASSUME NEW j \in jobs, IncrementRetryCount(j) PROVE DisasterIInv'
    BY <1>7, IncrementIInv
<1>8. ASSUME NEW j \in jobs, QueryError(j) PROVE DisasterIInv'
    BY <1>8, StatusIInv DEF QueryError
<1>8a. ASSUME NEW j \in jobs, DisasterGiveUpRefused(j) PROVE DisasterIInv'
    BY <1>8a, StatusIInv DEF DisasterGiveUpRefused, database
<1>9. CASE ConnectionLost
    BY <1>9, DisasterOtherIInv DEF ConnectionLost, database, network, DisasterIInv, OutboxTypeOK
<1>10. CASE Reconnect
    BY <1>10, DisasterOtherIInv DEF Reconnect, database, network, DisasterIInv, OutboxTypeOK
<1>11. CASE Restart
    BY <1>11, DisasterOtherIInv DEF Restart, database, network, DisasterIInv, OutboxTypeOK
<1>12. CASE BecomeCalm
    BY <1>12, DisasterOtherIInv DEF BecomeCalm, database, network, DisasterIInv, OutboxTypeOK
<1>13. CASE UNCHANGED outboxVars
    BY <1>13, DisasterOtherIInv DEF outboxVars, database, network, DisasterIInv, OutboxTypeOK
<1> QED
    BY <1>1, <1>2, <1>3, <1>4, <1>5, <1>6, <1>7, <1>8, <1>9, <1>10, <1>11, <1>12, <1>13, <1>8a
    DEF DisasterNext, DisasterJobStep

-----------------------------------------------------------------------------
(* The theorems.                                                            *)

\* The invariant of the disaster publication holds in every state.
THEOREM DisasterSpecIInv == DisasterSpec => []DisasterIInv
<1>1. OutboxInit => DisasterIInv
    BY DisasterInitIInv
<1>2. DisasterIInv /\ [DisasterNext]_outboxVars => DisasterIInv'
    BY DisasterNextIInv
<1> QED
    BY <1>1, <1>2, PTL DEF DisasterSpec

\* Every reachable state is one of rows, jobs and channel as declared.
THEOREM DisasterTypes == DisasterSpec => []OutboxTypeOK
<1>1. DisasterIInv => OutboxTypeOK
    BY DEF DisasterIInv
<1> QED
    BY <1>1, DisasterSpecIInv, PTL

\* The table of the worker, with whatever runs, outages and restarts, does no
\* more than the abstract outbox.
THEOREM DisastersImplement == DisasterSpec => ImplementsOutbox
<1>1. OutboxInit => OutboxInv /\ Promise!Init
    BY InitKeeps
<1>2. ASSUME OutboxInv, [DisasterNext]_outboxVars PROVE OutboxInv' /\ PromiseStep
  <2> USE <1>2
  <2>1. ASSUME NEW r \in Rows, CreateLog(r) PROVE OutboxInv' /\ PromiseStep
    <3> USE <2>1 DEF CreateLog, network, OutboxInv
    <3>1. OutboxTypeOK'
        BY DEF OutboxTypeOK
    <3>2. JobsFollowRows' /\ SuccessWasHanded'
        BY DEF OutboxTypeOK, Job, JobsFollowRows, SuccessWasHanded
    <3>3. PromiseStep
        BY DEF PromiseStep, Promise!Next, Promise!Create
    <3> QED
        BY <3>1, <3>2, <3>3
  <2>2. ASSUME NEW n \in Runs, Poll(n) PROVE OutboxInv' /\ PromiseStep
      BY <2>2, PollKeeps
  <2>3. ASSUME NEW j \in jobs, DisasterJobStep(j) \/ QueryError(j) PROVE OutboxInv' /\ PromiseStep
    <3>1. DisasterExhausted(j) \in BOOLEAN
        BY DEF DisasterExhausted
    <3> QED
        BY <2>3, <3>1, JobStepKeeps DEF DisasterJobStep
  <2>4. ASSUME NEW j \in jobs, DisasterGiveUpRefused(j) PROVE OutboxInv' /\ PromiseStep
      BY <2>4, JobKeeps DEF DisasterGiveUpRefused, database, network, OutboxInv, OutboxTypeOK
  <2>5. CASE UNCHANGED outboxVars
      BY <2>5, OthersKeep DEF outboxVars
  <2>6. CASE (\E r \in Rows : BrokerTakes(r)) \/ ConnectionLost \/ Reconnect \/ Restart \/ BecomeCalm
      BY <2>6, OthersKeep
  <2> QED
      BY <2>1, <2>2, <2>3, <2>4, <2>5, <2>6 DEF DisasterNext
<1> QED
    BY <1>1, <1>2, PTL DEF DisasterSpec, PromiseStep, ImplementsOutbox, Promise!Spec

\* However runs overlap, the connection goes and queries fail, a SUCCESS row was
\* taken by an open channel (_processOutboxMessage awaits nothing before it marks).
THEOREM DisastersHanded == DisasterSpec => []SuccessWasHanded
<1>1. DisasterIInv => SuccessWasHanded
    BY DEF DisasterIInv
<1> QED
    BY <1>1, DisasterSpecIInv, PTL

\* A FAILED row has MAX_RETRIES failures on record, for every limit and any
\* number of overlapping runs (_processOutboxMessage looks at an old count).
THEOREM DisastersFailExhausted == DisasterSpec => []FailedDisastersExhausted
<1>1. DisasterIInv => FailedDisastersExhausted
    BY DEF DisasterIInv
<1> QED
    BY <1>1, DisasterSpecIInv, PTL

\* Overlapping runs pass MAX_RETRIES by less than their number, whatever that
\* is: a run that read a row at the limit does not charge it.
THEOREM RetryBound == DisasterSpec => []RetriesBounded
<1>1. DisasterIInv => RetriesBounded
  <2> SUFFICES ASSUME DisasterIInv, NEW r \in Rows
               PROVE  retry[r] < MaxRetries + Cardinality(Runs)
      BY DEF RetriesBounded
  <2>1. retry[r] \in Nat /\ MaxRetries \in Nat
      BY OutboxAssumption DEF DisasterIInv, OutboxTypeOK, OutboxAssumption
  <2>2. retry[r] >= MaxRetries =>
            retry[r] + Cardinality(Chargers(r)) < MaxRetries + Cardinality(Runs)
      BY DEF DisasterIInv, RetriesLeft
  <2> QED
      BY <2>1, <2>2, ChargersFinite
<1> QED
    BY <1>1, DisasterSpecIInv, PTL

-----------------------------------------------------------------------------
(* Reports.                                                                 *)

ApiTypeOK ==
    /\ request \in [Rows -> Steps]
    /\ answer \in [Rows -> {"none", "200", "4xx", "500"}]
    /\ received \subseteq Rows
    /\ devices \in [Devices -> SUBSET Rows]

Uncommitted == {"none", "auth", "client", "write", "commit"}

RequestsInv ==
    /\ ApiTypeOK
    /\ ReportsAreWhole
    /\ \A r \in Rows : request[r] \in Uncommitted => r \notin received

GiveUpsAreExhausted ==
    /\ \A j \in jobs : j.pc = "giveup" => j.retry > MaxRetries
    /\ FailedMeansExhausted

ReportIInv == OutboxInv /\ RequestsInv /\ GiveUpsAreExhausted
-----------------------------------------------------------------------------
(* The worker does not touch what the API writes, but for the status of a   *)
(* row that is there.                                                       *)

\* The worker creates no row, and so leaves the requests as they are.
LEMMA TablesKeep ==
    ASSUME RequestsInv, UNCHANGED tables,
           \A r \in Rows : (status[r] = "ABSENT") <=> (status'[r] = "ABSENT")
    PROVE  RequestsInv'
BY DEF RequestsInv, ApiTypeOK, ReportsAreWhole, tables, api

\* A new system has no request and no row.
LEMMA ReportInitIInv == Init => ReportIInv /\ Promise!Init
<1> SUFFICES ASSUME Init PROVE ReportIInv /\ Promise!Init
    OBVIOUS
<1>1. OutboxInv /\ Promise!Init
    BY InitKeeps DEF Init
<1>2. ApiTypeOK
    BY DEF Init, ApiTypeOK, Steps
<1>3. ReportsAreWhole /\ received = {}
    BY DEF Init, OutboxInit, ReportsAreWhole
<1>4. GiveUpsAreExhausted
    BY DEF Init, OutboxInit, GiveUpsAreExhausted, FailedMeansExhausted
<1> QED
    BY <1>1, <1>2, <1>3, <1>4 DEF ReportIInv, RequestsInv

-----------------------------------------------------------------------------
(* The API.                                                                 *)

\* A request moves on and nothing is written.
LEMMA MovesKeep ==
    ASSUME ReportIInv, NEW r \in Rows, NEW step \in Steps,
           UNCHANGED <<outboxVars, received, devices>>,
           request' = [request EXCEPT ![r] = step],
           answer' = answer \/ answer' = [answer EXCEPT ![r] = "500"]
                            \/ answer' = [answer EXCEPT ![r] = "4xx"],
           step \in Uncommitted => request[r] \in Uncommitted
    PROVE  ReportIInv' /\ PromiseStep
<1>1. OutboxInv' /\ PromiseStep
    BY OthersKeep DEF ReportIInv
<1>2. GiveUpsAreExhausted'
    BY DEF ReportIInv, GiveUpsAreExhausted, FailedMeansExhausted, outboxVars, database
<1>3. ApiTypeOK'
    BY DEF ReportIInv, RequestsInv, ApiTypeOK
<1>4. UNCHANGED status
    BY DEF outboxVars, database
<1>5. ReportsAreWhole'
    BY <1>4 DEF ReportIInv, RequestsInv, ApiTypeOK, ReportsAreWhole
<1>6. (\A q \in Rows : request[q] \in Uncommitted => q \notin received)'
    BY DEF ReportIInv, RequestsInv, ApiTypeOK
<1> QED
    BY <1>1, <1>2, <1>3, <1>5, <1>6 DEF ReportIInv, RequestsInv

\* The COMMIT: everything appears at once.
LEMMA CommittedKeeps ==
    ASSUME ReportIInv, NEW r \in Rows, NEW step \in {"answered", "rollback"},
           request[r] = "commit", Committed(r),
           request' = [request EXCEPT ![r] = step],
           answer' = answer \/ answer' = [answer EXCEPT ![r] = "200"],
           UNCHANGED <<retry, jobs, network, handed, calm>>
    PROVE  ReportIInv' /\ PromiseStep
<1> USE DEF ReportIInv, RequestsInv, Committed, network
<1>1. r \notin received /\ status[r] = "ABSENT"
    BY DEF Uncommitted, ReportsAreWhole
<1>2. OutboxTypeOK'
    BY DEF OutboxInv, OutboxTypeOK
<1>3. JobsFollowRows' /\ SuccessWasHanded'
    BY DEF OutboxInv, OutboxTypeOK, Job, JobsFollowRows, SuccessWasHanded
<1>4. PromiseStep
    BY <1>1 DEF PromiseStep, Promise!Next, Promise!Create
<1>5. GiveUpsAreExhausted'
    BY DEF GiveUpsAreExhausted, FailedMeansExhausted, OutboxInv, OutboxTypeOK
<1>6. ApiTypeOK'
    BY DEF ApiTypeOK, Steps
<1>7. status' \in [Rows -> {"ABSENT", "PENDING"} \cup Final]
    BY <1>2 DEF OutboxTypeOK
<1>8. ReportsAreWhole'
  <2>1. \A q \in Rows : q \in received' <=> status'[q] # "ABSENT"
      BY DEF ReportsAreWhole, OutboxInv, OutboxTypeOK
  <2>2. \A q \in Rows : answer'[q] = "200" => q \in received'
      BY DEF ReportsAreWhole, ApiTypeOK
  <2>3. \A d \in Devices : devices'[d] \subseteq {q \in received' : d \in DevicesOf[q]}
      BY DEF ReportsAreWhole
  <2> QED
      BY <2>1, <2>2, <2>3 DEF ReportsAreWhole
<1>9. (\A q \in Rows : request[q] \in Uncommitted => q \notin received)'
    BY DEF ApiTypeOK, Uncommitted
<1> QED
    BY <1>2, <1>3, <1>4, <1>5, <1>6, <1>8, <1>9 DEF OutboxInv

\* A step of a request to the API.
LEMMA RequestKeeps ==
    ASSUME ReportIInv, NEW r \in Rows,
           Requested(r) \/ RequestStep(r) \/ HandlerFails(r) \/ AuthFails(r)
    PROVE  ReportIInv' /\ PromiseStep
<1> USE DEF RequestGoesTo, Answered, Uncommitted, Steps
<1>1. CASE Requested(r)
    BY <1>1, MovesKeep DEF Requested
<1>2. CASE Authenticate(r)
    BY <1>2, MovesKeep DEF Authenticate
<1>3. CASE GetClient(r)
    BY <1>3, MovesKeep DEF GetClient
<1>4. CASE NoClient(r)
    BY <1>4, MovesKeep DEF NoClient
<1>5. CASE Write(r)
    BY <1>5, MovesKeep DEF Write
<1>6. CASE Commit(r)
    BY <1>6, CommittedKeeps DEF Commit
<1>7. CASE Conflict(r)
    BY <1>7, MovesKeep DEF Conflict
<1>8. CASE Rollback(r)
    BY <1>8, MovesKeep DEF Rollback
<1>9. CASE HandlerFails(r)
  <2>1. CASE UNCHANGED <<status, received, devices>>
      BY <1>9, <2>1, MovesKeep DEF HandlerFails, outboxVars, database
  <2>2. CASE request[r] = "commit" /\ Committed(r)
      BY <1>9, <2>2, CommittedKeeps DEF HandlerFails
  <2> QED
      BY <1>9, <2>1, <2>2 DEF HandlerFails
<1>10. CASE AuthFails(r)
    BY <1>10, MovesKeep DEF AuthFails
<1> QED
    BY <1>1, <1>2, <1>3, <1>4, <1>5, <1>6, <1>7, <1>8, <1>9, <1>10 DEF RequestStep

-----------------------------------------------------------------------------
(* The worker, the broker and the process.                                  *)

\* A step that follows the outbox leaves ABSENT what was ABSENT, but for Create.
LEMMA WorkerKeeps ==
    ASSUME ReportIInv, NEW j \in jobs, JobStep(j) \/ (QueryError(j) /\ UNCHANGED tables)
    PROVE  ReportIInv' /\ PromiseStep
<1> USE DEF ReportIInv
<1>1. OutboxInv' /\ PromiseStep
  <2>1. Exhausted(j) \in BOOLEAN
      BY DEF Exhausted
  <2> QED
      BY <2>1, JobStepKeeps DEF JobStep
<1>2. j \in Job /\ j.row \in Rows /\ j.retry \in Nat /\ status[j.row] # "ABSENT"
      /\ j.retry <= retry[j.row]
    BY DEF OutboxInv, OutboxTypeOK, Job, JobsFollowRows
<1>3. /\ status' = status \/ SetStatus(j.row, "SUCCESS")
                          \/ (SetStatus(j.row, "FAILED") /\ j.pc = "giveup")
      /\ retry' \in {retry, [retry EXCEPT ![j.row] = @ + 1]}
      /\ UNCHANGED tables
    BY DEF JobStep, Process, GiveUp, MarkSuccess, IncrementRetryCount, QueryError, database
<1>4. RequestsInv'
  <2>1. \A r \in Rows : (status[r] = "ABSENT") <=> (status'[r] = "ABSENT")
      BY <1>2, <1>3 DEF OutboxInv, OutboxTypeOK, SetStatus
  <2> QED
      BY <1>3, <2>1, TablesKeep
<1>5. \A k \in jobs' : k.pc = "giveup" => k.retry > MaxRetries
  <2>1. \A k \in jobs' : \/ k \in jobs
                         \/ k = [j EXCEPT !.pc = "giveup"] /\ Exhausted(j)
                         \/ k = [j EXCEPT !.pc = "mark"] \/ k = [j EXCEPT !.pc = "bump"]
      BY DEF JobStep, Process, PublishMessage, GiveUp, MarkSuccess, IncrementRetryCount,
             QueryError, GoesTo, Ends
  <2> QED
      BY <1>2, <2>1 DEF GiveUpsAreExhausted, Exhausted, Job
<1>6. FailedMeansExhausted'
  <2>1. \A r \in Rows : retry[r] \in Nat /\ retry'[r] \in Nat /\ retry[r] <= retry'[r]
      BY <1>2, <1>3 DEF OutboxInv, OutboxTypeOK
  <2>2. j.pc = "giveup" => retry[j.row] > MaxRetries
      BY <1>2, <2>1, OutboxAssumption DEF GiveUpsAreExhausted, OutboxAssumption
  <2> QED
      BY <1>2, <1>3, <2>1, <2>2, OutboxAssumption
      DEF OutboxInv, OutboxTypeOK, SetStatus, GiveUpsAreExhausted, FailedMeansExhausted,
          OutboxAssumption
<1> QED
    BY <1>1, <1>4, <1>5, <1>6 DEF GiveUpsAreExhausted

\* The UPDATE that gives up is refused.
LEMMA RefusalKeeps ==
    ASSUME ReportIInv, NEW j \in jobs, GiveUpRefused(j)
    PROVE  ReportIInv' /\ PromiseStep
<1> USE DEF ReportIInv, GiveUpRefused, database, network
<1>1. j \in Job /\ j.row \in Rows /\ buffer \subseteq Rows
    BY DEF OutboxInv, OutboxTypeOK, Job
<1>2. Ends(j) \/ GoesTo(j, "bump")
    OBVIOUS
<1>3. OutboxInv' /\ PromiseStep
    BY <1>1, <1>2, JobKeeps
<1>4. RequestsInv'
    BY TablesKeep
<1>5. GiveUpsAreExhausted'
  <2>1. \A k \in jobs' : k \in jobs \/ k = [j EXCEPT !.pc = "bump"]
      BY <1>2 DEF Ends, GoesTo
  <2> QED
      BY <1>1, <2>1 DEF GiveUpsAreExhausted, FailedMeansExhausted, Job
<1> QED
    BY <1>3, <1>4, <1>5

\* Poll, the broker and the connection.
LEMMA OutsideKeeps ==
    ASSUME ReportIInv, UNCHANGED tables,
           \/ \E n \in Runs : Poll(n)
           \/ \E r \in Rows : BrokerTakes(r)
           \/ ConnectionLost \/ Reconnect \/ BecomeCalm \/ UNCHANGED outboxVars
    PROVE  ReportIInv' /\ PromiseStep
<1> USE DEF ReportIInv
<1>1. OutboxInv' /\ PromiseStep
    BY PollKeeps, OthersKeep
<1>2. UNCHANGED <<status, retry>>
    BY DEF Poll, BrokerTakes, ConnectionLost, Reconnect, BecomeCalm, outboxVars, database
<1>3. RequestsInv'
    BY <1>2, TablesKeep
<1>4. \A k \in jobs' : k \in jobs \/ k.pc = "queued"
    BY DEF Poll, BrokerTakes, ConnectionLost, Reconnect, BecomeCalm, outboxVars
<1> QED
    BY <1>1, <1>2, <1>3, <1>4 DEF GiveUpsAreExhausted, FailedMeansExhausted

\* The process restarts.
LEMMA RestartKeeps ==
    ASSUME ReportIInv, RestartService
    PROVE  ReportIInv' /\ PromiseStep
<1> USE DEF ReportIInv, RestartService
<1>1. OutboxInv' /\ PromiseStep
    BY OthersKeep
<1>2. UNCHANGED <<status, retry>> /\ jobs' = {}
    BY DEF Restart, database
<1>3. GiveUpsAreExhausted'
    BY <1>2 DEF GiveUpsAreExhausted, FailedMeansExhausted
<1>4. RequestsInv'
  <2>1. ApiTypeOK'
      BY DEF RequestsInv, ApiTypeOK, Steps
  <2>2. ReportsAreWhole'
      BY <1>2 DEF RequestsInv, ReportsAreWhole
  <2>3. (\A r \in Rows : request[r] \in Uncommitted => r \notin received)'
      BY DEF RequestsInv, Uncommitted
  <2> QED
      BY <2>1, <2>2, <2>3 DEF RequestsInv
<1> QED
    BY <1>1, <1>3, <1>4

\* Every step keeps the invariant, and is a step of Outbox or a stutter.
LEMMA ReportNextKeeps == ReportIInv /\ [Next]_vars => ReportIInv' /\ PromiseStep
<1> SUFFICES ASSUME ReportIInv, [Next]_vars PROVE ReportIInv' /\ PromiseStep
    OBVIOUS
<1>1. CASE \E r \in Rows : Requested(r) \/ RequestStep(r) \/ HandlerFails(r) \/ AuthFails(r)
    BY <1>1, RequestKeeps
<1>2. CASE \E j \in jobs : JobStep(j) \/ (QueryError(j) /\ UNCHANGED tables)
    BY <1>2, WorkerKeeps
<1>3. CASE \E j \in jobs : GiveUpRefused(j)
    BY <1>3, RefusalKeeps
<1>4. CASE \/ \E r \in Rows : BrokerTakes(r) /\ UNCHANGED tables
           \/ \E n \in Runs : Poll(n) /\ UNCHANGED tables
           \/ (ConnectionLost \/ Reconnect \/ BecomeCalm) /\ UNCHANGED tables
    BY <1>4, OutsideKeeps
<1>5. CASE RestartService
    BY <1>5, RestartKeeps
<1>6. CASE UNCHANGED vars
    BY <1>6, OutsideKeeps DEF vars, tables
<1> QED
    BY <1>1, <1>2, <1>3, <1>4, <1>5, <1>6 DEF Next

-----------------------------------------------------------------------------
(* The theorems.                                                            *)

\* The invariant of the report publication holds in every state.
THEOREM ReportSpecIInv == Spec => []ReportIInv
<1>1. ReportIInv /\ [Next]_vars => ReportIInv'
    BY ReportNextKeeps
<1> QED
    BY <1>1, ReportInitIInv, PTL DEF Spec

\* Every reachable state is one of requests, tables, jobs and channel as declared.
THEOREM ReportTypes == Spec => []TypeOK
<1>1. ReportIInv => TypeOK
    BY DEF ReportIInv, OutboxInv, RequestsInv, ApiTypeOK, TypeOK
<1> QED
    BY <1>1, ReportSpecIInv, PTL

\* For any number of requests, systems and devices a report is in all tables or
\* in none, and an answer 200 was not given for less (reportHandler).
THEOREM WholeReports == Spec => []ReportsAreWhole
<1>1. ReportIInv => ReportsAreWhole
    BY DEF ReportIInv, RequestsInv
<1> QED
    BY <1>1, ReportSpecIInv, PTL

\* The worker of the external service counts MAX_RETRIES + 1 failures before it
\* gives a report up, whatever runs overlap and whatever UPDATE is refused.
THEOREM ReportsFailExhausted == Spec => []FailedMeansExhausted
<1>1. ReportIInv => FailedMeansExhausted
    BY DEF ReportIInv, GiveUpsAreExhausted
<1> QED
    BY <1>1, ReportSpecIInv, PTL

\* The API and the worker together do no more than the abstract outbox: the
\* COMMIT of a request is the only step that opens a row.
THEOREM ReportsImplement == Spec => ImplementsOutbox
<1>1. Init => Promise!Init
    BY ReportInitIInv
<1>2. ReportIInv /\ [Next]_vars => PromiseStep
    BY ReportNextKeeps
<1> QED
    BY <1>1, <1>2, ReportSpecIInv, PTL DEF Spec, PromiseStep, ImplementsOutbox, Promise!Spec
-----------------------------------------------------------------------------
(* The process of either service.                                           *)

\* A process of Publication is one of DisasterPublish or one of ReportPublish,
\* for as long as it runs.
LEMMA OneOfTheTwo ==
    PublicationSpec => ([]Central /\ DisasterSpec) \/ ([]External /\ Spec)
<1>1. PublicationInit => (Central /\ OutboxInit) \/ (External /\ Init)
    BY DEF PublicationInit, Central, External, Init
<1>2. Central /\ [PublicationNext]_publicationVars => Central' /\ [DisasterNext]_outboxVars
    BY DEF PublicationNext, publicationVars, vars, Central, External
<1>3. External /\ [PublicationNext]_publicationVars => External' /\ [Next]_vars
    BY DEF PublicationNext, publicationVars, Central, External
<1> QED
    BY <1>1, <1>2, <1>3, PTL DEF PublicationSpec, DisasterSpec, Spec

\* Neither worker gives a row up before its own limit of failures is on record.
THEOREM NoneGivenUpEarly == PublicationSpec => []GivesUpExhausted
<1>1. Central /\ DisasterIInv => GivesUpExhausted
    BY DEF Central, External, DisasterIInv, FailedDisastersExhausted, GivesUpExhausted
<1>2. ReportIInv => GivesUpExhausted
  <2> SUFFICES ASSUME ReportIInv, NEW r \in Rows, status[r] = "FAILED"
               PROVE  retry[r] >= MaxRetries + 1 /\ retry[r] >= MaxRetries
      BY DEF GivesUpExhausted
  <2>1. retry[r] \in Nat /\ MaxRetries \in Nat
      BY OutboxAssumption DEF OutboxAssumption, ReportIInv, OutboxInv, OutboxTypeOK
  <2>2. retry[r] > MaxRetries
      BY DEF ReportIInv, GiveUpsAreExhausted, FailedMeansExhausted
  <2> QED
      BY <2>1, <2>2
<1> QED
    BY <1>1, <1>2, OneOfTheTwo, DisasterSpecIInv, ReportSpecIInv, PTL

\* The worker of central-service charges a bounded number of failures too many.
THEOREM ChargesStayBounded == PublicationSpec => []ChargesBounded
<1>1. RetriesBounded => ChargesBounded
    BY DEF ChargesBounded
<1>2. External => ChargesBounded
    BY DEF ChargesBounded, Central, External
<1> QED
    BY <1>1, <1>2, OneOfTheTwo, RetryBound, PTL

\* The API of external-service takes reports as a whole.
THEOREM AllTakenWhole == PublicationSpec => []TakenWhole
<1>1. ReportsAreWhole => TakenWhole
    BY DEF TakenWhole
<1>2. Central => TakenWhole
    BY DEF TakenWhole, Central, External
<1> QED
    BY <1>1, <1>2, OneOfTheTwo, WholeReports, PTL

\* Whichever service it is one of, the process does no more than the abstract outbox.
THEOREM BothImplement == PublicationSpec => ImplementsOutbox
<1> QED
    BY OneOfTheTwo, DisastersImplement, ReportsImplement, PTL
=============================================================================

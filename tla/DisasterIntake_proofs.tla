------------------------- MODULE DisasterIntake_proofs -------------------------
(***************************************************************************)
(* Theorems about DisasterIntake, for any number of messages and of calls  *)
(* of the handler.                                                         *)
(*                                                                         *)
(* The inductive invariant says what a call may rely on between its        *)
(* queries: from its INSERT to its verdict the inbox row is PENDING and    *)
(* nobody else's, and from the outbox INSERT to COMMIT its identifier is   *)
(* taken, by its own row or by one that is committed.                      *)
(***************************************************************************)
EXTENDS DisasterIntake, TLAPS

Open == {"validate", "write", "commit", "rollback", "fail"}

Holds(h) ==
    /\ h.pc \in {"check", "insert"} => ~h.logged
    /\ h.pc \in {"validate", "write", "commit", "fail"} => h.logged
    /\ h.logged => inbox[h.message] # "ABSENT"
    /\ h.logged /\ h.pc \in Open => inbox[h.message] = "PENDING"
    /\ h.writes => h.pc \in {"commit", "rollback"} /\ outbox[IdentifierOf[h.message]] = None
    /\ h.pc = "commit" => h.writes \/ outbox[IdentifierOf[h.message]] # None
    /\ h.pc \in {"rollback", "fail"} => h.code # "accepted"
    /\ h.pc = "answer" /\ h.code = "accepted" =>
           inbox[h.message] = "SUCCESS" /\ outbox[IdentifierOf[h.message]] # None

CallsHold == \A h \in handlers : Holds(h)

CallsDiffer == \A h, k \in handlers : h.call = k.call => h = k

\* The unique index lets one transaction insert an identifier.
OneWriter ==
    \A h, k \in handlers :
        h.writes /\ k.writes /\ IdentifierOf[h.message] = IdentifierOf[k.message] => h = k

IInv ==
    /\ TypeOK
    /\ CallsHold
    /\ CallsDiffer
    /\ OneWriter
    /\ OneCallPerMessage
    /\ InboxTellsOutcome
    /\ AcceptedIsStored

-----------------------------------------------------------------------------
(* What the step of one call h leaves to the others, and what it must show. *)

\* The tables change, if at all, where h alone has a say.
TablesMove(h) ==
    /\ \A m \in Messages :
        \/ inbox'[m] = inbox[m]
        \/ m = h.message /\ inbox[m] = "ABSENT"
        \/ m = h.message /\ h.logged /\ h.pc \in Open
    /\ \A i \in Identifiers :
        \/ outbox'[i] = outbox[i]
        \/ i = IdentifierOf[h.message] /\ h.writes /\ outbox'[i] # None

\* A call carries a message that was published, with an identifier.
LEMMA HandlerType ==
    ASSUME TypeOK, NEW h \in handlers
    PROVE  /\ h \in Handler
           /\ h.message \in Messages
           /\ IdentifierOf[h.message] \in Identifiers
BY ConstantsAssumption DEF TypeOK, Handler, ConstantsAssumption

\* Writing its own rows, one call leaves the others what they rely on.
LEMMA OthersHold ==
    ASSUME IInv, NEW h \in handlers, TablesMove(h), NEW g \in handlers \ {h}
    PROVE  Holds(g)'
<1> DEFINE m == g.message
           i == IdentifierOf[g.message]
<1>1. /\ m \in Messages /\ i \in Identifiers
      /\ h.message \in Messages /\ IdentifierOf[h.message] \in Identifiers
    BY HandlerType DEF IInv
<1>2. Holds(g) /\ Holds(h)
    BY DEF IInv, CallsHold
<1>3. g.logged => inbox'[m] = inbox[m]
    BY <1>1, <1>2 DEF IInv, OneCallPerMessage, TablesMove, Holds
<1>4. inbox[m] = "SUCCESS" => inbox'[m] = "SUCCESS"
    BY <1>1, <1>2 DEF TablesMove, Holds
<1>5. g.writes => outbox'[i] = outbox[i]
    BY <1>1 DEF IInv, OneWriter, TablesMove
<1>6. outbox[i] # None => outbox'[i] # None
    BY <1>1 DEF TablesMove
<1> HIDE DEF m, i
<1>7. (g.logged => inbox'[m] = inbox[m]) /\ (inbox[m] = "SUCCESS" => inbox'[m] = "SUCCESS")
    BY <1>3, <1>4
<1> QED
    BY <1>2, <1>5, <1>6, <1>7 DEF Holds, m, i

\* The whole invariant, from what h becomes (if it goes on) and the tables.
LEMMA StepIInv ==
    ASSUME IInv, NEW h \in handlers, TablesMove(h),
           NEW k \in Handler, k.call = h.call, k.message = h.message,
           handlers' \subseteq (handlers \ {h}) \cup {k},
           inbox' \in [Messages -> {"ABSENT", "PENDING", "SUCCESS", "FAILED"}],
           outbox' \in [Identifiers -> Messages \cup {None}],
           answered' \subseteq Messages \X Codes,
           k \in handlers' => Holds(k)',
           k.logged => h.logged \/ inbox[h.message] = "ABSENT",
           k.writes => \/ h.writes
                       \/ \A g \in handlers :
                              g.writes => IdentifierOf[g.message] # IdentifierOf[h.message],
           InboxTellsOutcome', AcceptedIsStored'
    PROVE  IInv'
<1> USE DEF IInv
<1>1. TypeOK'
    BY DEF TypeOK
<1>2. CallsHold'
    BY OthersHold DEF CallsHold
<1>3. CallsDiffer'
    BY DEF CallsDiffer
<1>4. OneWriter'
    BY DEF OneWriter
<1>5. OneCallPerMessage'
  <2>1. \A g \in handlers \ {h} : g.logged /\ k.logged => g.message # k.message
      BY DEF OneCallPerMessage, CallsHold, Holds
  <2> QED
      BY <2>1 DEF OneCallPerMessage
<1> QED
    BY <1>1, <1>2, <1>3, <1>4, <1>5

\* A step that leaves the tables alone moves h from one state to another.
LEMMA TablesStay ==
    ASSUME IInv, UNCHANGED tables, NEW h \in handlers
    PROVE  /\ TablesMove(h)
           /\ inbox' = inbox /\ outbox' = outbox
           /\ inbox' \in [Messages -> {"ABSENT", "PENDING", "SUCCESS", "FAILED"}]
           /\ outbox' \in [Identifiers -> Messages \cup {None}]
           /\ InboxTellsOutcome'
BY DEF IInv, TypeOK, tables, TablesMove, InboxTellsOutcome

\* h goes from one query to the next, or ends: nothing else changes.
LEMMA QuietIInv ==
    ASSUME IInv, NEW h \in handlers, UNCHANGED <<tables, answered>>,
           NEW k \in Handler, k.call = h.call, k.message = h.message,
           handlers' \subseteq (handlers \ {h}) \cup {k},
           k \in handlers' => Holds(k),
           k.logged = h.logged,
           k.writes => \/ h.writes
                       \/ \A g \in handlers :
                              g.writes => IdentifierOf[g.message] # IdentifierOf[h.message]
    PROVE  IInv'
<1>1. AcceptedIsStored'
    BY TablesStay DEF IInv, AcceptedIsStored
<1>2. Holds(k)' <=> Holds(k)
    BY TablesStay DEF Holds
<1>3. answered' \subseteq Messages \X Codes
    BY DEF IInv, TypeOK
<1> QED
    BY <1>1, <1>2, <1>3, TablesStay, StepIInv

\* The steps of handleDisasterInfo that write no table and no promise.
LEMMA QuietSteps ==
    ASSUME IInv, NEW h \in handlers,
           \/ NoClient(h) \/ CheckDuplicate(h) \/ Validate(h) \/ Write(h)
           \/ QueryError(h) \/ Rollback(h)
    PROVE  IInv'
<1>1. h \in Handler /\ Holds(h) /\ IdentifierOf[h.message] \in Identifiers
    BY HandlerType DEF IInv, CallsHold
<1>2. CASE NoClient(h)
    BY <1>1, <1>2, QuietIInv DEF NoClient
<1>3. CASE CheckDuplicate(h)
  <2>1. PICK k \in {[h EXCEPT !.pc = "insert"],
                    [h EXCEPT !.pc = "rollback", !.code = "duplicate"]} : Becomes(h, k)
      BY <1>3 DEF CheckDuplicate, GoesTo, Throws
  <2>2. /\ k \in Handler /\ k.call = h.call /\ k.message = h.message
        /\ k.logged = h.logged /\ k.writes = h.writes
        /\ k.pc = "insert" \/ (k.pc = "rollback" /\ k.code = "duplicate")
      BY <1>1 DEF Handler, Codes
  <2>3. h.pc = "check" /\ UNCHANGED <<tables, answered>>
      BY <1>3 DEF CheckDuplicate
  <2>4. Holds(k)
      BY <1>1, <2>2, <2>3 DEF Holds
  <2> QED
      BY <2>1, <2>2, <2>3, <2>4, QuietIInv DEF Becomes
<1>4. CASE Validate(h)
  <2>1. PICK k \in {[h EXCEPT !.pc = "write"],
                    [h EXCEPT !.pc = "rollback", !.code = "invalid"]} : Becomes(h, k)
      BY <1>4 DEF Validate, GoesTo, Throws
  <2>2. /\ k \in Handler /\ k.call = h.call /\ k.message = h.message
        /\ k.logged = h.logged /\ k.writes = h.writes
        /\ k.pc = "write" \/ (k.pc = "rollback" /\ k.code = "invalid")
      BY <1>1 DEF Handler, Codes
  <2>3. h.pc = "validate" /\ UNCHANGED <<tables, answered>>
      BY <1>4 DEF Validate
  <2>4. Holds(k)
      BY <1>1, <2>2, <2>3 DEF Holds, Open
  <2> QED
      BY <2>1, <2>2, <2>3, <2>4, QuietIInv DEF Becomes
<1>5. CASE Write(h)
  <2> DEFINE free == outbox[IdentifierOf[h.message]] = None
             k == [h EXCEPT !.pc = "commit", !.writes = free]
  <2>1. /\ k \in Handler /\ k.call = h.call /\ k.message = h.message
        /\ k.logged = h.logged /\ k.pc = "commit" /\ k.writes = free
      BY <1>1 DEF Handler
  <2>2. /\ h.pc = "write" /\ UNCHANGED <<tables, answered>>
        /\ Becomes(h, k)
        /\ \A g \in handlers : g.writes => IdentifierOf[g.message] # IdentifierOf[h.message]
      BY <1>5 DEF Write
  <2> HIDE DEF k
  <2>3. Holds(k)
      BY <1>1, <2>1, <2>2 DEF Holds, Open
  <2> QED
      BY <2>1, <2>2, <2>3, QuietIInv DEF Becomes
<1>6. CASE QueryError(h)
  <2> DEFINE k == [h EXCEPT !.pc = "rollback", !.code = "error"]
  <2>1. /\ k \in Handler /\ k.call = h.call /\ k.message = h.message
        /\ k.logged = h.logged /\ k.writes = h.writes
        /\ k.pc = "rollback" /\ k.code = "error"
      BY <1>1 DEF Handler, Codes
  <2>2. /\ h.pc \in {"check", "insert", "validate", "write", "commit"}
        /\ UNCHANGED <<tables, answered>>
        /\ Becomes(h, k)
      BY <1>6 DEF QueryError, Throws
  <2> HIDE DEF k
  <2>3. Holds(k)
      BY <1>1, <2>1, <2>2 DEF Holds, Open
  <2> QED
      BY <2>1, <2>2, <2>3, QuietIInv DEF Becomes
<1>7. CASE Rollback(h)
  <2> DEFINE k == [h EXCEPT !.pc = IF h.logged THEN "fail" ELSE "answer", !.writes = FALSE]
  <2>1. /\ k \in Handler /\ k.call = h.call /\ k.message = h.message
        /\ k.logged = h.logged /\ ~k.writes /\ k.code = h.code
        /\ k.pc = IF h.logged THEN "fail" ELSE "answer"
      BY <1>1 DEF Handler
  <2>2. h.pc = "rollback" /\ UNCHANGED <<tables, answered>> /\ Becomes(h, k)
      BY <1>7 DEF Rollback
  <2> HIDE DEF k
  <2>3. Holds(k)
      BY <1>1, <2>1, <2>2 DEF Holds, Open
  <2> QED
      BY <2>1, <2>2, <2>3, QuietIInv DEF Becomes
<1> QED
    BY <1>2, <1>3, <1>4, <1>5, <1>6, <1>7

-----------------------------------------------------------------------------
(* The steps that write.                                                    *)

\* The INSERTs of a transaction.
LEMMA InsertIInv ==
    ASSUME IInv, NEW h \in handlers, Insert(h)
    PROVE  IInv'
<1>1. h \in Handler /\ h.message \in Messages /\ Holds(h) /\ h.pc = "insert"
    BY HandlerType DEF IInv, CallsHold, Insert
<1> DEFINE ok == [h EXCEPT !.pc = "validate", !.logged = TRUE]
           failed == [h EXCEPT !.pc = "rollback", !.code = "error"]
<1>2. /\ ok \in Handler /\ ok.call = h.call /\ ok.message = h.message
      /\ ok.logged /\ ok.writes = h.writes /\ ok.pc = "validate"
    BY <1>1 DEF Handler
<1>3. /\ failed \in Handler /\ failed.call = h.call /\ failed.message = h.message
      /\ failed.logged = h.logged /\ failed.writes = h.writes
      /\ failed.pc = "rollback" /\ failed.code = "error"
    BY <1>1 DEF Handler, Codes
<1>4. /\ outbox' = outbox /\ answered' = answered
      /\ \/ /\ inbox[h.message] = "ABSENT"
            /\ SetInbox(h.message, "PENDING")
            /\ Becomes(h, ok) \/ Becomes(h, failed)
         \/ /\ inbox' = inbox
            /\ Becomes(h, failed)
    BY DEF Insert, Throws
<1> HIDE DEF ok, failed
<1>5. inbox' \in [Messages -> {"ABSENT", "PENDING", "SUCCESS", "FAILED"}]
    BY <1>1, <1>4 DEF IInv, TypeOK, SetInbox
<1>6. /\ TablesMove(h)
      /\ \A m \in Messages : inbox'[m] = "SUCCESS" <=> inbox[m] = "SUCCESS"
      /\ \A m \in Messages : inbox'[m] = inbox[m] \/ m = h.message
    BY <1>1, <1>4 DEF IInv, TypeOK, SetInbox, TablesMove
<1>7. InboxTellsOutcome' /\ AcceptedIsStored'
    BY <1>4, <1>6 DEF IInv, TypeOK, InboxTellsOutcome, AcceptedIsStored
<1>8. PICK k \in {ok, failed} :
          /\ Becomes(h, k)
          /\ k = ok => inbox[h.message] = "ABSENT" /\ inbox'[h.message] = "PENDING"
    BY <1>1, <1>2, <1>3, <1>4 DEF IInv, TypeOK, SetInbox
<1>9. Holds(k)'
    BY <1>1, <1>2, <1>3, <1>4, <1>8 DEF Holds, Open
<1>10. /\ k \in Handler /\ k.call = h.call /\ k.message = h.message
       /\ handlers' \subseteq (handlers \ {h}) \cup {k}
       /\ k.logged => h.logged \/ inbox[h.message] = "ABSENT"
       /\ k.writes => h.writes
    BY <1>2, <1>3, <1>8 DEF Becomes
<1>11. /\ outbox' \in [Identifiers -> Messages \cup {None}]
       /\ answered' \subseteq Messages \X Codes
    BY <1>4 DEF IInv, TypeOK
<1> QED
    BY <1>5, <1>6, <1>7, <1>9, <1>10, <1>11, StepIInv

\* COMMIT, heard of or not: the rows become visible and the caller goes on.
LEMMA CommitIInv ==
    ASSUME IInv, NEW h \in handlers, Commit(h) \/ CommitUnheard(h)
    PROVE  IInv'
<1> DEFINE i == IdentifierOf[h.message]
<1>1. /\ h \in Handler /\ h.message \in Messages /\ i \in Identifiers
      /\ Holds(h) /\ h.pc = "commit" /\ h.logged
    BY HandlerType DEF IInv, CallsHold, Commit, CommitUnheard, Holds
<1>2. PICK k \in {[h EXCEPT !.pc = "answer", !.writes = FALSE],
                  [h EXCEPT !.pc = "answer", !.writes = FALSE, !.code = "error"]} :
          Becomes(h, k)
    BY DEF Commit, CommitUnheard
<1>3. /\ k \in Handler /\ k.call = h.call /\ k.message = h.message
      /\ k.logged = h.logged /\ ~k.writes /\ k.pc = "answer"
    BY <1>1 DEF Handler, Codes
<1>4. /\ outbox' = IF h.writes THEN [outbox EXCEPT ![i] = h.message] ELSE outbox
      /\ inbox' = [inbox EXCEPT ![h.message] = "SUCCESS"]
      /\ answered' = answered
    BY DEF Commit, CommitUnheard, Committed, SetInbox
<1>5. h.message # None
    BY <1>1, ConstantsAssumption DEF ConstantsAssumption
<1>6. /\ inbox' \in [Messages -> {"ABSENT", "PENDING", "SUCCESS", "FAILED"}]
      /\ outbox' \in [Identifiers -> Messages \cup {None}]
      /\ answered' \subseteq Messages \X Codes
    BY <1>1, <1>4 DEF IInv, TypeOK
<1>7. /\ inbox'[h.message] = "SUCCESS"
      /\ \A m \in Messages : m # h.message => inbox'[m] = inbox[m]
    BY <1>1, <1>4 DEF IInv, TypeOK
<1>8. /\ h.writes => outbox'[i] = h.message
      /\ ~h.writes => outbox'[i] = outbox[i] /\ outbox[i] # None
      /\ \A x \in Identifiers : x # i => outbox'[x] = outbox[x]
    BY <1>1, <1>4 DEF IInv, TypeOK, Holds
<1> HIDE DEF i
<1>9. TablesMove(h)
    BY <1>1, <1>5, <1>7, <1>8 DEF TablesMove, Open, i
<1>10. outbox'[i] # None /\ \A x \in Identifiers : outbox[x] # None => outbox'[x] # None
    BY <1>5, <1>8
<1>11. InboxTellsOutcome'
  <2>1. \A x \in Identifiers : outbox'[x] # None => inbox'[outbox'[x]] = "SUCCESS"
      BY <1>1, <1>7, <1>8 DEF IInv, TypeOK, InboxTellsOutcome
  <2>2. \A m \in Messages : IdentifierOf[m] \in Identifiers
      BY ConstantsAssumption DEF ConstantsAssumption
  <2>3. \A m \in Messages : inbox'[m] = "SUCCESS" => outbox'[IdentifierOf[m]] # None
      BY <1>7, <1>10, <2>2 DEF IInv, InboxTellsOutcome, i
  <2> QED
      BY <2>1, <2>3 DEF InboxTellsOutcome
<1>12. AcceptedIsStored'
  <2>1. \A m \in Messages : IdentifierOf[m] \in Identifiers
      BY ConstantsAssumption DEF ConstantsAssumption
  <2> QED
      BY <1>4, <1>7, <1>10, <2>1 DEF IInv, AcceptedIsStored
<1>13. Holds(k)'
    BY <1>3, <1>7, <1>10 DEF Holds, Open, i
<1> QED
    BY <1>1, <1>2, <1>3, <1>6, <1>9, <1>11, <1>12, <1>13, StepIInv DEF Becomes

\* The inbox row is marked FAILED after a rollback.
LEMMA MarkFailedIInv ==
    ASSUME IInv, NEW h \in handlers, MarkFailed(h)
    PROVE  IInv'
<1> DEFINE k == [h EXCEPT !.pc = "answer"]
<1>1. /\ h \in Handler /\ h.message \in Messages /\ Holds(h)
      /\ h.pc = "fail" /\ h.logged /\ h.code # "accepted" /\ inbox[h.message] = "PENDING"
    BY HandlerType DEF IInv, CallsHold, MarkFailed, Holds, Open
<1>2. /\ k \in Handler /\ k.call = h.call /\ k.message = h.message
      /\ k.logged = h.logged /\ k.writes = h.writes /\ k.pc = "answer" /\ k.code = h.code
    BY <1>1 DEF Handler
<1>3. /\ Becomes(h, k) /\ outbox' = outbox /\ answered' = answered
      /\ inbox' \in {inbox, [inbox EXCEPT ![h.message] = "FAILED"]}
    BY DEF MarkFailed, GoesTo, SetInbox
<1> HIDE DEF k
<1>4. /\ inbox' \in [Messages -> {"ABSENT", "PENDING", "SUCCESS", "FAILED"}]
      /\ outbox' \in [Identifiers -> Messages \cup {None}]
      /\ answered' \subseteq Messages \X Codes
    BY <1>1, <1>3 DEF IInv, TypeOK
<1>5. /\ \A m \in Messages : inbox'[m] = inbox[m] \/ m = h.message
      /\ \A m \in Messages : inbox'[m] = "SUCCESS" <=> inbox[m] = "SUCCESS"
      /\ inbox'[h.message] # "ABSENT"
    BY <1>1, <1>3 DEF IInv, TypeOK
<1>6. TablesMove(h)
    BY <1>1, <1>3, <1>5 DEF TablesMove, Open
<1>7. InboxTellsOutcome' /\ AcceptedIsStored'
    BY <1>3, <1>5 DEF IInv, TypeOK, InboxTellsOutcome, AcceptedIsStored
<1>8. Holds(k)'
    BY <1>1, <1>2, <1>5 DEF Holds, Open
<1> QED
    BY <1>2, <1>3, <1>4, <1>6, <1>7, <1>8, StepIInv DEF Becomes

\* The handler answers and its call ends.
LEMMA SendAnswerIInv ==
    ASSUME IInv, NEW h \in handlers, SendAnswer(h)
    PROVE  IInv'
<1>1. /\ h \in Handler /\ h.message \in Messages /\ h.code \in Codes /\ Holds(h)
      /\ h.pc = "answer"
    BY HandlerType DEF IInv, CallsHold, SendAnswer, Handler
<1>2. /\ handlers' = handlers \ {h} /\ UNCHANGED tables
      /\ answered' \in {answered, answered \cup {<<h.message, h.code>>}}
    BY DEF SendAnswer
<1>3. answered' \subseteq Messages \X Codes
    BY <1>1, <1>2 DEF IInv, TypeOK
<1>4. AcceptedIsStored'
    BY <1>1, <1>2, TablesStay DEF IInv, AcceptedIsStored, Holds
<1> QED
    BY <1>1, <1>2, <1>3, <1>4, TablesStay, StepIInv

\* A message arrives and a new call starts.
LEMMA ReceiveIInv ==
    ASSUME IInv, NEW n \in Calls, NEW m \in Messages, Receive(n, m)
    PROVE  IInv'
<1> DEFINE k == [call |-> n, message |-> m, writes |-> FALSE,
                 logged |-> FALSE, code |-> "accepted", pc |-> "check"]
<1>1. /\ k \in Handler /\ k.call = n /\ ~k.writes /\ ~k.logged /\ k.pc = "check"
    BY DEF Handler, Codes
<1>2. /\ handlers' = handlers \cup {k} /\ \A h \in handlers : h.call # n
      /\ inbox' = inbox /\ outbox' = outbox /\ answered' = answered
    BY DEF Receive, tables
<1> HIDE DEF k
<1>3. Holds(k)
    BY <1>1 DEF Holds, Open
<1>4. CallsHold'
    BY <1>2, <1>3 DEF IInv, CallsHold, Holds
<1>5. TypeOK'
    BY <1>1, <1>2 DEF IInv, TypeOK
<1>6. CallsDiffer' /\ OneWriter' /\ OneCallPerMessage'
    BY <1>1, <1>2 DEF IInv, CallsDiffer, OneWriter, OneCallPerMessage
<1>7. InboxTellsOutcome' /\ AcceptedIsStored'
    BY <1>2 DEF IInv, InboxTellsOutcome, AcceptedIsStored
<1> QED
    BY <1>4, <1>5, <1>6, <1>7 DEF IInv

-----------------------------------------------------------------------------
(* The theorems.                                                            *)

\* In every state each call of the disaster handler can rely on what it holds.
THEOREM SpecIInv == Spec => []IInv
<1>1. Init => IInv
    BY DEF Init, IInv, TypeOK, CallsHold, CallsDiffer, OneWriter, OneCallPerMessage,
           InboxTellsOutcome, AcceptedIsStored
<1>2. IInv /\ [Next]_vars => IInv'
  <2> SUFFICES ASSUME IInv, [Next]_vars
               PROVE  IInv'
      OBVIOUS
  <2>1. ASSUME NEW n \in Calls, NEW m \in Messages, Receive(n, m) PROVE IInv'
      BY <2>1, ReceiveIInv
  <2>2. ASSUME NEW h \in handlers, HandlerStep(h) PROVE IInv'
      BY <2>2, QuietSteps, InsertIInv, CommitIInv, MarkFailedIInv, SendAnswerIInv
      DEF HandlerStep
  <2>3. CASE Restart
      BY <2>3 DEF Restart, tables, IInv, TypeOK, CallsHold, CallsDiffer, OneWriter,
                  OneCallPerMessage, InboxTellsOutcome, AcceptedIsStored
  <2>4. CASE UNCHANGED vars
      BY <2>4 DEF vars, tables, IInv, TypeOK, CallsHold, Holds, CallsDiffer, OneWriter,
                  OneCallPerMessage, InboxTellsOutcome, AcceptedIsStored
  <2> QED
      BY <2>1, <2>2, <2>3, <2>4 DEF Next
<1> QED
    BY <1>1, <1>2, PTL DEF Spec

\* Every reachable state is one of tables, calls and answers as declared.
THEOREM TypeCorrect == Spec => []TypeOK
<1>1. IInv => TypeOK
    BY DEF IInv
<1> QED
    BY <1>1, SpecIInv, PTL

\* What was answered 000 is stored, for any number of calls side by side and
\* across every crash (handleDisasterInfo answers after COMMIT).
THEOREM AcceptedStays == Spec => []AcceptedIsStored
<1>1. IInv => AcceptedIsStored
    BY DEF IInv
<1> QED
    BY <1>1, SpecIInv, PTL

\* tcp_receive_logs and disaster_publish_logs tell one story: the transaction of
\* handleDisasterInfo keeps the verdict and the outbox row together.
THEOREM OneOutcome == Spec => []InboxTellsOutcome
<1>1. IInv => InboxTellsOutcome
    BY DEF IInv
<1> QED
    BY <1>1, SpecIInv, PTL

\* The unique index lets one call per message past its inbox row, however often
\* the message is sent and whatever isDuplicate saw.
THEOREM OneCall == Spec => []OneCallPerMessage
<1>1. IInv => OneCallPerMessage
    BY DEF IInv
<1> QED
    BY <1>1, SpecIInv, PTL
=============================================================================

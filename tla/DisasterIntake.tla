---------------------------- MODULE DisasterIntake ----------------------------
(***************************************************************************)
(* How the central service takes a disaster message of the central system: *)
(* handleDisasterInfo of disasterHandler, which records it in              *)
(* tcp_receive_logs, writes the row of disaster_publish_logs that will be  *)
(* published, and answers.  The central system may send a message again,   *)
(* also while it is being handled, and two messages may carry one CAP      *)
(* identifier.                                                             *)
(*                                                                         *)
(* An await splits the handler.  The inbox row is committed on its own;    *)
(* the outbox row and the verdict SUCCESS become visible together.         *)
(***************************************************************************)
EXTENDS Naturals

CONSTANTS
    Messages,      (* a transMsgId with its transMsgSeq                      *)
    Identifiers,   (* CAP identifiers                                        *)
    IdentifierOf,  (* [Messages -> Identifiers]                              *)
    Invalid,       (* messages without the CAP fields, or of unknown code    *)
    Calls,         (* bound: calls of the handler under way                  *)
    None

ASSUME ConstantsAssumption ==
    /\ IdentifierOf \in [Messages -> Identifiers]
    /\ Invalid \subseteq Messages
    /\ None \notin Messages

VARIABLES
    inbox,     \* tcp_receive_logs: its status, by the unique id and sequence
    outbox,    \* disaster_publish_logs: the message a row was made from, by identifier
    handlers,  \* calls of handleDisasterInfo under way
    answered   \* what the central system was told, and about which message

tables == <<inbox, outbox>>
vars == <<tables, handlers, answered>>

\* 000, 210 or 220, 300 and 810.
Codes == {"accepted", "invalid", "duplicate", "error"}

\* "write" is in the transaction and waits for the unique index, "commit" holds
\* its row if it writes one.
Handler == [call : Calls, message : Messages, writes : BOOLEAN, logged : BOOLEAN, code : Codes,
            pc : {"check", "insert", "validate", "write", "commit", "rollback", "fail", "answer"}]

TypeOK ==
    /\ inbox \in [Messages -> {"ABSENT", "PENDING", "SUCCESS", "FAILED"}]
    /\ outbox \in [Identifiers -> Messages \cup {None}]
    /\ handlers \subseteq Handler
    /\ answered \subseteq Messages \X Codes

Init ==
    /\ inbox = [m \in Messages |-> "ABSENT"]
    /\ outbox = [i \in Identifiers |-> None]
    /\ handlers = {}
    /\ answered = {}

-----------------------------------------------------------------------------
Becomes(h, k) == handlers' = (handlers \ {h}) \cup {k}
GoesTo(h, pc) == Becomes(h, [h EXCEPT !.pc = pc])
Throws(h, code, pc) == Becomes(h, [h EXCEPT !.pc = pc, !.code = code])
SetInbox(m, s) == inbox' = [inbox EXCEPT ![m] = s]

\* The router hands over an ETS_NFY_DIS_INFO message that can be parsed.
Receive(n, m) ==
    /\ \A h \in handlers : h.call # n
    /\ handlers' = handlers \cup {[call |-> n, message |-> m, writes |-> FALSE,
                                   logged |-> FALSE, code |-> "accepted", pc |-> "check"]}
    /\ UNCHANGED <<tables, answered>>

\* The pool has no client: the handler knows no message to answer yet.
NoClient(h) ==
    /\ h.pc = "check"
    /\ handlers' = handlers \ {h}
    /\ UNCHANGED <<tables, answered>>

\* tcpReceiveLogRepository.isDuplicate.
CheckDuplicate(h) ==
    /\ h.pc = "check"
    /\ \/ inbox[h.message] = "ABSENT" /\ GoesTo(h, "insert")
       \/ inbox[h.message] # "ABSENT" /\ Throws(h, "duplicate", "rollback")
    /\ UNCHANGED <<tables, answered>>

\* Mutant: the index over id and sequence is not unique.
InsertAnyway(h) ==
    /\ h.pc = "insert"
    /\ SetInbox(h.message, "PENDING")
    /\ Becomes(h, [h EXCEPT !.pc = "validate", !.logged = TRUE])
    /\ UNCHANGED <<outbox, answered>>

\* tcpReceiveLogRepository.create, before BEGIN: the unique index decides.  The
\* connection may go when the row is in and the id has not come back.
Insert(h) ==
    /\ h.pc = "insert"
    /\ \/ /\ inbox[h.message] = "ABSENT"
          /\ SetInbox(h.message, "PENDING")
          /\ \/ Becomes(h, [h EXCEPT !.pc = "validate", !.logged = TRUE])
             \/ Throws(h, "error", "rollback")
       \/ /\ inbox[h.message] # "ABSENT"
          /\ Throws(h, "error", "rollback")
          /\ UNCHANGED inbox
    /\ UNCHANGED <<outbox, answered>>

\* BEGIN and the checks of the CAP message.
Validate(h) ==
    /\ h.pc = "validate"
    /\ \/ h.message \notin Invalid /\ GoesTo(h, "write")
       \/ h.message \in Invalid /\ Throws(h, "invalid", "rollback")
    /\ UNCHANGED <<tables, answered>>

\* disasterPublishLogRepository.create, ON CONFLICT (identifier) DO NOTHING, and
\* updateStatus SUCCESS, both in the transaction.  A row another transaction
\* has inserted and not yet committed makes it wait.
Write(h) ==
    LET i == IdentifierOf[h.message] IN
    /\ h.pc = "write"
    /\ \A k \in handlers : k.writes => IdentifierOf[k.message] # i
    /\ Becomes(h, [h EXCEPT !.pc = "commit", !.writes = outbox[i] = None])
    /\ UNCHANGED <<tables, answered>>

\* Mutant: the verdict is not part of the transaction.
CommitRowOnly(h) ==
    /\ outbox' = IF h.writes THEN [outbox EXCEPT ![IdentifierOf[h.message]] = h.message]
                 ELSE outbox
    /\ UNCHANGED inbox

\* Mutant: the outbox row is not part of the transaction.
CommitStatusOnly(h) == UNCHANGED outbox /\ SetInbox(h.message, "SUCCESS")

\* What COMMIT makes visible.
Committed(h) ==
    /\ outbox' = IF h.writes THEN [outbox EXCEPT ![IdentifierOf[h.message]] = h.message]
                 ELSE outbox
    /\ SetInbox(h.message, "SUCCESS")

Commit(h) ==
    /\ h.pc = "commit"
    /\ Committed(h)
    /\ Becomes(h, [h EXCEPT !.pc = "answer", !.writes = FALSE])
    /\ UNCHANGED answered

\* COMMIT is carried out and its connection lost: for the handler it failed,
\* and neither ROLLBACK nor FAILED gets through on that client.
CommitUnheard(h) ==
    /\ h.pc = "commit"
    /\ Committed(h)
    /\ Becomes(h, [h EXCEPT !.pc = "answer", !.writes = FALSE, !.code = "error"])
    /\ UNCHANGED answered

\* Any query fails.
QueryError(h) ==
    /\ h.pc \in {"check", "insert", "validate", "write", "commit"}
    /\ Throws(h, "error", "rollback")
    /\ UNCHANGED <<tables, answered>>

\* The catch: ROLLBACK, or the database does it when the connection is gone.
Rollback(h) ==
    /\ h.pc = "rollback"
    /\ Becomes(h, [h EXCEPT !.pc = IF h.logged THEN "fail" ELSE "answer", !.writes = FALSE])
    /\ UNCHANGED <<tables, answered>>

\* updateStatus FAILED, whose own error is only logged.
MarkFailed(h) ==
    /\ h.pc = "fail"
    /\ SetInbox(h.message, "FAILED") \/ UNCHANGED inbox
    /\ GoesTo(h, "answer")
    /\ UNCHANGED <<outbox, answered>>

\* sessionManager.send: lost if there is no connection, or with it.
SendAnswer(h) ==
    /\ h.pc = "answer"
    /\ answered' \in {answered, answered \cup {<<h.message, h.code>>}}
    /\ handlers' = handlers \ {h}
    /\ UNCHANGED tables

\* The process goes down with its transactions and comes back.
Restart ==
    /\ handlers' = {}
    /\ UNCHANGED <<tables, answered>>

HandlerStep(h) ==
    \/ NoClient(h) \/ CheckDuplicate(h) \/ Insert(h) \/ Validate(h) \/ Write(h)
    \/ Commit(h) \/ CommitUnheard(h) \/ QueryError(h) \/ Rollback(h) \/ MarkFailed(h)
    \/ SendAnswer(h)

Next ==
    \/ \E n \in Calls, m \in Messages : Receive(n, m)
    \/ \E h \in handlers : HandlerStep(h)
    \/ Restart

Spec == Init /\ [][Next]_vars
-----------------------------------------------------------------------------
(* Properties.                                                              *)

\* What the central system was told is accepted is in disaster_publish_logs
\* and recorded as SUCCESS, whatever crashes, repeats or runs side by side: the
\* answer 000 comes after COMMIT (handleDisasterInfo).
AcceptedIsStored ==
    \A m \in Messages : <<m, "accepted">> \in answered =>
        inbox[m] = "SUCCESS" /\ outbox[IdentifierOf[m]] # None

\* The verdict of the inbox and the outbox row are one decision: the message an
\* outbox row was made from is SUCCESS, and a SUCCESS message has the row of its
\* identifier, made from it or from another; no late FAILED says otherwise.
InboxTellsOutcome ==
    /\ \A i \in Identifiers : outbox[i] # None => inbox[outbox[i]] = "SUCCESS"
    /\ \A m \in Messages : inbox[m] = "SUCCESS" => outbox[IdentifierOf[m]] # None

\* However often a message arrives, one call at most gets past its inbox row.
OneCallPerMessage ==
    \A h, k \in handlers : h.logged /\ k.logged /\ h.message = k.message => h = k
=============================================================================

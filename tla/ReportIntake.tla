----------------------------- MODULE ReportIntake -----------------------------
(***************************************************************************)
(* How the central service takes reports from RabbitMQ: the handler        *)
(* _consumeReportMessage of messageBrokerService, which records a message  *)
(* in mq_receive_logs, turns it into a row of report_transmit_logs and     *)
(* acknowledges it, or sends a copy with a higher x-retry-count through    *)
(* the wait queue, or lets it fall into the dead letter queue.             *)
(*                                                                         *)
(* An await splits the handler.  The queue and the channel are those of    *)
(* RabbitQueue; a message is a report.                                     *)
(***************************************************************************)
EXTENDS RabbitQueue

VARIABLES
    inbox,      \* mq_receive_logs: the verdicts written so far, by report
    outbox      \* report_transmit_logs: the reports that have a row

tables == <<inbox, outbox>>
vars == <<broker, amqp, handlers, tables, outlived, losses>>

\* A delivery is known by its channel and its tag; the code keeps only the tag.
Handler == [chan : Nat, tag : Nat, message : Messages, retry : 0..MaxRetries, logged : BOOLEAN,
            pc : {"record", "create", "settle", "ack", "retry", "fail"}]

TypeOK ==
    /\ QueueTypeOK
    /\ handlers \subseteq Handler
    /\ inbox \subseteq Messages \X {"SUCCESS", "FAILED"}
    /\ outbox \subseteq Messages

Init == QueueInit /\ inbox = {} /\ outbox = {}

-----------------------------------------------------------------------------
(* _consumeReportMessage.                                                   *)

Call(c) == [chan |-> channels, tag |-> nextTag, pc |-> "record", logged |-> FALSE,
            message |-> copies[c].message, retry |-> copies[c].retry]

SetInbox(h, s) == inbox' = inbox \cup {<<h.message, s>>}

\* mqReceiveLogRepository.create: committed at once.
Record(h) ==
    /\ h.pc = "record"
    /\ handlers' = (handlers \ {h}) \cup {[h EXCEPT !.pc = "create", !.logged = TRUE]}
    /\ UNCHANGED <<broker, amqp, tables, outlived, losses>>

\* Mutant: the report is not written to the outbox.
CreateNothing(h) ==
    /\ h.pc = "create"
    /\ GoesTo(h, "settle")
    /\ UNCHANGED <<broker, amqp, tables, outlived, losses>>

\* BEGIN, the checks and reportTransmitLogRepository.create: without the
\* client it runs on the pool, outside of the transaction.
CreateRow(h) ==
    /\ h.pc = "create"
    /\ outbox' = outbox \cup {h.message}
    /\ GoesTo(h, "settle")
    /\ UNCHANGED <<broker, amqp, inbox, outlived, losses>>

\* updateStatus SUCCESS and COMMIT.
Settle(h) ==
    /\ h.pc = "settle"
    /\ SetInbox(h, "SUCCESS")
    /\ GoesTo(h, "ack")
    /\ UNCHANGED <<broker, amqp, outbox, outlived, losses>>

\* An error in any of them, an identifier disaster_publish_logs does not have,
\* or a COMMIT whose answer is lost; then ROLLBACK.
ProcessingFails(h) ==
    /\ h.pc \in {"record", "create", "settle"}
    /\ GoesTo(h, "retry")
    /\ inbox' = inbox \/ (h.pc = "settle" /\ SetInbox(h, "SUCCESS"))
    /\ UNCHANGED <<broker, amqp, outbox, outlived, losses>>

\* updateStatus FAILED, whose own error is only logged.
MarkFailed(h) ==
    /\ h.pc = "fail"
    /\ SetInbox(h, "FAILED") \/ UNCHANGED inbox
    /\ Ends(h)
    /\ UNCHANGED <<broker, amqp, outbox, outlived, losses>>

\* The steps that look at the channel.  If it cannot be used publish throws,
\* logger.err is not a function or nack throws.
ChannelStep(h) ==
    /\ Acknowledge(h) \/ RetryOrReject(h) \/ (channel # "open" /\ Rejects(h))
    /\ UNCHANGED tables

HandlerStep(h) ==
    \/ Record(h) \/ CreateRow(h) \/ Settle(h) \/ ProcessingFails(h)
    \/ ChannelStep(h) \/ MarkFailed(h)

-----------------------------------------------------------------------------
\* external-service publishes a report.
PublishReport(r) == r \notin published /\ Publish(r) /\ UNCHANGED tables

DeliverReport(c) == Deliver(c, Call(c)) /\ UNCHANGED tables

\* The routing keys of a report are bound to the dead letter queue as they are.
BrokerStep == BrokerTakes("dead") /\ UNCHANGED tables

Next ==
    \/ \E r \in Messages : PublishReport(r)
    \/ \E c \in Copies : DeliverReport(c) \/ (WaitExpires(c) /\ UNCHANGED tables)
    \/ BrokerStep
    \/ \E h \in handlers : HandlerStep(h)
    \/ (ConnectionLost \/ Reconnect \/ Restart \/ Crash) /\ UNCHANGED tables

Spec == Init /\ [][Next]_vars

-----------------------------------------------------------------------------
(* Properties.                                                              *)

\* A report that was published is a row of report_transmit_logs or still in
\* the broker, in a queue, unacknowledged or dead-lettered, whatever fails and
\* whenever the connection or the process is lost: the copy for the wait queue
\* goes out before the acknowledgement of its original (_consumeReportMessage).
\* Only a handler that goes on after start() opened a new channel can lose one.
NothingLost == outlived \/ \A r \in published : r \in outbox \/ Held(r)

\* A report whose inbox row says SUCCESS is in report_transmit_logs: the row is
\* made first, and no rollback takes it away again.
SuccessHasRow == \A r \in Messages : <<r, "SUCCESS">> \in inbox => r \in outbox

=============================================================================

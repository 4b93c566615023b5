--------------------------- MODULE DisasterDelivery ---------------------------
(***************************************************************************)
(* How the external service takes disasters from RabbitMQ: the handler     *)
(* _consumeDisasterMessage of its messageBrokerService, which records a    *)
(* message in mq_receive_logs, looks up the systems that subscribed to its *)
(* event code, gives each a row of disaster_transmit_logs in one           *)
(* transaction and acknowledges the message.                               *)
(*                                                                         *)
(* An await splits the handler.  The queue and the channel are those of    *)
(* RabbitQueue; a message is a disaster.                                   *)
(***************************************************************************)
EXTENDS RabbitQueue

CONSTANTS
    Systems,    (* external_systems that subscribe to the code at some time  *)
    Steady      (* those whose subscription does not change                  *)

ASSUME SystemsAssumption == Steady \subseteq Systems

VARIABLES
    receiveLogs,  \* mq_receive_logs: the verdicts written so far, by disaster
    rows,         \* disaster_transmit_logs: disaster and system
    rejected      \* disasters whose last retry failed and that were nacked (ghost)

logs == <<receiveLogs, rows>>
deliveryVars == <<broker, amqp, handlers, logs, rejected, outlived, losses>>

\* found is the result of findBySubscribedEventCode.
DeliveryHandler ==
    [chan : Nat, tag : Nat, message : Messages, retry : 0..MaxRetries, logged : BOOLEAN,
     found : SUBSET Systems, pc : {"record", "find", "commit", "ack", "retry", "fail"}]

DeliveryTypeOK ==
    /\ QueueTypeOK
    /\ handlers \subseteq DeliveryHandler
    /\ receiveLogs \subseteq Messages \X {"SUCCESS", "FAILED"}
    /\ rows \subseteq Messages \X Systems
    /\ rejected \subseteq Messages

DeliveryInit ==
    /\ QueueInit
    /\ receiveLogs = {} /\ rows = {} /\ rejected = {}

-----------------------------------------------------------------------------
(* _consumeDisasterMessage.                                                 *)

DeliveryCall(c) ==
    [chan |-> channels, tag |-> nextTag, pc |-> "record", logged |-> FALSE, found |-> {},
     message |-> copies[c].message, retry |-> copies[c].retry]

Recorded(h, s) == receiveLogs' = receiveLogs \cup {<<h.message, s>>}

\* mqReceiveLogRepository.create: committed at once, a row for every delivery.
RecordDelivery(h) ==
    /\ h.pc = "record"
    /\ handlers' = (handlers \ {h}) \cup {[h EXCEPT !.pc = "find", !.logged = TRUE]}
    /\ UNCHANGED <<broker, amqp, logs, rejected, outlived, losses>>

\* What findBySubscribedEventCode may return: external_systems is kept by others,
\* who change it at any time.
Subscribed == {systems \in SUBSET Systems : Steady \subseteq systems}

\* Mutant: the rows are written on the pool, outside of the transaction.
FindAndCreate(h) ==
    /\ h.pc = "find"
    /\ \E found \in Subscribed :
        /\ handlers' = (handlers \ {h}) \cup {[h EXCEPT !.pc = "commit", !.found = found]}
        /\ rows' = rows \cup ({h.message} \X found)
    /\ UNCHANGED <<broker, amqp, receiveLogs, rejected, outlived, losses>>

\* BEGIN, JSON.parse and findBySubscribedEventCode, which reads on the pool.
FindSubscribers(h) ==
    /\ h.pc = "find"
    /\ \E found \in Subscribed :
        handlers' = (handlers \ {h}) \cup {[h EXCEPT !.pc = "commit", !.found = found]}
    /\ UNCHANGED <<broker, amqp, logs, rejected, outlived, losses>>

\* createBulk, which skips the rows that exist, updateStatus and COMMIT.
FanOut(h) ==
    /\ rows' = rows \cup ({h.message} \X h.found)
    /\ Recorded(h, "SUCCESS")

Commit(h) ==
    /\ h.pc = "commit"
    /\ FanOut(h)
    /\ GoesTo(h, "ack")
    /\ UNCHANGED <<broker, amqp, rejected, outlived, losses>>

\* An error before the COMMIT, or one that hides its answer; then ROLLBACK.
DeliveryFails(h) ==
    /\ h.pc \in {"record", "find", "commit"}
    /\ GoesTo(h, "retry")
    /\ UNCHANGED <<receiveLogs, rows>> \/ (h.pc = "commit" /\ FanOut(h))
    /\ UNCHANGED <<broker, amqp, rejected, outlived, losses>>

\* updateStatus FAILED, whose own error is only logged.
MarkDeliveryFailed(h) ==
    /\ h.pc = "fail"
    /\ Recorded(h, "FAILED") \/ UNCHANGED receiveLogs
    /\ Ends(h)
    /\ UNCHANGED <<broker, amqp, rows, rejected, outlived, losses>>

\* The catch of the handler with an open channel.
RetryOrGiveUp(h) ==
    /\ RetryOrReject(h)
    /\ rejected' = IF h.retry < MaxRetries THEN rejected ELSE rejected \cup {h.message}

\* Without a channel publish throws inside its own try, and nack is skipped.
NoChannel(h) ==
    /\ h.pc = "retry" /\ channel = "null"
    /\ IF h.retry >= MaxRetries /\ h.logged THEN GoesTo(h, "fail") ELSE Ends(h)
    /\ UNCHANGED <<broker, amqp, rejected, outlived, losses>>

\* A closed channel throws on nack as well, outside of any try.
ClosedChannel(h) == channel = "closed" /\ Rejects(h) /\ UNCHANGED rejected

DeliveryChannelStep(h) ==
    /\ \/ Acknowledge(h) /\ UNCHANGED rejected
       \/ RetryOrGiveUp(h) \/ NoChannel(h) \/ ClosedChannel(h)
    /\ UNCHANGED logs

DeliveryHandlerStep(h) ==
    \/ RecordDelivery(h) \/ FindSubscribers(h) \/ Commit(h) \/ DeliveryFails(h)
    \/ DeliveryChannelStep(h) \/ MarkDeliveryFailed(h)

-----------------------------------------------------------------------------
(* The queue.                                                               *)

DeliverDisaster(c) == Deliver(c, DeliveryCall(c)) /\ UNCHANGED <<logs, rejected>>

\* DISASTER_DLX is a direct exchange, which compares keys as they are: a
\* disaster keeps its routing key, and the queue is bound with '#'.
RoutingKey == "disaster.HTW"
DeadLetterBinding == "#"
DeadLetterPlace == IF RoutingKey = DeadLetterBinding THEN "dead" ELSE "none"

DeliveryBrokerStep == BrokerTakes(DeadLetterPlace) /\ UNCHANGED <<logs, rejected>>

\* The central service publishes a disaster, for the first time or again.
PublishDisaster(d) == Publish(d) /\ UNCHANGED <<logs, rejected>>

DeliveryStep ==
    \/ \E c \in Copies :
           DeliverDisaster(c) \/ (WaitExpires(c) /\ UNCHANGED <<logs, rejected>>)
    \/ DeliveryBrokerStep
    \/ \E h \in handlers : DeliveryHandlerStep(h)
    \/ (ConnectionLost \/ Reconnect \/ Restart \/ Crash) /\ UNCHANGED <<logs, rejected>>

DeliveryNext ==
    \/ \E d \in Messages : d \notin published /\ PublishDisaster(d)
    \/ DeliveryStep

DeliverySpec == DeliveryInit /\ [][DeliveryNext]_deliveryVars

-----------------------------------------------------------------------------
(* Properties.                                                              *)

Delivered(d) == <<d, "SUCCESS">> \in receiveLogs

\* A disaster that reached the broker is in the outbox of its subscribers, or
\* still in the broker, or was rejected after MAX_RETRIES failures, wherever the
\* handler is interrupted and however often it is called again: nothing else
\* takes it from the queue (_consumeDisasterMessage acknowledges last).  Only a
\* handler that goes on after start() opened a new channel can lose one.
NoDisasterLost == outlived \/ \A d \in published : Delivered(d) \/ Held(d) \/ d \in rejected

\* The fan-out is all or nothing, over failed, interrupted and repeated
\* handlings and changing subscriptions: rows appear with the verdict that says
\* so, and then every system that was subscribed all along has its row.
FanOutIsWhole ==
    \A d \in Messages :
        /\ Delivered(d) => \A s \in Steady : <<d, s>> \in rows
        /\ (\E s \in Systems : <<d, s>> \in rows) => Delivered(d)

\* messageBrokerService.js:70 says that the dead letter queue is where a message
\* finally settles when MAX_RETRIES is exceeded: then none is lost.
DeadLettersAreKept == outlived \/ \A d \in published : Delivered(d) \/ Held(d)
=============================================================================

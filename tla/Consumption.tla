------------------------------ MODULE Consumption ------------------------------
(***************************************************************************)
(* The consumer of either service.  A process is one of central-service,   *)
(* which takes reports, or one of external-service, which takes disasters; *)
(* both have the queue, the channel and the connection of RabbitQueue.     *)
(***************************************************************************)
EXTENDS ReportIntake, DisasterDelivery

VARIABLE service   \* the service this is a process of

consumptionVars == <<vars, logs, rejected, service>>

Central == service = "central"
External == service = "external"

ConsumptionInit ==
    /\ service \in {"central", "external"}
    /\ Init
    /\ receiveLogs = {} /\ rows = {} /\ rejected = {}

ConsumptionNext ==
    /\ \/ Central /\ Next /\ UNCHANGED <<logs, rejected>>
       \/ External /\ DeliveryNext /\ UNCHANGED tables
    /\ UNCHANGED service

ConsumptionSpec == ConsumptionInit /\ [][ConsumptionNext]_consumptionVars

\* The broker serves its queues, the handlers get answers from the database and
\* from pg's timeouts, start() is retried, and a shutdown of central-service ends
\* and docker restarts the container; nothing makes one of external-service end
\* while clients stay connected.  Each of these steps changes what RabbitQueue has.
ConsumptionFairness ==
    /\ WF_queueVars(\E c \in Copies : WaitExpires(c) /\ UNCHANGED <<tables, logs, rejected>>)
    /\ WF_queueVars(\E c \in Copies : \/ Central /\ DeliverReport(c)
                                      \/ External /\ DeliverDisaster(c))
    /\ WF_queueVars((Central /\ BrokerStep) \/ (External /\ DeliveryBrokerStep))
    /\ WF_queueVars(\E h \in handlers : \/ Central /\ HandlerStep(h)
                                        \/ External /\ DeliveryHandlerStep(h))
    /\ WF_queueVars(Reconnect /\ UNCHANGED <<tables, logs, rejected>>)
    /\ WF_queueVars(Central /\ Restart /\ UNCHANGED tables)

FairConsumptionSpec == ConsumptionSpec /\ ConsumptionFairness
-----------------------------------------------------------------------------
(* Properties.                                                              *)

\* A message that was published has its row, was handed to its subscribers or was
\* rejected after MAX_RETRIES failures, or is in the broker, whatever fails and
\* whenever the connection or the process is lost: the copy for the wait queue
\* goes out before the acknowledgement of its original, and what succeeds is
\* acknowledged last (_consumeReportMessage, _consumeDisasterMessage).  Only a
\* handler that goes on after start() opened a new channel can lose one.
Settled(m) == m \in outbox \/ Delivered(m) \/ m \in rejected

NoMessageLost == outlived \/ \A m \in published : Settled(m) \/ Held(m)

\* Once connections are no longer lost the queues run empty, and every message is
\* settled or dead-lettered.  Only a process of external-service may hang in its
\* shutdown, for the clients it waits for.
DeadLettered(m) == \E c \in Copies : copies[c].message = m /\ copies[c].place = "dead"

EventuallyEmpty ==
    <>[](\/ External /\ dying
         \/ Drained /\ (outlived \/ \A m \in published : Settled(m) \/ DeadLettered(m)))
=============================================================================

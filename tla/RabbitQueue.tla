------------------------------ MODULE RabbitQueue ------------------------------
(***************************************************************************)
(* What the two consumers share: RabbitMQ with a main queue and a wait     *)
(* queue as start() of messageBrokerService declares them, the channel of  *)
(* amqplib with its delivery tags, and the connection that is lost and     *)
(* opened again.  ReportIntake and DisasterDelivery extend it with their   *)
(* handler and their tables; start() is the same code in both services, up *)
(* to the names and types of what it declares.                             *)
(*                                                                         *)
(* What the broker is told goes through the socket in order and is lost    *)
(* with it.  A handler uses the channel of the module, whichever that is   *)
(* when it gets there.                                                     *)
(***************************************************************************)
EXTENDS Naturals, Sequences

CONSTANTS
    Messages,       (* what is published to the exchange of the queue        *)
    MaxRetries,     (* MAX_RETRIES of config.rabbitmq                        *)
    MaxCopies,      (* bound: messages the broker holds at a time            *)
    MaxLosses       (* bound: lost connections and crashes                   *)

Copies == 1..MaxCopies

ASSUME QueueAssumption ==
    /\ Messages # {}
    /\ MaxRetries \in Nat
    /\ MaxCopies \in Nat
    /\ MaxLosses \in Nat

VARIABLES
    published,  \* messages that were handed to the exchange
    copies,     \* the messages in the broker
    ahead,      \* which of them is before which in the queue
    nextTag,    \* delivery tags are numbered per channel
    pipe,       \* commands on their way to the broker
    channel,    \* the module's channel: null after 'close', closed by an error
    channels,   \* channels this process opened so far
    dying,      \* an unhandled rejection or error: gracefulShutdown is running
    handlers,   \* calls of the consumer's handler under way
    outlived,   \* a handler went on after a new channel was opened (ghost)
    losses

broker == <<published, copies, ahead>>
amqp == <<nextTag, pipe, channel, channels, dying>>
queueVars == <<broker, amqp, handlers, outlived, losses>>

Places == {"none", "queue", "unacked", "wait", "dead"}
NoCopy == [message |-> CHOOSE m \in Messages : TRUE, retry |-> 0, place |-> "none", tag |-> 0]

\* The message and the count an ack or nack is meant for are not sent (ghost).
Command == [op : {"ack", "nack"}, tag : Nat, message : Messages, retry : 0..MaxRetries]
           \cup [op : {"retry"}, message : Messages, retry : 0..MaxRetries]

QueueTypeOK ==
    /\ published \subseteq Messages
    /\ copies \in [Copies -> [message : Messages, retry : 0..MaxRetries,
                              place : Places, tag : Nat]]
    /\ ahead \subseteq Copies \X Copies
    /\ nextTag \in Nat
    /\ pipe \in Seq(Command)
    /\ channel \in {"open", "null", "closed"}
    /\ channels \in Nat
    /\ dying \in BOOLEAN
    /\ outlived \in BOOLEAN
    /\ losses \in 0..MaxLosses

QueueInit ==
    /\ published = {}
    /\ copies = [c \in Copies |-> NoCopy]
    /\ ahead = {}
    /\ nextTag = 1
    /\ pipe = <<>>
    /\ channel = "open" /\ channels = 1
    /\ dying = FALSE
    /\ handlers = {}
    /\ outlived = FALSE /\ losses = 0

-----------------------------------------------------------------------------
(* The broker.                                                              *)

Fresh(c) ==
    /\ copies[c].place = "none"
    /\ \A d \in Copies : d < c => copies[d].place # "none"

Put(c, m, n, place) ==
    copies' = [copies EXCEPT ![c] = [message |-> m, retry |-> n, place |-> place, tag |-> 0]]

\* A delivered message keeps its place in the queue until it is confirmed.
Lined == {c \in Copies : copies[c].place \in {"queue", "unacked"}}
JoinsLine(c) == ahead' = ahead \cup (Lined \X {c})
LeavesLine(c) == ahead' = {pair \in ahead : c \notin {pair[1], pair[2]}}

Tagged(tag) == {c \in Copies : copies[c].place = "unacked" /\ copies[c].tag = tag}

Held(m) == \E c \in Copies : copies[c].message = m /\ copies[c].place # "none"

\* A closed channel returns what was delivered on it to the queue.
Requeued == [c \in Copies |-> IF copies[c].place = "unacked"
                              THEN [copies[c] EXCEPT !.place = "queue", !.tag = 0]
                              ELSE copies[c]]

\* The other service publishes a message, for the first time or again.
Publish(m) ==
    /\ published' = published \cup {m}
    /\ \E c \in Copies : Fresh(c) /\ Put(c, m, 0, "queue") /\ JoinsLine(c)
    /\ UNCHANGED <<amqp, handlers, outlived, losses>>

\* x-message-ttl of the wait queue passes.
WaitExpires(c) ==
    /\ copies[c].place = "wait"
    /\ copies' = [copies EXCEPT ![c].place = "queue"]
    /\ JoinsLine(c)
    /\ UNCHANGED <<published, amqp, handlers, outlived, losses>>

\* In the order of the queue, and without a prefetch limit; the consumer is
\* called with the message and its tag.
Deliver(c, call) ==
    /\ channel = "open"
    /\ copies[c].place = "queue"
    /\ \A d \in Copies : <<d, c>> \in ahead => copies[d].place # "queue"
    /\ copies' = [copies EXCEPT ![c].place = "unacked", ![c].tag = nextTag]
    /\ handlers' = handlers \cup {call}
    /\ nextTag' = nextTag + 1
    /\ UNCHANGED <<published, ahead, pipe, channel, channels, dying, outlived, losses>>

\* A rejected message goes to x-dead-letter-exchange; lettered says where that
\* exchange puts it: "dead" is the dead letter queue, "none" is nowhere.
Confirmed(command, lettered) ==
    \E c \in Tagged(command.tag) :
        /\ copies' = [copies EXCEPT ![c] =
               IF command.op = "ack" \/ lettered = "none" THEN NoCopy
               ELSE [@ EXCEPT !.place = lettered, !.tag = 0]]
        /\ LeavesLine(c)

\* A tag the channel does not know is a channel error, for which nobody listens.
ChannelError ==
    /\ copies' = Requeued
    /\ pipe' = <<>>
    /\ channel' = "closed"
    /\ dying' = TRUE

BrokerTakes(lettered) ==
    /\ channel = "open" /\ pipe # <<>>
    /\ LET command == Head(pipe) IN
       \/ /\ command.op = "retry"
          /\ \E c \in Copies : Fresh(c) /\ Put(c, command.message, command.retry, "wait")
          /\ pipe' = Tail(pipe)
          /\ UNCHANGED <<ahead, channel, dying>>
       \/ /\ command.op # "retry"
          /\ Confirmed(command, lettered)
          /\ pipe' = Tail(pipe)
          /\ UNCHANGED <<channel, dying>>
       \/ /\ command.op # "retry"
          /\ Tagged(command.tag) = {}
          /\ ChannelError
          /\ UNCHANGED ahead
    /\ UNCHANGED <<published, nextTag, channels, handlers, outlived, losses>>

-----------------------------------------------------------------------------
(* What a handler h does with the channel.                                  *)

GoesTo(h, pc) == handlers' = (handlers \ {h}) \cup {[h EXCEPT !.pc = pc]}
Ends(h) == handlers' = handlers \ {h}

Confirm(h, op) == [op |-> op, tag |-> h.tag, message |-> h.message, retry |-> h.retry]
NextTry(h) == [op |-> "retry", message |-> h.message, retry |-> h.retry + 1]

\* Mutant: the original is acknowledged before its copy is published.
AcknowledgeFirst(h) == <<Confirm(h, "ack"), NextTry(h)>>

\* Mutant: the original is not acknowledged.
PublishOnly(h) == <<NextTry(h)>>

RetryCommands(h) == <<NextTry(h), Confirm(h, "ack")>>

\* Mutant: the message is acknowledged twice.
AcknowledgeTwice(h) ==
    /\ h.pc = "ack"
    /\ IF channel = "open" THEN pipe' = pipe \o <<Confirm(h, "ack"), Confirm(h, "ack")>>
       ELSE UNCHANGED pipe
    /\ IF channel = "open" THEN Ends(h) ELSE GoesTo(h, "retry")
    /\ UNCHANGED <<broker, nextTag, channel, channels, dying, outlived, losses>>

\* channel.ack after the COMMIT; on a null or closed channel it throws into the
\* same catch.
Acknowledge(h) ==
    /\ h.pc = "ack"
    /\ \/ /\ channel = "open"
          /\ pipe' = Append(pipe, Confirm(h, "ack"))
          /\ Ends(h)
       \/ /\ channel # "open"
          /\ GoesTo(h, "retry")
          /\ UNCHANGED pipe
    /\ UNCHANGED <<broker, nextTag, channel, channels, dying, outlived, losses>>

\* The catch of the handler, while the channel can be used.
RetryOrReject(h) ==
    /\ h.pc = "retry" /\ channel = "open"
    /\ \/ /\ h.retry < MaxRetries
          /\ pipe' = pipe \o RetryCommands(h)
          /\ Ends(h)
       \/ /\ h.retry >= MaxRetries
          /\ pipe' = Append(pipe, Confirm(h, "nack"))
          /\ IF h.logged THEN GoesTo(h, "fail") ELSE Ends(h)
    /\ UNCHANGED <<broker, nextTag, channel, channels, dying, outlived, losses>>

\* The catch throws in its turn: the promise is rejected and nobody handles that.
Rejects(h) ==
    /\ h.pc = "retry"
    /\ Ends(h)
    /\ dying' = TRUE
    /\ UNCHANGED <<broker, nextTag, pipe, channel, channels, outlived, losses>>

-----------------------------------------------------------------------------
(* The connection and the process.                                          *)

\* 'close': what was not taken is lost.  start() is called again in 5 s and,
\* if the broker is not back, its rejection starts gracefulShutdown.
ConnectionLost ==
    /\ losses < MaxLosses
    /\ channel = "open"
    /\ losses' = losses + 1
    /\ channel' = "null"
    /\ pipe' = <<>>
    /\ copies' = Requeued
    /\ dying' \in {dying, TRUE}
    /\ UNCHANGED <<published, ahead, nextTag, channels, handlers, outlived>>

OpenChannel ==
    /\ channel' = "open"
    /\ nextTag' = 1
    /\ pipe' = <<>>

\* start() from the 'close' listener: the handlers under way go on.
Reconnect ==
    /\ channel = "null"
    /\ OpenChannel
    /\ channels' = channels + 1
    /\ outlived' = (outlived \/ handlers # {})
    /\ UNCHANGED <<broker, dying, handlers, losses>>

\* The process ends and startServer opens a new channel.
NewProcess ==
    /\ OpenChannel
    /\ channels' = 1
    /\ copies' = Requeued
    /\ handlers' = {}
    /\ dying' = FALSE
    /\ UNCHANGED <<published, ahead, outlived>>

Restart == dying /\ NewProcess /\ UNCHANGED losses

Crash ==
    /\ losses < MaxLosses
    /\ losses' = losses + 1
    /\ NewProcess

-----------------------------------------------------------------------------
\* An acknowledgement under way is for the message whose handler sent it, unless
\* such a handler sent it on a channel that was not its own.
AcksAreOwn ==
    outlived \/ \A i \in 1..Len(pipe) : pipe[i].op # "retry" =>
        \E c \in Tagged(pipe[i].tag) :
            copies[c].message = pipe[i].message /\ copies[c].retry = pipe[i].retry

\* Nothing is left in a queue, unconfirmed or waiting.
Drained == \A c \in Copies : copies[c].place \in {"none", "dead"}
=============================================================================

# Bonghwa gateway: TLA+ models

The repository holds a gateway between a *central system* (TCP, XML) and a
number of *external systems* (HTTP and socket.io, JSON).  Two Node.js services,
`central-service` and `external-service`, talk to each other over RabbitMQ and
keep what they receive and send in PostgreSQL.  Both run under docker with
`restart: always`.  Two pipelines go through them:

    disasters   central system --TCP--> disasterHandler --[disaster_publish_logs]-->
                disasterPublishWorker --RabbitMQ--> _consumeDisasterMessage
                --[disaster_transmit_logs]--> disasterTransmitWorker --socket.io--> external system
    reports     external system --HTTP--> reportHandler --[report_publish_logs]-->
                reportPublishWorker --RabbitMQ--> _consumeReportMessage
                --[report_transmit_logs]--> reportTransmitWorker --TCP--> central system

Every hop is an inbox table, an outbox table or both, and a worker that polls it.
What makes the code hard is that nothing in it is locked: workers are started by
`setInterval` and overlap, every `await` is a point where another callback runs,
rows are read, awaited on and written back by id, timers and delivery tags live
in memory, and processes restart.

## Inventory

| part | state | operations | hard because | module |
|---|---|---|---|---|
| protocol parser (`central/tcp/protocolParser.js`) | buffer, neededLength, parsingState | chunk, header, body, reset | chunk boundaries, resets in the middle of a stream | ProtocolParser |
| TCP session (`central/tcp/client.js`, `authHandler.js`, `sessionHandler.js`, `sessionManager.js`) | connection flags, five kinds of timers | connect, close, authentication, session check, disconnect | timers that outlive connections, silent peers, shutdown | TcpSession |
| disaster intake (`central/tcp/handlers/disasterHandler.js`) | tcp_receive_logs, disaster_publish_logs | handleDisasterInfo | repeated messages, a transaction and a row outside of it, lost COMMIT answers | DisasterIntake |
| disaster publication (`disasterPublishWorker.js`, publishDisaster) | disaster_publish_logs, channel | worker poll, publish, status | no confirms, outages, overlapping runs | DisasterPublish on PublishOutbox |
| disaster delivery (`external/core/services/messageBrokerService.js`) | mq_receive_logs, disaster_transmit_logs, the queues | _consumeDisasterMessage, start, 'close' | redelivery, changing subscriptions, dead lettering | DisasterDelivery on RabbitQueue |
| disaster transmission (`external/core/services/reliableTransmitService.js`, `disasterTransmitWorker.js`) | disaster_transmit_logs | worker poll, _processMessage, emit callback, timer, _processFailure, _processAck | late acknowledgements, refused counting, offline systems | DisasterTransmit |
| socket sessions (`external/socket/`) | activeSockets | addSocket, removeSocket | an await in the middle of a replacement | SocketSessions |
| report publication (`external/api/`, `reportPublishWorker.js`, publishReport) | api_receive_logs, devices, report_publish_logs, the pool | requests, their transaction, worker poll, publish, status | lost COMMIT answers, clients of the pool, a unique key over all systems | ReportPublish on PublishOutbox |
| report intake (`central/core/services/messageBrokerService.js`) | mq_receive_logs, report_transmit_logs, the queues | _consumeReportMessage, start, 'close' | delivery tags, two commands for a retry, unhandled rejections | ReportIntake on RabbitQueue |
| report transmission (`central/core/services/reliableTransmitService.js`, `reportTransmitWorker.js`, `reportTransmitLogRepository.js`) | report_transmit_logs, activeTimeouts | worker poll, processMessage, processAck, processFailure, ACK timer | overlapping runs, timer against answer, restart loses timers, sequence numbers on the wire | ReportTransmit |
| process of either service (`index.js`, start and disconnect of the broker service) | connection, channel, timers, intervals, HTTP server | startServer, gracefulShutdown, reconnection | overlapping shutdowns and starts, `this` in a callback | ServiceLifecycle |
| configuration, logging, CORS origins, CAP documents, migrations | | | no protocol; the schemas enter as constraints | |

What each part must guarantee is stated below, with the module that models it.
`PROJECT.json` lists the hazards by line.

## Modules

One module per component; an `MC` module and its `.cfg` files instantiate it for
TLC, a `_proofs` module proves about it, or about two components that share a
part.  Operators marked *Mutant* in a comment
are wrong variants of the definition that follows them: put in its place, each
makes a property fail, which shows that the property has teeth.

Two modules hold what components have in common, because the two services share
that code, copied: `RabbitQueue` (both consumers) and `PublishOutbox` (both
publishing workers).  Two more put the two that share it side by side:
`Consumption` is a process of either service with its consumer, `Publication` one
with its publishing outbox; `service` says of which service it is and never
changes.  They state the properties once for both, and the fairness.  `Outbox` is
an abstract specification, which both publishing outboxes are shown to implement.

A JavaScript function runs undisturbed up to its next `await`.  So a step of a
model is one database query, or the code between two awaits; the two are merged
where that code only issues the next query.  Faults are steps of their own:
refused queries, lost connections, crashes.  A *ghost* variable records what
happened for the sake of a property and no guard reads it.

### Outbox

The promise: a row appears, its message is handed over any number of times, it
gets a verdict, SUCCESS only after it was handed over, and it is never open
again.  A verdict may be replaced by another one, as the UPDATE by id in fact
does when runs overlap.

### PublishOutbox, DisasterPublish, ReportPublish and Publication

`status` and `retry` are columns of disaster_publish_logs or report_publish_logs;
`jobs` are calls of `_processOutboxMessage` with the count as it was read, those
that p-limit holds back included.  `channel` is the module's channel, `buffer`
what amqplib has taken and not yet sent, `delivered` what the broker has.  The
broker confirms nothing, so SUCCESS says *handed*, not *delivered*.

DisasterPublish adds the limit `>=`, ReportPublish the limit `>` and a refused
FAILED that is charged like a failure.  ReportPublish adds the API as well:
`request` is how far the request of a row is (authentication, a client of the
pool, the writes, COMMIT or ROLLBACK), `received` is api_receive_logs and
`devices` the report whose values a device has.  A transaction becomes visible
at its COMMIT and is written there; its answer may be lost.

* *ImplementsOutbox*: the worker keeps the promise of Outbox.
* *GivesUpExhausted*: what is given up has failed MAX_RETRIES times; reports one
  time more.
* *ChargesBounded* (disasters): overlapping runs charge a bounded number too many.
  For reports a refused FAILED goes on counting, so there is no such bound and
  `MaxCount` caps it.
* *TakenWhole* (reports): log, devices and row of a report are there together.
* *EventuallyFinal*, *EventuallyAnswered*: rows are settled and requests answered.

### RabbitQueue, ReportIntake, DisasterDelivery and Consumption

`copies` are the messages in the broker with their queue, retry count and
delivery tag, `ahead` their order, `pipe` the commands on their way to the
broker, which are lost with the socket.  A handler keeps its tag and uses the
channel of the module, whichever that is.  `dying` is an unhandled rejection on
its way to `gracefulShutdown`.  The handlers differ: that of the central service
writes its outbox row on the pool, outside of its transaction; that of the
external service writes one row per subscriber in the transaction, and reads the
subscribers on the pool.  Without a channel the first throws, and the second is
caught.

* *NoMessageLost*: a message is in the outbox, in the broker, or rejected.  A
  handler that goes on after start() opened a new channel (ghost `outlived`) is
  the only way to lose one.
* *AcksAreOwn*: an acknowledgement on its way is for the message of its handler.
* *SuccessHasRow*, *FanOutIsWhole*: the verdict of the inbox and the outbox rows
  belong together.
* *EventuallyEmpty*: the queues run empty.

### ReportTransmit

`status`, `retry`, `seq` are columns of report_transmit_logs, `due` the rows that
`findUnprocessedMessages` takes although they are SENT, `timers` the keys of
`activeTimeouts`.  `jobs` are processMessage calls with the row *as the worker
read it*, `lookups` and `flows` the halves of processAck and processFailure,
`toCentral` and `answers` the two directions of the TCP connection.

* *SuccessMeansAccepted*: a row is SUCCESS only if the central system took a report
  with its outbound_id, in an attempt the row had made.  Rows may share an
  outbound_id, as all results for one disaster do; which of them was taken the
  answer does not tell.  *SuccessIsItsOwn*, which says that it was this very row, is
  what a comment claims and what the code does not keep (see below).
* *OvershootBounded*: overlapping callbacks charge a bounded number too many.
* *GivesUpOnlyWhenExhausted*, *FinalStaysFinal*: why a row is given up, and that
  once nothing in flight can overwrite its verdict nothing ever will.
* *EventuallyFinal*: every report is settled in the end.

### DisasterTransmit

`attempts` are _processMessage calls and the closures they leave behind, with the
count they read, whether their socket is alive and the answer on its way; an
attempt whose timer went off stays, because its callback can still be called.
`session` is what `getSocketBySystemId` returns.  Properties as above, with
*SuccessMeansAcknowledged* and *FailedMeansExhausted*.

### TcpSession

Time is explicit, in units of 5 s: a timer is the set of the ticks it has left,
`Tick` waits for timers that are due.  The constants keep the real proportions
(10 s response, 30 s session check, 60 s reconnect).  A chunk is what the session
makes of it: its authentication responses in their order, and whether it brings a
session check response.  `responses` are those that `handleAuthResponse` has
still to act on, since its `await` lets the other messages of the chunk go first.

* *NoStaleTimer*: the authentication timer is not stopped by handleClose; it is
  gone before it could destroy the next connection, because 10 s < 60 s.
* *OneWayBack*: never two of attempt, connection, reconnect timer exist while the
  process runs, and exactly one as long as `net.connect` has not thrown.
  *AlwaysAWayBack*, that there is one even then, is what the comment in its catch
  block intends and what the code does not keep (see below).
* *SilenceBounded*: a silent peer is given up within 40 s, whatever it said before.
* *EventuallyInSession*.

### ProtocolParser

The stream is a sequence of cells, a cell being a field of the header or a piece
of a body; a header keeps the two fields the parser looks at, and a body may look
like a header.  `frames` is what was sent, `wire` the cells of it, `ends` where in
them each frame ends, `got` how many of them came out of the socket; chunks end anywhere, or (`aligned`) where messages end.  `_transform`
does not wait, so its loop runs before the next chunk.

* *CuttingDoesNotShow*: what is emitted are the messages that arrived whole, in
  order, up to the first refused header.
* *ErrorsAreLocal*: a refused header costs the messages of its own chunk.  It is
  stated for chunks that end where messages end: anywhere else the reset lands in
  the middle of a message, and the parser may stay out of step until the next
  connection.
* *BufferBounded*: what waits in the buffer is less than the largest body.

### SocketSessions

`activeSockets` and the addSocket calls that await a log row.  *RegistryMatchesSockets*:
the map names the one live socket of a system, unless during the await of a
replacement yet another socket of that system came, or the waiting one left (the
ghost `disturbed`); in exactly those cases sockets of one system stay alive side
by side, or a dead one stays registered.  *RegistrationsAreKept*: a late
disconnect never removes the newer socket.

### DisasterIntake

`handlers` are calls of handleDisasterInfo.  The inbox row is committed on its
own; the outbox row and the verdict SUCCESS become visible together, at COMMIT,
and a row that another transaction has inserted makes an insert wait.
`CommitUnheard` is a COMMIT whose answer is lost; the INSERT may be unheard too.
*AcceptedIsStored*, *InboxTellsOutcome*, *OneCallPerMessage*.

### ServiceLifecycle

One life of a process of either service (`service`).  A call of start() is named
by the connection it opens; `listeners` are its 'close' listeners, `timers` what
the timers for a new connection will call, `unbound` the calls whose `this` is not
the module (the catch of the external service calls `start()` as it is).  `calls`
are the calls of gracefulShutdown, each with what it awaits.

* *OneConsumer*: until a shutdown there is one connection and one consumer at
  most, over starts that fail half-way and timers that two listeners set.
* *EventuallyConsumes*: and the service gets back to consuming.
* *EventuallyExits*: a shutdown ends in process.exit, unless clients of the HTTP
  server stay.

## Runs

| run | instance | states | shows |
|---|---|---|---|
| ReportTransmit_outbox | 2 rows under one outbound_id (the second late), 1 run, 2 callbacks, 1 retry, 1 message on the wire | 1.9M | all properties |
| ReportTransmit_sharedid | 2 rows under one outbound_id, 1 callback, no retry | violation | SuccessIsItsOwn fails |
| DisasterTransmit_outbox | 1 row, 2 runs, 1 retry | 130k | all properties |
| TcpSession_session | timers 2, 6, 12; chunks of one or two messages | 63k | all properties |
| TcpSession_stranded | the same | violation | AlwaysAWayBack fails |
| ProtocolParser_stream | 3 messages, bodies of up to 2 cells, any cutting | 722k | all properties |
| SocketSessions_sessions | 5 sockets, 2 systems | 6k | all properties |
| DisasterIntake_intake | 3 messages (1 invalid), 2 identifiers, 2 calls | 1.7M | all properties |
| Publication_outbox | either service; 2 rows, 2 runs, 1 retry, 1 device of two systems, a pool of 2 | 963k | all properties |
| Consumption_queue | either service; 1 message, 2 systems (1 changes its subscription), 1 retry, 1 loss | 1.2M | all properties |
| DisasterDelivery_deadletter | DisasterDelivery alone, 1 disaster, the same | violation | DeadLettersAreKept fails |
| ServiceLifecycle_lifecycle | both services, 3 starts, 3 shutdowns, 1 client | 164k | all properties |

*Bounds.*  `Runs`, `Tasks` and `Calls` bound what overlaps; two are enough for
every race of a pair of callbacks, and a third adds only a larger overshoot.
ReportTransmit takes one run with two callbacks (two of each exceed what can be
checked with liveness): two runs are checked in DisasterTransmit and the two
publishing outboxes, whose workers are the same code, and the theorems of
ReportTransmit hold for any number.  Its two rows share an outbound_id, so that an
answer to one meets the other; `LateRows` has the second one written when faults
have stopped, and `MaxWire` = 1 lets one message or answer be on the TCP connection
at a time, while more wait, since the full product is out of reach with liveness.
Again the theorems have neither bound.  One row is enough in DisasterTransmit,
where rows meet only in the limit of p-limit.  `MaxLosses` bounds the faults of the consumers,
each of which may come at any step; `MaxCopies` = 4 bounds the copies the broker
holds.  One retry distinguishes the first, the last and no further try.  Retries
are counters that the code itself bounds, but for `MaxCount`.  `MaxStarts` = 3 is
a first start, one that fails and one by its timer; `MaxCalls` = 3 are the three
kinds of callers of gracefulShutdown.  With a pool of two the
transactions of two requests interleave, and the second to commit finds the device
taken; the one that times out without a client is the step `NoClient`, which before
`calm` may happen at any time.  The theorems hold for pools of any size.

Deadlock is not checked where the system really comes to rest: when every row is
settled (Publication), every message is gone (Consumption,
DisasterDelivery), the last message was sent (ProtocolParser) or the process has ended
(ServiceLifecycle).

*Symmetry* is used over calls and sockets, and only where no liveness is checked.

*Fairness.*  `FairSpec` (`FairPublicationSpec`, `FairConsumptionSpec`) assumes that the event loop runs what is ready, that the
database answers or pg gives up, that intervals keep firing and that the process
comes back.  `calm` stands for the time after the last fault: from then on
queries are not refused and return before the next timer, which is what the
intervals (5 s and 10 s against milliseconds) amount to.  It is only assumed that
this time comes, not when.  The peers are asked for nothing more than the
property needs: in ReportTransmit the central system need not answer, in the
publishing outboxes the broker need not return, in DisasterTransmit the client
need not acknowledge, in ServiceLifecycle clients need not leave.  In TcpSession
the central system must, once calm, answer what it is asked, and in the consumers
the broker must serve its queues.  In external-service nothing makes a shutdown
end, so EventuallyEmpty excepts a process of it that is `dying`; in central-service,
without an HTTP server, the shutdown ends (EventuallyExits of ServiceLifecycle).

## Proofs

`tlapm` proves the theorems of the eight `_proofs` modules for all values of the
constants, under the named assumptions of the component (`ConstantsAssumption`,
`OutboxAssumption`, `RequestsAssumption`, `QueueAssumption`, `ParserAssumption`,
`SystemsAssumption`, `LifecycleAssumption`:
sets are what their names say, bounds are natural numbers, there is at least one
message, run, connection or shutdown where one is needed, a response times out
before the session check and the reconnect, a header that is not refused tells
the length of its body) and nothing else.

| module | components | inductive invariant |
|---|---|---|
| ReportTransmit_proofs | ReportTransmit | `AcceptanceTrail`, `OneFlowPerTask`, `ChargesCounted` |
| DisasterTransmit_proofs | DisasterTransmit | `AcknowledgementTrail` |
| DisasterIntake_proofs | DisasterIntake | `IInv` |
| PublishOutbox_proofs | DisasterPublish, ReportPublish, Publication | `DisasterIInv`, `ReportIInv` |
| RabbitQueue_proofs | ReportIntake, DisasterDelivery, Consumption | `IntakeInv`, `DeliveryInv` |
| SocketSessions_proofs | SocketSessions | `IInv` |
| TcpClient_proofs | TcpSession, ProtocolParser | `IInv`, `ParserIInv` |
| ServiceLifecycle_proofs | ServiceLifecycle | `IInv` |

Every safety invariant and every action property that a passing run checks is
stated by a theorem, and so is the type invariant of every component, by one lemma
per action or group of actions.  TLC has found the invariants to hold in all states
of the instances below before they were proved.

* *SuccessIsAccepted*, *SuccessIsAcknowledged* (the transmissions): SUCCESS is not
  inductive.  The strengthening (`AcceptanceTrail`, `AcknowledgementTrail`)
  follows the acceptance from the wire, or the attempt, through the lookup to the
  callback that writes the status.  On the wire it is known by outbound_id and
  sequence number, the only things the answer carries, so no row needs an id of its own.
* *GivingUpHasACause*, *FailedIsExhausted*: the count a callback read may be old;
  the strengthening says that it is never larger than the column, because no
  statement lowers the column.
* *OvershootIsBounded*: a callback holds its task for as long as it may charge
  (`OneFlowPerTask`), and `ChargesCounted` adds to the column the charges that
  callbacks have decided and not yet written.
* *VerdictsAreKept*: `WritersOfTheTable` lists the steps that write a row, none of
  which is enabled for a settled one, and `SettledStays` shows that no step
  starts a call that would enable one.
* *SequenceCountsRetries*: one statement moves both columns.
* *AcceptedStays*, *OneOutcome*, *OneCall* (disaster intake): the invariant `IInv`
  says what a call may rely on between its queries.  From its INSERT to its
  verdict the inbox row is PENDING and nobody else's (the unique index); from the
  outbox INSERT to COMMIT its identifier is taken.  `StepIInv` shows once that
  what one call does leaves the others what they hold.
* *DisastersImplement*, *ReportsImplement* (the publications): every step of the
  worker, the API, the broker and the process is a step of Outbox or a stutter.
  The invariant says that jobs are for rows that exist, and that a job about to
  write SUCCESS has handed its message over.  *DisastersHanded* follows.
* *DisastersFailExhausted*, *ReportsFailExhausted*: the count of a job is one the
  row had, and a job that gives up has read one at the limit.
* *RetryBound*: `Chargers(r)` are the runs whose job for r was read below the
  limit.  At the limit nobody joins them, and each leaves with one charge:
  retry[r] + |Chargers(r)| stays below MaxRetries + |Runs|.
* *NoneGivenUpEarly*, *ChargesStayBounded*, *AllTakenWhole*, *BothImplement*
  (Publication) and *NoMessageIsLost*, *AllAcksAreOwn*, *VerdictsHaveRows*
  (Consumption): a behaviour of the process is one of the component its service has
  (`OneOfTheTwo`, a temporal lemma on the constancy of `service`), in Consumption with
  the tables of the other empty; what the theorems of the components say then holds
  of it.
* *WholeReports* (report publication): a request that has not committed has no row,
  so its COMMIT creates all of it.
* *RegistryIsRight*, *KeepsRegistrations* (socket sessions): in an undisturbed system
  the call that waits to replace a socket is alone, its own socket is up, and the
  socket it read is still the registered one or none is.  `SocketDownIInv` covers
  every way in which a socket goes.
* *AcksFindTheirOwn*, *DisasterAcksFindTheirOwn* (the consumers; the lemmas about the
  queue are shared): as long as no handler outlived its channel, tags are below
  `nextTag` (`TagsAreKnown`) and differ between copies, handlers and confirmations
  under way (`TagsDiffer`); without a channel nothing is delivered
  (`ClosedIsEmpty`); each handler and each confirmation has its copy
  (`TagsHaveCopies`).
* *NoReportIsLost*, *NoDisasterIsLost*: a message that was published and has neither
  its rows nor a nack that gave it up has a copy that `Stays`: an acknowledgement
  under way that would remove it has the retry before it in the pipe.
  *RowsBeforeVerdicts* rests on the fact that a handler past its INSERT has its
  row, which no rollback removes; *WholeFanOut* on the one that rows and verdict
  become visible at the same COMMIT, with the subscribers that were read before it.
* *TimersStayWithTheirConnection* (TCP session): a stale authentication timer is due
  before every timer that reconnects (`StaleInv`), because it was started no later
  than the connection was lost and 10 s < 60 s; so no connection is ever opened
  while one is there.
* *OneWay*: an attempt, a connection and each reconnect timer count as ways back
  (`WaysInv`): there is one while the process runs, at most one while it shuts
  down, and none after a throw, as `client.js:83` has it.  That the flags agree with the socket (`FlagsInv`)
  makes the three exclude each other.
* *SilenceEnds*: on an open connection there is an authentication timer, a response
  timer or a session check (`SessionInv`), and the ticks it has left added to the
  silence stay within the bound (`SilenceInv`).
* *EveryCutting*, *BufferStaysSmall* (protocol parser): the buffer is a window on the
  stream (`Window`), the stream is its frames one after the other (`Layout`), and
  the parser stands at the beginning of a frame or of its body (`At`), as many
  frames on as it has emitted bodies (`InStep`).  After a refusal what remains is
  that the frames before the first bad one were emitted (`FirstError`).
* *ErrorsStayLocal*: the chunk that is being parsed ends where a frame ends, and what
  is expected is what was emitted and the messages of the chunk up to its first bad
  header (`Realigned`).  A refusal drops the rest of the chunk, which is where the
  expectation ended (`FirstRefused`).
* *OneConsumerAtMost* (process lifecycle): until a shutdown a process is in one of
  four phases (`OnePhase`): a start is under way, the service consumes, it waits
  for the timers of one closed connection, or a rejection is on its way to
  gracefulShutdown.  In each of them what is connected, what listens and what is
  set is known, so that no second start can begin.

Only model-checked: liveness under fairness, which is out of the prover's reach
(EventuallyFinal, EventuallyAnswered, EventuallyEmpty, EventuallyInSession,
EventuallyConsumes, EventuallyExits), and the counterexamples of the three runs that
end in one.

## Where code and comments differ

*Dead letters.*  The run `DisasterDelivery_deadletter` ends in a counterexample.
start() of the external service declares DISASTER_DLX as a direct exchange and
binds its queue with `#` (`external/core/services/messageBrokerService.js:74`), a key no disaster has; so
a disaster whose retries are used up is dropped, where the comment at line 70 says
it settles.

*Shared outbound_id.*  So does `ReportTransmit_sharedid`.  Every result for one
disaster gets `<identifier>_RPT_1` as its outbound_id
(`central/core/services/messageBrokerService.js:175`), which
`central/core/services/capService.js:212` calls the unique identifier of the message.
processAck finds the row of an answer by outbound_id and sequence alone
(`reliableTransmitService.js:260`, LIMIT 1), so the answer to one result makes another
one SUCCESS, which then is never sent.

*Stranded client.*  So does `TcpSession_stranded`.  When `net.connect` throws,
`central/tcp/client.js:83` resets isConnecting before it calls handleClose, which then
finds nothing to close and returns.  No reconnect is scheduled, although the comment
at lines 81-82 says that the call is made to bring one about.

The models contain more behaviours that a comment does not lead to expect.  They
have no run of their own; the properties are stated around them:

* *Stale delivery tag.*  After a reconnect a handler still under way acknowledges
  its old tag on the new channel (`central/core/services/messageBrokerService.js:193`):
  the ghost `outlived`.
* *Closing the HTTP server.*  `external/index.js:97` says that it is enough to close
  the http server, since socket.io is attached to it; `httpServer.close` waits until
  every client has gone, so a shutdown hangs while one stays connected
  (EventuallyExits excepts `clients > 0`).
* *A failed disaster is a duplicate.*  The inbox row is committed before the
  transaction (`disasterHandler.js:85`), so a retransmission gets code 300.
* *No confirms.*  A message can be lost with the connection while its row says
  SUCCESS (`disasterPublishWorker.js:61`): `buffer` of PublishOutbox.
* processFailure checks the state and then writes by id, so the timer and a NACK
  of one attempt are both charged; processAck may write SUCCESS over a FAILED
  written meanwhile; a failed UPDATE to SUCCESS is charged like a failed
  publication.
* A SENT row left by a restart goes out under its old sequence number
  (`reportTransmitWorker.js:22` says otherwise).
* The row of `reportTransmitLogRepository.create` survives a ROLLBACK
  (`messageBrokerService.js:181`).
* Two systems cannot have a device of the same device_id: the report of the second
  is refused each time (`initial-schema.js:59`), the action `Conflict`.
* A reconnect timer that is pending when disconnect() is called still connects.
* A start() that fails while a timer is pending ends in gracefulShutdown: its
  rejection is handled by nobody (`StartFails`).

## Not modelled

* How the central system reacts to reports that come before authentication:
  isConnected is TRUE as soon as TCP is connected (`sessionManager.js:43`), and
  reportTransmitWorker sends by it.  TcpSession and ReportTransmit are not
  composed; ReportTransmit lets the central system answer anything or nothing.
* The composition of whole pipelines.  Each hop is checked with the neighbour as
  its environment, which may publish again, answer late or not at all.
* The authentication middleware of socket.io (`external/socket/auth.js`), API keys
  and the validators: lookups, which appear as a request or a socket that is or is
  not there.
* CAP documents, XML and the encoding of outgoing messages: conversions of data
  without state; which CAP fields make a message invalid is a constant set.
* The exception and rejection handlers of winston (`core/utils/logger.js:84-106`,
  exitOnError left on): they, too, end the process, some seconds after an uncaught
  exception or an unhandled rejection.  ServiceLifecycle only has gracefulShutdown, so
  a process may hang in the model longer than it would, and no property relies on it
  ending sooner.
* The set of allowed CORS origins, configuration, logging: nothing that is kept
  depends on them.  Migrations enter as the constraints of the tables.

What would come next: TcpSession composed with ReportTransmit, a refinement of a
common specification of a consumer by ReportIntake and DisasterDelivery, as Outbox
is for the two publications, and a specification of a whole pipeline (at least
once, or visibly given up) above Outbox and RabbitQueue.

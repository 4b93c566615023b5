---------------------------- MODULE ServiceLifecycle ----------------------------
(***************************************************************************)
(* One life of a service's process: startServer and gracefulShutdown of    *)
(* index.js around start() and disconnect() of messageBrokerService.  The  *)
(* two services run the same code but for what the shutdown waits for (the *)
(* clients of the HTTP server, the TCP connection), and for when start()   *)
(* listens to the 'close' of its connection.                               *)
(*                                                                         *)
(* Signals, uncaught exceptions and unhandled rejections all call          *)
(* gracefulShutdown, so calls of it overlap; calls of start() overlap with *)
(* them.  A call of start() is named by the connection it opens.           *)
(***************************************************************************)
EXTENDS Naturals, FiniteSets

CONSTANTS
    Services,      (* which of "central" and "external" to look at           *)
    MaxStarts,     (* bound: calls of start() in a process                   *)
    MaxCalls,      (* bound: calls of gracefulShutdown                       *)
    MaxClients     (* bound: connections to the HTTP server at a time        *)

ASSUME LifecycleAssumption ==
    /\ Services \subseteq {"central", "external"}
    /\ MaxStarts \in Nat \ {0} /\ MaxCalls \in Nat \ {0} /\ MaxClients \in Nat

Starts == 1..MaxStarts
None == 0

\* What the timers for a new connection call: this.start() on the module, start()
\* as it is, or this.start() where this is not the module.
Callbacks == {"this.start", "start", "undefined"}

VARIABLES
    service,              \* whose process this is
    startup,              \* what startServer awaits
    starts,               \* calls of start() under way and what each awaits
    called,               \* how many there were
    opened,               \* connections to the broker that are open
    connection, channel,  \* the module's variables, by connection
    consumers,            \* <<connection, call of start()>>: the consumers
    listeners,            \* <<connection, call of start()>>: the 'close' listeners
    unbound,              \* calls of start() that were not made on the module
    timers,               \* pending timers by what they will call
    workers,              \* are the intervals of the workers set?
    listening, clients,   \* the HTTP server and the connections it has
    calls,                \* what each call of gracefulShutdown awaits
    ending,               \* pool.end() was called
    exit                  \* process.exit

amqp == <<starts, called, opened, connection, channel, consumers, listeners, unbound>>
main == <<startup, workers, listening, clients>>
vars == <<service, amqp, timers, main, calls, ending, exit>>

TypeOK ==
    /\ service \in Services
    /\ startup \in {"broker", "workers", "listen", "done"}
    /\ starts \subseteq [id : Starts, pc : {"connect", "channel", "setup"}]
    /\ called \in Starts
    /\ opened \subseteq Starts
    /\ {connection, channel} \subseteq Starts \cup {None}
    /\ consumers \subseteq Starts \X Starts /\ listeners \subseteq Starts \X Starts
    /\ unbound \subseteq Starts
    /\ timers \in [Callbacks -> Nat]
    /\ workers \in BOOLEAN /\ listening \in BOOLEAN
    /\ clients \in 0..MaxClients
    /\ calls \in [1..MaxCalls -> {"none", "peer", "channel", "connection", "pool", "draining"}]
    /\ ending \in BOOLEAN
    /\ exit \in {"no", "0", "1"}

Init ==
    /\ service \in Services
    /\ startup = "broker"
    /\ starts = {[id |-> 1, pc |-> "connect"]} /\ called = 1 /\ unbound = {}
    /\ opened = {} /\ connection = None /\ channel = None
    /\ consumers = {} /\ listeners = {}
    /\ timers = [t \in Callbacks |-> 0]
    /\ workers = FALSE /\ listening = FALSE /\ clients = 0
    /\ calls = [k \in 1..MaxCalls |-> "none"]
    /\ ending = FALSE /\ exit = "no"

-----------------------------------------------------------------------------
(* gracefulShutdown, up to its first await.                                 *)

Stopping == \E k \in 1..MaxCalls : calls[k] # "none"

\* httpServer.close is done at once when nothing listens and nobody is
\* connected; the TCP client's end() takes a while.
FirstWait == IF service = "central" \/ listening \/ clients > 0 THEN "peer" ELSE "channel"

\* No room for another call: the bound.
GracefulShutdown ==
    /\ IF \E k \in 1..MaxCalls : calls[k] = "none"
       THEN LET k == CHOOSE k \in 1..MaxCalls :
                         calls[k] = "none" /\ \A i \in 1..k - 1 : calls[i] # "none"
            IN  calls' = [calls EXCEPT ![k] = FirstWait]
       ELSE UNCHANGED calls
    /\ workers' = FALSE
    /\ listening' = FALSE

Signal ==
    /\ GracefulShutdown
    /\ UNCHANGED <<service, amqp, timers, startup, clients, ending, exit>>

-----------------------------------------------------------------------------
(* start().                                                                 *)

Own(s) == starts \ {s}
GoesTo(s, pc) == starts' = Own(s) \cup {[s EXCEPT !.pc = pc]}

\* Where the 'close' of connection on is listened to: its listener clears the
\* module's variables and sets a timer for this.start().
Listen(id, on) == listeners' = listeners \cup {<<on, id>>}

\* The timer of the catch calls this.start(), or in the external service start(),
\* and so the this of that call is not the module.
CatchTimer == IF service = "external" THEN "start" ELSE "this.start"

Connected(s) ==
    /\ s.pc = "connect"
    /\ opened' = opened \cup {s.id}
    /\ connection' = s.id
    /\ GoesTo(s, "channel")
    /\ UNCHANGED <<service, called, channel, consumers, listeners, unbound, timers, main,
                   calls, ending, exit>>

ChannelOpened(s) ==
    /\ s.pc = "channel"
    /\ s.id \in opened
    /\ channel' = s.id
    /\ IF service = "external" THEN Listen(s.id, s.id) ELSE UNCHANGED listeners
    /\ GoesTo(s, "setup")
    /\ UNCHANGED <<service, called, opened, connection, consumers, unbound, timers, main,
                   calls, ending, exit>>

\* The asserts and consume are done on the module's channel; then the central
\* service listens to the module's connection.
SetUp(s) ==
    /\ s.pc = "setup"
    /\ channel \in opened
    /\ consumers' = consumers \cup {<<channel, s.id>>}
    /\ IF service = "central" /\ connection # None
       THEN Listen(s.id, connection)
       ELSE UNCHANGED listeners
    /\ starts' = Own(s)
    /\ startup' = IF s.id = 1 THEN "workers" ELSE startup
    /\ UNCHANGED <<service, called, opened, connection, channel, unbound, timers, workers,
                   listening, clients, calls, ending, exit>>

\* Mutant: the catch of start() keeps the error to itself.
FailsQuietly(s) ==
    /\ starts' = Own(s)
    /\ timers' = [timers EXCEPT ![CatchTimer] = @ + 1]
    /\ UNCHANGED <<exit, calls, workers, listening>>

\* The catch of start() throws the error on: startServer exits, and of a call
\* made by a timer it is an unhandled rejection.
Fails(s) ==
    /\ starts' = Own(s)
    /\ timers' = [timers EXCEPT ![CatchTimer] = @ + 1]
    /\ IF s.id = 1
       THEN exit' = "1" /\ UNCHANGED <<calls, workers, listening>>
       ELSE GracefulShutdown /\ UNCHANGED exit

\* The connection or the channel is gone: what awaits it is rejected at once.
Rejected(s) ==
    \/ s.pc = "channel" /\ s.id \notin opened
    \/ s.pc = "setup" /\ channel \notin opened

\* That, a broker that refuses, or disconnect() while it is under way.
StartFails(s) ==
    /\ s.pc = "connect" \/ Rejected(s) \/ Stopping
    /\ Fails(s)
    /\ UNCHANGED <<service, called, opened, connection, channel, consumers, listeners, unbound,
                   startup, clients, ending>>

\* 5 s later.
TimerFires(t) ==
    /\ timers[t] > 0
    /\ called < MaxStarts
    /\ \A s \in starts : ~Rejected(s)
    /\ timers' = [timers EXCEPT ![t] = @ - 1]
    /\ called' = called + 1
    /\ starts' = starts \cup {[id |-> called', pc |-> "connect"]}
    /\ unbound' = IF t = "start" THEN unbound \cup {called'} ELSE unbound
    /\ UNCHANGED <<service, opened, connection, channel, consumers, listeners, main, calls,
                   ending, exit>>

\* this.start is not a function: an uncaught exception.
UnboundTimerFires ==
    /\ timers["undefined"] > 0
    /\ timers' = [timers EXCEPT !["undefined"] = @ - 1]
    /\ GracefulShutdown
    /\ UNCHANGED <<service, amqp, startup, clients, ending, exit>>

-----------------------------------------------------------------------------
(* The connection to the broker closes.                                     *)

ListenersOf(c) == {l[2] : l \in {l \in listeners : l[1] = c}}

\* Mutant: the connection is forgotten and none is opened in its place.
ClosesForGood(c) ==
    /\ opened' = opened \ {c}
    /\ consumers' = {pair \in consumers : pair[1] # c}
    /\ IF ListenersOf(c) = {} THEN UNCHANGED <<connection, channel>>
       ELSE connection' = None /\ channel' = None
    /\ listeners' = {l \in listeners : l[1] # c}
    /\ UNCHANGED timers

\* 'close', which amqplib emits also when the service closed it itself.
Closes(c) ==
    /\ opened' = opened \ {c}
    /\ consumers' = {pair \in consumers : pair[1] # c}
    /\ IF ListenersOf(c) = {} THEN UNCHANGED <<connection, channel>>
       ELSE connection' = None /\ channel' = None
    /\ listeners' = {l \in listeners : l[1] # c}
    /\ timers' = [timers EXCEPT
           !["this.start"] = @ + Cardinality(ListenersOf(c) \ unbound),
           !["undefined"] = @ + Cardinality(ListenersOf(c) \cap unbound)]

\* As long as nobody listens to its 'error' that may be an uncaught exception.
ConnectionLost(c) ==
    /\ c \in opened
    /\ Closes(c)
    /\ \/ UNCHANGED <<calls, workers, listening>>
       \/ ListenersOf(c) = {} /\ GracefulShutdown
    /\ UNCHANGED <<service, starts, called, unbound, startup, clients, ending, exit>>

-----------------------------------------------------------------------------
(* startServer and the clients.                                             *)

\* The workers' start(), which does not know of a shutdown.
WorkersStart ==
    /\ startup = "workers"
    /\ workers' = TRUE
    /\ startup' = IF service = "external" THEN "listen" ELSE "done"
    /\ UNCHANGED <<service, amqp, timers, listening, clients, calls, ending, exit>>

ServerListens ==
    /\ startup = "listen"
    /\ listening' = TRUE
    /\ startup' = "done"
    /\ UNCHANGED <<service, amqp, timers, workers, clients, calls, ending, exit>>

ClientsComeAndGo ==
    /\ \/ listening /\ clients < MaxClients /\ clients' = clients + 1
       \/ clients > 0 /\ clients' = clients - 1
    /\ UNCHANGED <<service, amqp, timers, startup, workers, listening, calls, ending, exit>>

-----------------------------------------------------------------------------
(* gracefulShutdown after its awaits.                                       *)

Awaits(k, what) == calls' = [calls EXCEPT ![k] = what]

\* The HTTP server has no connection left; the TCP client's end() comes back by
\* itself (TcpSession).
PeerClosed(k) ==
    /\ calls[k] = "peer"
    /\ service = "external" => clients = 0
    /\ Awaits(k, "channel")
    /\ UNCHANGED <<service, amqp, timers, main, ending, exit>>

\* channel.close(); the catch of disconnect() goes on with the pool.
ChannelClosed(k) ==
    /\ calls[k] = "channel"
    /\ \/ /\ channel = None \/ channel \in opened
          /\ consumers' = {pair \in consumers : pair[1] # channel}
          /\ Awaits(k, "connection")
       \/ /\ channel # None
          /\ Awaits(k, "pool")
          /\ UNCHANGED consumers
    /\ UNCHANGED <<service, starts, called, opened, connection, channel, listeners, unbound,
                   timers, main, ending, exit>>

ConnectionClosed(k) ==
    /\ calls[k] = "connection"
    /\ IF connection \in opened THEN Closes(connection)
       ELSE UNCHANGED <<opened, connection, channel, consumers, listeners, timers>>
    /\ Awaits(k, "pool")
    /\ UNCHANGED <<service, starts, called, unbound, main, ending, exit>>

\* pool.end() waits for the clients that are checked out, and refuses a second
\* call.
PoolEnds(k) ==
    /\ calls[k] = "pool"
    /\ \/ /\ ~ending
          /\ ending' = TRUE
          /\ Awaits(k, "draining")
          /\ UNCHANGED exit
       \/ /\ ending
          /\ exit' = "1"
          /\ UNCHANGED <<calls, ending>>
    /\ UNCHANGED <<service, amqp, timers, main>>

\* Mutant: the process is left to end by itself, when it has nothing more to do.
LeftToEnd(k) ==
    /\ calls[k] = "draining"
    /\ opened = {} /\ starts = {} /\ \A t \in DOMAIN timers : timers[t] = 0
    /\ exit' = "0"
    /\ UNCHANGED <<service, amqp, timers, main, calls, ending>>

PoolDrained(k) ==
    /\ calls[k] = "draining"
    /\ exit' = "0"
    /\ UNCHANGED <<service, amqp, timers, main, calls, ending>>

-----------------------------------------------------------------------------
StartStep(s) == Connected(s) \/ ChannelOpened(s) \/ SetUp(s) \/ StartFails(s)

ShutdownStep(k) ==
    PeerClosed(k) \/ ChannelClosed(k) \/ ConnectionClosed(k) \/ PoolEnds(k) \/ PoolDrained(k)

TimerStep == UnboundTimerFires \/ \E t \in {"this.start", "start"} : TimerFires(t)

Step ==
    \/ Signal
    \/ \E s \in starts : StartStep(s)
    \/ TimerStep
    \/ \E c \in opened : ConnectionLost(c)
    \/ WorkersStart \/ ServerListens \/ ClientsComeAndGo
    \/ \E k \in 1..MaxCalls : ShutdownStep(k)

Next == exit = "no" /\ Step

Spec == Init /\ [][Next]_vars

\* Timers fire, the broker answers or the socket to it fails, queries end and
\* with them the pool.  Clients need not leave.
Fairness ==
    /\ WF_vars(exit = "no" /\ \E s \in starts : StartStep(s))
    /\ WF_vars(exit = "no" /\ TimerStep)
    /\ WF_vars(exit = "no" /\ (WorkersStart \/ ServerListens))
    /\ \A k \in 1..MaxCalls : WF_vars(exit = "no" /\ ShutdownStep(k))

FairSpec == Spec /\ Fairness
-----------------------------------------------------------------------------
(* Properties.                                                              *)

\* Until a shutdown begins the service has one connection to the broker and one
\* consumer at most, over lost connections, starts that fail half-way and the
\* timers that both of them set (start, its catch and its 'close' listener).
OneConsumer ==
    ~Stopping /\ exit = "no" => Cardinality(opened) <= 1 /\ Cardinality(consumers) <= 1

\* Until then it also gets back to consuming, whatever connections it loses.
EventuallyConsumes ==
    <>[](consumers # {} \/ Stopping \/ exit # "no" \/ called = MaxStarts)

\* A shutdown ends in process.exit, however many calls of gracefulShutdown run
\* into each other and whatever start() does meanwhile; unless clients of the
\* HTTP server stay connected, for which httpServer.close waits.
EventuallyExits == <>[](Stopping => exit # "no" \/ clients > 0)
=============================================================================

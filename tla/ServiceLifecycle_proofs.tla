------------------------- MODULE ServiceLifecycle_proofs -------------------------
(***************************************************************************)
(* Theorems about ServiceLifecycle, for any number of calls of start(),    *)
(* of gracefulShutdown and of clients.                                     *)
(*                                                                         *)
(* Until a shutdown begins the process is in one of four phases, and one   *)
(* thing only can bring it to the next: a call of start() is under way, a  *)
(* connection is consumed from, a timer is pending, or, in the external    *)
(* service, a call has lost its connection after its listener was set.     *)
(* Then a timer is pending and the call fails: were it to go on, two calls *)
(* would run side by side.                                                 *)
(***************************************************************************)
EXTENDS ServiceLifecycle, TLAPS, FiniteSetTheorems

NoTimer == \A t \in Callbacks : timers[t] = 0

\* 'close' was heard: one timer for this.start().
OneTimer == timers["this.start"] = 1 /\ \A t \in Callbacks \ {"this.start"} : timers[t] = 0

\* A call of start(), up to its rejection should the connection be lost.
StartingPhase ==
    \E s \in starts :
        /\ starts = {s} /\ NoTimer
        /\ consumers = {}
        /\ s.pc = "connect" => opened = {}
        /\ s.pc \in {"channel", "setup"} => opened \subseteq {s.id} /\ connection = s.id
        /\ s.pc = "setup" => channel = s.id
        /\ listeners = IF s.pc = "setup" /\ service = "external" THEN {<<s.id, s.id>>} ELSE {}
        /\ s.pc = "setup" /\ service = "external" => opened = {s.id}

ConsumingPhase ==
    \E c \in Starts :
        /\ starts = {} /\ NoTimer
        /\ opened = {c} /\ consumers = {<<c, c>>} /\ listeners = {<<c, c>>}

WaitingPhase ==
    starts = {} /\ OneTimer /\ opened = {} /\ consumers = {} /\ listeners = {}

RejectedPhase ==
    \E s \in starts :
        /\ starts = {s} /\ s.pc = "setup" /\ channel = None
        /\ OneTimer /\ opened = {} /\ consumers = {} /\ listeners = {}

Running == ~Stopping /\ exit = "no"

\* Only a start that fails sets a timer for start() as it is, and that ends the run.
OnePhase ==
    Running =>
        /\ unbound = {}
        /\ StartingPhase \/ ConsumingPhase \/ WaitingPhase \/ RejectedPhase

IInv == TypeOK /\ OnePhase

-----------------------------------------------------------------------------
(* Types.                                                                   *)

Waits == {"none", "peer", "channel", "connection", "pool", "draining"}

\* The constants.
LEMMA ConstantTypes ==
    /\ MaxStarts \in Nat \ {0} /\ MaxCalls \in Nat \ {0} /\ MaxClients \in Nat
    /\ Services \subseteq {"central", "external"}
    /\ 1 \in Starts /\ None \notin Starts
    /\ IsFiniteSet(Starts)
BY LifecycleAssumption, FS_Interval DEF LifecycleAssumption, Starts, None

\* A process that was just started.
LEMMA InitType == Init => TypeOK
<1> SUFFICES ASSUME Init PROVE TypeOK
    OBVIOUS
<1>1. starts \subseteq [id : Starts, pc : {"connect", "channel", "setup"}] /\ called \in Starts
    BY ConstantTypes DEF Init
<1>2. timers \in [Callbacks -> Nat] /\ calls \in [1..MaxCalls -> Waits]
    BY DEF Init, Waits
<1>3. clients \in 0..MaxClients
    BY ConstantTypes DEF Init
<1> QED
    BY <1>1, <1>2, <1>3 DEF Init, TypeOK, Waits

\* A call of gracefulShutdown.
LEMMA ShutdownType ==
    ASSUME TypeOK, GracefulShutdown
    PROVE  /\ calls' \in [1..MaxCalls -> Waits]
           /\ workers' \in BOOLEAN /\ listening' \in BOOLEAN
BY DEF TypeOK, GracefulShutdown, FirstWait, Waits

\* Timers that are set.
LEMMA TimerType ==
    ASSUME TypeOK, NEW t \in Callbacks, NEW n \in Nat
    PROVE  [timers EXCEPT ![t] = @ + n] \in [Callbacks -> Nat]
BY DEF TypeOK

\* A timer that fires.
LEMMA TimerFiresType ==
    ASSUME TypeOK, NEW t \in Callbacks, timers[t] > 0
    PROVE  [timers EXCEPT ![t] = @ - 1] \in [Callbacks -> Nat]
<1>1. timers \in [Callbacks -> Nat] /\ timers[t] \in Nat
    BY DEF TypeOK
<1>2. timers[t] - 1 \in Nat
    BY <1>1
<1> QED
    BY <1>1, <1>2

\* The 'close' listeners of a connection can be counted.
LEMMA ListenersFinite ==
    ASSUME TypeOK, NEW c
    PROVE  /\ ListenersOf(c) \subseteq Starts
           /\ Cardinality(ListenersOf(c) \ unbound) \in Nat
           /\ Cardinality(ListenersOf(c) \cap unbound) \in Nat
<1>1. ListenersOf(c) \subseteq Starts
    BY DEF TypeOK, ListenersOf
<1>2. IsFiniteSet(ListenersOf(c) \ unbound) /\ IsFiniteSet(ListenersOf(c) \cap unbound)
    BY <1>1, ConstantTypes, FS_Subset
<1> QED
    BY <1>1, <1>2, FS_CardinalityType

\* What the 'close' listeners add to the timers.
LEMMA TwoTimers ==
    ASSUME TypeOK, NEW a \in Nat, NEW b \in Nat,
           timers' = [timers EXCEPT !["this.start"] = @ + a, !["undefined"] = @ + b]
    PROVE  /\ timers' \in [Callbacks -> Nat]
           /\ timers'["this.start"] = timers["this.start"] + a
           /\ timers'["undefined"] = timers["undefined"] + b
           /\ timers'["start"] = timers["start"]
BY DEF TypeOK, Callbacks

\* A connection closes and its listeners run.
LEMMA ClosesType ==
    ASSUME TypeOK, NEW c, Closes(c)
    PROVE  /\ opened' \subseteq Starts
           /\ {connection', channel'} \subseteq Starts \cup {None}
           /\ consumers' \subseteq Starts \X Starts /\ listeners' \subseteq Starts \X Starts
           /\ timers' \in [Callbacks -> Nat]
<1>1. timers' \in [Callbacks -> Nat]
    BY ListenersFinite, TwoTimers DEF Closes
<1> QED
    BY <1>1 DEF Closes, TypeOK

\* What a start() under way carries.
LEMMA StartType ==
    ASSUME TypeOK, NEW s \in starts
    PROVE  /\ s.id \in Starts
           /\ \A pc \in {"connect", "channel", "setup"} :
                  /\ [s EXCEPT !.pc = pc] \in [id : Starts, pc : {"connect", "channel", "setup"}]
                  /\ [s EXCEPT !.pc = pc].id = s.id /\ [s EXCEPT !.pc = pc].pc = pc
BY DEF TypeOK

\* A step of start().
LEMMA StartStepType ==
    ASSUME TypeOK, NEW s \in starts, StartStep(s)
    PROVE  TypeOK'
<1>1. CASE Connected(s)
    BY <1>1, StartType DEF Connected, GoesTo, Own, main, TypeOK
<1>2. CASE ChannelOpened(s)
    BY <1>2, StartType DEF ChannelOpened, Listen, GoesTo, Own, main, TypeOK
<1>3. CASE SetUp(s)
    BY <1>3, StartType DEF SetUp, Listen, Own, TypeOK
<1>4. CASE StartFails(s)
  <2>1. timers' \in [Callbacks -> Nat]
    <3>1. CatchTimer \in Callbacks
        BY DEF CatchTimer, Callbacks
    <3>2. timers' = [timers EXCEPT ![CatchTimer] = @ + 1]
        BY <1>4 DEF StartFails, Fails
    <3> QED
        BY <3>1, <3>2, TimerType
  <2>2. starts' \subseteq starts
      BY <1>4 DEF StartFails, Fails, Own
  <2>3. /\ calls' \in [1..MaxCalls -> Waits]
        /\ workers' \in BOOLEAN /\ listening' \in BOOLEAN /\ exit' \in {"no", "0", "1"}
    <3>1. UNCHANGED <<calls, workers, listening>> \/ GracefulShutdown
        BY <1>4 DEF StartFails, Fails
    <3>2. exit' \in {"no", "0", "1"}
        BY <1>4 DEF StartFails, Fails, TypeOK
    <3> QED
        BY <3>1, <3>2, ShutdownType DEF TypeOK, Waits
  <2> QED
      BY <1>4, <2>1, <2>2, <2>3 DEF StartFails, TypeOK, Waits
<1> QED
    BY <1>1, <1>2, <1>3, <1>4 DEF StartStep

\* A timer.
LEMMA TimerStepType ==
    ASSUME TypeOK, TimerStep
    PROVE  TypeOK'
<1>1. CASE UnboundTimerFires
  <2>1. timers' \in [Callbacks -> Nat]
      BY <1>1, TimerFiresType DEF UnboundTimerFires, Callbacks
  <2> QED
      BY <1>1, <2>1, ShutdownType DEF UnboundTimerFires, amqp, TypeOK, Waits
<1>2. ASSUME NEW t \in {"this.start", "start"}, TimerFires(t)
      PROVE  TypeOK'
  <2>1. timers' \in [Callbacks -> Nat]
      BY <1>2, TimerFiresType DEF TimerFires, Callbacks
  <2>2. called' \in Starts
    <3>1. called \in 1..MaxStarts /\ MaxStarts \in Nat /\ called < MaxStarts
          /\ called' = called + 1
        BY <1>2, ConstantTypes DEF TimerFires, TypeOK, Starts
    <3> QED
        BY <3>1 DEF Starts
  <2>3. starts' \subseteq [id : Starts, pc : {"connect", "channel", "setup"}]
      BY <1>2, <2>2 DEF TimerFires, TypeOK
  <2>4. unbound' \subseteq Starts
      BY <1>2, <2>2 DEF TimerFires, TypeOK
  <2> QED
      BY <1>2, <2>1, <2>2, <2>3, <2>4 DEF TimerFires, main, TypeOK
<1> QED
    BY <1>1, <1>2 DEF TimerStep

\* A step of gracefulShutdown.
LEMMA ShutdownStepType ==
    ASSUME TypeOK, NEW k \in 1..MaxCalls, ShutdownStep(k)
    PROVE  TypeOK'
<1>1. CASE PeerClosed(k)
    BY <1>1 DEF PeerClosed, Awaits, amqp, main, TypeOK
<1>2. CASE ChannelClosed(k)
    BY <1>2 DEF ChannelClosed, Awaits, main, TypeOK
<1>3. CASE ConnectionClosed(k)
  <2>1. calls' \in [1..MaxCalls -> Waits]
      BY <1>3 DEF ConnectionClosed, Awaits, TypeOK, Waits
  <2>2. Closes(connection) \/
            UNCHANGED <<opened, connection, channel, consumers, listeners, timers>>
      BY <1>3 DEF ConnectionClosed
  <2>3. /\ opened' \subseteq Starts
        /\ {connection', channel'} \subseteq Starts \cup {None}
        /\ consumers' \subseteq Starts \X Starts /\ listeners' \subseteq Starts \X Starts
        /\ timers' \in [Callbacks -> Nat]
      BY <2>2, ClosesType DEF TypeOK
  <2> QED
      BY <1>3, <2>1, <2>3 DEF ConnectionClosed, main, TypeOK, Waits
<1>4. CASE PoolEnds(k)
    BY <1>4 DEF PoolEnds, Awaits, amqp, main, TypeOK
<1>5. CASE PoolDrained(k)
    BY <1>5 DEF PoolDrained, amqp, main, TypeOK
<1> QED
    BY <1>1, <1>2, <1>3, <1>4, <1>5 DEF ShutdownStep

\* Every step keeps the types.
LEMMA TypeNext == TypeOK /\ [Next]_vars => TypeOK'
<1> SUFFICES ASSUME TypeOK, [Next]_vars PROVE TypeOK'
    OBVIOUS
<1>1. CASE UNCHANGED vars
    BY <1>1 DEF vars, amqp, main, TypeOK
<1>2. CASE Signal
    BY <1>2, ShutdownType DEF Signal, amqp, TypeOK, Waits
<1>3. ASSUME NEW c \in opened, ConnectionLost(c)
      PROVE  TypeOK'
  <2>1. /\ opened' \subseteq Starts
        /\ {connection', channel'} \subseteq Starts \cup {None}
        /\ consumers' \subseteq Starts \X Starts /\ listeners' \subseteq Starts \X Starts
        /\ timers' \in [Callbacks -> Nat]
      BY <1>3, ClosesType DEF ConnectionLost
  <2>2. /\ calls' \in [1..MaxCalls -> Waits]
        /\ workers' \in BOOLEAN /\ listening' \in BOOLEAN
      BY <1>3, ShutdownType DEF ConnectionLost, TypeOK, Waits
  <2> QED
      BY <1>3, <2>1, <2>2 DEF ConnectionLost, TypeOK, Waits
<1>4. CASE WorkersStart \/ ServerListens
    BY <1>4 DEF WorkersStart, ServerListens, amqp, TypeOK
<1>5. CASE ClientsComeAndGo
  <2>1. clients' \in 0..MaxClients
      BY <1>5, ConstantTypes DEF ClientsComeAndGo, TypeOK
  <2> QED
      BY <1>5, <2>1 DEF ClientsComeAndGo, amqp, TypeOK
<1> QED
    BY <1>1, <1>2, <1>3, <1>4, <1>5, StartStepType, TimerStepType, ShutdownStepType
       DEF Next, Step

-----------------------------------------------------------------------------
(* A shutdown is not taken back.                                            *)

\* gracefulShutdown is where stopping begins.
LEMMA ShutdownStops ==
    ASSUME TypeOK, GracefulShutdown
    PROVE  Stopping'
<1>1. calls \in [1..MaxCalls -> Waits] /\ FirstWait # "none" /\ 1 \in 1..MaxCalls
    BY ConstantTypes DEF TypeOK, Waits, FirstWait
<1>2. CASE Stopping
  <2>1. PICK i \in 1..MaxCalls : calls[i] # "none"
      BY <1>2 DEF Stopping
  <2>2. calls'[i] # "none"
      BY <1>1, <2>1 DEF GracefulShutdown
  <2> QED
      BY <2>2 DEF Stopping
<1>3. CASE ~Stopping
  <2> DEFINE First(k) == calls[k] = "none" /\ \A i \in 1..k - 1 : calls[i] # "none"
             k == CHOOSE k \in 1..MaxCalls : First(k)
  <2>1. First(1)
      BY <1>1, <1>3 DEF Stopping
  <2>2. k \in 1..MaxCalls
      BY <1>1, <2>1
  <2>3. calls' = [calls EXCEPT ![k] = FirstWait]
      BY <1>1, <1>3 DEF GracefulShutdown, Stopping
  <2> HIDE DEF k
  <2>4. calls'[k] # "none"
      BY <1>1, <2>2, <2>3
  <2> QED
      BY <2>2, <2>4 DEF Stopping
<1> QED
    BY <1>2, <1>3

\* A process that is stopping does not go back.
LEMMA StoppingStays ==
    ASSUME TypeOK, Next, Stopping
    PROVE  Stopping'
<1>1. CASE GracefulShutdown
    BY <1>1, ShutdownStops
<1>2. CASE calls' = calls
    BY <1>2 DEF Stopping
<1>3. ASSUME NEW k \in 1..MaxCalls,
             NEW what \in {"channel", "connection", "pool", "draining"}, Awaits(k, what)
      PROVE  Stopping'
  <2>1. calls'[k] # "none"
      BY <1>3 DEF Awaits, TypeOK
  <2> QED
      BY <2>1 DEF Stopping
<1> QED
    BY <1>1, <1>2, <1>3
       DEF Next, Step, Signal, StartStep, Connected, ChannelOpened, SetUp, StartFails, Fails,
           TimerStep, UnboundTimerFires, TimerFires, ConnectionLost, WorkersStart,
           ServerListens, ClientsComeAndGo, ShutdownStep, PeerClosed, ChannelClosed,
           ConnectionClosed, PoolEnds, PoolDrained

\* The steps that may go on running: no start fails, nobody shuts down.
LEMMA RunningSteps ==
    ASSUME TypeOK, Next, Running'
    PROVE  /\ Running
           /\ \/ \E s \in starts : Connected(s) \/ ChannelOpened(s) \/ SetUp(s)
              \/ TimerFires("this.start") \/ TimerFires("start")
              \/ \E c \in opened : ConnectionLost(c)
              \/ UNCHANGED <<service, amqp, timers>>
<1>1. Running
    BY StoppingStays DEF Running, Next
<1>2. ~GracefulShutdown
    BY ShutdownStops DEF Running
<1>3. \A s \in starts : ~StartFails(s)
    BY <1>2 DEF StartFails, Fails, Running
<1>4. \A k \in 1..MaxCalls : ~ShutdownStep(k)
    BY <1>1 DEF Running, Stopping, ShutdownStep, PeerClosed, ChannelClosed, ConnectionClosed,
                PoolEnds, PoolDrained
<1>5. ~UnboundTimerFires /\ ~Signal
    BY <1>2 DEF UnboundTimerFires, Signal
<1> QED
    BY <1>1, <1>3, <1>4, <1>5
       DEF Next, Step, StartStep, TimerStep, WorkersStart, ServerListens, ClientsComeAndGo

-----------------------------------------------------------------------------
(* The phases.                                                              *)

InAPhase == StartingPhase \/ ConsumingPhase \/ WaitingPhase \/ RejectedPhase

\* connect() has answered (start).
LEMMA PhaseConnected ==
    ASSUME TypeOK, unbound = {}, InAPhase, NEW s \in starts, Connected(s)
    PROVE  unbound' = {} /\ InAPhase'
<1> DEFINE k == [s EXCEPT !.pc = "channel"]
<1>1. k.id = s.id /\ k.pc = "channel"
    BY StartType
<1>2. /\ starts = {s} /\ NoTimer /\ opened = {} /\ listeners = {} /\ consumers = {}
    BY DEF Connected, InAPhase, StartingPhase, ConsumingPhase, WaitingPhase, RejectedPhase
<1>3. /\ starts' = {k} /\ opened' = {s.id} /\ connection' = s.id
      /\ listeners' = {} /\ consumers' = {} /\ unbound' = {} /\ timers' = timers
    BY <1>2 DEF Connected, GoesTo, Own
<1> HIDE DEF k
<1> QED
    BY <1>1, <1>2, <1>3 DEF InAPhase, StartingPhase, NoTimer

\* createChannel() has answered (start).
LEMMA PhaseChannelOpened ==
    ASSUME TypeOK, unbound = {}, InAPhase, NEW s \in starts, ChannelOpened(s)
    PROVE  unbound' = {} /\ InAPhase'
<1> DEFINE k == [s EXCEPT !.pc = "setup"]
<1>1. k.id = s.id /\ k.pc = "setup"
    BY StartType
<1>2. /\ starts = {s} /\ NoTimer /\ opened = {s.id} /\ connection = s.id
      /\ listeners = {} /\ consumers = {}
    BY DEF ChannelOpened, InAPhase, StartingPhase, ConsumingPhase, WaitingPhase, RejectedPhase
<1>3. /\ starts' = {k} /\ opened' = {s.id} /\ connection' = s.id /\ channel' = s.id
      /\ listeners' = IF service' = "external" THEN {<<s.id, s.id>>} ELSE {}
      /\ consumers' = {} /\ unbound' = {} /\ timers' = timers
    BY <1>2 DEF ChannelOpened, Listen, GoesTo, Own
<1> HIDE DEF k
<1> QED
    BY <1>1, <1>2, <1>3 DEF InAPhase, StartingPhase, NoTimer

\* The queues are there and consume() is called (start).
LEMMA PhaseSetUp ==
    ASSUME TypeOK, unbound = {}, InAPhase, NEW s \in starts, SetUp(s)
    PROVE  unbound' = {} /\ InAPhase'
<1>1. s.id \in Starts /\ s.id # None /\ None \notin opened
    BY StartType, ConstantTypes DEF TypeOK
<1>2. ~RejectedPhase
    BY <1>1 DEF RejectedPhase, SetUp
<1>3. /\ starts = {s} /\ NoTimer /\ opened \subseteq {s.id} /\ connection = s.id /\ channel = s.id
      /\ listeners = IF service = "external" THEN {<<s.id, s.id>>} ELSE {}
      /\ consumers = {}
    BY <1>2 DEF SetUp, InAPhase, StartingPhase, ConsumingPhase, WaitingPhase
<1>4. service \in {"central", "external"}
    BY ConstantTypes DEF TypeOK
<1>5. /\ starts' = {} /\ opened' = {s.id} /\ consumers' = {<<s.id, s.id>>}
      /\ listeners' = {<<s.id, s.id>>} /\ unbound' = {} /\ timers' = timers
    BY <1>1, <1>3, <1>4 DEF SetUp, Listen, Own
<1> QED
    BY <1>1, <1>3, <1>5 DEF InAPhase, ConsumingPhase, NoTimer

\* A timer that was set on a close starts again.
LEMMA PhaseTimer ==
    ASSUME TypeOK, unbound = {}, InAPhase, NEW t \in {"this.start", "start"}, TimerFires(t)
    PROVE  unbound' = {} /\ InAPhase'
<1>1. ~NoTimer /\ t \in Callbacks
    BY DEF TimerFires, NoTimer, Callbacks
<1>2. ~RejectedPhase
  <2> SUFFICES ASSUME RejectedPhase PROVE FALSE
      OBVIOUS
  <2>1. PICK s \in starts : s.pc = "setup" /\ opened = {}
      BY DEF RejectedPhase
  <2> QED
      BY <2>1 DEF TimerFires, Rejected
<1>3. WaitingPhase
    BY <1>1, <1>2 DEF InAPhase, StartingPhase, ConsumingPhase
<1>4. t = "this.start"
    BY <1>1, <1>3 DEF WaitingPhase, OneTimer, TimerFires
<1> DEFINE s == [id |-> called', pc |-> "connect"]
<1>5. /\ starts' = {s} /\ opened' = {} /\ consumers' = {} /\ listeners' = {} /\ unbound' = {}
    BY <1>3, <1>4 DEF TimerFires, WaitingPhase
<1>6. NoTimer'
    BY <1>3, <1>4 DEF TimerFires, WaitingPhase, OneTimer, NoTimer, TypeOK, Callbacks
<1>7. s.pc = "connect"
    OBVIOUS
<1> HIDE DEF s
<1> QED
    BY <1>5, <1>6, <1>7 DEF InAPhase, StartingPhase

\* The only listener of a connection sets the only timer.
LEMMA OneListener ==
    ASSUME TypeOK, unbound = {}, NoTimer, NEW c, listeners = {<<c, c>>}, Closes(c)
    PROVE  OneTimer' /\ listeners' = {} /\ connection' = None /\ channel' = None
<1>1. ListenersOf(c) = {c}
  <2>1. {l \in listeners : l[1] = c} = {<<c, c>>}
      OBVIOUS
  <2>2. ListenersOf(c) = {l[2] : l \in {<<c, c>>}}
      BY <2>1 DEF ListenersOf
  <2> QED
      BY <2>2
<1>2. Cardinality(ListenersOf(c) \ unbound) = 1 /\ Cardinality(ListenersOf(c) \cap unbound) = 0
  <2>1. ListenersOf(c) \ unbound = {c} /\ ListenersOf(c) \cap unbound = {}
      BY <1>1
  <2> QED
      BY <2>1, FS_Singleton, FS_EmptySet
<1>3. OneTimer'
  <2>1. timers' = [timers EXCEPT !["this.start"] = @ + 1, !["undefined"] = @ + 0]
      BY <1>2 DEF Closes
  <2>2. /\ timers'["this.start"] = timers["this.start"] + 1
        /\ timers'["undefined"] = timers["undefined"] + 0 /\ timers'["start"] = timers["start"]
      BY <2>1, TwoTimers
  <2> QED
      BY <2>2 DEF OneTimer, NoTimer, Callbacks
<1> QED
    BY <1>1, <1>3 DEF Closes

\* Without a listener a close changes nothing that start() reads.
LEMMA NoListener ==
    ASSUME TypeOK, NoTimer, NEW c, listeners = {}, Closes(c)
    PROVE  NoTimer' /\ listeners' = {} /\ connection' = connection /\ channel' = channel
<1>1. ListenersOf(c) = {}
    BY DEF ListenersOf
<1>2. Cardinality(ListenersOf(c) \ unbound) = 0 /\ Cardinality(ListenersOf(c) \cap unbound) = 0
  <2>1. ListenersOf(c) \ unbound = {} /\ ListenersOf(c) \cap unbound = {}
      BY <1>1
  <2> QED
      BY <2>1, FS_EmptySet
<1>3. NoTimer'
  <2>1. /\ timers'["this.start"] = timers["this.start"] + 0
        /\ timers'["undefined"] = timers["undefined"] + 0 /\ timers'["start"] = timers["start"]
      BY <1>2, TwoTimers DEF Closes
  <2> QED
      BY <2>1 DEF NoTimer, Callbacks
<1> QED
    BY <1>1, <1>3 DEF Closes

\* The connection is lost.
LEMMA PhaseLost ==
    ASSUME TypeOK, unbound = {}, InAPhase, NEW c \in opened, ConnectionLost(c)
    PROVE  unbound' = {} /\ InAPhase'
<1>1. /\ Closes(c) /\ starts' = starts /\ unbound' = {} /\ service' = service
    BY DEF ConnectionLost
<1>2. /\ opened' = opened \ {c} /\ consumers' = {pair \in consumers : pair[1] # c}
    BY <1>1 DEF Closes
<1>3. CASE ConsumingPhase
  <2>1. PICK d \in Starts : /\ starts = {} /\ NoTimer
                            /\ opened = {d} /\ consumers = {<<d, d>>} /\ listeners = {<<d, d>>}
      BY <1>3 DEF ConsumingPhase
  <2>2. d = c
      BY <2>1
  <2> QED
      BY <1>1, <1>2, <2>1, <2>2, OneListener DEF InAPhase, WaitingPhase
<1>4. CASE StartingPhase
  <2>1. PICK s \in starts :
            /\ starts = {s} /\ NoTimer /\ consumers = {}
            /\ s.pc = "connect" => opened = {}
            /\ s.pc \in {"channel", "setup"} => opened \subseteq {s.id} /\ connection = s.id
            /\ s.pc = "setup" => channel = s.id
            /\ listeners = IF s.pc = "setup" /\ service = "external" THEN {<<s.id, s.id>>} ELSE {}
            /\ s.pc = "setup" /\ service = "external" => opened = {s.id}
      BY <1>4 DEF StartingPhase
  <2>2. c = s.id /\ opened = {s.id} /\ s.pc # "connect"
      BY <2>1 DEF TypeOK
  <2>3. CASE s.pc = "setup" /\ service = "external"
    <3>1. OneTimer' /\ listeners' = {} /\ channel' = None
        BY <1>1, <2>1, <2>2, <2>3, OneListener
    <3> QED
        BY <1>1, <1>2, <2>1, <2>2, <2>3, <3>1 DEF InAPhase, RejectedPhase
  <2>4. CASE ~(s.pc = "setup" /\ service = "external")
    <3>1. NoTimer' /\ listeners' = {} /\ connection' = connection /\ channel' = channel
        BY <1>1, <2>1, <2>4, NoListener
    <3> QED
        BY <1>1, <1>2, <2>1, <2>2, <2>4, <3>1 DEF InAPhase, StartingPhase
  <2> QED
      BY <2>3, <2>4
<1> QED
    BY <1>3, <1>4 DEF InAPhase, WaitingPhase, RejectedPhase

-----------------------------------------------------------------------------
(* The invariant and the theorems.                                          *)

\* A process that was just started is in the first phase.
LEMMA InitIInv == Init => IInv
<1> SUFFICES ASSUME Init PROVE IInv
    OBVIOUS
<1>1. TypeOK
    BY InitType
<1> DEFINE s == [id |-> 1, pc |-> "connect"]
<1>2. starts = {s} /\ s.pc = "connect"
    BY DEF Init
<1> HIDE DEF s
<1>3. unbound = {} /\ StartingPhase
    BY <1>2 DEF Init, StartingPhase, NoTimer
<1> QED
    BY <1>1, <1>3 DEF IInv, OnePhase

\* Every step keeps the process in one of the phases, until it stops.
LEMMA NextIInv == IInv /\ [Next]_vars => IInv'
<1> SUFFICES ASSUME IInv, [Next]_vars PROVE IInv'
    OBVIOUS
<1>1. TypeOK /\ TypeOK'
    BY TypeNext DEF IInv
<1>2. ASSUME UNCHANGED <<service, amqp, timers>>, unbound = {}, InAPhase
      PROVE  unbound' = {} /\ InAPhase'
    BY <1>2 DEF amqp, InAPhase, StartingPhase, ConsumingPhase, WaitingPhase, RejectedPhase,
                NoTimer, OneTimer
<1>3. CASE UNCHANGED vars
  <2>1. Running' <=> Running
      BY <1>3 DEF vars, Running, Stopping
  <2>2. UNCHANGED <<service, amqp, timers>>
      BY <1>3 DEF vars
  <2> QED
      BY <1>1, <1>2, <2>1, <2>2 DEF IInv, OnePhase, InAPhase
<1>4. ASSUME Next, Running'
      PROVE  unbound' = {} /\ InAPhase'
  <2>1. unbound = {} /\ InAPhase
      BY <1>1, <1>4, RunningSteps DEF IInv, OnePhase, InAPhase
  <2> QED
      BY <1>1, <1>2, <1>4, <2>1, RunningSteps, PhaseConnected, PhaseChannelOpened, PhaseSetUp,
         PhaseTimer, PhaseLost
<1> QED
    BY <1>1, <1>3, <1>4 DEF IInv, OnePhase, InAPhase

\* The invariant holds in every state.
THEOREM SpecIInv == Spec => []IInv
BY InitIInv, NextIInv, PTL DEF Spec

\* No signal, lost connection, failed start or overlapping shutdown leaves the
\* module's variables, the timers or the calls out of shape.
THEOREM TypeCorrect == Spec => []TypeOK
<1>1. IInv => TypeOK
    BY DEF IInv
<1> QED
    BY <1>1, SpecIInv, PTL

\* Until a shutdown begins there is one connection and one consumer at most: a
\* listener that sets a timer takes its connection with it, and the catch of
\* start() never sets a second one, for its error ends the process.
THEOREM OneConsumerAtMost == Spec => []OneConsumer
<1>1. ASSUME IInv, Running
      PROVE  Cardinality(opened) <= 1 /\ Cardinality(consumers) <= 1
  <2>1. \A x : Cardinality({x}) = 1
      BY FS_Singleton
  <2>2. Cardinality({}) = 0
      BY FS_EmptySet
  <2>3. /\ opened = {} \/ \E x : opened = {x}
        /\ consumers = {} \/ \E x : consumers = {x}
    <3>1. CASE StartingPhase
      <4>1. PICK s \in starts : /\ s.pc = "connect" => opened = {}
                                /\ s.pc \in {"channel", "setup"} => opened \subseteq {s.id}
                                /\ consumers = {}
          BY <3>1 DEF StartingPhase
      <4>2. s.pc \in {"connect", "channel", "setup"}
          BY <1>1 DEF IInv, TypeOK
      <4>3. opened = {} \/ opened = {s.id}
          BY <4>1, <4>2
      <4> QED
          BY <4>1, <4>3
    <3>2. CASE ConsumingPhase \/ WaitingPhase \/ RejectedPhase
        BY <3>2 DEF ConsumingPhase, WaitingPhase, RejectedPhase
    <3> QED
        BY <1>1, <3>1, <3>2 DEF IInv, OnePhase
  <2>4. /\ Cardinality(opened) = 0 \/ Cardinality(opened) = 1
        /\ Cardinality(consumers) = 0 \/ Cardinality(consumers) = 1
      BY <2>1, <2>2, <2>3, Zenon
  <2> QED
      BY <2>4
<1>2. IInv => OneConsumer
    BY <1>1 DEF OneConsumer, Running
<1> QED
    BY <1>2, SpecIInv, PTL
=============================================================================

--------------------------- MODULE TcpClient_proofs ---------------------------
(***************************************************************************)
(* What the two halves of the TCP client guarantee.                        *)
(*                                                                         *)
(* The session, for all proportions of the timers that ConstantsAssumption *)
(* allows and for chunks of any length: no timer outlives its connection,  *)
(* there is one way back to the central system, and its silence is         *)
(* bounded.                                                                *)
(*                                                                         *)
(* The parser, for all frames, lengths and cuttings of the stream: the     *)
(* buffer is a window on the stream and the parser stands at the beginning *)
(* of a frame or of its body, so it hands out what was sent, in order and  *)
(* up to the first header it refuses, and is on its feet again after it.   *)
(***************************************************************************)
EXTENDS TcpSession, ProtocolParser, SequenceTheorems, FiniteSetTheorems,
        WellFoundedInduction, TLAPS

-----------------------------------------------------------------------------
(* The session.                                                             *)

\* The flags of TCPClient and the state of its socket agree.
FlagsInv ==
    /\ (isConnected \/ isConnecting) <=> socket # "closed"
    /\ ~(isConnected /\ isConnecting)
    /\ socket = "open" => isConnected
    /\ socket = "connecting" => isConnecting

\* A process that is booting has nothing behind it.
BootInv ==
    phase = "booting" => /\ socket = "closed" /\ reconnects = <<>> /\ responses = <<>>
                         /\ ~thrown /\ ~stale

\* There are never two ways back; while the process is shut down there may be one
\* still, since a pending timer sets shouldReconnect again.
WaysInv ==
    /\ WaysBack <= 1
    /\ thrown => WaysBack = 0
    /\ phase = "running" /\ ~thrown => WaysBack = 1
    /\ phase = "running" => shouldReconnect

\* A stale authentication timer goes off before any timer that reconnects.
StaleInv ==
    stale => /\ socket = "closed"
             /\ authTimeout # {}
             /\ \A t \in authTimeout : \A i \in DOMAIN reconnects : t < reconnects[i]

\* The session check belongs to a connection, and its next request comes after the
\* end of the wait for the last response.
SessionInv ==
    /\ socket \in {"closed", "connecting"} =>
           sessionCheck = {} /\ pongTimeout = {} /\ responses = <<>>
    /\ \A p \in pongTimeout, s \in sessionCheck : p < s

\* On an open connection some timer runs, or a response will start one, and what
\* the timers have left bounds the silence.
SilenceInv ==
    /\ responses # <<>> => silence = 0
    /\ socket = "open" =>
       /\ \A t \in authTimeout : silence + t <= ResponseTimeout
       /\ \A t \in pongTimeout : silence + t <= SessionCheckInterval + ResponseTimeout
       /\ pongTimeout # {} \/ \A t \in sessionCheck : silence + t <= SessionCheckInterval
       /\ responses = <<>> => authTimeout # {} \/ sessionCheck # {}
    /\ SilenceBounded

IInv ==
    /\ TypeOK /\ FlagsInv /\ BootInv /\ WaysInv
    /\ StaleInv /\ SessionInv /\ SilenceInv

-----------------------------------------------------------------------------
(* Timers and ways back.                                                    *)

\* A timer that is set has ticks within its interval (setTimeout).
LEMMA SetTimers ==
    /\ {ResponseTimeout} \subseteq 0..ResponseTimeout
    /\ {SessionCheckInterval} \subseteq 0..SessionCheckInterval
    /\ {EndTimeout} \subseteq 0..EndTimeout
  BY ConstantsAssumption

\* A tick that finds no timer due leaves every timer within its interval (Tick).
LEMMA LaterTimers ==
    ASSUME NEW n \in Nat, NEW timer \in SUBSET (0..n), 0 \notin timer
    PROVE  /\ Later(timer) \in SUBSET (0..n)
           /\ \A t \in Later(timer) : t + 1 \in timer /\ t \in Nat
           /\ timer # {} => Later(timer) # {}
  <1>1. \A t \in Later(timer) : t \in 0..n /\ t + 1 \in timer
    <2> SUFFICES ASSUME NEW u \in timer PROVE u - 1 \in 0..n /\ (u - 1) + 1 \in timer
      BY DEF Later
    <2>1. u \in 0..n /\ u # 0
      OBVIOUS
    <2> QED  BY <2>1
  <1>2. \A u \in timer : u - 1 \in Later(timer)
    BY DEF Later
  <1>3. timer # {} => Later(timer) # {}
    BY <1>2
  <1>4. Later(timer) \in SUBSET (0..n)
    BY <1>1
  <1>5. \A t \in Later(timer) : t + 1 \in timer /\ t \in Nat
    BY <1>1
  <1> QED  BY <1>3, <1>4, <1>5

\* The same for the timers that reconnect (Tick).
LEMMA ReconnectsLater ==
    ASSUME NEW n \in Nat, NEW s \in Seq(0..n), \A i \in DOMAIN s : s[i] # 0
    PROVE  LET t == [i \in DOMAIN s |-> s[i] - 1]
           IN  /\ t \in Seq(0..n) /\ Len(t) = Len(s) /\ DOMAIN t = DOMAIN s
               /\ \A i \in DOMAIN s : s[i] \in Nat /\ t[i] = s[i] - 1
  <1> DEFINE t == [i \in DOMAIN s |-> s[i] - 1]
  <1>1. Len(s) \in Nat /\ DOMAIN s = 1..Len(s) /\ \A i \in 1..Len(s) : s[i] \in 0..n
    OBVIOUS
  <1>2. t \in [1..Len(s) -> 0..n]
    OBVIOUS
  <1>3. t \in Seq(0..n) /\ Len(t) = Len(s)
    BY <1>2
  <1>4. DOMAIN t = DOMAIN s /\ \A i \in DOMAIN s : s[i] \in Nat /\ t[i] = s[i] - 1
    BY <1>1
  <1> HIDE DEF t
  <1>5. /\ t \in Seq(0..n) /\ Len(t) = Len(s) /\ DOMAIN t = DOMAIN s
        /\ \A i \in DOMAIN s : s[i] \in Nat /\ t[i] = s[i] - 1
    BY <1>3, <1>4
  <1> QED  BY <1>5 DEF t

\* Taking the timer that fired out of the pending ones (ReconnectFires).
LEMMA TimerTakenOut ==
    ASSUME NEW S, NEW s \in Seq(S), NEW i \in DOMAIN s
    PROVE  LET t == SubSeq(s, 1, i - 1) \o SubSeq(s, i + 1, Len(s))
           IN  t \in Seq(S) /\ Len(t) = Len(s) - 1
  <1> DEFINE before == SubSeq(s, 1, i - 1)
             after == SubSeq(s, i + 1, Len(s))
  <1>1. i \in 1..Len(s) /\ Len(s) \in Nat /\ \A k \in 1..Len(s) : s[k] \in S
    OBVIOUS
  <1>2. before \in Seq(S) /\ Len(before) = i - 1
    <2>1. \A k \in 1..i - 1 : s[k] \in S
      OBVIOUS
    <2> QED  BY <2>1, SubSeqProperties
  <1>3. after \in Seq(S) /\ Len(after) = Len(s) - i
    <2>1. \A k \in i + 1..Len(s) : s[k] \in S
      BY <1>1
    <2>2. Len(SubSeq(s, i + 1, Len(s))) = IF i + 1 <= Len(s) THEN Len(s) - (i + 1) + 1 ELSE 0
      BY <1>1, <2>1, SubSeqProperties
    <2>3. SubSeq(s, i + 1, Len(s)) \in Seq(S)
      OBVIOUS
    <2> QED  OBVIOUS
  <1> HIDE DEF before, after
  <1>4. before \o after \in Seq(S) /\ Len(before \o after) = Len(before) + Len(after)
    BY <1>2, <1>3, ConcatProperties
  <1>5. Len(before \o after) = Len(s) - 1
    BY <1>2, <1>3, <1>4
  <1> QED  BY DEF before, after

\* What the ways back are in number (WaysBack).
LEMMA WaysCounted ==
    ASSUME TypeOK, FlagsInv
    PROVE  /\ Len(reconnects) \in Nat
           /\ socket = "closed" => ~isConnecting /\ ~isConnected /\ WaysBack = Len(reconnects)
           /\ socket # "closed" => WaysBack = Len(reconnects) + 1
           /\ Len(reconnects) = 0 => reconnects = <<>>
  <1>1. Len(reconnects) \in Nat
    OBVIOUS
  <1>2. CASE isConnecting /\ ~isConnected
    BY <1>2 DEF FlagsInv, WaysBack
  <1>3. CASE isConnected /\ ~isConnecting
    BY <1>3 DEF FlagsInv, WaysBack
  <1>4. CASE ~isConnected /\ ~isConnecting
    BY <1>4 DEF FlagsInv, WaysBack
  <1>5. Len(reconnects) = 0 => reconnects = <<>>
    OBVIOUS
  <1> QED  BY <1>1, <1>2, <1>3, <1>4, <1>5 DEF FlagsInv

\* Where neither the flags nor the pending timers change, the ways back stay
\* (WaysBack).
LEMMA WaysStay ==
    ASSUME WaysInv,
           UNCHANGED <<isConnecting, isConnected, reconnects, thrown>>,
           phase' = "running" => phase = "running" /\ UNCHANGED shouldReconnect
    PROVE  WaysInv'
  <1>1. WaysBack' = WaysBack
    BY DEF WaysBack
  <1> QED  BY <1>1 DEF WaysInv

-----------------------------------------------------------------------------
\* The periodic session check (sessionHandler.startSessionCheck).
LEMMA SessionCheckFiresIInv == IInv /\ SessionCheckFires => IInv'
  <1> SUFFICES ASSUME IInv, SessionCheckFires PROVE IInv'
    OBVIOUS
  <1>1. TypeOK'
    BY ConstantsAssumption, SetTimers, ZenonT(30) DEF IInv, TypeOK, Chunk, SessionCheckFires,
       Event, SendSessionCheckRequest, Owing, CanSend, DestroyConnection, Destroyed, client,
       timers, ghosts
  <1>2. FlagsInv'
    BY DEF IInv, FlagsInv, SessionCheckFires, SendSessionCheckRequest, DestroyConnection,
       Destroyed, client
  <1>3. BootInv'
    BY DEF IInv, BootInv, SessionCheckFires, SendSessionCheckRequest, DestroyConnection,
       Destroyed
  <1>4. WaysInv'
    BY WaysStay DEF IInv, SessionCheckFires, client
  <1>5. StaleInv'
    BY ConstantsAssumption DEF IInv, StaleInv, SessionCheckFires, SendSessionCheckRequest,
       DestroyConnection, Destroyed
  <1>6. SessionInv'
    BY ConstantsAssumption DEF IInv, SessionInv, SessionCheckFires, SendSessionCheckRequest,
       Owing, CanSend, DestroyConnection, Destroyed, client, timers, ghosts
  <1>7. SilenceInv'
    <2>1. CASE socket = "open"
      <3>1. pongTimeout = {} /\ isConnected
        BY <2>1 DEF IInv, TypeOK, SessionInv, FlagsInv, SessionCheckFires
      <3>2. silence \in Nat /\ silence <= SessionCheckInterval /\ silence' = silence
        BY <2>1, <3>1 DEF IInv, TypeOK, SilenceInv, SessionCheckFires
      <3>3. /\ UNCHANGED <<authTimeout, responses>> /\ sessionCheck' = {SessionCheckInterval}
            /\ responses = <<>>
            /\ socket' = "open" => pongTimeout' = {ResponseTimeout}
        BY <2>1, <3>1 DEF SessionCheckFires, Event, SendSessionCheckRequest,
           DestroyConnection, Destroyed
      <3>4. \A t \in pongTimeout' : socket' = "open" =>
                silence' + t <= SessionCheckInterval + ResponseTimeout
        BY <3>2, <3>3, ConstantsAssumption
      <3>5. silence' <= SessionCheckInterval + ResponseTimeout
        BY <3>2, ConstantsAssumption
      <3> QED  BY <2>1, <3>2, <3>3, <3>4, <3>5 DEF IInv, SilenceInv, SilenceBounded
    <2>2. CASE socket # "open"
      BY <2>2 DEF IInv, SilenceInv, SilenceBounded, SessionCheckFires,
         SendSessionCheckRequest, DestroyConnection, Destroyed, Event
    <2> QED  BY <2>1, <2>2
  <1> QED  BY <1>1, <1>2, <1>3, <1>4, <1>5, <1>6, <1>7 DEF IInv

\* The pong timeout (sessionHandler).
LEMMA PongTimesOutIInv == IInv /\ PongTimesOut => IInv'
  <1> SUFFICES ASSUME IInv, PongTimesOut PROVE IInv'
    OBVIOUS
  <1>1. TypeOK'
    BY ConstantsAssumption, SetTimers, Zenon DEF IInv, TypeOK, Chunk, PongTimesOut, Event,
       DestroyConnection, Destroyed, client, timers, ghosts
  <1>2. FlagsInv'
    BY DEF IInv, FlagsInv, PongTimesOut, DestroyConnection, Destroyed, client
  <1>3. BootInv'
    BY DEF IInv, BootInv, PongTimesOut, DestroyConnection, Destroyed, ghosts
  <1>4. WaysInv'
    BY WaysStay DEF IInv, PongTimesOut, client, ghosts
  <1>5. StaleInv'
    BY ConstantsAssumption DEF IInv, StaleInv, PongTimesOut, DestroyConnection, Destroyed,
       ghosts
  <1>6. SessionInv'
    BY DEF IInv, SessionInv, PongTimesOut, DestroyConnection, Destroyed
  <1>7. SilenceInv'
    BY ConstantsAssumption DEF IInv, FlagsInv, SilenceInv, SilenceBounded, PongTimesOut,
       DestroyConnection, Destroyed, client, timers, ghosts
  <1> QED  BY <1>1, <1>2, <1>3, <1>4, <1>5, <1>6, <1>7 DEF IInv

\* The authentication timeout (authHandler._startAuthTimeout).
LEMMA AuthTimesOutIInv == IInv /\ AuthTimesOut => IInv'
  <1> SUFFICES ASSUME IInv, AuthTimesOut PROVE IInv'
    OBVIOUS
  <1>1. TypeOK'
    BY ConstantsAssumption, SetTimers, Zenon DEF IInv, TypeOK, Chunk, AuthTimesOut, Event,
       DestroyConnection, Destroyed, client, timers, ghosts
  <1>2. FlagsInv'
    BY DEF IInv, FlagsInv, AuthTimesOut, DestroyConnection, Destroyed, client
  <1>3. BootInv'
    BY DEF IInv, BootInv, AuthTimesOut, DestroyConnection, Destroyed
  <1>4. WaysInv'
    BY WaysStay DEF IInv, AuthTimesOut, client
  <1>5. StaleInv'
    BY ConstantsAssumption DEF StaleInv, AuthTimesOut
  <1>6. SessionInv'
    BY DEF IInv, SessionInv, AuthTimesOut, DestroyConnection, Destroyed
  <1>7. SilenceInv'
    BY ConstantsAssumption DEF IInv, FlagsInv, SilenceInv, SilenceBounded, AuthTimesOut,
       DestroyConnection, Destroyed, client, timers, ghosts
  <1> QED  BY <1>1, <1>2, <1>3, <1>4, <1>5, <1>6, <1>7 DEF IInv

\* An authentication response (authHandler.handleAuthResponse).
LEMMA HandleAuthResponseIInv == IInv /\ HandleAuthResponse => IInv'
  <1> SUFFICES ASSUME IInv, HandleAuthResponse PROVE IInv'
    OBVIOUS
  <1>1. TypeOK'
    <2>1. responses' \in Seq(AuthResponses)
      BY HeadTailProperties DEF IInv, TypeOK, HandleAuthResponse
    <2>2. /\ authTimeout' \subseteq 0..ResponseTimeout
          /\ pongTimeout' \subseteq 0..ResponseTimeout
          /\ sessionCheck' \subseteq 0..SessionCheckInterval
      BY SetTimers, Zenon DEF IInv, TypeOK, HandleAuthResponse, AnswerChallenge,
         StartAuthTimeout, StartSessionCheck, SendSessionCheckRequest
    <2>3. stale' \in BOOLEAN /\ owed' \subseteq {"auth", "response", "ping"}
      BY Zenon DEF IInv, TypeOK, HandleAuthResponse, AnswerChallenge, StartAuthTimeout,
         StartSessionCheck, SendSessionCheckRequest, Owing
    <2>4. socket' \in {"closed", "connecting", "open", "destroyed"}
      BY Zenon DEF IInv, TypeOK, HandleAuthResponse, AnswerChallenge, StartSessionCheck,
         SendSessionCheckRequest, DestroyConnection, Destroyed
    <2> QED
      BY <2>1, <2>2, <2>3, <2>4, Zenon DEF IInv, TypeOK, HandleAuthResponse, client
  <1>2. FlagsInv'
    BY ConstantsAssumption DEF IInv, FlagsInv, HandleAuthResponse, AnswerChallenge,
       StartSessionCheck, SendSessionCheckRequest, Owing, CanSend, DestroyConnection,
       Destroyed, client, timers, ghosts
  <1>3. BootInv'
    BY ConstantsAssumption DEF IInv, BootInv, HandleAuthResponse
  <1>4. WaysInv'
    BY WaysStay DEF IInv, HandleAuthResponse, client
  <1>5. StaleInv'
    BY ConstantsAssumption DEF IInv, StaleInv, HandleAuthResponse, AnswerChallenge,
       StartAuthTimeout, StartSessionCheck, SendSessionCheckRequest, DestroyConnection,
       Destroyed
  <1>6. SessionInv'
    BY ConstantsAssumption DEF IInv, SessionInv, HandleAuthResponse, AnswerChallenge,
       StartAuthTimeout, StartSessionCheck, SendSessionCheckRequest, Owing, CanSend,
       DestroyConnection, Destroyed, client, timers, ghosts
  <1>7. SilenceInv'
    <2>1. silence = 0 /\ silence' = 0
      BY DEF IInv, SilenceInv, HandleAuthResponse
    <2>2. socket' = "open" => socket = "open" /\ isConnected
      BY DEF IInv, FlagsInv, HandleAuthResponse, AnswerChallenge, StartSessionCheck,
         SendSessionCheckRequest, DestroyConnection, Destroyed
    <2>3. /\ \A t \in authTimeout' : t <= ResponseTimeout
          /\ \A t \in pongTimeout' : t <= ResponseTimeout
          /\ \A t \in sessionCheck' : t <= SessionCheckInterval
      BY <1>1 DEF TypeOK
    <2>4. socket' = "open" => authTimeout' # {} \/ sessionCheck' # {}
      BY <2>2 DEF HandleAuthResponse, AnswerChallenge, StartAuthTimeout, StartSessionCheck,
         DestroyConnection, Destroyed
    <2> QED  BY <1>1, <2>1, <2>4, ConstantsAssumption DEF TypeOK, SilenceInv, SilenceBounded
  <1> QED  BY <1>1, <1>2, <1>3, <1>4, <1>5, <1>6, <1>7 DEF IInv

\* 'connect' (TCPClient.handleConnect).
LEMMA HandleConnectIInv == IInv /\ HandleConnect => IInv'
  <1> SUFFICES ASSUME IInv, HandleConnect PROVE IInv'
    OBVIOUS
  <1>1. TypeOK'
    BY ConstantsAssumption, SetTimers, Zenon DEF IInv, TypeOK, Chunk, HandleConnect, Event,
       StartAuthTimeout, client, timers, ghosts
  <1>2. FlagsInv'
    BY DEF FlagsInv, HandleConnect
  <1>3. BootInv'
    BY ConstantsAssumption DEF IInv, BootInv, HandleConnect, Event, StartAuthTimeout,
       client, timers, ghosts
  <1>4. WaysInv'
    <2>1. WaysBack' = WaysBack
      BY DEF IInv, FlagsInv, WaysBack, HandleConnect
    <2> QED  BY <2>1 DEF IInv, WaysInv, HandleConnect
  <1>5. StaleInv'
    BY ConstantsAssumption DEF IInv, StaleInv, HandleConnect, Event, StartAuthTimeout,
       client, timers, ghosts
  <1>6. SessionInv'
    BY DEF IInv, SessionInv, HandleConnect
  <1>7. SilenceInv'
    BY ConstantsAssumption DEF IInv, SessionInv, SilenceInv, SilenceBounded, HandleConnect,
       StartAuthTimeout, client, timers, ghosts
  <1> QED  BY <1>1, <1>2, <1>3, <1>4, <1>5, <1>6, <1>7 DEF IInv

\* 'close' (TCPClient.handleClose).
LEMMA HandleCloseIInv == IInv /\ HandleClose => IInv'
  <1> SUFFICES ASSUME IInv, HandleClose PROVE IInv'
    OBVIOUS
  <1>1. TypeOK'
    <2>1. reconnects' \in Seq(0..ReconnectInterval)
      <3>1. /\ reconnects \in Seq(0..ReconnectInterval)
            /\ ReconnectInterval \in 0..ReconnectInterval
        BY ConstantsAssumption DEF IInv, TypeOK
      <3>2. Append(reconnects, ReconnectInterval) \in Seq(0..ReconnectInterval)
        BY <3>1
      <3> QED  BY <3>1, <3>2, Zenon DEF HandleClose, ScheduleReconnect
    <2> QED
      BY <2>1, Zenon DEF IInv, TypeOK, HandleClose, StopSessionCheck
  <1>2. FlagsInv'
    BY ConstantsAssumption DEF FlagsInv, HandleClose, StopSessionCheck, ScheduleReconnect,
       client, timers, ghosts
  <1>3. BootInv'
    BY ConstantsAssumption DEF IInv, BootInv, HandleClose, client, timers, ghosts
  <1>4. WaysInv'
    <2>1. /\ Len(reconnects) \in Nat
          /\ Len(reconnects') = IF shouldReconnect THEN Len(reconnects) + 1 ELSE Len(reconnects)
      BY AppendProperties, LenProperties, ConstantsAssumption DEF IInv, FlagsInv,
         HandleClose, ScheduleReconnect
    <2>2. WaysBack = Len(reconnects) + 1
      BY WaysCounted DEF IInv, HandleClose
    <2>3. WaysBack' = Len(reconnects')
      BY DEF WaysBack, HandleClose
    <2> QED  BY <2>1, <2>2, <2>3 DEF IInv, WaysInv, HandleClose
  <1>5. StaleInv'
    <2>2. reconnects = <<>>
      BY WaysCounted DEF IInv, WaysInv, HandleClose
    <2>3. \A i \in DOMAIN reconnects' : reconnects'[i] = ReconnectInterval
      BY <2>2 DEF HandleClose, ScheduleReconnect
    <2> QED  BY <2>3, ConstantsAssumption DEF IInv, TypeOK, StaleInv, HandleClose
  <1>6. SessionInv'
    BY ConstantsAssumption DEF IInv, TypeOK, FlagsInv, SessionInv, HandleClose, Event,
       StopSessionCheck, ScheduleReconnect, client, timers, ghosts
  <1>7. SilenceInv'
    BY ConstantsAssumption DEF IInv, SilenceInv, SilenceBounded, HandleClose,
       StopSessionCheck, ScheduleReconnect, client, timers, ghosts
  <1> QED  BY <1>1, <1>2, <1>3, <1>4, <1>5, <1>6, <1>7 DEF IInv

\* 'data' (TCPClient.handleData).
LEMMA DataArrivesIInv == IInv /\ (\E chunk \in Chunks : DataArrives(chunk)) => IInv'
  <1> SUFFICES ASSUME IInv, \E chunk \in Chunks : DataArrives(chunk) PROVE IInv'
    OBVIOUS
  <1>1. TypeOK'
    <2> PICK chunk \in Chunks : DataArrives(chunk)
      OBVIOUS
    <2>1. responses' \in Seq(AuthResponses)
      BY ConstantsAssumption DEF Chunk, DataArrives
    <2> QED
      BY <2>1, Zenon DEF IInv, TypeOK, DataArrives, StopPongTimer, client
  <1>2. FlagsInv'
    BY ConstantsAssumption DEF IInv, FlagsInv, DataArrives, Only, Pong, client, timers,
       ghosts
  <1>3. BootInv'
    BY ConstantsAssumption DEF IInv, BootInv, DataArrives
  <1>4. WaysInv'
    BY WaysStay DEF IInv, DataArrives, client
  <1>5. StaleInv'
    BY ConstantsAssumption DEF IInv, StaleInv, DataArrives
  <1>6. SessionInv'
    BY ConstantsAssumption DEF IInv, TypeOK, FlagsInv, SessionInv, DataArrives, Event,
       StopPongTimer, Only, Pong, client, timers, ghosts
  <1>7. SilenceInv'
    <2> PICK chunk \in Chunks : DataArrives(chunk)
      OBVIOUS
    <2>1. /\ silence' = 0
          /\ socket = "open"
          /\ UNCHANGED <<socket, sessionCheck>>
          /\ responses = <<>>
      BY DEF DataArrives, Event
    <2>2. /\ \A t \in authTimeout' : t <= ResponseTimeout
          /\ \A t \in pongTimeout' : t <= ResponseTimeout
          /\ \A t \in sessionCheck' : t <= SessionCheckInterval
      BY <1>1, ConstantsAssumption DEF TypeOK
    <2>3. responses' = <<>> => authTimeout' # {} \/ sessionCheck' # {}
      BY <2>1 DEF IInv, SilenceInv, DataArrives
    <2> QED  BY <1>1, <2>1, <2>2, <2>3, ConstantsAssumption DEF TypeOK, SilenceInv,
                SilenceBounded
  <1> QED  BY <1>1, <1>2, <1>3, <1>4, <1>5, <1>6, <1>7 DEF IInv

\* A connection that is refused, reset or closed.
LEMMA ConnectionLostIInv == IInv /\ ConnectionLost => IInv'
  <1> SUFFICES ASSUME IInv, ConnectionLost PROVE IInv'
    OBVIOUS
  <1>1. TypeOK'
    BY ConstantsAssumption, SetTimers, Zenon DEF IInv, TypeOK, Chunk, ConnectionLost, Event,
       client, timers, ghosts
  <1>2. FlagsInv'
    BY DEF IInv, FlagsInv, ConnectionLost, client
  <1>3. BootInv'
    BY DEF IInv, BootInv, ConnectionLost
  <1>4. WaysInv'
    BY WaysStay DEF IInv, ConnectionLost, client, timers, ghosts
  <1>5. StaleInv'
    BY ConstantsAssumption DEF IInv, StaleInv, ConnectionLost, ghosts
  <1>6. SessionInv'
    BY DEF IInv, SessionInv, ConnectionLost, timers
  <1>7. SilenceInv'
    BY ConstantsAssumption DEF IInv, SilenceInv, SilenceBounded, ConnectionLost, client,
       timers, ghosts
  <1> QED  BY <1>1, <1>2, <1>3, <1>4, <1>5, <1>6, <1>7 DEF IInv

\* The reconnect timer (TCPClient.connect).
LEMMA ReconnectFiresIInv == IInv /\ (\E i \in DOMAIN reconnects : ReconnectFires(i)) => IInv'
  <1> SUFFICES ASSUME IInv, \E i \in DOMAIN reconnects : ReconnectFires(i) PROVE IInv'
    OBVIOUS
  <1>1. TypeOK'
    <2> PICK i \in DOMAIN reconnects : ReconnectFires(i)
      OBVIOUS
    <2>1. reconnects' \in Seq(0..ReconnectInterval)
      BY TimerTakenOut DEF IInv, TypeOK, ReconnectFires
    <2> QED
      BY <2>1, Zenon DEF IInv, TypeOK, ReconnectFires, Connect, client
  <1>2. FlagsInv'
    BY ConstantsAssumption DEF IInv, FlagsInv, ReconnectFires, Connect, client, timers,
       ghosts
  <1>3. BootInv'
    BY ConstantsAssumption DEF IInv, TypeOK, FlagsInv, BootInv, ReconnectFires, Event,
       Connect, client, timers, ghosts
  <1>4. WaysInv'
    <2> PICK i \in DOMAIN reconnects : ReconnectFires(i)
      OBVIOUS
    <2>1. /\ Len(reconnects) \in Nat
          /\ Len(reconnects) > 0
          /\ Len(reconnects') = Len(reconnects) - 1
      <3>1. DOMAIN reconnects = 1..Len(reconnects) /\ Len(reconnects) \in Nat
        BY LenProperties DEF IInv, TypeOK
      <3>2. Len(reconnects') = Len(reconnects) - 1
        BY TimerTakenOut DEF IInv, TypeOK, ReconnectFires
      <3> QED  BY <3>2
    <2>2. ~isConnecting /\ ~isConnected /\ Len(reconnects) = 1 /\ ~thrown
      BY <2>1, WaysCounted DEF IInv, WaysInv
    <2>3. /\ isConnected' = isConnected
          /\ \/ isConnecting' = TRUE /\ thrown' = thrown
             \/ isConnecting' = isConnecting /\ thrown' = TRUE
          /\ shouldReconnect' = TRUE
      BY <2>2, Zenon DEF ReconnectFires, Connect
    <2>4. CASE isConnecting' = TRUE /\ thrown' = thrown
      BY <2>1, <2>2, <2>3, <2>4 DEF WaysInv, WaysBack
    <2>5. CASE isConnecting' = isConnecting /\ thrown' = TRUE
      BY <2>1, <2>2, <2>3, <2>5 DEF WaysInv, WaysBack
    <2> QED  BY <2>3, <2>4, <2>5
  <1>5. StaleInv'
    <2> PICK i \in DOMAIN reconnects : ReconnectFires(i)
      OBVIOUS
    <2>1. ~stale
      <3>1. \A t \in authTimeout : t \in Nat
        BY DEF IInv, TypeOK
      <3> QED  BY <3>1 DEF IInv, StaleInv, ReconnectFires
    <2> QED  BY <2>1 DEF StaleInv, ReconnectFires
  <1>6. SessionInv'
    BY ConstantsAssumption DEF IInv, FlagsInv, SessionInv, ReconnectFires, Event, Connect,
       client, timers, ghosts
  <1>7. SilenceInv'
    BY ConstantsAssumption DEF IInv, SilenceInv, SilenceBounded, ReconnectFires, Connect,
       client, timers, ghosts
  <1> QED  BY <1>1, <1>2, <1>3, <1>4, <1>5, <1>6, <1>7 DEF IInv

\* The start of the process (startServer).
LEMMA BootIInv == IInv /\ Boot => IInv'
  <1> SUFFICES ASSUME IInv, Boot PROVE IInv'
    OBVIOUS
  <1>1. TypeOK'
    BY ConstantsAssumption, SetTimers, Zenon DEF IInv, TypeOK, Chunk, Boot, Connect, client,
       timers, ghosts
  <1>2. FlagsInv'
    BY DEF IInv, FlagsInv, Boot, Connect, client
  <1>3. BootInv'
    BY ConstantsAssumption DEF BootInv, Boot, Connect, client, timers, ghosts
  <1>4. WaysInv'
    <2>1. ~isConnecting /\ ~isConnected /\ reconnects = <<>> /\ ~thrown
      BY WaysCounted DEF IInv, BootInv, Boot
    <2>2. /\ isConnected' = isConnected /\ reconnects' = reconnects
          /\ \/ isConnecting' = TRUE /\ thrown' = thrown
             \/ isConnecting' = isConnecting /\ thrown' = TRUE
          /\ shouldReconnect' = TRUE
      BY <2>1, Zenon DEF Boot, Connect, timers
    <2>3. CASE isConnecting' = TRUE /\ thrown' = thrown
      BY <2>1, <2>2 DEF WaysInv, WaysBack
    <2>4. CASE isConnecting' = isConnecting /\ thrown' = TRUE
      BY <2>1, <2>2, <2>4 DEF WaysInv, WaysBack
    <2> QED  BY <2>2, <2>3, <2>4
  <1>5. StaleInv'
    BY ConstantsAssumption DEF IInv, BootInv, StaleInv, Boot, Connect, client, timers,
       ghosts
  <1>6. SessionInv'
    BY DEF IInv, FlagsInv, SessionInv, Boot, Connect, timers
  <1>7. SilenceInv'
    BY ConstantsAssumption DEF IInv, SilenceInv, SilenceBounded, Boot, Connect, client,
       timers, ghosts
  <1> QED  BY <1>1, <1>2, <1>3, <1>4, <1>5, <1>6, <1>7 DEF IInv

\* The shutdown (TCPClient.disconnect).
LEMMA DisconnectIInv == IInv /\ Disconnect => IInv'
  <1> SUFFICES ASSUME IInv, Disconnect PROVE IInv'
    OBVIOUS
  <1>1. TypeOK'
    BY ConstantsAssumption, SetTimers, Zenon DEF IInv, TypeOK, Chunk, Disconnect, Event,
       client, timers, ghosts
  <1>2. FlagsInv'
    BY DEF IInv, FlagsInv, Disconnect
  <1>3. BootInv'
    BY DEF BootInv, Disconnect
  <1>4. WaysInv'
    BY WaysStay DEF IInv, Disconnect, ghosts
  <1>5. StaleInv'
    BY ConstantsAssumption DEF IInv, StaleInv, Disconnect, ghosts
  <1>6. SessionInv'
    BY DEF IInv, SessionInv, Disconnect
  <1>7. SilenceInv'
    BY ConstantsAssumption DEF IInv, SilenceInv, SilenceBounded, Disconnect, client, timers,
       ghosts
  <1> QED  BY <1>1, <1>2, <1>3, <1>4, <1>5, <1>6, <1>7 DEF IInv

\* The callback of end().
LEMMA EndCallbackIInv == IInv /\ EndCallback => IInv'
  <1> SUFFICES ASSUME IInv, EndCallback PROVE IInv'
    OBVIOUS
  <1>1. TypeOK'
    BY ConstantsAssumption, SetTimers, Zenon DEF IInv, TypeOK, Chunk, EndCallback, Event,
       client, timers, ghosts
  <1>2. FlagsInv'
    BY DEF IInv, FlagsInv, EndCallback, client
  <1>3. BootInv'
    BY DEF BootInv, EndCallback
  <1>4. WaysInv'
    BY WaysStay DEF IInv, EndCallback, client, timers, ghosts
  <1>5. StaleInv'
    BY ConstantsAssumption DEF IInv, StaleInv, EndCallback, timers, ghosts
  <1>6. SessionInv'
    BY DEF IInv, SessionInv, EndCallback, timers
  <1>7. SilenceInv'
    BY ConstantsAssumption DEF IInv, SilenceInv, SilenceBounded, EndCallback, client,
       timers, ghosts
  <1> QED  BY <1>1, <1>2, <1>3, <1>4, <1>5, <1>6, <1>7 DEF IInv

\* The 5 s that disconnect() waits.
LEMMA EndTimesOutIInv == IInv /\ EndTimesOut => IInv'
  <1> SUFFICES ASSUME IInv, EndTimesOut PROVE IInv'
    OBVIOUS
  <1>1. TypeOK'
    BY ConstantsAssumption, SetTimers, Zenon DEF IInv, TypeOK, Chunk, EndTimesOut, Event,
       client, timers, ghosts
  <1>2. FlagsInv'
    BY DEF IInv, FlagsInv, EndTimesOut, client
  <1>3. BootInv'
    BY DEF IInv, BootInv, EndTimesOut, ghosts
  <1>4. WaysInv'
    BY WaysStay DEF IInv, EndTimesOut, client, ghosts
  <1>5. StaleInv'
    BY ConstantsAssumption DEF IInv, StaleInv, EndTimesOut, ghosts
  <1>6. SessionInv'
    BY DEF IInv, SessionInv, EndTimesOut
  <1>7. SilenceInv'
    BY ConstantsAssumption DEF IInv, SilenceInv, SilenceBounded, EndTimesOut, client,
       timers, ghosts
  <1> QED  BY <1>1, <1>2, <1>3, <1>4, <1>5, <1>6, <1>7 DEF IInv

\* A new process.
LEMMA RestartIInv == IInv /\ Restart => IInv'
  <1> SUFFICES ASSUME IInv, Restart PROVE IInv'
    OBVIOUS
  <1>1. TypeOK'
    <2>1. responses' \in Seq(AuthResponses) /\ reconnects' \in Seq(0..ReconnectInterval)
      BY EmptySeq DEF Restart
    <2> QED
      BY <2>1, Zenon DEF IInv, TypeOK, Restart
  <1>2. FlagsInv'
    BY ConstantsAssumption DEF FlagsInv, Restart, client, timers, ghosts
  <1>3. BootInv'
    BY ConstantsAssumption DEF FlagsInv, BootInv, Restart, client, timers, ghosts
  <1>4. WaysInv'
    <2>1. WaysBack' = 0
      BY DEF WaysBack, Restart
    <2> QED  BY <2>1 DEF WaysInv, Restart
  <1>5. StaleInv'
    BY ConstantsAssumption DEF BootInv, StaleInv, Restart, client, timers, ghosts
  <1>6. SessionInv'
    BY DEF SessionInv, Restart
  <1>7. SilenceInv'
    BY ConstantsAssumption DEF SilenceInv, SilenceBounded, Restart, timers, ghosts
  <1> QED  BY <1>1, <1>2, <1>3, <1>4, <1>5, <1>6, <1>7 DEF IInv

\* The end of faults.
LEMMA BecomeCalmIInv == IInv /\ BecomeCalm => IInv'
  <1> SUFFICES ASSUME IInv, BecomeCalm PROVE IInv'
    OBVIOUS
  <1>1. TypeOK'
    BY ConstantsAssumption, SetTimers, Zenon DEF IInv, TypeOK, Chunk, BecomeCalm, client,
       timers, ghosts
  <1>2. FlagsInv'
    BY DEF IInv, FlagsInv, BecomeCalm, client
  <1>3. BootInv'
    BY ConstantsAssumption DEF IInv, BootInv, BecomeCalm, timers, ghosts
  <1>4. WaysInv'
    BY WaysStay DEF IInv, BecomeCalm, client, timers, ghosts
  <1>5. StaleInv'
    BY ConstantsAssumption DEF IInv, StaleInv, BecomeCalm, client, timers, ghosts
  <1>6. SessionInv'
    BY DEF IInv, SessionInv, BecomeCalm, timers
  <1>7. SilenceInv'
    BY ConstantsAssumption DEF IInv, SilenceInv, SilenceBounded, BecomeCalm, timers, ghosts
  <1> QED  BY <1>1, <1>2, <1>3, <1>4, <1>5, <1>6, <1>7 DEF IInv

\* Time passes.
LEMMA TickIInv == IInv /\ Tick => IInv'
  <1> SUFFICES ASSUME IInv, Tick PROVE IInv'
    OBVIOUS
  <1>1. TypeOK'
    <2>1. /\ authTimeout' \in SUBSET (0..ResponseTimeout)
          /\ pongTimeout' \in SUBSET (0..ResponseTimeout)
          /\ sessionCheck' \in SUBSET (0..SessionCheckInterval)
          /\ endTimers' \in SUBSET (0..EndTimeout)
      BY LaterTimers, ConstantsAssumption DEF IInv, TypeOK, Tick, NothingDue
    <2>2. reconnects' \in Seq(0..ReconnectInterval)
      <3>1. /\ reconnects \in Seq(0..ReconnectInterval)
            /\ \A i \in DOMAIN reconnects : reconnects[i] # 0
        BY DEF IInv, TypeOK, Tick, NothingDue
      <3>2. [i \in DOMAIN reconnects |-> reconnects[i] - 1] \in Seq(0..ReconnectInterval)
        BY <3>1, ConstantsAssumption
      <3> QED  BY <3>2 DEF Tick
    <2>3. silence' \in Nat
      BY DEF IInv, TypeOK, Tick
    <2> QED
      BY <2>1, <2>2, <2>3, Zenon DEF IInv, TypeOK, Tick, client
  <1>2. FlagsInv'
    BY ConstantsAssumption DEF IInv, FlagsInv, Tick, client, timers, ghosts
  <1>3. BootInv'
    BY ConstantsAssumption DEF BootInv, Tick, NothingDue, Event, Later, client, timers,
       ghosts
  <1>4. WaysInv'
    <2>1. Len(reconnects') = Len(reconnects)
      BY ReconnectsLater, ConstantsAssumption DEF Tick
    <2>2. WaysBack' = WaysBack
      BY <2>1 DEF WaysBack, Tick, client
    <2> QED  BY <2>2 DEF IInv, WaysInv, Tick, client
  <1>5. StaleInv'
    <2>1. /\ \A t \in authTimeout' : t + 1 \in authTimeout /\ t \in Nat
          /\ authTimeout # {} => authTimeout' # {}
      BY LaterTimers, ConstantsAssumption DEF IInv, TypeOK, Tick, NothingDue
    <2>2. /\ DOMAIN reconnects' = DOMAIN reconnects
          /\ \A i \in DOMAIN reconnects : reconnects[i] \in Nat /\ reconnects'[i] = reconnects[i] - 1
      <3>1. /\ reconnects \in Seq(0..ReconnectInterval)
            /\ \A i \in DOMAIN reconnects : reconnects[i] # 0
        BY DEF IInv, TypeOK, Tick, NothingDue
      <3>2. reconnects' = [i \in DOMAIN reconnects |-> reconnects[i] - 1]
        BY DEF Tick
      <3> QED  BY <3>1, <3>2, ReconnectsLater, ConstantsAssumption
    <2>3. UNCHANGED <<stale, socket>>
      BY DEF Tick
    <2> QED  BY <2>1, <2>2, <2>3 DEF IInv, StaleInv
  <1>6. SessionInv'
    BY ConstantsAssumption DEF IInv, TypeOK, SessionInv, Tick, NothingDue, Event, Later,
       client, timers, ghosts
  <1>7. SilenceInv'
    <2>1. CASE socket = "open"
      <3>1. /\ silence' = silence + 1 /\ silence \in Nat /\ UNCHANGED <<socket, responses>>
            /\ responses = <<>>
        BY <2>1 DEF IInv, TypeOK, Tick, NothingDue, Event
      <3>2. /\ \A t \in authTimeout' : t + 1 \in authTimeout /\ t \in Nat
            /\ authTimeout # {} => authTimeout' # {}
        BY LaterTimers, ConstantsAssumption DEF IInv, TypeOK, Tick, NothingDue
      <3>3. /\ \A t \in pongTimeout' : t + 1 \in pongTimeout /\ t \in Nat
            /\ pongTimeout # {} => pongTimeout' # {}
        BY LaterTimers, ConstantsAssumption DEF IInv, TypeOK, Tick, NothingDue
      <3>4. /\ \A t \in sessionCheck' : t + 1 \in sessionCheck /\ t \in Nat
            /\ sessionCheck # {} => sessionCheck' # {}
        BY LaterTimers, ConstantsAssumption DEF IInv, TypeOK, Tick, NothingDue
      <3>5. /\ \A t \in authTimeout' : silence' + t <= ResponseTimeout
            /\ \A t \in pongTimeout' : silence' + t <= SessionCheckInterval + ResponseTimeout
            /\ pongTimeout' # {} \/ \A t \in sessionCheck' : silence' + t <= SessionCheckInterval
            /\ authTimeout' # {} \/ sessionCheck' # {}
        <4>1. \A t \in authTimeout' : silence' + t <= ResponseTimeout
          BY <2>1, <3>1, <3>2, ConstantsAssumption DEF IInv, SilenceInv
        <4>2. \A t \in pongTimeout' : silence' + t <= SessionCheckInterval + ResponseTimeout
          BY <2>1, <3>1, <3>3 DEF IInv, SilenceInv
        <4>3. pongTimeout' # {} \/ \A t \in sessionCheck' : silence' + t <= SessionCheckInterval
          BY <2>1, <3>1, <3>3, <3>4, ConstantsAssumption DEF IInv, SilenceInv
        <4> QED  BY <2>1, <3>1, <3>2, <3>4, <4>1, <4>2, <4>3 DEF IInv, SilenceInv
      <3>6. silence' <= SessionCheckInterval + ResponseTimeout
        BY <3>1, <3>2, <3>3, <3>4, <3>5, ConstantsAssumption
      <3> QED  BY <3>1, <3>5, <3>6 DEF SilenceInv, SilenceBounded
    <2>2. CASE socket # "open"
      BY <2>2, ConstantsAssumption DEF Tick, SilenceInv, SilenceBounded, NothingDue, Event
    <2> QED  BY <2>1, <2>2
  <1> QED  BY <1>1, <1>2, <1>3, <1>4, <1>5, <1>6, <1>7 DEF IInv

-----------------------------------------------------------------------------
(* The specification.                                                       *)

\* A new process has no connection, no timer and nothing behind it (startServer).
THEOREM InitIInv == Init => IInv
  <1> SUFFICES ASSUME Init PROVE IInv
    OBVIOUS
  <1>1. TypeOK
    <2>1. /\ responses \in Seq(AuthResponses)
          /\ reconnects \in Seq(0..ReconnectInterval)
          /\ silence \in Nat
      BY EmptySeq DEF Init
    <2> QED  BY <2>1, Zenon DEF Init, TypeOK
  <1>2. WaysBack = 0
    BY DEF Init, WaysBack
  <1> QED
    BY <1>1, <1>2, ConstantsAssumption DEF Init, IInv, FlagsInv, BootInv, WaysInv, StaleInv,
       SessionInv, SilenceInv, SilenceBounded

\* Every step of a timer, the socket or the process keeps the invariant.
THEOREM NextIInv == IInv /\ [Next]_vars => IInv'
  <1> SUFFICES ASSUME IInv, [Next]_vars PROVE IInv'
    OBVIOUS
  <1>1. CASE Timers
    BY <1>1, SessionCheckFiresIInv, PongTimesOutIInv, AuthTimesOutIInv, EndTimesOutIInv,
       ReconnectFiresIInv DEF Timers
  <1>2. CASE UNCHANGED vars
    <2>1. UNCHANGED WaysBack
      BY <1>2 DEF WaysBack, vars, client, timers
    <2> QED
      BY <1>2, <2>1 DEF IInv, TypeOK, FlagsInv, BootInv, WaysInv, StaleInv, SessionInv,
         SilenceInv, SilenceBounded, vars, client, timers, ghosts
  <1> QED
    BY <1>1, <1>2, HandleAuthResponseIInv, HandleConnectIInv, HandleCloseIInv,
       DataArrivesIInv, ConnectionLostIInv, BootIInv, DisconnectIInv, EndCallbackIInv,
       RestartIInv, BecomeCalmIInv, TickIInv DEF Next

\* The invariant holds in every state of the session.
THEOREM SpecIInv == Spec => []IInv
  <1> QED  BY InitIInv, NextIInv, PTL DEF Spec

\* No timer, event or shutdown leaves the client or its timers out of shape.
THEOREM TypeCorrect == Spec => []TypeOK
  <1>1. IInv => TypeOK
    BY DEF IInv
  <1> QED  BY <1>1, SpecIInv, PTL

\* The authentication timer of a closed connection never goes off while a later one
\* is registered (authHandler._startAuthTimeout, TCPClient.handleClose): whatever
\* the intervals are, as long as a response times out sooner than the client
\* reconnects.
THEOREM TimersStayWithTheirConnection == Spec => []NoStaleTimer
  <1>1. IInv => NoStaleTimer
    BY DEF IInv, FlagsInv, StaleInv, NoStaleTimer
  <1> QED  BY <1>1, SpecIInv, PTL

\* A client that was not told to stop has at most one attempt, connection or reconnect
\* timer, and has one unless net.connect threw (TCPClient.connect, handleClose).
THEOREM OneWay == Spec => []OneWayBack
  <1>1. IInv => OneWayBack
    BY DEF IInv, WaysInv, OneWayBack
  <1> QED  BY <1>1, SpecIInv, PTL

\* A silent central system is given up within a session check and a response timeout,
\* whatever chunks it sent before (sessionHandler, authHandler).
THEOREM SilenceEnds == Spec => []SilenceBounded
  <1>1. IInv => SilenceBounded
    BY DEF IInv, SilenceInv
  <1> QED  BY <1>1, SpecIInv, PTL

-----------------------------------------------------------------------------
(* The parser.                                                              *)

\* Where in the stream the parser stands.
Position == got - Len(buffer)

\* The stream is its frames, one after the other.
Layout ==
    /\ Len(ends) = Len(frames)
    /\ Len(wire) = EndOf(Len(frames))
    /\ \A i \in 1..Len(frames) :
        /\ EndOf(i) = EndOf(i - 1) + HeaderLength + Len(frames[i].body)
        /\ wire[EndOf(i - 1) + 1] = frames[i].magic
        /\ wire[EndOf(i - 1) + 2] = frames[i].length
        /\ \A j \in 1..Len(frames[i].body) :
              wire[EndOf(i - 1) + HeaderLength + j] = frames[i].body[j]
    /\ \A i, j \in 0..Len(frames) : i < j => EndOf(i) + HeaderLength <= EndOf(j)

\* The buffer is a window on it.
Window ==
    /\ got <= Len(wire) /\ Len(buffer) <= got
    /\ \A j \in 1..Len(buffer) : buffer[j] = wire[Position + j]

HeaderNext == parsingState = "HEADER" => neededLength = HeaderLength

\* The parser has consumed c frames, and the header of the next one when it is
\* waiting for its body.
At(c) ==
    \/ /\ parsingState = "HEADER"
       /\ neededLength = HeaderLength
       /\ Position = EndOf(c)
    \/ /\ parsingState = "BODY"
       /\ c < Len(frames) /\ Good(c + 1)
       /\ neededLength = Len(frames[c + 1].body)
       /\ Position = EndOf(c) + HeaderLength

\* The first b frames are messages and were emitted.
Whole(b) ==
    /\ b <= Len(emitted)
    /\ \A i \in 1..b : Good(i) /\ emitted[i] = frames[i].body

InStep ==
    ~errors => Len(emitted) <= Len(frames) /\ At(Len(emitted)) /\ Whole(Len(emitted))

FirstError ==
    errors => \E b \in 0..Len(frames) - 1 :
                /\ Whole(b)
                /\ ~Good(b + 1)
                /\ EndOf(b) + HeaderLength <= got

\* Of an aligned stream a frames have come out of the socket, the parser is at the
\* c-th, and the frames up to the t-th are still to be emitted.
Behind(c, t, a) ==
    /\ c <= t /\ t <= a
    /\ got = EndOf(a)
    /\ \A i \in c + 1..t : Good(i)
    /\ t < a => ~Good(t + 1)

Promised(c, t) ==
    /\ Len(expected) = Len(emitted) + (t - c)
    /\ \A i \in 1..Len(emitted) : expected[i] = emitted[i]
    /\ \A j \in 1..t - c : expected[Len(emitted) + j] = frames[c + j].body

Realigned ==
    aligned => \E c, t, a \in 0..Len(frames) :
                /\ At(c) /\ Behind(c, t, a) /\ Promised(c, t)
                /\ parsingState = "BODY" => c < a

ParserIInv ==
    /\ ParserTypeOK /\ Layout
    /\ HeaderNext /\ Window /\ InStep /\ FirstError /\ Realigned

-----------------------------------------------------------------------------
(* Naturals and frames.                                                     *)

\* A bounded set of naturals has a least element.
LEMMA Least ==
    ASSUME NEW a \in Nat, NEW T, T \subseteq 0..a, T # {}
    PROVE  \E n \in T : \A m \in T : n <= m
<1> DEFINE Below == {0..m : m \in T}
<1>1. IsFiniteSet(0..a)
  BY FS_Interval
<1>2. IsWellFoundedOn(StrictSubsetOrdering(0..a), SUBSET (0..a))
  BY <1>1, FS_StrictSubsetOrderingWellFounded, FS_FiniteSubsetsOfFinite
<1>3. Below \subseteq SUBSET (0..a) /\ Below # {}
  <2>1. ASSUME NEW m \in T
        PROVE  0..m \in SUBSET (0..a)
    OBVIOUS
  <2> QED
    BY <2>1
<1> HIDE DEF Below
<1>4. PICK B \in Below : \A C \in Below : ~ (<<C, B>> \in StrictSubsetOrdering(0..a))
  BY <1>2, <1>3, WFMin, Zenon
<1>5. PICK n \in T : B = 0..n
  BY DEF Below
<1>6. ASSUME NEW m \in T, m < n
      PROVE  FALSE
  <2>1. 0..m \in Below
    BY DEF Below
  <2>2. 0..m \subseteq 0..n /\ 0..m # 0..n
    <3>1. 0..m \subseteq 0..n
      BY <1>6
    <3>2. n \in 0..n /\ n \notin 0..m
      BY <1>6
    <3> QED
      BY <3>1, <3>2
  <2>3. <<0..m, 0..n>> \in StrictSubsetOrdering(0..a)
    BY <2>1, <2>2, <1>3 DEF StrictSubsetOrdering
  <2> QED
    BY <2>1, <2>3, <1>4, <1>5
<1> QED
  BY <1>6

\* The cells of a frame: its header, then its body.
LEMMA EncodingCells ==
    ASSUME NEW f \in Frame
    PROVE  /\ Encoding(f) \in Seq(Nat)
           /\ Len(Encoding(f)) = HeaderLength + Len(f.body)
           /\ Encoding(f)[1] = f.magic /\ Encoding(f)[2] = f.length
           /\ \A j \in 1..Len(f.body) : Encoding(f)[HeaderLength + j] = f.body[j]
           /\ Len(f.body) \in Nat
<1>1. f.magic \in Nat /\ f.length \in Nat /\ f.body \in Seq(Nat)
  BY DEF Frame
<1> DEFINE h == <<f.magic, f.length>>
<1>2. /\ h \in Seq(Nat)
      /\ Len(h) = 2
      /\ h[1] = f.magic
      /\ h[2] = f.length
  BY <1>1
<1>3. Len(f.body) \in Nat
  BY <1>1, LenProperties
<1> HIDE DEF h
<1>4. /\ h \o f.body \in Seq(Nat)
      /\ Len(h \o f.body) = 2 + Len(f.body)
      /\ \A i \in 1..2 + Len(f.body) :
            (h \o f.body)[i] = IF i <= 2 THEN h[i] ELSE f.body[i - 2]
  <2>1. /\ h \o f.body \in Seq(Nat)
        /\ Len(h \o f.body) = Len(h) + Len(f.body)
        /\ \A i \in 1..Len(h) + Len(f.body) :
              (h \o f.body)[i] = IF i <= Len(h) THEN h[i] ELSE f.body[i - Len(h)]
    <3>1. f.body \in Seq(Nat) /\ h \in Seq(Nat)
      BY <1>1, <1>2
    <3> QED
      BY <3>1, ConcatProperties, Zenon
  <2> QED
    BY <2>1, <1>2
<1>5. Encoding(f) = h \o f.body
  BY DEF Encoding, h
<1>6. /\ (h \o f.body)[1] = f.magic
      /\ (h \o f.body)[2] = f.length
  <2>1. 1 \in 1..2 + Len(f.body) /\ 2 \in 1..2 + Len(f.body)
    BY <1>3
  <2> QED
    BY <2>1, <1>2, <1>4
<1>7. ASSUME NEW j \in 1..Len(f.body)
      PROVE  (h \o f.body)[2 + j] = f.body[j]
  <2>1. 2 + j \in 1..2 + Len(f.body) /\ ~(2 + j <= 2) /\ (2 + j) - 2 = j
    BY <1>3
  <2> QED
    BY <2>1, <1>4
<1> QED
  BY <1>3, <1>4, <1>5, <1>6, <1>7 DEF HeaderLength

\* What the types say of the frames.
LEMMA FrameTypes ==
    ASSUME ParserTypeOK, NEW i \in 1..Len(frames)
    PROVE  /\ frames[i] \in Frame
           /\ frames[i].magic \in Nat /\ frames[i].length \in Nat
           /\ frames[i].body \in Seq(Nat) /\ Len(frames[i].body) \in Nat
           /\ Good(i) => frames[i].length = Len(frames[i].body)
<1>1. frames \in Seq(Frames)
  BY DEF ParserTypeOK
<1>2. frames[i] \in Frames
  BY <1>1, ElementOfSeq
<1>3. /\ frames[i] \in Frame
      /\ (IsMessage(frames[i]) => frames[i].length = Len(frames[i].body))
  BY <1>2, ParserAssumption
<1>4. frames[i].body \in Seq(Nat) /\ frames[i].magic \in Nat /\ frames[i].length \in Nat
  BY <1>3 DEF Frame
<1> QED
  BY <1>3, <1>4, LenProperties DEF Good

\* What they say of the lengths and the ends.
LEMMA Lengths ==
    ASSUME ParserTypeOK
    PROVE  /\ Len(frames) \in Nat /\ Len(ends) \in Nat /\ Len(wire) \in Nat
           /\ Len(buffer) \in Nat /\ Len(emitted) \in Nat /\ Len(expected) \in Nat
           /\ got \in Nat /\ neededLength \in Nat /\ MaxBody \in Nat
           /\ Len(ends) = Len(frames) => \A i \in 0..Len(frames) : EndOf(i) \in Nat
<1>1. /\ frames \in Seq(Frames)
      /\ ends \in Seq(Nat)
      /\ wire \in Seq(Nat)
      /\ buffer \in Seq(Nat)
      /\ emitted \in Seq(Seq(Nat))
      /\ expected \in Seq(Seq(Nat))
  BY DEF ParserTypeOK
<1>2. /\ Len(frames) \in Nat
      /\ Len(ends) \in Nat
      /\ Len(wire) \in Nat
      /\ Len(buffer) \in Nat
      /\ Len(emitted) \in Nat
      /\ Len(expected) \in Nat
  BY <1>1, LenProperties
<1>3. got \in Nat /\ neededLength \in Nat /\ MaxBody \in Nat
  BY ParserAssumption DEF ParserTypeOK, HeaderLength
<1>4. ASSUME Len(ends) = Len(frames), NEW i \in 0..Len(frames)
      PROVE  EndOf(i) \in Nat
  <2>1. CASE i = 0
    BY <2>1 DEF EndOf
  <2>2. CASE i # 0
    <3>1. i \in 1..Len(ends)
      BY <1>4, <2>2, <1>2
    <3> QED
      BY <3>1, <2>2, <1>1, ElementOfSeq DEF EndOf
  <2> QED
    BY <2>1, <2>2
<1> QED
  BY <1>2, <1>3, <1>4

-----------------------------------------------------------------------------
(* The steps of the stream.                                                 *)

\* The stream may grow without the parser noticing.
LEMMA StillAt ==
    ASSUME NEW c \in 0..Len(frames), Len(frames) \in Nat, At(c),
           UNCHANGED <<parsingState, neededLength>>, Position' = Position,
           Len(frames') \in Nat, Len(frames) <= Len(frames'),
           \A i \in 1..Len(frames) : frames'[i] = frames[i],
           \A i \in 0..Len(frames) : EndOf(i)' = EndOf(i)
    PROVE  At(c)'
<1>1. CASE parsingState = "HEADER"
  BY <1>1 DEF At
<1>2. CASE parsingState = "BODY"
  <2>1. c < Len(frames) /\ Good(c + 1) /\ neededLength = Len(frames[c + 1].body)
    BY <1>2 DEF At
  <2>2. c + 1 \in 1..Len(frames)
    BY <2>1
  <2>3. frames'[c + 1] = frames[c + 1]
    BY <2>2
  <2>4. c < Len(frames') /\ Good(c + 1)'
    BY <2>1, <2>3 DEF Good
  <2> QED
    BY <1>2, <2>1, <2>3, <2>4 DEF At
<1> QED
  BY <1>1, <1>2 DEF At

\* A new connection has received nothing (_resetParserState).
LEMMA InitParserIInv == ParserInit => ParserIInv
<1> SUFFICES ASSUME ParserInit PROVE ParserIInv
  OBVIOUS
<1>1. ParserTypeOK
  <2>1. <<>> \in Seq(Nat) /\ <<>> \in Seq(Seq(Nat)) /\ <<>> \in Seq(Frames)
    BY EmptySeq
  <2> QED
    BY <2>1 DEF ParserInit, ParserTypeOK
<1>2. Len(frames) = 0 /\ Len(buffer) = 0 /\ Len(emitted) = 0 /\ Len(expected) = 0
  BY EmptySeq DEF ParserInit
<1>3. EndOf(0) = 0 /\ Position = 0
  <2>1. EndOf(0) = 0
    BY DEF EndOf
  <2>2. Position = 0
    <3>1. got = 0
      BY DEF ParserInit
    <3> QED
      BY <3>1, <1>2 DEF Position
  <2> QED
    BY <2>1, <2>2
<1>4. Layout /\ Window
  BY <1>2, <1>3, EmptySeq DEF ParserInit, Layout, Window
<1>5. At(0)
  BY <1>3 DEF ParserInit, At
<1>6. InStep /\ FirstError
  BY <1>2, <1>5 DEF ParserInit, InStep, FirstError, Whole
<1>7. Behind(0, 0, 0) /\ Promised(0, 0) /\ parsingState = "HEADER"
  BY <1>2, <1>3 DEF ParserInit, Behind, Promised
<1>9. HeaderNext
  BY DEF ParserInit, HeaderNext
<1>8. Realigned
  BY <1>2, <1>5, <1>7 DEF Realigned
<1> QED
  BY <1>1, <1>4, <1>6, <1>8, <1>9 DEF ParserIInv

\* A new connection starts like the first one.
LEMMA ReconnectParserIInv == ParserIInv /\ Reconnect => ParserIInv'
<1> SUFFICES ASSUME ParserIInv, Reconnect PROVE ParserIInv'
  OBVIOUS
<1>0. /\ buffer' = <<>> /\ header' = 0 /\ neededLength' = HeaderLength
      /\ parsingState' = "HEADER"
      /\ frames' = <<>> /\ wire' = <<>> /\ ends' = <<>>
      /\ got' = 0 /\ errors' = FALSE
      /\ emitted' = <<>> /\ expected' = <<>>
      /\ aligned' \in BOOLEAN
  BY DEF Reconnect, NextStream
<1>1. ParserTypeOK'
  <2>1. <<>> \in Seq(Nat) /\ <<>> \in Seq(Seq(Nat)) /\ <<>> \in Seq(Frames)
    BY EmptySeq
  <2> QED
    BY <2>1, <1>0 DEF ParserTypeOK
<1>2. Len(frames') = 0 /\ Len(buffer') = 0 /\ Len(emitted') = 0 /\ Len(expected') = 0
  BY <1>0, EmptySeq
<1>3. EndOf(0)' = 0 /\ Position' = 0
  <2>1. EndOf(0)' = 0
    BY DEF EndOf
  <2>2. Position' = 0
    <3>1. got' = 0
      BY <1>0
    <3> QED
      BY <3>1, <1>2 DEF Position
  <2> QED
    BY <2>1, <2>2
<1>4. Layout' /\ Window'
  BY <1>2, <1>3, <1>0, EmptySeq DEF Layout, Window
<1>5. At(0)'
  BY <1>0, <1>3 DEF At
<1>6. InStep' /\ FirstError'
  BY <1>2, <1>5, <1>0 DEF InStep, FirstError, Whole
<1>7. Behind(0, 0, 0)' /\ Promised(0, 0)' /\ parsingState' = "HEADER"
  BY <1>2, <1>3, <1>0 DEF Behind, Promised
<1>9. HeaderNext'
  BY <1>0 DEF HeaderNext
<1>8. Realigned'
  BY <1>2, <1>5, <1>7 DEF Realigned
<1> QED
  BY <1>1, <1>4, <1>6, <1>8, <1>9 DEF ParserIInv

\* What a frame adds to the stream.
LEMMA SendStream ==
    ASSUME ParserTypeOK, Layout, NEW f \in Frames, Send(f),
           NEW n \in Nat, n = Len(frames)
    PROVE  /\ frames' \in Seq(Frames) /\ wire' \in Seq(Nat) /\ ends' \in Seq(Nat)
           /\ Len(frames') = n + 1 /\ Len(ends') = n + 1
           /\ Len(wire') = EndOf(n) + HeaderLength + Len(f.body)
           /\ EndOf(n + 1)' = Len(wire')
           /\ frames'[n + 1] = f
           /\ \A i \in 1..n : frames'[i] = frames[i]
           /\ \A i \in 0..n : EndOf(i)' = EndOf(i)
           /\ \A i \in 1..Len(wire) : wire'[i] = wire[i]
           /\ \A i \in 1..HeaderLength + Len(f.body) : wire'[Len(wire) + i] = Encoding(f)[i]
<1>1. f \in Frame
  BY ParserAssumption
<1>2. /\ Encoding(f) \in Seq(Nat)
      /\ Len(Encoding(f)) = HeaderLength + Len(f.body)
      /\ Len(f.body) \in Nat
  BY <1>1, EncodingCells
<1>3. /\ frames \in Seq(Frames)
      /\ wire \in Seq(Nat)
      /\ ends \in Seq(Nat)
  BY DEF ParserTypeOK
<1>4. /\ Len(frames) = n
      /\ Len(ends) = n
      /\ Len(wire) = EndOf(n)
      /\ Len(wire) \in Nat
  BY Lengths DEF Layout
<1>5. /\ frames' = Append(frames, f)
      /\ wire' = wire \o Encoding(f)
      /\ ends' = Append(ends, Len(wire'))
  BY DEF Send
<1>6. /\ wire' \in Seq(Nat)
      /\ Len(wire') = Len(wire) + Len(Encoding(f))
      /\ \A i \in 1..Len(wire) + Len(Encoding(f)) :
            wire'[i] = IF i <= Len(wire) THEN wire[i] ELSE Encoding(f)[i - Len(wire)]
  <2>1. /\ wire \o Encoding(f) \in Seq(Nat)
        /\ Len(wire \o Encoding(f)) = Len(wire) + Len(Encoding(f))
        /\ \A i \in 1..Len(wire) + Len(Encoding(f)) :
              (wire \o Encoding(f))[i]
                 = IF i <= Len(wire) THEN wire[i] ELSE Encoding(f)[i - Len(wire)]
    BY <1>2, <1>3, ConcatProperties, Zenon
  <2> QED
    BY <2>1, <1>5, Zenon
<1>7. Len(wire') \in Nat
  BY <1>6, <1>2, <1>4 DEF HeaderLength
<1>8. /\ ends' \in Seq(Nat)
      /\ Len(ends') = n + 1
      /\ \A i \in 1..n : ends'[i] = ends[i]
      /\ ends'[n + 1] = Len(wire')
  BY <1>3, <1>4, <1>5, <1>7, AppendProperties
<1>9. /\ frames' \in Seq(Frames)
      /\ Len(frames') = n + 1
      /\ \A i \in 1..n : frames'[i] = frames[i]
      /\ frames'[n + 1] = f
  BY <1>3, <1>4, <1>5, AppendProperties
<1>10. \A i \in 0..n : EndOf(i)' = EndOf(i)
  BY <1>8 DEF EndOf
<1>11. EndOf(n + 1)' = Len(wire')
  BY <1>8 DEF EndOf
<1>12. ASSUME NEW i \in 1..Len(wire)
       PROVE  wire'[i] = wire[i]
  <2>1. i \in 1..Len(wire) + Len(Encoding(f)) /\ i <= Len(wire)
    BY <1>2, <1>4 DEF HeaderLength
  <2> QED
    BY <2>1, <1>6
<1>13. ASSUME NEW i \in 1..HeaderLength + Len(f.body)
       PROVE  wire'[Len(wire) + i] = Encoding(f)[i]
  <2>1. /\ Len(wire) + i \in 1..Len(wire) + Len(Encoding(f))
        /\ ~ (Len(wire) + i <= Len(wire))
        /\ Len(wire) + i - Len(wire) = i
    BY <1>2, <1>4 DEF HeaderLength
  <2> QED
    BY <2>1, <1>6
<1>14. Len(wire') = EndOf(n) + HeaderLength + Len(f.body)
  <2>1. Len(wire') = Len(wire) + Len(Encoding(f))
    BY <1>6
  <2>2. Len(wire) = EndOf(n) /\ EndOf(n) \in Nat
    BY <1>4
  <2>3. Len(Encoding(f)) = HeaderLength + Len(f.body) /\ Len(f.body) \in Nat
    BY <1>2
  <2>4. HeaderLength \in Nat
    BY DEF HeaderLength
  <2>5. EndOf(n) + (HeaderLength + Len(f.body)) = EndOf(n) + HeaderLength + Len(f.body)
    BY <2>2, <2>3, <2>4
  <2> QED
    BY <2>1, <2>2, <2>3, <2>5
<1> QED
  BY <1>6, <1>8, <1>9, <1>10, <1>11, <1>12, <1>13, <1>14, Zenon

\* The cells of a frame from a to b are cells of a stream that is m long.
LEMMA FrameInside ==
    ASSUME NEW a \in Nat, NEW b \in Nat, NEW l \in Nat, NEW m \in Nat,
           b = a + HeaderLength + l, b <= m
    PROVE  /\ a + 1 \in 1..m
           /\ a + 2 \in 1..m
           /\ \A j \in 1..l : a + HeaderLength + j \in 1..m
BY DEF HeaderLength

\* A frame more leaves the stream the frames one after the other.
LEMMA SendLayout ==
    ASSUME ParserTypeOK, Layout, NEW f \in Frames, Send(f)
    PROVE  Layout'
<1>0. Len(frames) \in Nat
  BY Lengths
<1> SUFFICES ASSUME NEW n \in Nat, n = Len(frames)
             PROVE  Layout'
  BY <1>0
<1>1. /\ Len(ends) = n
      /\ Len(wire) = EndOf(n)
      /\ Len(wire) \in Nat
      /\ \A i \in 0..n : EndOf(i) \in Nat
  BY Lengths DEF Layout
<1>2. f \in Frame
  BY ParserAssumption
<1>3. /\ Len(f.body) \in Nat
      /\ Encoding(f)[1] = f.magic
      /\ Encoding(f)[2] = f.length
      /\ \A j \in 1..Len(f.body) : Encoding(f)[HeaderLength + j] = f.body[j]
  BY <1>2, EncodingCells
<1>4. /\ Len(frames') = n + 1
      /\ Len(ends') = n + 1
      /\ Len(wire') = EndOf(n) + HeaderLength + Len(f.body)
      /\ EndOf(n + 1)' = Len(wire')
      /\ frames'[n + 1] = f
      /\ \A i \in 1..n : frames'[i] = frames[i]
      /\ \A i \in 0..n : EndOf(i)' = EndOf(i)
      /\ \A i \in 1..Len(wire) : wire'[i] = wire[i]
      /\ \A i \in 1..HeaderLength + Len(f.body) : wire'[Len(wire) + i] = Encoding(f)[i]
  BY SendStream, Zenon
<1>5. ASSUME NEW i \in 1..n + 1
      PROVE  /\ EndOf(i)' = EndOf(i - 1)' + HeaderLength + Len(frames'[i].body)
             /\ wire'[EndOf(i - 1)' + 1] = frames'[i].magic
             /\ wire'[EndOf(i - 1)' + 2] = frames'[i].length
             /\ \A j \in 1..Len(frames'[i].body) :
                   wire'[EndOf(i - 1)' + HeaderLength + j] = frames'[i].body[j]
  <2>1. CASE i = n + 1
    <3>1. /\ i - 1 = n
          /\ EndOf(i - 1)' = EndOf(n)
          /\ EndOf(i)' = EndOf(n + 1)'
          /\ frames'[i] = f
      BY <2>1, <1>1, <1>4
    <3>2. /\ 1 \in 1..HeaderLength + Len(f.body)
          /\ 2 \in 1..HeaderLength + Len(f.body)
          /\ \A j \in 1..Len(f.body) : HeaderLength + j \in 1..HeaderLength + Len(f.body)
      BY <1>3 DEF HeaderLength
    <3>3. /\ wire'[EndOf(n) + 1] = f.magic
          /\ wire'[EndOf(n) + 2] = f.length
      BY <3>2, <1>1, <1>3, <1>4
    <3>4. ASSUME NEW j \in 1..Len(f.body)
          PROVE  wire'[EndOf(n) + HeaderLength + j] = f.body[j]
      <4>1. wire'[Len(wire) + (HeaderLength + j)] = f.body[j]
        BY <3>2, <1>3, <1>4
      <4>2. Len(wire) + (HeaderLength + j) = EndOf(n) + HeaderLength + j
        BY <1>1 DEF HeaderLength
      <4> QED
        BY <4>1, <4>2
    <3> QED
      BY <3>1, <3>3, <3>4, <1>4
  <2>2. CASE i # n + 1
    <3>1. i \in 1..n /\ i - 1 \in 0..n /\ i \in 0..n
      BY <2>2, <1>1
    <3>2. /\ frames'[i] = frames[i]
          /\ EndOf(i)' = EndOf(i)
          /\ EndOf(i - 1)' = EndOf(i - 1)
      BY <3>1, <1>4
    <3>3. /\ EndOf(i) = EndOf(i - 1) + HeaderLength + Len(frames[i].body)
          /\ wire[EndOf(i - 1) + 1] = frames[i].magic
          /\ wire[EndOf(i - 1) + 2] = frames[i].length
          /\ \A j \in 1..Len(frames[i].body) :
                wire[EndOf(i - 1) + HeaderLength + j] = frames[i].body[j]
      BY <3>1 DEF Layout
    <3>4. EndOf(i) <= Len(wire)
      BY <3>1, <1>1 DEF Layout, HeaderLength
    <3>5. EndOf(i - 1) \in Nat /\ EndOf(i) \in Nat /\ Len(frames[i].body) \in Nat
      BY <3>1, <1>1, FrameTypes
    <3>6. /\ EndOf(i - 1) + 1 \in 1..Len(wire)
          /\ EndOf(i - 1) + 2 \in 1..Len(wire)
          /\ \A j \in 1..Len(frames[i].body) : EndOf(i - 1) + HeaderLength + j \in 1..Len(wire)
      BY <3>3, <3>4, <3>5, <1>1, FrameInside, Zenon
    <3> QED
      <4>1. /\ wire'[EndOf(i - 1) + 1] = frames[i].magic
            /\ wire'[EndOf(i - 1) + 2] = frames[i].length
        BY <3>3, <3>6, <1>4
      <4>2. ASSUME NEW j \in 1..Len(frames[i].body)
            PROVE  wire'[EndOf(i - 1) + HeaderLength + j] = frames[i].body[j]
        BY <3>3, <3>6, <1>4
      <4> QED
        BY <3>2, <3>3, <4>1, <4>2
  <2> QED
    BY <2>1, <2>2
<1>6. ASSUME NEW i \in 0..n + 1, NEW j \in 0..n + 1, i < j
      PROVE  EndOf(i)' + HeaderLength <= EndOf(j)'
  <2>1. i \in 0..n /\ EndOf(i)' = EndOf(i) /\ EndOf(i) \in Nat
    BY <1>1, <1>4, <1>6
  <2>2. i < n => EndOf(i) + HeaderLength <= EndOf(n)
    BY <2>1, <1>1 DEF Layout
  <2>3. CASE j = n + 1
    BY <2>1, <2>2, <2>3, <1>1, <1>3, <1>4 DEF HeaderLength
  <2>4. CASE j # n + 1
    <3>1. j \in 0..n
      BY <2>4, <1>1
    <3> QED
      BY <2>1, <3>1, <1>4, <1>6 DEF Layout
  <2> QED
    BY <2>3, <2>4
<1> QED
  BY <1>4, <1>5, <1>6 DEF Layout

\* A frame more does not disturb the parser.
LEMMA SendParserIInv == ParserIInv /\ (\E f \in Frames : Send(f)) => ParserIInv'
<1> SUFFICES ASSUME ParserIInv, NEW f \in Frames, Send(f)
             PROVE  ParserIInv'
  OBVIOUS
<1>1. /\ ParserTypeOK
      /\ Layout
      /\ HeaderNext
      /\ Window
      /\ InStep
      /\ FirstError
      /\ Realigned
  BY DEF ParserIInv
<1>2. UNCHANGED <<parser, got, expected, errors, aligned>>
  BY DEF Send
<1>3. UNCHANGED <<buffer, neededLength, parsingState, header, emitted,
                  got, expected, errors, aligned>>
  BY <1>2 DEF parser
<1>4. Len(frames) \in Nat /\ Len(wire) \in Nat /\ Len(buffer) \in Nat /\ got \in Nat
      /\ Len(emitted) \in Nat
  BY <1>1, Lengths
<1>5. /\ frames' \in Seq(Frames)
      /\ wire' \in Seq(Nat)
      /\ ends' \in Seq(Nat)
      /\ Len(frames') = Len(frames) + 1
      /\ Len(wire') \in Nat
      /\ Len(wire) <= Len(wire')
      /\ \A i \in 1..Len(frames) : frames'[i] = frames[i]
      /\ \A i \in 0..Len(frames) : EndOf(i)' = EndOf(i)
      /\ \A i \in 1..Len(wire) : wire'[i] = wire[i]
  <2> SUFFICES ASSUME NEW n \in Nat, n = Len(frames)
               PROVE  /\ frames' \in Seq(Frames)
                      /\ wire' \in Seq(Nat)
                      /\ ends' \in Seq(Nat)
                      /\ Len(frames') = n + 1
                      /\ Len(wire') \in Nat
                      /\ Len(wire) <= Len(wire')
                      /\ \A i \in 1..n : frames'[i] = frames[i]
                      /\ \A i \in 0..n : EndOf(i)' = EndOf(i)
                      /\ \A i \in 1..Len(wire) : wire'[i] = wire[i]
    BY <1>4
  <2>1. /\ frames' \in Seq(Frames)
        /\ wire' \in Seq(Nat)
        /\ ends' \in Seq(Nat)
        /\ Len(frames') = n + 1
        /\ \A i \in 1..n : frames'[i] = frames[i]
        /\ \A i \in 0..n : EndOf(i)' = EndOf(i)
        /\ \A i \in 1..Len(wire) : wire'[i] = wire[i]
        /\ Len(wire') = EndOf(n) + HeaderLength + Len(f.body)
    BY <1>1, SendStream, Zenon
  <2>2. Len(f.body) \in Nat
    BY ParserAssumption, EncodingCells
  <2>3. Len(wire) = EndOf(n)
    BY <1>1 DEF Layout
  <2>4. Len(wire') \in Nat /\ Len(wire) <= Len(wire')
    BY <2>1, <2>2, <2>3, <1>4 DEF HeaderLength
  <2> QED
    BY <2>1, <2>4
<1>6. ParserTypeOK'
  BY <1>1, <1>3, <1>5, Zenon DEF ParserTypeOK
<1>7. Layout'
  BY <1>1, SendLayout
<1>8. Position' = Position
  BY <1>3 DEF Position
<1>9. Window'
  <2>1. ASSUME NEW j \in 1..Len(buffer)
        PROVE  buffer[j] = wire'[Position + j]
    <3>1. Position + j \in 1..Len(wire)
      BY <1>1, <1>4 DEF Window, Position
    <3> QED
      BY <3>1, <1>1, <1>5 DEF Window
  <2>2. got <= Len(wire') /\ Len(buffer) <= got
    BY <1>1, <1>4, <1>5 DEF Window
  <2> QED
    BY <2>1, <2>2, <1>3, <1>8 DEF Window
<1>10. ASSUME NEW c \in 0..Len(frames), At(c)
       PROVE  At(c)'
  BY <1>3, <1>4, <1>5, <1>8, <1>10, StillAt
<1>11. \A i \in 1..Len(frames) : Good(i)' <=> Good(i)
  BY <1>5 DEF Good
<1>12. ASSUME NEW b \in 0..Len(frames), Whole(b)
       PROVE  Whole(b)'
  <2>1. \A i \in 1..b : i \in 1..Len(frames)
    BY <1>4
  <2> QED
    BY <2>1, <1>3, <1>5, <1>11, <1>12 DEF Whole
<1>13. InStep'
  <2> SUFFICES ASSUME ~errors
               PROVE  InStep'
    BY <1>3 DEF InStep
  <2>1. PICK k \in 0..Len(frames) : k = Len(emitted) /\ At(k) /\ Whole(k)
    BY <1>1, <1>4 DEF InStep
  <2>2. At(k)' /\ Whole(k)'
    BY <2>1, <1>10, <1>12
  <2>3. k = Len(emitted') /\ k <= Len(frames')
    BY <2>1, <1>3, <1>4, <1>5
  <2> QED
    BY <2>2, <2>3 DEF InStep
<1>14. FirstError'
  <2> SUFFICES ASSUME errors
               PROVE  FirstError'
    BY <1>3 DEF FirstError
  <2>1. PICK b \in 0..Len(frames) - 1 :
          /\ Whole(b)
          /\ ~Good(b + 1)
          /\ EndOf(b) + HeaderLength <= got
    BY <1>1 DEF FirstError
  <2>2. b \in 0..Len(frames) /\ b + 1 \in 1..Len(frames) /\ b \in 0..Len(frames') - 1
    BY <1>4, <1>5
  <2>3. Whole(b)' /\ ~Good(b + 1)' /\ EndOf(b)' + HeaderLength <= got'
    BY <2>1, <2>2, <1>3, <1>5, <1>11, <1>12
  <2> QED
    BY <2>2, <2>3 DEF FirstError
<1>15. Realigned'
  <2> SUFFICES ASSUME aligned
               PROVE  Realigned'
    BY <1>3 DEF Realigned
  <2>1. PICK c \in 0..Len(frames), t \in 0..Len(frames), a \in 0..Len(frames) :
          /\ At(c)
          /\ Behind(c, t, a)
          /\ Promised(c, t)
          /\ parsingState = "BODY" => c < a
    BY <1>1 DEF Realigned
  <2>2. c \in 0..Len(frames') /\ t \in 0..Len(frames') /\ a \in 0..Len(frames')
    BY <1>4, <1>5
  <2>3. Behind(c, t, a)'
    <3>1. \A i \in c + 1..t : i \in 1..Len(frames)
      BY <1>4
    <3>2. t < a => t + 1 \in 1..Len(frames)
      BY <1>4
    <3> QED
      BY <2>1, <3>1, <3>2, <1>3, <1>5, <1>11 DEF Behind
  <2>4. Promised(c, t)'
    <3>1. \A j \in 1..t - c : c + j \in 1..Len(frames)
      BY <1>4
    <3> QED
      BY <2>1, <3>1, <1>3, <1>5 DEF Promised
  <2> QED
    BY <2>1, <2>2, <2>3, <2>4, <1>3, <1>10 DEF Realigned
<1>16. HeaderNext'
  BY <1>1, <1>3 DEF HeaderNext
<1> QED
  BY <1>16, <1>6, <1>7, <1>9, <1>13, <1>14, <1>15 DEF ParserIInv

-----------------------------------------------------------------------------
(* A chunk.                                                                 *)

\* The loop of _transform stops short of the end of the next frame.
LEMMA IdleAt ==
    ASSUME ParserTypeOK, Layout, Window, Idle, NEW c \in 0..Len(frames), At(c),
           NEW i \in 1..Len(frames), c < i
    PROVE  got < EndOf(i)
<1>1. /\ Len(frames) \in Nat
      /\ Len(buffer) \in Nat
      /\ got \in Nat
      /\ \A k \in 0..Len(frames) : EndOf(k) \in Nat
  BY Lengths DEF Layout
<1>2. c + 1 \in 1..Len(frames) /\ c + 1 \in 0..Len(frames) /\ i \in 0..Len(frames)
  BY <1>1
<1>3. Len(frames[c + 1].body) \in Nat
  BY <1>2, FrameTypes
<1>4. EndOf(c + 1) = EndOf(c) + HeaderLength + Len(frames[c + 1].body)
  <2>1. EndOf(c + 1) = EndOf((c + 1) - 1) + HeaderLength + Len(frames[c + 1].body)
    BY <1>2 DEF Layout
  <2>2. (c + 1) - 1 = c
    OBVIOUS
  <2> QED
    BY <2>1, <2>2
<1>5. EndOf(c + 1) <= EndOf(i)
  <2>1. CASE i = c + 1
    BY <2>1, <1>1, <1>2
  <2>2. CASE i # c + 1
    <3>1. c + 1 < i
      BY <2>2, <1>1
    <3>2. EndOf(c + 1) + HeaderLength <= EndOf(i)
      BY <3>1, <1>2 DEF Layout
    <3> QED
      BY <3>2, <1>1, <1>2 DEF HeaderLength
  <2> QED
    BY <2>1, <2>2
<1>6. EndOf(c) \in Nat /\ EndOf(c + 1) \in Nat /\ EndOf(i) \in Nat
  BY <1>1, <1>2
<1>7. Len(buffer) < neededLength /\ neededLength \in Nat
  BY Lengths DEF Idle
<1>8. got < EndOf(c + 1)
  <2>1. CASE parsingState = "HEADER"
    <3>1. neededLength = 2 /\ got - Len(buffer) = EndOf(c)
      BY <2>1 DEF At, Position, HeaderLength
    <3>2. Len(buffer) < 2
      BY <3>1, <1>7
    <3>3. Len(buffer) \in Nat /\ got \in Nat
      BY <1>1
    <3>4. EndOf(c) \in Nat
      BY <1>6
    <3>5. got < EndOf(c) + 2
      BY <3>1, <3>2, <3>3, <3>4
    <3> QED
      BY <3>3, <3>4, <3>5, <1>3, <1>4 DEF HeaderLength
  <2>2. CASE parsingState = "BODY"
    <3>1. /\ neededLength = Len(frames[c + 1].body)
          /\ got - Len(buffer) = EndOf(c) + 2
      BY <2>2 DEF At, Position, HeaderLength
    <3>2. Len(buffer) < Len(frames[c + 1].body)
      BY <3>1, <1>7
    <3>3. Len(buffer) \in Nat /\ got \in Nat
      BY <1>1
    <3>4. EndOf(c) \in Nat
      BY <1>6
    <3>5. got < EndOf(c) + 2 + Len(frames[c + 1].body)
      BY <3>1, <3>2, <3>3, <3>4, <1>3
    <3> QED
      BY <3>5, <1>4 DEF HeaderLength
  <2> QED
    BY <2>1, <2>2 DEF At
<1> QED
  BY <1>1, <1>5, <1>6, <1>8

\* Of the frames of a chunk the first t - a are messages.
LEMMA FirstRefused ==
    ASSUME NEW a \in Nat, NEW b \in Nat, a <= b
    PROVE  \E t \in a..b : /\ \A i \in a + 1..t : Good(i)
                           /\ t < b => ~Good(t + 1)
<1> DEFINE Bad == {i \in a + 1..b : ~Good(i)}
<1>1. CASE Bad = {}
  <2>1. \A i \in a + 1..b : Good(i)
    BY <1>1
  <2>2. b \in a..b /\ ~(b < b)
    OBVIOUS
  <2> QED
    BY <2>1, <2>2
<1>2. CASE Bad # {}
  <2>1. Bad \subseteq 0..b
    OBVIOUS
  <2> HIDE DEF Bad
  <2>2. PICK n \in Bad : \A m \in Bad : n <= m
    BY <1>2, <2>1, Least
  <2>3. n \in a + 1..b /\ ~Good(n) /\ \A i \in a + 1..b : i < n => Good(i)
    BY <2>2 DEF Bad
  <2>4. n - 1 \in a..b /\ (n - 1) + 1 = n /\ n \in Nat
    BY <2>3
  <2>5. \A i \in a + 1..n - 1 : Good(i)
    BY <2>3, <2>4
  <2> QED
    BY <2>3, <2>4, <2>5
<1> QED
  BY <1>1, <1>2

\* The frames that end before a place in the stream are the first a.
LEMMA EndsBefore ==
    ASSUME ParserTypeOK, Layout, NEW n \in Nat
    PROVE  \E a \in 0..Len(frames) :
              /\ \A i \in 1..Len(frames) : EndOf(i) <= n <=> i <= a
              /\ EndOf(a) <= n
<1> DEFINE Beyond == {i \in 1..Len(frames) : ~(EndOf(i) <= n)}
<1>1. Len(frames) \in Nat /\ \A i \in 0..Len(frames) : EndOf(i) \in Nat
  BY Lengths DEF Layout
<1>2. EndOf(0) = 0
  BY DEF EndOf
<1>3. CASE Beyond = {}
  <2>1. \A i \in 1..Len(frames) : EndOf(i) <= n /\ i <= Len(frames)
    BY <1>3
  <2>2. Len(frames) \in 0..Len(frames)
    BY <1>1
  <2>3. EndOf(Len(frames)) <= n
    BY <2>1, <1>1, <1>2
  <2> QED
    BY <2>1, <2>2, <2>3
<1>4. CASE Beyond # {}
  <2>1. Beyond \subseteq 0..Len(frames)
    BY <1>1
  <2> HIDE DEF Beyond
  <2>2. PICK m \in Beyond : \A k \in Beyond : m <= k
    BY <1>1, <1>4, <2>1, Least
  <2>3. m \in 1..Len(frames) /\ ~(EndOf(m) <= n)
    BY <2>2 DEF Beyond
  <2>4. m - 1 \in 0..Len(frames) /\ m \in Nat
    BY <2>3, <1>1
  <2>5. ASSUME NEW i \in 1..Len(frames)
        PROVE  EndOf(i) <= n <=> i <= m - 1
    <3>1. CASE i < m
      BY <3>1, <2>2, <2>3 DEF Beyond
    <3>2. CASE i = m
      BY <3>2, <2>3
    <3>3. CASE m < i
      <4>1. EndOf(m) + HeaderLength <= EndOf(i)
        BY <3>3, <2>3, <1>1 DEF Layout
      <4>2. EndOf(m) \in Nat /\ EndOf(i) \in Nat
        BY <2>3, <1>1
      <4> QED
        BY <3>3, <4>1, <4>2, <2>3 DEF HeaderLength
    <3> QED
      BY <3>1, <3>2, <3>3, <2>4
  <2>6. EndOf(m - 1) <= n
    <3>1. CASE m = 1
      BY <3>1, <1>2
    <3>2. CASE m # 1
      <4>1. m - 1 \in 1..Len(frames) /\ m - 1 <= m - 1
        BY <3>2, <2>3, <1>1
      <4> QED
        BY <4>1, <2>5
    <3> QED
      BY <3>1, <3>2
  <2> QED
    BY <2>4, <2>5, <2>6
<1> QED
  BY <1>3, <1>4

\* The chunk between got and n holds the frames after the first a up to the b-th;
\* of them those up to the t-th are expected.
LEMMA Expectations ==
    ASSUME ParserTypeOK, Layout, NEW n \in Nat, got <= n, Deliver(n)
    PROVE  \E a, b \in 0..Len(frames) : \E t \in a..b :
              /\ \A i \in 1..Len(frames) : EndOf(i) <= got <=> i <= a
              /\ EndOf(b) <= n
              /\ \A i \in 1..Len(frames) : EndOf(i) <= n <=> i <= b
              /\ \A i \in a + 1..t : Good(i)
              /\ t < b => ~Good(t + 1)
              /\ expected' \in Seq(Seq(Nat))
              /\ Len(expected') = Len(expected) + (t - a)
              /\ \A i \in 1..Len(expected) : expected'[i] = expected[i]
              /\ \A j \in 1..t - a : expected'[Len(expected) + j] = frames[a + j].body
<1>1. /\ Len(frames) \in Nat
      /\ got \in Nat
      /\ Len(expected) \in Nat
      /\ \A i \in 0..Len(frames) : EndOf(i) \in Nat
  BY Lengths DEF Layout
<1>2. PICK a \in 0..Len(frames) :
         /\ \A i \in 1..Len(frames) : EndOf(i) <= got <=> i <= a
         /\ EndOf(a) <= got
  BY <1>1, EndsBefore
<1>3. PICK b \in 0..Len(frames) :
         /\ \A i \in 1..Len(frames) : EndOf(i) <= n <=> i <= b
         /\ EndOf(b) <= n
  BY EndsBefore
<1>4. a \in Nat /\ b \in Nat /\ a <= b
  <2>1. a \in Nat /\ b \in Nat
    BY <1>1
  <2>2. CASE a = 0
    BY <2>1, <2>2
  <2>3. CASE a # 0
    <3>1. a \in 1..Len(frames) /\ EndOf(a) \in Nat
      BY <2>3, <1>1
    <3>2. EndOf(a) <= n
      BY <3>1, <1>1, <1>2
    <3> QED
      BY <3>1, <3>2, <1>3, <2>1
  <2> QED
    BY <2>2, <2>3, <2>1
<1>5. PICK t \in a..b : /\ \A i \in a + 1..t : Good(i)
                        /\ t < b => ~Good(t + 1)
  BY <1>4, FirstRefused
<1>6. Arrived = 1..a
  <2>1. \A i \in Arrived : i \in 1..a
    BY <1>2, <1>1 DEF Arrived
  <2>2. \A i \in 1..a : i \in Arrived
    BY <1>2, <1>1 DEF Arrived
  <2> QED
    BY <2>1, <2>2
<1>7. Between(n) = a + 1..b
  <2>1. ASSUME NEW i \in 1..Len(frames)
        PROVE  i \in Between(n) <=> i \in a + 1..b
    <3>1. EndOf(i) \in Nat /\ i \in Nat
      BY <1>1
    <3>2. EndOf(i) > got <=> ~(i <= a)
      BY <3>1, <1>1, <1>2
    <3>3. EndOf(i) <= n <=> i <= b
      BY <1>3
    <3> QED
      BY <3>1, <3>2, <3>3, <1>4 DEF Between
  <2>2. \A i \in a + 1..b : i \in 1..Len(frames)
    BY <1>1, <1>4
  <2>3. \A i \in Between(n) : i \in 1..Len(frames)
    BY DEF Between
  <2> QED
    BY <2>1, <2>2, <2>3
<1> DEFINE taken == {i \in Between(n) : \A k \in Between(n) : k <= i => Good(k)}
           s == [k \in 1..Cardinality(taken) |-> frames[Cardinality(Arrived) + k].body]
<1>8. taken = a + 1..t
  <2>1. ASSUME NEW i \in a + 1..t
        PROVE  i \in taken
    <3>1. i \in a + 1..b
      BY <1>4
    <3>2. ASSUME NEW k \in a + 1..b, k <= i
          PROVE  Good(k)
      <4>1. k \in a + 1..t
        BY <3>2, <1>4
      <4> QED
        BY <4>1, <1>5
    <3> QED
      BY <3>1, <3>2, <1>7
  <2>2. ASSUME NEW i \in taken
        PROVE  i \in a + 1..t
    <3>1. i \in a + 1..b /\ \A k \in a + 1..b : k <= i => Good(k)
      BY <1>7
    <3>2. ASSUME ~(i <= t)
          PROVE  FALSE
      <4>1. t + 1 \in a + 1..b /\ t + 1 <= i /\ t < b
        BY <3>1, <3>2, <1>4
      <4> QED
        BY <4>1, <3>1, <1>5
    <3> QED
      BY <3>1, <3>2, <1>4
  <2> QED
    BY <2>1, <2>2
<1>9. expected' = expected \o s
  BY DEF Deliver
<1> HIDE DEF taken
<1>10. Cardinality(taken) = t - a /\ Cardinality(Arrived) = a /\ t - a \in Nat
  <2>1. Cardinality(1..a) = a
    BY <1>4, FS_Interval
  <2>2. Cardinality(a + 1..t) = t - a
    <3>1. a + 1 \in Int /\ t \in Int
      BY <1>4
    <3>2. Cardinality(a + 1..t) = IF a + 1 > t THEN 0 ELSE t - (a + 1) + 1
      BY <3>1, FS_Interval
    <3> QED
      BY <3>2, <1>4
  <2> QED
    BY <2>1, <2>2, <1>4, <1>6, <1>8
<1>11. s = [k \in 1..t - a |-> frames[a + k].body]
  BY <1>10
<1> HIDE DEF s
<1>12. /\ s \in Seq(Seq(Nat))
       /\ Len(s) = t - a
       /\ \A k \in 1..t - a : s[k] = frames[a + k].body
  <2>1. ASSUME NEW k \in 1..t - a
        PROVE  frames[a + k].body \in Seq(Nat)
    <3>1. a + k \in 1..Len(frames)
      BY <1>1, <1>4
    <3> QED
      BY <3>1, FrameTypes
  <2>2. s \in [1..t - a -> Seq(Nat)]
    BY <2>1, <1>11
  <2>3. s \in Seq(Seq(Nat))
    BY <2>2, <1>10, SeqDef
  <2>4. Len(s) = t - a
    <3>1. DOMAIN s = 1..t - a
      BY <2>2
    <3>2. DOMAIN s = 1..Len(s) /\ Len(s) \in Nat
      BY <2>3, LenProperties
    <3>3. CASE Len(s) < t - a
      <4>1. t - a \in 1..t - a /\ t - a \notin 1..Len(s)
        BY <3>2, <3>3, <1>10
      <4> QED
        BY <4>1, <3>1, <3>2
    <3>4. CASE t - a < Len(s)
      <4>1. Len(s) \in 1..Len(s) /\ Len(s) \notin 1..t - a
        BY <3>2, <3>4, <1>10
      <4> QED
        BY <4>1, <3>1, <3>2
    <3> QED
      BY <3>2, <3>3, <3>4, <1>10
  <2> QED
    BY <2>3, <2>4, <1>11
<1>13. expected \in Seq(Seq(Nat))
  BY DEF ParserTypeOK
<1>14. /\ expected' \in Seq(Seq(Nat))
       /\ Len(expected') = Len(expected) + Len(s)
       /\ \A i \in 1..Len(expected) + Len(s) :
             expected'[i] = IF i <= Len(expected) THEN expected[i] ELSE s[i - Len(expected)]
  <2>1. /\ expected \o s \in Seq(Seq(Nat))
        /\ Len(expected \o s) = Len(expected) + Len(s)
        /\ \A i \in 1..Len(expected) + Len(s) :
             (expected \o s)[i]
                = IF i <= Len(expected) THEN expected[i] ELSE s[i - Len(expected)]
    BY <1>12, <1>13, ConcatProperties, Zenon
  <2> QED
    BY <2>1, <1>9, Zenon
<1>15. Len(expected') = Len(expected) + (t - a)
  BY <1>12, <1>14
<1>16. ASSUME NEW i \in 1..Len(expected)
       PROVE  expected'[i] = expected[i]
  <2>1. i \in 1..Len(expected) + Len(s) /\ i <= Len(expected)
    BY <1>1, <1>10, <1>12
  <2> QED
    BY <2>1, <1>14
<1>17. ASSUME NEW j \in 1..t - a
       PROVE  expected'[Len(expected) + j] = frames[a + j].body
  <2>1. /\ Len(expected) + j \in 1..Len(expected) + Len(s)
        /\ ~(Len(expected) + j <= Len(expected))
        /\ Len(expected) + j - Len(expected) = j
    BY <1>1, <1>10, <1>12
  <2> QED
    BY <2>1, <1>12, <1>14
<1> QED
  BY <1>2, <1>3, <1>5, <1>14, <1>15, <1>16, <1>17

\* A chunk arrives (_transform appends it to the buffer).
LEMMA DeliverParserIInv == ParserIInv /\ (\E n \in 1..Len(wire) : Deliver(n)) => ParserIInv'
<1> SUFFICES ASSUME ParserIInv, NEW n \in 1..Len(wire), Deliver(n)
             PROVE  ParserIInv'
  OBVIOUS
<1>1. /\ ParserTypeOK
      /\ Layout
      /\ HeaderNext
      /\ Window
      /\ InStep
      /\ FirstError
      /\ Realigned
  BY DEF ParserIInv
<1>2. UNCHANGED <<neededLength, parsingState, header, emitted, sent, errors, aligned>>
  BY DEF Deliver
<1>3. UNCHANGED <<neededLength, parsingState, header, emitted,
                  frames, wire, ends, errors, aligned>>
  BY <1>2 DEF sent
<1>4. /\ Len(frames) \in Nat
      /\ Len(wire) \in Nat
      /\ Len(buffer) \in Nat
      /\ got \in Nat
      /\ Len(emitted) \in Nat
      /\ \A i \in 0..Len(frames) : EndOf(i) \in Nat
  BY <1>1, Lengths DEF Layout
<1>5. got' = n /\ n \in got + 1..Len(wire) /\ n \in Nat /\ got <= n /\ Idle
  BY <1>4 DEF Deliver
<1>6. /\ buffer' \in Seq(Nat)
      /\ Len(buffer') = Len(buffer) + (n - got)
      /\ \A i \in 1..Len(buffer) : buffer'[i] = buffer[i]
      /\ \A i \in 1..n - got : buffer'[Len(buffer) + i] = wire[got + i]
  <2> DEFINE chunk == SubSeq(wire, got + 1, n)
  <2>1. buffer' = buffer \o chunk
    BY DEF Deliver
  <2>2. \A i \in got + 1..n : wire[i] \in Nat
    <3>1. wire \in Seq(Nat)
      BY <1>1 DEF ParserTypeOK
    <3>2. \A i \in got + 1..n : i \in 1..Len(wire)
      BY <1>4, <1>5
    <3> QED
      BY <3>1, <3>2, ElementOfSeq
  <2>3. got + 1 \in Int /\ n \in Int /\ got + 1 <= n
    BY <1>4, <1>5
  <2>4. /\ chunk \in Seq(Nat)
        /\ Len(chunk) = n - (got + 1) + 1
        /\ \A i \in 1..n - (got + 1) + 1 : chunk[i] = wire[(got + 1) + i - 1]
    BY <2>2, <2>3, SubSeqProperties
  <2>5. /\ Len(chunk) = n - got
        /\ n - got \in Nat
        /\ \A i \in 1..n - got : chunk[i] = wire[got + i]
    <3>1. n - (got + 1) + 1 = n - got /\ n - got \in Nat
      BY <1>4, <1>5
    <3>2. \A i \in 1..n - got : (got + 1) + i - 1 = got + i
      BY <1>4
    <3> QED
      BY <3>1, <3>2, <2>4
  <2> HIDE DEF chunk
  <2>6. buffer \in Seq(Nat)
    BY <1>1 DEF ParserTypeOK
  <2>7. /\ buffer \o chunk \in Seq(Nat)
        /\ Len(buffer \o chunk) = Len(buffer) + Len(chunk)
        /\ \A i \in 1..Len(buffer) + Len(chunk) :
              (buffer \o chunk)[i]
                 = IF i <= Len(buffer) THEN buffer[i] ELSE chunk[i - Len(buffer)]
    BY <2>4, <2>6, ConcatProperties, Zenon
  <2>8. ASSUME NEW i \in 1..Len(buffer)
        PROVE  buffer'[i] = buffer[i]
    <3>1. i \in 1..Len(buffer) + Len(chunk) /\ i <= Len(buffer)
      BY <2>5, <1>4
    <3> QED
      BY <3>1, <2>1, <2>7
  <2>9. ASSUME NEW i \in 1..n - got
        PROVE  buffer'[Len(buffer) + i] = wire[got + i]
    <3>1. /\ Len(buffer) + i \in 1..Len(buffer) + Len(chunk)
          /\ ~(Len(buffer) + i <= Len(buffer))
          /\ Len(buffer) + i - Len(buffer) = i
      BY <2>5, <1>4
    <3> QED
      BY <3>1, <2>1, <2>5, <2>7
  <2> QED
    BY <2>1, <2>5, <2>7, <2>8, <2>9
<1>7. Len(buffer') \in Nat /\ Position' = Position
  BY <1>4, <1>5, <1>6 DEF Position
<1>8. PICK a \in 0..Len(frames), b \in 0..Len(frames) : \E t \in a..b :
        /\ \A i \in 1..Len(frames) : EndOf(i) <= got <=> i <= a
        /\ EndOf(b) <= n
        /\ \A i \in 1..Len(frames) : EndOf(i) <= n <=> i <= b
        /\ \A i \in a + 1..t : Good(i)
        /\ t < b => ~Good(t + 1)
        /\ expected' \in Seq(Seq(Nat))
        /\ Len(expected') = Len(expected) + (t - a)
        /\ \A i \in 1..Len(expected) : expected'[i] = expected[i]
        /\ \A j \in 1..t - a : expected'[Len(expected) + j] = frames[a + j].body
  BY <1>1, <1>5, Expectations
<1>9. PICK t \in a..b :
        /\ \A i \in 1..Len(frames) : EndOf(i) <= got <=> i <= a
        /\ EndOf(b) <= n
        /\ \A i \in 1..Len(frames) : EndOf(i) <= n <=> i <= b
        /\ \A i \in a + 1..t : Good(i)
        /\ t < b => ~Good(t + 1)
        /\ expected' \in Seq(Seq(Nat))
        /\ Len(expected') = Len(expected) + (t - a)
        /\ \A i \in 1..Len(expected) : expected'[i] = expected[i]
        /\ \A j \in 1..t - a : expected'[Len(expected) + j] = frames[a + j].body
  BY <1>8, Zenon
<1>10. ParserTypeOK'
  <2>1. buffer' \in Seq(Nat) /\ expected' \in Seq(Seq(Nat)) /\ got' \in Nat
    BY <1>5, <1>6, <1>9
  <2> QED
    BY <2>1, <1>1, <1>3, Zenon DEF ParserTypeOK
<1>11. \A i : EndOf(i)' = EndOf(i) /\ Good(i)' = Good(i)
  BY <1>3 DEF EndOf, Good
<1>12. Layout'
  BY <1>1, <1>3, <1>11 DEF Layout
<1>13. Window'
  <2>1. ASSUME NEW j \in 1..Len(buffer')
        PROVE  buffer'[j] = wire[Position + j]
    <3>1. CASE j <= Len(buffer)
      <4>1. j \in 1..Len(buffer)
        BY <3>1, <1>4, <1>7
      <4> QED
        BY <4>1, <1>1, <1>6 DEF Window
    <3>2. CASE ~(j <= Len(buffer))
      <4>1. /\ j - Len(buffer) \in 1..n - got
            /\ Len(buffer) + (j - Len(buffer)) = j
            /\ got + (j - Len(buffer)) = Position + j
        <5>1. j \in Nat /\ j <= Len(buffer) + (n - got)
          BY <1>6, <1>7
        <5> QED
          BY <5>1, <3>2, <1>4, <1>5 DEF Position
      <4> QED
        BY <4>1, <1>6
    <3> QED
      BY <3>1, <3>2
  <2>2. got' <= Len(wire) /\ Len(buffer') <= got'
    BY <1>1, <1>4, <1>5, <1>6 DEF Window
  <2> QED
    BY <2>1, <2>2, <1>3, <1>7 DEF Window
<1>14. ASSUME NEW c \in 0..Len(frames), At(c)
       PROVE  At(c)'
  BY <1>3, <1>4, <1>7, <1>11, <1>14, StillAt
<1>15. \A k : Whole(k)' = Whole(k)
  BY <1>3, <1>11 DEF Whole
<1>16. InStep'
  <2> SUFFICES ASSUME ~errors
               PROVE  InStep'
    BY <1>3 DEF InStep
  <2>1. PICK k \in 0..Len(frames) : k = Len(emitted) /\ At(k) /\ Whole(k)
    BY <1>1, <1>4 DEF InStep
  <2>2. At(k)' /\ Whole(k)'
    BY <2>1, <1>14, <1>15
  <2>3. k = Len(emitted') /\ k <= Len(frames')
    BY <2>1, <1>3, <1>4
  <2> QED
    BY <2>2, <2>3 DEF InStep
<1>17. FirstError'
  <2> SUFFICES ASSUME errors
               PROVE  FirstError'
    BY <1>3 DEF FirstError
  <2>1. PICK k \in 0..Len(frames) - 1 :
          /\ Whole(k)
          /\ ~Good(k + 1)
          /\ EndOf(k) + HeaderLength <= got
    BY <1>1 DEF FirstError
  <2>2. EndOf(k) \in Nat
    BY <1>4
  <2>3. Whole(k)' /\ ~Good(k + 1)' /\ EndOf(k)' + HeaderLength <= got'
    BY <2>1, <2>2, <1>4, <1>5, <1>11, <1>15 DEF HeaderLength
  <2> QED
    BY <2>3, <1>3 DEF FirstError
<1>18. Realigned'
  <2> SUFFICES ASSUME aligned
               PROVE  Realigned'
    BY <1>3 DEF Realigned
  <2>1. PICK c \in 0..Len(frames), u \in 0..Len(frames), d \in 0..Len(frames) :
          /\ At(c)
          /\ Behind(c, u, d)
          /\ Promised(c, u)
          /\ parsingState = "BODY" => c < d
    BY <1>1 DEF Realigned
  <2>2. c = d
    <3>1. CASE c < d
      <4>1. d \in 1..Len(frames)
        BY <3>1, <1>4
      <4>2. got < EndOf(d)
        BY <3>1, <4>1, <2>1, <1>1, <1>5, IdleAt
      <4> QED
        BY <4>2, <2>1, <1>4 DEF Behind
    <3> QED
      BY <3>1, <2>1, <1>4 DEF Behind
  <2>3. u = c /\ got = EndOf(c)
    BY <2>1, <2>2, <1>4 DEF Behind
  <2>4. parsingState' = "HEADER"
    BY <2>1, <2>2, <1>3, <1>4 DEF At
  <2>5. a = c
    <3>1. a \in Nat /\ c \in Nat
      BY <1>4
    <3>2. CASE a < c
      <4>1. c \in 1..Len(frames) /\ EndOf(c) <= got
        BY <3>1, <3>2, <2>3, <1>4
      <4>2. EndOf(c) <= got <=> c <= a
        BY <4>1, <1>9
      <4> QED
        BY <4>1, <4>2, <3>1, <3>2
    <3>3. CASE c < a
      <4>1. a \in 1..Len(frames)
        BY <3>3, <1>4
      <4>2. EndOf(a) <= got
        BY <4>1, <3>1, <1>9
      <4>3. EndOf(c) + HeaderLength <= EndOf(a)
        BY <3>3, <1>1 DEF Layout
      <4> QED
        BY <4>2, <4>3, <2>3, <1>4 DEF HeaderLength
    <3> QED
      BY <3>1, <3>2, <3>3
  <2>6. n = EndOf(b)
    <3>1. PICK m \in 1..Len(frames) : n = EndOf(m)
      BY DEF Deliver
    <3>2. m <= b
      BY <3>1, <1>5, <1>9
    <3>3. CASE m < b
      <4>1. EndOf(m) + HeaderLength <= EndOf(b)
        BY <3>3, <1>1, <1>4 DEF Layout
      <4> QED
        <5>1. EndOf(b) \in Nat /\ EndOf(b) <= n
          BY <1>4, <1>9
        <5> QED
          BY <4>1, <5>1, <3>1, <1>5 DEF HeaderLength
    <3> QED
      BY <3>1, <3>2, <3>3, <1>4
  <2>7. t \in 0..Len(frames) /\ c <= t /\ t <= b
    BY <2>5, <1>4
  <2>8. Behind(c, t, b)'
    BY <2>5, <2>6, <2>7, <1>5, <1>9, <1>11 DEF Behind
  <2>9. Promised(c, t)'
    <3>1. /\ Len(expected) = Len(emitted)
          /\ \A i \in 1..Len(emitted) : expected[i] = emitted[i]
      BY <2>1, <2>3, <1>4 DEF Promised
    <3>2. /\ Len(expected') = Len(emitted) + (t - c)
          /\ \A i \in 1..Len(emitted) : expected'[i] = emitted[i]
          /\ \A j \in 1..t - c : expected'[Len(emitted) + j] = frames[c + j].body
      BY <3>1, <2>5, <1>9
    <3> QED
      BY <3>2, <1>3 DEF Promised
  <2>10. At(c)'
    BY <2>1, <1>14
  <2> QED
    BY <2>4, <2>7, <2>8, <2>9, <2>10, <1>3 DEF Realigned
<1>19. HeaderNext'
  BY <1>1, <1>3 DEF HeaderNext
<1> QED
  BY <1>19, <1>10, <1>12, <1>13, <1>16, <1>17, <1>18 DEF ParserIInv

-----------------------------------------------------------------------------
(* The steps of the parser.                                                 *)

\* A header that has arrived is that of the next frame.
LEMMA HeaderAt ==
    ASSUME ParserTypeOK, Layout, Window, ~Idle, parsingState = "HEADER",
           NEW c \in 0..Len(frames), At(c)
    PROVE  /\ c + 1 \in 1..Len(frames)
           /\ EndOf(c) + HeaderLength <= got
           /\ buffer[2] = Len(frames[c + 1].body) \/ Refused
           /\ Refused <=> ~Good(c + 1)
<1>1. /\ Len(frames) \in Nat
      /\ Len(buffer) \in Nat
      /\ Len(wire) \in Nat
      /\ got \in Nat
      /\ neededLength \in Nat
      /\ \A k \in 0..Len(frames) : EndOf(k) \in Nat
  BY Lengths DEF Layout
<1>2. Len(buffer) >= 2 /\ Position = EndOf(c) /\ got - Len(buffer) = EndOf(c)
  <2>1. neededLength = 2 /\ Position = EndOf(c)
    BY DEF At, HeaderLength
  <2> QED
    BY <2>1, <1>1 DEF Idle, Position
<1>3. EndOf(c) \in Nat /\ EndOf(c) + 2 <= got /\ got <= Len(wire)
  BY <1>1, <1>2 DEF Window
<1>4. c + 1 \in 1..Len(frames)
  <2>1. ASSUME c = Len(frames)
        PROVE  FALSE
    <3>1. Len(wire) = EndOf(c)
      BY <2>1 DEF Layout
    <3> QED
      BY <3>1, <1>1, <1>3
  <2> QED
    BY <2>1, <1>1
<1>5. (c + 1) - 1 = c
  OBVIOUS
<1>6. /\ wire[EndOf(c) + 1] = frames[c + 1].magic
      /\ wire[EndOf(c) + 2] = frames[c + 1].length
  <2>1. /\ wire[EndOf((c + 1) - 1) + 1] = frames[c + 1].magic
        /\ wire[EndOf((c + 1) - 1) + 2] = frames[c + 1].length
    BY <1>4 DEF Layout
  <2> QED
    BY <2>1, <1>5
<1>7. buffer[1] = frames[c + 1].magic /\ buffer[2] = frames[c + 1].length
  <2>1. 1 \in 1..Len(buffer) /\ 2 \in 1..Len(buffer)
    BY <1>1, <1>2
  <2> QED
    BY <2>1, <1>2, <1>6 DEF Window
<1>8. Refused <=> ~Good(c + 1)
  <2>1. frames[c + 1].length \in Nat /\ MaxBody \in Nat
    BY <1>4, FrameTypes, ParserAssumption
  <2> QED
    BY <2>1, <1>7 DEF Refused, Good, IsMessage
<1>9. Good(c + 1) => frames[c + 1].length = Len(frames[c + 1].body)
  BY <1>4, FrameTypes
<1> QED
  BY <1>3, <1>4, <1>7, <1>8, <1>9 DEF HeaderLength

\* What is left of the buffer when its first k cells are taken.
LEMMA BufferCut ==
    ASSUME ParserTypeOK, Window, NEW k \in 0..Len(buffer),
           buffer' = SubSeq(buffer, k + 1, Len(buffer)), UNCHANGED <<wire, got>>
    PROVE  /\ buffer' \in Seq(Nat) /\ Len(buffer') = Len(buffer) - k
           /\ Position' = Position + k
           /\ Window'
<1>1. Len(buffer) \in Nat /\ got \in Nat /\ Len(wire) \in Nat
  BY Lengths
<1>2. \A i \in k + 1..Len(buffer) : buffer[i] \in Nat
  <2>1. buffer \in Seq(Nat)
    BY DEF ParserTypeOK
  <2>2. \A i \in k + 1..Len(buffer) : i \in 1..Len(buffer)
    BY <1>1
  <2> QED
    BY <2>1, <2>2, ElementOfSeq
<1>3. k + 1 \in Int /\ Len(buffer) \in Int
  BY <1>1
<1> DEFINE rest == SubSeq(buffer, k + 1, Len(buffer))
<1>4. /\ rest \in Seq(Nat)
      /\ Len(rest) = IF k + 1 <= Len(buffer) THEN Len(buffer) - (k + 1) + 1 ELSE 0
      /\ \A i \in 1..Len(buffer) - (k + 1) + 1 : rest[i] = buffer[(k + 1) + i - 1]
  BY <1>2, <1>3, SubSeqProperties
<1>5. buffer' = rest
  OBVIOUS
<1> HIDE DEF rest
<1>6. Len(buffer') = Len(buffer) - k
  BY <1>1, <1>4, <1>5
<1>7. Position' = Position + k
  <2>1. got' = got /\ k \in Nat
    BY <1>1
  <2>2. got - (Len(buffer) - k) = (got - Len(buffer)) + k
    BY <2>1, <1>1
  <2> QED
    BY <2>1, <2>2, <1>6 DEF Position
<1>8. ASSUME NEW j \in 1..Len(buffer')
      PROVE  buffer'[j] = wire[Position' + j]
  <2>1. j \in 1..Len(buffer) - (k + 1) + 1
    BY <1>1, <1>6
  <2>2. buffer'[j] = buffer[(k + 1) + j - 1]
    BY <2>1, <1>4, <1>5
  <2>3. (k + 1) + j - 1 = k + j /\ k + j \in 1..Len(buffer)
    BY <2>1, <1>1
  <2>4. buffer[k + j] = wire[Position + (k + j)]
    BY <2>3 DEF Window
  <2>5. Position + (k + j) = Position' + j
    <3>1. Position \in Int /\ k \in Int /\ j \in Int
      BY <2>1, <1>1 DEF Position
    <3> QED
      BY <3>1, <1>7
  <2> QED
    BY <2>2, <2>3, <2>4, <2>5
<1>9. got <= Len(wire) /\ Len(buffer') <= got
  BY <1>1, <1>6 DEF Window
<1> QED
  BY <1>4, <1>5, <1>6, <1>7, <1>8, <1>9 DEF Window

\* The parser at the c-th frame waits for a body, or hands a message out.
Moves(c) ==
    \/ /\ At(c)' /\ parsingState' = "BODY"
       /\ UNCHANGED emitted
    \/ /\ c + 1 \in 1..Len(frames) /\ Good(c + 1)
       /\ At(c + 1)' /\ parsingState' = "HEADER"
       /\ emitted' = Append(emitted, frames[c + 1].body)

\* ParseHeader when it does not refuse the header.
Accepts ==
    /\ ~Idle
    /\ parsingState = "HEADER"
    /\ ~Refused
    /\ buffer' = SubSeq(buffer, HeaderLength + 1, Len(buffer))
    /\ IF buffer[2] = 0 THEN Emits(<<>>)
       ELSE /\ header' = buffer[2]
            /\ neededLength' = buffer[2]
            /\ parsingState' = "BODY"
            /\ UNCHANGED emitted
    /\ UNCHANGED <<errors, stream>>

\* A header that is accepted moves the parser to its body (_transform).
LEMMA AcceptsMoves ==
    ASSUME ParserTypeOK, Layout, Window, Accepts, NEW c \in 0..Len(frames), At(c)
    PROVE  Moves(c)
<1>1. /\ c + 1 \in 1..Len(frames)
      /\ buffer[2] = Len(frames[c + 1].body)
      /\ Good(c + 1)
  BY HeaderAt DEF Accepts
<1>2. UNCHANGED <<frames, wire, ends, got>>
  BY DEF Accepts, stream, sent
<1>3. /\ Len(frames) \in Nat
      /\ Len(buffer) \in Nat
      /\ neededLength \in Nat
      /\ got \in Nat
      /\ EndOf(c) \in Nat
  BY Lengths DEF Layout
<1>4. HeaderLength \in 0..Len(buffer) /\ Position = EndOf(c)
  <2>1. neededLength = HeaderLength /\ Position = EndOf(c)
    BY DEF At, Accepts
  <2> QED
    BY <2>1, <1>3 DEF Idle, Accepts, HeaderLength
<1>5. Position' = EndOf(c) + HeaderLength
  BY <1>2, <1>4, BufferCut DEF Accepts
<1>6. /\ \A i : EndOf(i)' = EndOf(i)
      /\ \A i : Good(i)' = Good(i)
  BY <1>2 DEF EndOf, Good
<1>7. frames[c + 1].body \in Seq(Nat) /\ Len(frames[c + 1].body) \in Nat
  BY <1>1, FrameTypes
<1>8. CASE buffer[2] = 0
  <2>1. /\ emitted' = Append(emitted, <<>>)
        /\ neededLength' = HeaderLength
        /\ parsingState' = "HEADER"
    BY <1>8 DEF Accepts, Emits
  <2>2. frames[c + 1].body = <<>>
    BY <1>1, <1>7, <1>8, EmptySeq
  <2>3. EndOf(c + 1) = EndOf(c) + HeaderLength
    <3>1. EndOf(c + 1) = EndOf((c + 1) - 1) + HeaderLength + Len(frames[c + 1].body)
      BY <1>1 DEF Layout
    <3>2. (c + 1) - 1 = c
      OBVIOUS
    <3> QED
      BY <3>1, <3>2, <1>1, <1>3, <1>8 DEF HeaderLength
  <2>4. At(c + 1)'
    BY <2>1, <2>3, <1>5, <1>6 DEF At
  <2> QED
    BY <2>1, <2>2, <2>4, <1>1 DEF Moves
<1>9. CASE buffer[2] # 0
  <2>1. /\ neededLength' = buffer[2]
        /\ parsingState' = "BODY"
        /\ UNCHANGED emitted
    BY <1>9 DEF Accepts
  <2>2. c < Len(frames')
    BY <1>1, <1>2, <1>3
  <2>3. neededLength' = Len(frames'[c + 1].body)
    BY <2>1, <1>1, <1>2
  <2>4. At(c)'
    BY <2>1, <2>2, <2>3, <1>1, <1>5, <1>6 DEF At
  <2> QED
    BY <2>1, <2>4 DEF Moves
<1> QED
  BY <1>8, <1>9

\* A body that is emitted moves the parser to the next frame (_transform).
LEMMA ParseBodyMoves ==
    ASSUME ParserTypeOK, Layout, Window, ParseBody, NEW c \in 0..Len(frames), At(c)
    PROVE  Moves(c)
<1>1. /\ ~Idle
      /\ parsingState = "BODY"
      /\ emitted' = Append(emitted, SubSeq(buffer, 1, neededLength))
      /\ neededLength' = HeaderLength
      /\ parsingState' = "HEADER"
      /\ buffer' = SubSeq(buffer, neededLength + 1, Len(buffer))
  BY DEF ParseBody, Emits
<1>2. UNCHANGED <<frames, wire, ends, got>>
  BY DEF ParseBody, stream, sent
<1>3. /\ Len(frames) \in Nat
      /\ Len(buffer) \in Nat
      /\ neededLength \in Nat
      /\ got \in Nat
      /\ EndOf(c) \in Nat
  BY Lengths DEF Layout
<1>4. /\ c < Len(frames)
      /\ Good(c + 1)
      /\ neededLength = Len(frames[c + 1].body)
      /\ Position = EndOf(c) + HeaderLength
  BY <1>1 DEF At
<1>5. c + 1 \in 1..Len(frames) /\ neededLength \in 0..Len(buffer)
  BY <1>1, <1>3, <1>4 DEF Idle
<1>6. /\ \A i : EndOf(i)' = EndOf(i)
      /\ \A i : Good(i)' = Good(i)
  BY <1>2 DEF EndOf, Good
<1>7. frames[c + 1].body \in Seq(Nat)
  BY <1>5, FrameTypes
<1>8. (c + 1) - 1 = c
  OBVIOUS
<1>9. EndOf(c + 1) = EndOf(c) + HeaderLength + Len(frames[c + 1].body)
  <2>1. EndOf(c + 1) = EndOf((c + 1) - 1) + HeaderLength + Len(frames[c + 1].body)
    BY <1>5 DEF Layout
  <2> QED
    BY <2>1, <1>8
<1>10. Position' = EndOf(c + 1)
  <2>1. Position' = Position + neededLength
    BY <1>1, <1>2, <1>5, BufferCut
  <2> QED
    BY <2>1, <1>3, <1>4, <1>9
<1>11. At(c + 1)'
  BY <1>1, <1>6, <1>10 DEF At
<1>12. SubSeq(buffer, 1, neededLength) = frames[c + 1].body
  <2> DEFINE body == SubSeq(buffer, 1, neededLength)
  <2>1. \A i \in 1..neededLength : buffer[i] \in Nat
    <3>1. buffer \in Seq(Nat)
      BY DEF ParserTypeOK
    <3>2. \A i \in 1..neededLength : i \in 1..Len(buffer)
      BY <1>3, <1>5
    <3> QED
      BY <3>1, <3>2, ElementOfSeq
  <2>2. neededLength \in Int /\ 1 \in Int
    BY <1>3
  <2>3. /\ body \in Seq(Nat)
        /\ Len(body) = IF 1 <= neededLength THEN neededLength - 1 + 1 ELSE 0
        /\ \A i \in 1..neededLength - 1 + 1 : body[i] = buffer[1 + i - 1]
    BY <2>1, <2>2, SubSeqProperties
  <2> HIDE DEF body
  <2>4. Len(body) = neededLength
    BY <2>3, <1>3
  <2>5. ASSUME NEW i \in 1..Len(body)
        PROVE  body[i] = frames[c + 1].body[i]
    <3>1. i \in 1..neededLength /\ i \in 1..neededLength - 1 + 1 /\ 1 + i - 1 = i
      BY <2>4, <1>3
    <3>2. body[i] = buffer[i]
      BY <3>1, <2>3
    <3>3. i \in 1..Len(buffer)
      BY <3>1, <1>3, <1>5
    <3>4. buffer[i] = wire[EndOf(c) + HeaderLength + i]
      BY <3>3, <1>4 DEF Window
    <3>5. wire[EndOf((c + 1) - 1) + HeaderLength + i] = frames[c + 1].body[i]
      BY <3>1, <1>4, <1>5 DEF Layout
    <3> QED
      BY <3>2, <3>4, <3>5, <1>8
  <2> QED
    BY <2>3, <2>4, <2>5, <1>4, <1>7, SeqEqual DEF body
<1> QED
  BY <1>1, <1>4, <1>5, <1>11, <1>12 DEF Moves

\* Reading the stream does not change it.
LEMMA StreamStays ==
    ASSUME Layout, UNCHANGED stream
    PROVE  /\ Layout'
           /\ \A i : EndOf(i)' = EndOf(i)
           /\ \A i : Good(i)' = Good(i)
<1>1. UNCHANGED <<frames, wire, ends>>
  BY DEF stream, sent
<1>2. (\A i : EndOf(i)' = EndOf(i)) /\ (\A i : Good(i)' = Good(i))
  BY <1>1 DEF EndOf, Good
<1>3. Layout'
  BY <1>1, <1>2 DEF Layout
<1> QED
  BY <1>2, <1>3

\* A step that moves the parser from the frame it is at, wherever that is, keeps
\* the invariant.
LEMMA MovesParserIInv ==
    ASSUME ParserIInv, ~Idle, UNCHANGED <<stream, errors>>, ParserTypeOK', Window', HeaderNext',
           \A c \in 0..Len(frames) : At(c) => Moves(c),
           Len(emitted') >= Len(emitted),
           \A i \in 1..Len(emitted) : emitted'[i] = emitted[i]
    PROVE  ParserIInv'
<1>1. /\ ParserTypeOK
      /\ Layout
      /\ Window
      /\ InStep
      /\ FirstError
      /\ Realigned
  BY DEF ParserIInv
<1>2. UNCHANGED <<frames, wire, ends, got, expected, errors, aligned>>
  BY DEF stream, sent
<1>3. /\ Len(frames) \in Nat
      /\ Len(wire) \in Nat
      /\ Len(buffer) \in Nat
      /\ got \in Nat
      /\ Len(emitted) \in Nat
      /\ neededLength \in Nat
      /\ \A i \in 0..Len(frames) : EndOf(i) \in Nat
  BY <1>1, Lengths DEF Layout
<1>4. Len(emitted') \in Nat
  <2>1. emitted' \in Seq(Seq(Nat))
    BY DEF ParserTypeOK
  <2> QED
    BY <2>1, LenProperties
<1>5. /\ Layout'
      /\ \A i : EndOf(i)' = EndOf(i)
      /\ \A i : Good(i)' = Good(i)
  BY <1>1, StreamStays
<1>6. ASSUME NEW b \in Nat, Whole(b)
      PROVE  Whole(b)'
  <2>1. b <= Len(emitted) /\ \A i \in 1..b : Good(i) /\ emitted[i] = frames[i].body
    BY <1>6 DEF Whole
  <2>2. b <= Len(emitted')
    BY <2>1, <1>3, <1>4
  <2>3. \A i \in 1..b : i \in 1..Len(emitted)
    BY <2>1, <1>3
  <2> QED
    BY <2>1, <2>2, <2>3, <1>2, <1>5 DEF Whole
<1>7. ASSUME NEW c \in 0..Len(frames), c + 1 \in 1..Len(frames),
             emitted' = Append(emitted, frames[c + 1].body)
      PROVE  /\ Len(emitted') = Len(emitted) + 1
             /\ emitted'[Len(emitted) + 1] = frames[c + 1].body
  <2>1. emitted \in Seq(Seq(Nat)) /\ frames[c + 1].body \in Seq(Nat)
    BY <1>1, <1>7, FrameTypes DEF ParserTypeOK
  <2> QED
    BY <2>1, <1>7, AppendProperties
<1>8. InStep'
  <2> SUFFICES ASSUME ~errors
               PROVE  InStep'
    BY <1>2 DEF InStep
  <2>1. PICK k \in 0..Len(frames) : k = Len(emitted) /\ At(k) /\ Whole(k)
    BY <1>1, <1>3 DEF InStep
  <2>2. k \in Nat /\ Whole(k)'
    BY <2>1, <1>3, <1>6
  <2>3. CASE At(k)' /\ UNCHANGED emitted
    <3>1. k = Len(emitted') /\ k <= Len(frames')
      BY <2>1, <2>3, <1>2, <1>3
    <3> QED
      BY <3>1, <2>2, <2>3 DEF InStep
  <2>4. CASE /\ k + 1 \in 1..Len(frames)
             /\ Good(k + 1)
             /\ At(k + 1)'
             /\ emitted' = Append(emitted, frames[k + 1].body)
    <3>1. Len(emitted') = k + 1 /\ emitted'[k + 1] = frames[k + 1].body
      BY <2>1, <2>4, <1>7
    <3>2. \A i \in 1..k + 1 : i \in 1..k \/ i = k + 1
      BY <2>2
    <3>3. Whole(k + 1)'
      BY <3>1, <3>2, <2>2, <2>4, <1>2, <1>5 DEF Whole
    <3>4. k + 1 <= Len(frames')
      BY <2>4, <1>2, <1>3
    <3> QED
      BY <3>1, <3>3, <3>4, <2>4 DEF InStep
  <2>5. Moves(k)
    BY <2>1
  <2> QED
    BY <2>3, <2>4, <2>5 DEF Moves
<1>9. FirstError'
  <2> SUFFICES ASSUME errors
               PROVE  FirstError'
    BY <1>2 DEF FirstError
  <2>1. PICK b \in 0..Len(frames) - 1 :
          /\ Whole(b)
          /\ ~Good(b + 1)
          /\ EndOf(b) + HeaderLength <= got
    BY <1>1 DEF FirstError
  <2>2. Whole(b)' /\ ~Good(b + 1)' /\ EndOf(b)' + HeaderLength <= got'
    BY <2>1, <1>2, <1>3, <1>5, <1>6
  <2> QED
    BY <2>2, <1>2 DEF FirstError
<1>10. Realigned'
  <2> SUFFICES ASSUME aligned
               PROVE  Realigned'
    BY <1>2 DEF Realigned
  <2>1. PICK c \in 0..Len(frames), t \in 0..Len(frames), a \in 0..Len(frames) :
          /\ At(c)
          /\ Behind(c, t, a)
          /\ Promised(c, t)
          /\ parsingState = "BODY" => c < a
    BY <1>1 DEF Realigned
  <2>2. c <= t /\ t <= a /\ got = EndOf(a) /\ c \in Nat /\ t \in Nat /\ a \in Nat
    BY <2>1, <1>3 DEF Behind
  <2>3. c < a
    <3>1. CASE parsingState = "HEADER"
      <4>1. EndOf(c) + HeaderLength <= got
        BY <3>1, <2>1, <1>1, HeaderAt
      <4>2. c # a
        BY <4>1, <2>2, <1>3 DEF HeaderLength
      <4> QED
        BY <4>2, <2>2
    <3>2. CASE parsingState = "BODY"
      BY <3>2, <2>1
    <3> QED
      BY <3>1, <3>2, <2>1 DEF At
  <2>4. CASE At(c)' /\ UNCHANGED emitted
    <3>1. Behind(c, t, a)' /\ Promised(c, t)'
      BY <2>1, <2>4, <1>2, <1>5 DEF Behind, Promised
    <3> QED
      BY <3>1, <2>3, <2>4, <1>2 DEF Realigned
  <2>5. CASE /\ c + 1 \in 1..Len(frames)
             /\ Good(c + 1)
             /\ At(c + 1)'
             /\ parsingState' = "HEADER"
             /\ emitted' = Append(emitted, frames[c + 1].body)
    <3>1. c + 1 <= t
      BY <2>1, <2>2, <2>3, <2>5 DEF Behind
    <3>2. Behind(c + 1, t, a)'
      <4>1. \A i \in (c + 1) + 1..t : i \in c + 1..t
        BY <2>2
      <4> QED
        BY <4>1, <3>1, <2>1, <1>2, <1>5 DEF Behind
    <3>3. Promised(c + 1, t)'
      <4>1. /\ Len(emitted') = Len(emitted) + 1
            /\ emitted'[Len(emitted) + 1] = frames[c + 1].body
        BY <2>5, <1>7
      <4>2. Len(expected) = Len(emitted') + (t - (c + 1))
        BY <4>1, <2>1, <2>2, <1>3 DEF Promised
      <4>3. ASSUME NEW i \in 1..Len(emitted')
            PROVE  expected[i] = emitted'[i]
        <5>1. CASE i \in 1..Len(emitted)
          BY <5>1, <2>1 DEF Promised
        <5>2. CASE i = Len(emitted) + 1
          <6>1. 1 \in 1..t - c
            BY <3>1, <2>2
          <6>2. expected[Len(emitted) + 1] = frames[c + 1].body
            BY <6>1, <2>1 DEF Promised
          <6> QED
            BY <6>2, <5>2, <4>1
        <5> QED
          BY <5>1, <5>2, <4>1, <1>3
      <4>4. ASSUME NEW j \in 1..t - (c + 1)
            PROVE  expected[Len(emitted') + j] = frames[(c + 1) + j].body
        <5>1. 1 + j \in 1..t - c
          BY <2>2
        <5>2. expected[Len(emitted) + (1 + j)] = frames[c + (1 + j)].body
          BY <5>1, <2>1 DEF Promised
        <5>3. Len(emitted) + (1 + j) = Len(emitted') + j /\ c + (1 + j) = (c + 1) + j
          BY <4>1, <2>2, <1>3
        <5> QED
          BY <5>2, <5>3
      <4> QED
        BY <4>2, <4>3, <4>4, <1>2 DEF Promised
    <3>4. c + 1 \in 0..Len(frames')
      BY <2>5, <1>2, <1>3
    <3> QED
      BY <3>2, <3>3, <3>4, <2>5, <1>2 DEF Realigned
  <2>6. Moves(c)
    BY <2>1
  <2> QED
    BY <2>4, <2>5, <2>6 DEF Moves
<1> QED
  BY <1>5, <1>8, <1>9, <1>10 DEF ParserIInv

\* Taking a header keeps the invariant (_transform).
LEMMA AcceptsParserIInv == ParserIInv /\ Accepts => ParserIInv'
<1> SUFFICES ASSUME ParserIInv, Accepts
             PROVE  ParserIInv'
  OBVIOUS
<1>1. ParserTypeOK /\ Layout /\ Window /\ HeaderNext
  BY DEF ParserIInv
<1>2. /\ ~Idle
      /\ parsingState = "HEADER"
      /\ ~Refused
      /\ buffer' = SubSeq(buffer, HeaderLength + 1, Len(buffer))
      /\ UNCHANGED <<errors, stream>>
  BY DEF Accepts
<1>3. UNCHANGED <<frames, wire, ends, got, expected, errors, aligned>>
  BY <1>2 DEF stream, sent
<1>4. Len(buffer) \in Nat /\ Len(emitted) \in Nat
  BY <1>1, Lengths
<1>5. HeaderLength \in 0..Len(buffer)
  <2>1. neededLength = HeaderLength
    BY <1>1, <1>2 DEF HeaderNext
  <2> QED
    BY <2>1, <1>2, <1>4 DEF Idle, HeaderLength
<1>6. buffer' \in Seq(Nat) /\ Window'
  BY <1>1, <1>2, <1>3, <1>5, BufferCut
<1>7. /\ neededLength' \in 1..MaxBody \cup {HeaderLength}
      /\ header' \in Nat
      /\ HeaderNext'
      /\ parsingState' \in {"HEADER", "BODY"}
  <2>1. CASE buffer[2] = 0
    BY <2>1 DEF Accepts, Emits, HeaderNext
  <2>2. CASE buffer[2] # 0
    <3>1. buffer[2] \in Nat
      <4>1. 2 \in 1..Len(buffer) /\ buffer \in Seq(Nat)
        BY <1>1, <1>4, <1>5 DEF HeaderLength, ParserTypeOK
      <4> QED
        BY <4>1, ElementOfSeq
    <3>2. ~(buffer[2] > MaxBody) /\ MaxBody \in Nat
      BY <1>2, ParserAssumption DEF Refused
    <3>3. neededLength' = buffer[2] /\ header' = buffer[2] /\ parsingState' = "BODY"
      BY <2>2 DEF Accepts
    <3> QED
      BY <3>1, <3>2, <3>3, <2>2 DEF HeaderNext
  <2> QED
    BY <2>1, <2>2
<1>8. /\ emitted' \in Seq(Seq(Nat))
      /\ Len(emitted') >= Len(emitted)
      /\ \A i \in 1..Len(emitted) : emitted'[i] = emitted[i]
  <2>1. emitted \in Seq(Seq(Nat)) /\ <<>> \in Seq(Nat)
    BY <1>1, EmptySeq DEF ParserTypeOK
  <2>2. CASE emitted' = Append(emitted, <<>>)
    BY <2>1, <2>2, <1>4, AppendProperties
  <2>3. CASE emitted' = emitted
    BY <2>1, <2>3, <1>4
  <2> QED
    BY <2>2, <2>3 DEF Accepts, Emits
<1>9. ParserTypeOK'
  BY <1>1, <1>3, <1>6, <1>7, <1>8, Zenon DEF ParserTypeOK
<1>10. \A c \in 0..Len(frames) : At(c) => Moves(c)
  BY <1>1, AcceptsMoves
<1> QED
  BY <1>2, <1>6, <1>7, <1>8, <1>9, <1>10, MovesParserIInv

\* Taking a body keeps the invariant (_transform).
LEMMA ParseBodyParserIInv == ParserIInv /\ ParseBody => ParserIInv'
<1> SUFFICES ASSUME ParserIInv, ParseBody
             PROVE  ParserIInv'
  OBVIOUS
<1>1. ParserTypeOK /\ Layout /\ Window
  BY DEF ParserIInv
<1>2. /\ ~Idle
      /\ emitted' = Append(emitted, SubSeq(buffer, 1, neededLength))
      /\ header' = 0
      /\ neededLength' = HeaderLength
      /\ parsingState' = "HEADER"
      /\ buffer' = SubSeq(buffer, neededLength + 1, Len(buffer))
      /\ UNCHANGED <<stream, errors>>
  BY DEF ParseBody, Emits
<1>3. UNCHANGED <<frames, wire, ends, got, expected, errors, aligned>>
  BY <1>2 DEF stream, sent
<1>4. Len(buffer) \in Nat /\ Len(emitted) \in Nat /\ neededLength \in Nat
  BY <1>1, Lengths
<1>5. neededLength \in 0..Len(buffer)
  BY <1>2, <1>4 DEF Idle
<1>6. buffer' \in Seq(Nat) /\ Window'
  BY <1>1, <1>2, <1>3, <1>5, BufferCut
<1>7. HeaderNext'
  BY <1>2 DEF HeaderNext
<1>8. /\ emitted' \in Seq(Seq(Nat))
      /\ Len(emitted') >= Len(emitted)
      /\ \A i \in 1..Len(emitted) : emitted'[i] = emitted[i]
  <2>1. \A i \in 1..neededLength : buffer[i] \in Nat
    <3>1. buffer \in Seq(Nat)
      BY <1>1 DEF ParserTypeOK
    <3>2. \A i \in 1..neededLength : i \in 1..Len(buffer)
      BY <1>4, <1>5
    <3> QED
      BY <3>1, <3>2, ElementOfSeq
  <2>2. neededLength \in Int /\ 1 \in Int
    BY <1>4
  <2>3. SubSeq(buffer, 1, neededLength) \in Seq(Nat)
    BY <2>1, <2>2, SubSeqProperties
  <2>4. emitted \in Seq(Seq(Nat))
    BY <1>1 DEF ParserTypeOK
  <2> QED
    BY <2>3, <2>4, <1>2, <1>4, AppendProperties
<1>9. ParserTypeOK'
  <2>1. header' \in Nat
    BY <1>2
  <2> QED
    BY <2>1, <1>1, <1>2, <1>3, <1>6, <1>8, Zenon DEF ParserTypeOK
<1>10. \A c \in 0..Len(frames) : At(c) => Moves(c)
  BY <1>1, ParseBodyMoves
<1> QED
  BY <1>2, <1>6, <1>7, <1>8, <1>9, <1>10, MovesParserIInv

\* A header that is refused takes with it what has come out of the socket.
LEMMA RefusesParserIInv ==
    ASSUME ParserIInv, ~Idle, parsingState = "HEADER", Refused, ResetParserState,
           errors' = TRUE, UNCHANGED stream
    PROVE  ParserIInv'
<1>1. /\ ParserTypeOK
      /\ Layout
      /\ Window
      /\ InStep
      /\ FirstError
      /\ Realigned
  BY DEF ParserIInv
<1>2. UNCHANGED <<frames, wire, ends, got, expected, aligned>>
  BY DEF stream, sent
<1>3. /\ buffer' = <<>>
      /\ header' = 0
      /\ neededLength' = HeaderLength
      /\ parsingState' = "HEADER"
      /\ UNCHANGED emitted
  BY DEF ResetParserState
<1>4. /\ Len(frames) \in Nat
      /\ Len(wire) \in Nat
      /\ got \in Nat
      /\ Len(emitted) \in Nat
      /\ \A i \in 0..Len(frames) : EndOf(i) \in Nat
  BY <1>1, Lengths DEF Layout
<1>5. /\ Layout'
      /\ \A i : EndOf(i)' = EndOf(i)
      /\ \A i : Good(i)' = Good(i)
  BY <1>1, StreamStays
<1>6. ParserTypeOK'
  <2>1. buffer' \in Seq(Nat) /\ header' \in Nat /\ errors' \in BOOLEAN
    BY <1>3, EmptySeq
  <2> QED
    BY <2>1, <1>1, <1>2, <1>3, Zenon DEF ParserTypeOK
<1>7. Len(buffer') = 0
  BY <1>3, EmptySeq
<1>8. Position' = got
  BY <1>2, <1>4, <1>7 DEF Position
<1>9. Window' /\ HeaderNext'
  <2>1. got' <= Len(wire') /\ Len(buffer') <= got'
    BY <1>1, <1>2, <1>4, <1>7 DEF Window
  <2> QED
    BY <2>1, <1>3, <1>7 DEF Window, HeaderNext
<1>10. \A b : Whole(b)' = Whole(b)
  BY <1>2, <1>3, <1>5 DEF Whole
<1>11. InStep'
  BY DEF InStep
<1>12. FirstError'
  <2>1. \E b \in 0..Len(frames) - 1 :
          /\ Whole(b)
          /\ ~Good(b + 1)
          /\ EndOf(b) + HeaderLength <= got
    <3>1. CASE errors
      BY <3>1, <1>1 DEF FirstError
    <3>2. CASE ~errors
      <4>1. PICK k \in 0..Len(frames) : k = Len(emitted) /\ At(k) /\ Whole(k)
        BY <3>2, <1>1, <1>4 DEF InStep
      <4>2. /\ k + 1 \in 1..Len(frames)
            /\ EndOf(k) + HeaderLength <= got
            /\ ~Good(k + 1)
        BY <4>1, <1>1, HeaderAt
      <4>3. k \in 0..Len(frames) - 1
        BY <4>2, <1>4
      <4> QED
        BY <4>1, <4>2, <4>3
    <3> QED
      BY <3>1, <3>2
  <2> QED
    BY <2>1, <1>2, <1>5, <1>10 DEF FirstError
<1>13. Realigned'
  <2> SUFFICES ASSUME aligned
               PROVE  Realigned'
    BY <1>2 DEF Realigned
  <2>1. PICK c \in 0..Len(frames), t \in 0..Len(frames), a \in 0..Len(frames) :
          /\ At(c)
          /\ Behind(c, t, a)
          /\ Promised(c, t)
    BY <1>1 DEF Realigned
  <2>2. c <= t /\ t <= a /\ got = EndOf(a) /\ c \in Nat /\ t \in Nat /\ a \in Nat
    BY <2>1, <1>4 DEF Behind
  <2>3. ~Good(c + 1)
    BY <2>1, <1>1, HeaderAt
  <2>4. t = c
    <3>1. c < t => Good(c + 1)
      <4>1. c < t => c + 1 \in c + 1..t
        BY <2>2
      <4> QED
        BY <4>1, <2>1 DEF Behind
    <3> QED
      BY <3>1, <2>2, <2>3
  <2>5. Len(expected) = Len(emitted) /\ \A i \in 1..Len(emitted) : expected[i] = emitted[i]
    BY <2>1, <2>2, <2>4, <1>4 DEF Promised
  <2>6. Promised(a, a)'
    <3>1. Len(expected) = Len(emitted) + (a - a) /\ 1..a - a = {}
      BY <2>2, <2>5, <1>4
    <3> QED
      BY <3>1, <2>5, <1>2, <1>3 DEF Promised
  <2>7. Behind(a, a, a)'
    <3>1. a + 1..a = {} /\ a <= a /\ ~(a < a)
      BY <2>2
    <3> QED
      BY <3>1, <2>2, <1>2, <1>5 DEF Behind
  <2>8. At(a)'
    BY <2>2, <1>3, <1>5, <1>8 DEF At
  <2> QED
    BY <2>6, <2>7, <2>8, <1>2, <1>3 DEF Realigned
<1> QED
  BY <1>5, <1>6, <1>9, <1>11, <1>12, <1>13 DEF ParserIInv

-----------------------------------------------------------------------------
(* The theorems.                                                            *)

\* Every step of the server, the socket and _transform keeps the invariant.
THEOREM NextParserIInv == ParserIInv /\ [ParserNext]_parserVars => ParserIInv'
<1> SUFFICES ASSUME ParserIInv, [ParserNext]_parserVars
             PROVE  ParserIInv'
  OBVIOUS
<1>1. CASE \E f \in Frames : Send(f)
  BY <1>1, SendParserIInv
<1>2. CASE \E n \in 1..Len(wire) : Deliver(n)
  BY <1>2, DeliverParserIInv
<1>3. CASE ParseHeader
  <2>1. CASE /\ Refused
             /\ ResetParserState
             /\ errors' = TRUE
    <3>1. ~Idle /\ parsingState = "HEADER" /\ UNCHANGED stream
      BY <1>3 DEF ParseHeader
    <3> QED
      BY <2>1, <3>1, RefusesParserIInv
  <2>2. CASE Accepts
    BY <2>2, AcceptsParserIInv
  <2> QED
    BY <2>1, <2>2, <1>3 DEF ParseHeader, Accepts
<1>4. CASE ParseBody
  BY <1>4, ParseBodyParserIInv
<1>5. CASE Reconnect
  BY <1>5, ReconnectParserIInv
<1>6. CASE UNCHANGED parserVars
  <2>1. /\ UNCHANGED <<buffer, neededLength, parsingState, header, emitted>>
        /\ UNCHANGED <<frames, wire, ends, got, expected, aligned, errors>>
    BY <1>6 DEF parserVars, parser, stream, sent
  <2>2. /\ ParserTypeOK
        /\ Layout
        /\ HeaderNext
        /\ Window
        /\ InStep
        /\ FirstError
        /\ Realigned
    BY DEF ParserIInv
  <2>3. ParserTypeOK' /\ HeaderNext'
    BY <2>1, <2>2 DEF ParserTypeOK, HeaderNext
  <2>4. /\ \A i : EndOf(i)' = EndOf(i)
        /\ \A i : Good(i)' = Good(i)
        /\ Position' = Position
    BY <2>1 DEF EndOf, Good, Position
  <2>5. Layout' /\ Window'
    BY <2>1, <2>2, <2>4 DEF Layout, Window
  <2>6. /\ \A c : At(c)' = At(c)
        /\ \A b : Whole(b)' = Whole(b)
        /\ \A c, t, a : Behind(c, t, a)' = Behind(c, t, a)
        /\ \A c, t : Promised(c, t)' = Promised(c, t)
    BY <2>1, <2>4 DEF At, Whole, Behind, Promised
  <2>7. InStep' /\ FirstError' /\ Realigned'
    BY <2>1, <2>2, <2>4, <2>6 DEF InStep, FirstError, Realigned
  <2> QED
    BY <2>3, <2>5, <2>7 DEF ParserIInv
<1> QED
  BY <1>1, <1>2, <1>3, <1>4, <1>5, <1>6 DEF ParserNext

\* The invariant holds in every state of the parser, whatever the server sends
\* and however the socket cuts it into chunks.
THEOREM SpecParserIInv == ParserSpec => []ParserIInv
<1> QED
  BY InitParserIInv, NextParserIInv, PTL DEF ParserSpec

\* No chunk leaves the parser waiting for a length or a state that _transform
\* does not know.
THEOREM ParserTypes == ParserSpec => []ParserTypeOK
<1>1. ParserIInv => ParserTypeOK
  BY DEF ParserIInv
<1> QED
  BY <1>1, SpecParserIInv, PTL

\* What the parser keeps while it waits is bounded: neededLength never exceeds
\* MAX_BODY_LENGTH or a header.
THEOREM BufferStaysSmall == ParserSpec => []BufferBounded
<1>1. ParserIInv => BufferBounded
  <2> SUFFICES ASSUME ParserIInv, Idle
               PROVE  Len(buffer) < MaxBody \/ Len(buffer) < HeaderLength
    BY DEF BufferBounded
  <2>1. ParserTypeOK
    BY DEF ParserIInv
  <2>2. /\ Len(buffer) \in Nat
        /\ MaxBody \in Nat
        /\ neededLength \in 1..MaxBody \cup {HeaderLength}
    BY <2>1, Lengths DEF ParserTypeOK
  <2> QED
    BY <2>2 DEF Idle, HeaderLength
<1> QED
  BY <1>1, SpecParserIInv, PTL

\* An idle parser has emitted the messages that arrived whole, up to the first
\* header that it refused, however the stream was cut.
THEOREM EveryCutting == ParserSpec => []CuttingDoesNotShow
<1>1. ParserIInv => CuttingDoesNotShow
  <2> DEFINE whole == {n \in Arrived : \A i \in 1..n : Good(i)}
             count == Cardinality(whole)
             Refusal == errors => \E i \in 1..Len(frames) :
                                     ~Good(i) /\ EndOf(i - 1) + HeaderLength <= got
  <2> SUFFICES ASSUME ParserIInv, Idle
               PROVE  /\ Len(emitted) >= count
                      /\ \A i \in whole : emitted[i] = frames[i].body
                      /\ errors \/ Len(emitted) = count
                      /\ Refusal
    BY DEF CuttingDoesNotShow
  <2>1. /\ ParserTypeOK
        /\ Layout
        /\ Window
        /\ InStep
        /\ FirstError
    BY DEF ParserIInv
  <2>2. /\ Len(frames) \in Nat
        /\ got \in Nat
        /\ Len(emitted) \in Nat
        /\ \A i \in 0..Len(frames) : EndOf(i) \in Nat
    BY <2>1, Lengths DEF Layout
  <2>3. ASSUME NEW b \in 0..Len(frames), Whole(b), EndOf(b) <= got,
               b < Len(frames) => got < EndOf(b + 1) \/ ~Good(b + 1)
        PROVE  whole = 1..b /\ count = b
    <3>1. ASSUME NEW n \in 1..b
          PROVE  n \in whole
      <4>1. n \in 1..Len(frames) /\ n \in 0..Len(frames)
        BY <2>2, <2>3
      <4>2. EndOf(n) <= got
        <5>1. CASE n = b
          BY <5>1, <2>3
        <5>2. CASE n # b
          <6>1. EndOf(n) + HeaderLength <= EndOf(b)
            BY <5>2, <4>1, <2>1 DEF Layout
          <6> QED
            BY <6>1, <4>1, <2>2, <2>3 DEF HeaderLength
        <5> QED
          BY <5>1, <5>2
      <4>3. \A i \in 1..n : Good(i)
        BY <2>3 DEF Whole
      <4> QED
        BY <4>1, <4>2, <4>3 DEF Arrived
    <3>2. ASSUME NEW n \in whole
          PROVE  n \in 1..b
      <4>1. n \in 1..Len(frames) /\ EndOf(n) <= got /\ \A i \in 1..n : Good(i)
        BY DEF Arrived
      <4>2. ASSUME b < n
            PROVE  FALSE
        <5>1. /\ b + 1 \in 1..n
              /\ b < Len(frames)
              /\ b + 1 \in 0..Len(frames)
              /\ n \in 0..Len(frames)
          BY <4>1, <4>2, <2>2
        <5>2. Good(b + 1)
          BY <5>1, <4>1
        <5>3. got < EndOf(b + 1)
          BY <5>1, <5>2, <2>3
        <5>4. CASE n = b + 1
          BY <5>1, <5>3, <5>4, <4>1, <2>2
        <5>5. CASE n # b + 1
          <6>1. b + 1 < n
            BY <5>5, <4>1, <4>2
          <6>2. EndOf(b + 1) + HeaderLength <= EndOf(n)
            BY <6>1, <5>1, <2>1 DEF Layout
          <6> QED
            BY <6>2, <5>1, <5>3, <4>1, <2>2 DEF HeaderLength
        <5> QED
          BY <5>4, <5>5
      <4> QED
        BY <4>1, <4>2, <2>2
    <3> HIDE DEF whole
    <3>3. whole = 1..b
      BY <3>1, <3>2
    <3>4. b \in Nat
      BY <2>2
    <3>5. Cardinality(1..b) = b
      BY <3>4, FS_Interval
    <3> QED
      BY <3>3, <3>5
  <2> HIDE DEF count
  <2>4. CASE ~errors
    <3>1. PICK k \in 0..Len(frames) : k = Len(emitted) /\ At(k) /\ Whole(k)
      BY <2>1, <2>2, <2>4 DEF InStep
    <3>2. EndOf(k) <= got
      <4>1. Len(buffer) \in Nat /\ Len(buffer) <= got
        BY <2>1, Lengths DEF Window
      <4>2. got - Len(buffer) = EndOf(k) \/ got - Len(buffer) = EndOf(k) + HeaderLength
        BY <3>1 DEF At, Position
      <4> QED
        BY <4>1, <4>2, <2>2 DEF HeaderLength
    <3>3. k < Len(frames) => got < EndOf(k + 1)
      <4>1. k < Len(frames) => k + 1 \in 1..Len(frames) /\ k < k + 1
        BY <2>2
      <4> QED
        BY <4>1, <3>1, <2>1, IdleAt
    <3>4. whole = 1..k /\ count = k
      BY <3>1, <3>2, <3>3, <2>3
    <3>5. \A i \in 1..k : emitted[i] = frames[i].body
      BY <3>1 DEF Whole
    <3>6. Len(emitted) >= count /\ Len(emitted) = count
      BY <3>1, <3>4, <2>2
    <3> HIDE DEF whole
    <3> QED
      BY <3>4, <3>5, <3>6, <2>4
  <2>5. CASE errors
    <3>1. PICK b \in 0..Len(frames) - 1 :
            /\ Whole(b)
            /\ ~Good(b + 1)
            /\ EndOf(b) + HeaderLength <= got
      BY <2>1, <2>5 DEF FirstError
    <3>2. /\ b \in 0..Len(frames)
          /\ b + 1 \in 1..Len(frames)
          /\ EndOf(b) \in Nat
          /\ (b + 1) - 1 = b
      BY <2>2
    <3>3. EndOf(b) <= got
      BY <3>1, <3>2, <2>2 DEF HeaderLength
    <3>4. whole = 1..b /\ count = b
      BY <3>1, <3>2, <3>3, <2>3
    <3>5. \A i \in 1..b : emitted[i] = frames[i].body
      BY <3>1 DEF Whole
    <3>6. Len(emitted) >= count
      BY <3>1, <3>4, <2>2 DEF Whole
    <3>7. Refusal
      BY <3>1, <3>2
    <3> HIDE DEF whole, Refusal
    <3> QED
      BY <3>4, <3>5, <3>6, <3>7, <2>5
  <2> QED
    BY <2>4, <2>5
<1> QED
  BY <1>1, SpecParserIInv, PTL

\* When chunks end where messages end, a refused header costs its own chunk: what
\* was emitted is what the stream promised.
THEOREM ErrorsStayLocal == ParserSpec => []ErrorsAreLocal
<1>1. ParserIInv => ErrorsAreLocal
  <2> SUFFICES ASSUME ParserIInv, aligned, Idle
               PROVE  emitted = expected
    BY DEF ErrorsAreLocal
  <2>1. /\ ParserTypeOK
        /\ Layout
        /\ Window
        /\ Realigned
    BY DEF ParserIInv
  <2>2. /\ Len(frames) \in Nat
        /\ got \in Nat
        /\ Len(emitted) \in Nat
        /\ Len(expected) \in Nat
        /\ \A i \in 0..Len(frames) : EndOf(i) \in Nat
    BY <2>1, Lengths DEF Layout
  <2>3. PICK c \in 0..Len(frames), t \in 0..Len(frames), a \in 0..Len(frames) :
          /\ At(c)
          /\ Behind(c, t, a)
          /\ Promised(c, t)
    BY <2>1 DEF Realigned
  <2>4. c <= t /\ t <= a /\ got = EndOf(a) /\ c \in Nat /\ t \in Nat /\ a \in Nat
    BY <2>2, <2>3 DEF Behind
  <2>5. c = a
    <3>1. CASE c < a
      <4>1. a \in 1..Len(frames)
        BY <3>1, <2>2
      <4>2. got < EndOf(a)
        BY <3>1, <4>1, <2>1, <2>3, IdleAt
      <4> QED
        BY <4>2, <2>2, <2>4
    <3> QED
      BY <3>1, <2>4
  <2>6. Len(emitted) = Len(expected) /\ \A i \in 1..Len(emitted) : emitted[i] = expected[i]
    BY <2>2, <2>3, <2>4, <2>5 DEF Promised
  <2>7. emitted \in Seq(Seq(Nat)) /\ expected \in Seq(Seq(Nat))
    BY <2>1 DEF ParserTypeOK
  <2> QED
    BY <2>6, <2>7, SeqEqual
<1> QED
  BY <1>1, SpecParserIInv, PTL
===============================================================================

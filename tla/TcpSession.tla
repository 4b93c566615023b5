------------------------------ MODULE TcpSession ------------------------------
(***************************************************************************)
(* The TCP session of the central service with the central system: the     *)
(* connection kept by TCPClient, the 401/200 authentication, the periodic  *)
(* session check, and the shutdown of the process around them.             *)
(*                                                                         *)
(* The code is driven by timers, so time is explicit: a timer is the set   *)
(* of the ticks it has left (empty when it is not set), Tick lets one tick *)
(* pass and waits for timers that are due.  xml2js parses synchronously:   *)
(* what an auth response does after its await runs before any other event, *)
(* but after the other messages of the same chunk were handed out.         *)
(***************************************************************************)
EXTENDS Naturals, Sequences

CONSTANTS
    ResponseTimeout,      (* RESPONSE_TIMEOUT, in ticks                       *)
    SessionCheckInterval, (* SESSION_CHECK_INTERVAL                           *)
    ReconnectInterval,    (* RECONNECT_INTERVAL                               *)
    EndTimeout,           (* the 5 s disconnect() waits for the close         *)
    Chunks                (* what one 'data' event may bring                  *)

\* 401, 200, any other or unreadable auth response.
AuthResponses == {"401", "200", "bad"}

\* A chunk by what the session makes of it: its auth responses in their order, and
\* whether a session check response is among its messages.
Chunk == [responses : Seq(AuthResponses), pong : BOOLEAN]

ASSUME ConstantsAssumption ==
    /\ ResponseTimeout \in Nat \ {0}
    /\ SessionCheckInterval \in Nat
    /\ ReconnectInterval \in Nat
    /\ EndTimeout \in Nat
    /\ ResponseTimeout < SessionCheckInterval
    /\ ResponseTimeout < ReconnectInterval
    /\ Chunks \subseteq Chunk

VARIABLES
    isConnecting, isConnected, shouldReconnect, \* TCPClient; sessionManager.currentSocket
                                                \* is set and cleared with isConnected
    socket,       \* TCPClient.socket: destroyed means its 'close' is still to come
    ended,        \* end() was called on it
    authTimeout, pongTimeout, sessionCheck, endTimers, \* timers
    reconnects,   \* the timers that will call connect()
    responses,    \* auth responses handleAuthResponse has yet to act on
    phase,        \* how far startServer or gracefulShutdown is
    owed,         \* requests the central system has not answered
    silence,      \* ticks since it was last heard on the open connection (ghost)
    stale,        \* authTimeout was started for a connection since closed (ghost)
    thrown,       \* net.connect threw in this process (ghost)
    calm          \* no more faults: the central system answers at once

client == <<isConnecting, isConnected, shouldReconnect>>
timers == <<authTimeout, pongTimeout, sessionCheck, endTimers, reconnects>>
ghosts == <<owed, silence, stale, thrown, calm>>
vars == <<client, socket, ended, timers, responses, phase, ghosts>>

TypeOK ==
    /\ isConnecting \in BOOLEAN
    /\ isConnected \in BOOLEAN
    /\ shouldReconnect \in BOOLEAN
    /\ socket \in {"closed", "connecting", "open", "destroyed"}
    /\ ended \in BOOLEAN
    /\ authTimeout \subseteq 0..ResponseTimeout
    /\ pongTimeout \subseteq 0..ResponseTimeout
    /\ sessionCheck \subseteq 0..SessionCheckInterval
    /\ endTimers \subseteq 0..EndTimeout
    /\ reconnects \in Seq(0..ReconnectInterval)
    /\ responses \in Seq(AuthResponses)
    /\ phase \in {"booting", "running", "ending", "cleaning"}
    /\ owed \subseteq {"auth", "response", "ping"}
    /\ silence \in Nat
    /\ stale \in BOOLEAN
    /\ thrown \in BOOLEAN
    /\ calm \in BOOLEAN

Init ==
    /\ isConnecting = FALSE /\ isConnected = FALSE /\ shouldReconnect = TRUE
    /\ socket = "closed" /\ ended = FALSE
    /\ authTimeout = {} /\ pongTimeout = {} /\ sessionCheck = {} /\ endTimers = {}
    /\ reconnects = <<>>
    /\ responses = <<>>
    /\ phase = "booting"
    /\ owed = {} /\ silence = 0 /\ stale = FALSE /\ thrown = FALSE
    /\ calm = FALSE

-----------------------------------------------------------------------------
(* sessionManager.                                                          *)

CanSend == isConnected /\ socket = "open" /\ ~ended
Owing(request) == owed' = IF CanSend THEN owed \cup {request} ELSE owed

\* getConnection()?.destroy(): 'close' follows.
Destroyed == IF isConnected /\ socket = "open" THEN "destroyed" ELSE socket
DestroyConnection == socket' = Destroyed

\* Microtasks run before any event.
Event == responses = <<>>

-----------------------------------------------------------------------------
(* sessionHandler.                                                          *)

StopSessionCheck == sessionCheck' = {} /\ pongTimeout' = {}

SendSessionCheckRequest ==
    \/ /\ Owing("ping")
       /\ pongTimeout' = {ResponseTimeout}
       /\ UNCHANGED socket
    \/ /\ ~calm              \* the ping cannot be built
       /\ pongTimeout' = {}
       /\ DestroyConnection
       /\ UNCHANGED owed

StartSessionCheck ==
    \/ sessionCheck # {} /\ UNCHANGED <<sessionCheck, pongTimeout, owed, socket>>
    \/ /\ sessionCheck = {}
       /\ SendSessionCheckRequest
       /\ sessionCheck' = {SessionCheckInterval}

SessionCheckFires ==
    /\ Event
    /\ 0 \in sessionCheck
    /\ SendSessionCheckRequest
    /\ sessionCheck' = {SessionCheckInterval}
    /\ UNCHANGED <<client, ended, authTimeout, endTimers, reconnects, responses, phase,
                   silence, stale, thrown, calm>>

PongTimesOut ==
    /\ Event
    /\ 0 \in pongTimeout
    /\ pongTimeout' = {}
    /\ DestroyConnection
    /\ UNCHANGED <<client, ended, authTimeout, sessionCheck, endTimers, reconnects,
                   responses, phase, ghosts>>

-----------------------------------------------------------------------------
(* authHandler.                                                             *)

StartAuthTimeout == authTimeout' = {ResponseTimeout} /\ stale' = FALSE

AuthTimesOut ==
    /\ Event
    /\ 0 \in authTimeout
    /\ authTimeout' = {}
    /\ stale' = FALSE
    /\ DestroyConnection
    /\ UNCHANGED <<client, ended, pongTimeout, sessionCheck, endTimers, reconnects,
                   responses, phase, owed, silence, thrown, calm>>

\* Mutant: nothing guards the wait for the final result.
AnswerWithoutTimeout ==
    /\ \/ Owing("response") /\ UNCHANGED socket
       \/ ~calm /\ DestroyConnection /\ UNCHANGED owed
    /\ UNCHANGED <<authTimeout, stale, sessionCheck, pongTimeout>>

\* What handleAuthResponse does with a 401; the write may fail, and then the
\* timer is started all the same.
AnswerChallenge ==
    /\ StartAuthTimeout
    /\ \/ Owing("response") /\ UNCHANGED socket
       \/ ~calm /\ DestroyConnection /\ UNCHANGED owed
    /\ UNCHANGED <<sessionCheck, pongTimeout>>

HandleAuthResponse ==
    /\ responses # <<>>
    /\ responses' = Tail(responses)
    /\ \/ Head(responses) = "401" /\ AnswerChallenge
       \/ /\ Head(responses) = "200"
          /\ StartSessionCheck
          /\ UNCHANGED <<authTimeout, stale>>
       \/ /\ Head(responses) = "bad"
          /\ DestroyConnection
          /\ UNCHANGED <<authTimeout, stale, sessionCheck, pongTimeout, owed>>
    /\ UNCHANGED <<client, ended, endTimers, reconnects, phase, silence, thrown, calm>>

-----------------------------------------------------------------------------
(* TCPClient.                                                               *)

\* connect(), called with the timers that remain.  When net.connect throws, as
\* on an unusable port, isConnecting is reset before handleClose looks at it.
Connect ==
    \/ /\ isConnecting \/ isConnected
       /\ UNCHANGED <<client, socket, ended, thrown>>
    \/ /\ ~isConnecting /\ ~isConnected
       /\ shouldReconnect' = TRUE
       /\ isConnecting' = TRUE
       /\ socket' = "connecting"
       /\ ended' = FALSE
       /\ UNCHANGED <<isConnected, thrown>>
    \/ /\ ~isConnecting /\ ~isConnected
       /\ ~calm
       /\ shouldReconnect' = TRUE
       /\ thrown' = TRUE
       /\ UNCHANGED <<isConnecting, isConnected, socket, ended>>

ReconnectFires(i) ==
    /\ Event
    /\ reconnects[i] = 0
    /\ reconnects' = SubSeq(reconnects, 1, i - 1) \o SubSeq(reconnects, i + 1, Len(reconnects))
    /\ Connect
    /\ UNCHANGED <<authTimeout, pongTimeout, sessionCheck, endTimers, responses, phase,
                   owed, silence, stale, calm>>

\* 'connect', and sendInitialAuthRequest in the same turn.
HandleConnect ==
    /\ Event
    /\ socket = "connecting"
    /\ isConnecting' = FALSE
    /\ isConnected' = TRUE
    /\ silence' = 0
    /\ \/ /\ socket' = "open"
          /\ owed' = IF ended THEN {} ELSE {"auth"}
          /\ StartAuthTimeout
       \/ /\ ~calm            \* the request cannot be built
          /\ socket' = "destroyed"
          /\ UNCHANGED <<owed, authTimeout, stale>>
    /\ UNCHANGED <<shouldReconnect, ended, pongTimeout, sessionCheck, endTimers, reconnects,
                   responses, phase, thrown, calm>>

\* Mutant: an attempt that failed is not repeated.
ReconnectIfConnected ==
    reconnects' = IF shouldReconnect /\ isConnected
                  THEN Append(reconnects, ReconnectInterval)
                  ELSE reconnects

\* Mutant: the client reconnects at once.
ReconnectAtOnce ==
    reconnects' = IF shouldReconnect /\ (isConnected \/ isConnecting)
                  THEN Append(reconnects, 0)
                  ELSE reconnects

ScheduleReconnect ==
    reconnects' = IF shouldReconnect /\ (isConnected \/ isConnecting)
                  THEN Append(reconnects, ReconnectInterval)
                  ELSE reconnects

HandleClose ==
    /\ Event
    /\ socket = "destroyed"
    /\ socket' = "closed"
    /\ isConnected' = FALSE
    /\ isConnecting' = FALSE
    /\ StopSessionCheck
    /\ ScheduleReconnect
    /\ stale' = (authTimeout # {})
    /\ owed' = {}
    /\ UNCHANGED <<shouldReconnect, ended, authTimeout, endTimers, responses, phase, silence, thrown, calm>>

\* Mutant: a session check response does not stop the pong timer.
PongTimerStays(chunk) == UNCHANGED pongTimeout

StopPongTimer(chunk) == pongTimeout' = IF chunk.pong THEN {} ELSE pongTimeout

Only(response) == [responses |-> <<response>>, pong |-> FALSE]
Pong == [responses |-> <<>>, pong |-> TRUE]

\* Anything may arrive; once calm, the answer to what was asked.
DataArrives(chunk) ==
    /\ Event
    /\ socket = "open"
    /\ \/ ~calm /\ owed' \in SUBSET owed
       \/ /\ calm
          /\ \/ chunk = Only("401") /\ "auth" \in owed /\ owed' = owed \ {"auth"}
             \/ chunk = Only("200") /\ "response" \in owed /\ owed' = owed \ {"response"}
             \/ chunk = Pong /\ "ping" \in owed /\ owed' = owed \ {"ping"}
    /\ authTimeout' = IF chunk.responses # <<>> THEN {} ELSE authTimeout
    /\ stale' = (stale /\ authTimeout' # {})
    /\ StopPongTimer(chunk)
    /\ responses' = chunk.responses
    /\ silence' = 0
    /\ UNCHANGED <<client, socket, ended, sessionCheck, endTimers, reconnects, phase, thrown, calm>>

\* The connection is refused, reset or closed by the peer; after our own end()
\* the peer closes as well.
ConnectionLost ==
    /\ Event
    /\ socket \in {"connecting", "open"}
    /\ ~calm \/ (ended /\ socket = "open")
    /\ socket' = "destroyed"
    /\ UNCHANGED <<client, ended, timers, responses, phase, ghosts>>

-----------------------------------------------------------------------------
(* The process: startServer, gracefulShutdown, and the restart by docker.   *)

Boot ==
    /\ phase = "booting"
    /\ phase' = "running"
    /\ Connect
    /\ UNCHANGED <<timers, responses, owed, silence, stale, calm>>

\* A signal, an uncaught exception or an unhandled rejection; disconnect().
Disconnect ==
    /\ Event
    /\ ~calm
    /\ phase # "booting"
    /\ shouldReconnect' = FALSE
    /\ IF socket \in {"connecting", "open"}
       THEN /\ ended' = TRUE
            /\ endTimers' = endTimers \cup {EndTimeout}
            /\ phase' = IF phase = "cleaning" THEN phase ELSE "ending"
       ELSE /\ phase' = "cleaning"
            /\ UNCHANGED <<ended, endTimers>>
    /\ UNCHANGED <<isConnecting, isConnected, socket, authTimeout, pongTimeout, sessionCheck,
                   reconnects, responses, ghosts>>

\* The callback of end(): everything was written, or the socket is gone.
EndCallback ==
    /\ Event
    /\ phase = "ending"
    /\ socket # "connecting"
    /\ phase' = "cleaning"
    /\ UNCHANGED <<client, socket, ended, timers, responses, ghosts>>

EndTimesOut ==
    /\ Event
    /\ 0 \in endTimers
    /\ endTimers' = endTimers \ {0}
    /\ socket' = IF socket \in {"connecting", "open"} THEN "destroyed" ELSE socket
    /\ UNCHANGED <<client, ended, authTimeout, pongTimeout, sessionCheck, reconnects,
                   responses, phase, ghosts>>

\* The broker and the pool are closed and the process exits, or it is killed;
\* either way it is started again.
Restart ==
    /\ ~calm \/ phase = "cleaning"
    /\ isConnecting' = FALSE /\ isConnected' = FALSE /\ shouldReconnect' = TRUE
    /\ socket' = "closed" /\ ended' = FALSE
    /\ authTimeout' = {} /\ pongTimeout' = {} /\ sessionCheck' = {} /\ endTimers' = {}
    /\ reconnects' = <<>>
    /\ responses' = <<>>
    /\ phase' = "booting"
    /\ owed' = {} /\ silence' = 0 /\ stale' = FALSE /\ thrown' = FALSE
    /\ UNCHANGED calm

-----------------------------------------------------------------------------
BecomeCalm ==
    /\ ~calm
    /\ calm' = TRUE
    /\ UNCHANGED <<client, socket, ended, timers, responses, phase, owed, silence, stale, thrown>>

Later(timer) == {t - 1 : t \in timer}

\* Nothing is due, and once calm nobody is waiting for the central system.
NothingDue ==
    /\ Event
    /\ phase # "booting"
    /\ socket # "destroyed"
    /\ 0 \notin authTimeout \cup pongTimeout \cup sessionCheck \cup endTimers
    /\ \A i \in DOMAIN reconnects : reconnects[i] # 0
    /\ calm => owed = {} /\ socket # "connecting"

Tick ==
    /\ NothingDue
    /\ authTimeout' = Later(authTimeout)
    /\ pongTimeout' = Later(pongTimeout)
    /\ sessionCheck' = Later(sessionCheck)
    /\ endTimers' = Later(endTimers)
    /\ reconnects' = [i \in DOMAIN reconnects |-> reconnects[i] - 1]
    /\ silence' = IF socket = "open" THEN silence + 1 ELSE 0
    /\ UNCHANGED <<client, socket, ended, responses, phase, owed, stale, thrown, calm>>

Timers ==
    \/ SessionCheckFires \/ PongTimesOut \/ AuthTimesOut \/ EndTimesOut
    \/ \E i \in DOMAIN reconnects : ReconnectFires(i)

Next ==
    \/ Boot
    \/ HandleConnect \/ HandleClose \/ HandleAuthResponse
    \/ \E chunk \in Chunks : DataArrives(chunk)
    \/ Timers
    \/ Tick
    \/ ConnectionLost
    \/ Disconnect \/ EndCallback \/ Restart
    \/ BecomeCalm

Spec == Init /\ [][Next]_vars

\* Time passes, the event loop serves sockets, timers and promises, the central
\* system accepts and answers, and a shutdown gets to its process.exit.
Fairness ==
    /\ WF_vars(BecomeCalm)
    /\ WF_vars(Boot)
    /\ WF_vars(HandleConnect)
    /\ WF_vars(HandleClose)
    /\ WF_vars(HandleAuthResponse)
    /\ WF_vars(\E chunk \in Chunks : DataArrives(chunk))
    /\ WF_vars(Timers)
    /\ WF_vars(Tick)
    /\ WF_vars(EndCallback)
    /\ WF_vars(phase = "cleaning" /\ Restart)

FairSpec == Spec /\ Fairness
-----------------------------------------------------------------------------
(* Properties.                                                              *)

\* handleClose stops the session check and not the authentication timer.  The
\* timer of a closed connection is gone before the next connection registers,
\* so it cannot destroy it (authHandler._startAuthTimeout, TCPClient.handleClose).
NoStaleTimer == isConnected => ~stale

\* A client that was not told to stop never has two ways to get back to the
\* central system, of an attempt, a connection and the pending reconnect timers,
\* and as long as net.connect did not throw it has one (TCPClient.connect,
\* handleClose).
WaysBack == Len(reconnects) + (IF isConnecting THEN 1 ELSE 0) + (IF isConnected THEN 1 ELSE 0)
OneWayBack == phase = "running" => WaysBack <= 1 /\ (thrown \/ WaysBack = 1)

\* An attempt that failed at once brings about a reconnect too: handleClose is
\* called by hand for it (catch of TCPClient.connect).
AlwaysAWayBack == phase = "running" => WaysBack >= 1

\* A central system that has fallen silent is given up within one session check
\* and one response timeout, whatever it said before (session check, pong and
\* authentication timers, the latter cleared before the response is understood).
SilenceBounded == silence <= SessionCheckInterval + ResponseTimeout

\* If faults stop, the client ends up authenticated with the session check
\* running, from any state, and stays there: no timer destroys it again.  Only a
\* client that net.connect stranded does not.
InSession == phase = "running" /\ isConnected /\ socket = "open" /\ sessionCheck # {}
EventuallyInSession == <>[](InSession \/ thrown)
=============================================================================

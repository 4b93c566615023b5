---------------------------- MODULE SocketSessions ----------------------------
(***************************************************************************)
(* The socket.io sessions of the external service: the map activeSockets   *)
(* from an external system to its registered socket, kept by addSocket and *)
(* removeSocket while sockets of the same system come and go.              *)
(*                                                                         *)
(* addSocket awaits a row of connection_logs before it replaces a          *)
(* registered socket, and another one at its end; everything else runs in  *)
(* one turn.  socket.disconnect(true) emits 'disconnect' before it returns.*)
(***************************************************************************)
EXTENDS Naturals, FiniteSets

CONSTANTS
    Sockets,   (* ids of the sockets that may ever connect                    *)
    Systems,   (* ids of external_systems                                     *)
    SystemOf,  (* socket.system.id, attached by the auth middleware           *)
    None

ASSUME ConstantsAssumption ==
    /\ SystemOf \in [Sockets -> Systems]
    /\ None \notin Sockets

VARIABLES
    connection,    \* socket.connected: a socket connects once
    activeSockets, \* the Map: the socket registered for a system
    calls,         \* addSocket calls awaiting a log row
    disturbed      \* systems that had a socket come, or the new one go, while
                   \* another was being replaced (ghost)

vars == <<connection, activeSockets, calls, disturbed>>

\* existing is the registered socket the call read before it awaited.
Call == [socket : Sockets, existing : Sockets \cup {None}, pc : {"replacing", "logging"}]

TypeOK ==
    /\ connection \in [Sockets -> {"new", "up", "down"}]
    /\ activeSockets \in [Systems -> Sockets \cup {None}]
    /\ calls \subseteq Call
    /\ disturbed \subseteq Systems

Init ==
    /\ connection = [s \in Sockets |-> "new"]
    /\ activeSockets = [sys \in Systems |-> None]
    /\ calls = {}
    /\ disturbed = {}

-----------------------------------------------------------------------------
Registered(s) == activeSockets[SystemOf[s]]
Replacing(s) == \E c \in calls : c.pc = "replacing" /\ c.socket = s
BeingReplaced(sys) == \E s \in Sockets : SystemOf[s] = sys /\ Replacing(s)

DisturbIf(happens, s) ==
    disturbed' = IF happens THEN disturbed \cup {SystemOf[s]} ELSE disturbed

\* Mutant: any socket of the system takes the registered one out.
WithoutAny(s, active) == [active EXCEPT ![SystemOf[s]] = None]

\* removeSocket: only the registered socket takes itself out of the map.
Without(s, active) ==
    [active EXCEPT ![SystemOf[s]] = IF @ = s THEN None ELSE @]

\* addSocket up to its first await.
AddSocket(s) ==
    /\ connection[s] = "new"
    /\ connection' = [connection EXCEPT ![s] = "up"]
    /\ \/ /\ Registered(s) = None
          /\ activeSockets' = [activeSockets EXCEPT ![SystemOf[s]] = s]
          /\ calls' = calls \cup {[socket |-> s, existing |-> None, pc |-> "logging"]}
       \/ /\ Registered(s) # None
          /\ calls' = calls \cup {[socket |-> s, existing |-> Registered(s), pc |-> "replacing"]}
          /\ UNCHANGED activeSockets
    /\ DisturbIf(BeingReplaced(SystemOf[s]), s)

\* Mutant: the replaced socket is left open.
ReplaceWithoutClosing(c) ==
    /\ c.pc = "replacing"
    /\ activeSockets' = [activeSockets EXCEPT ![SystemOf[c.socket]] = c.socket]
    /\ calls' = (calls \ {c}) \cup {[c EXCEPT !.pc = "logging"]}
    /\ UNCHANGED <<connection, disturbed>>

\* The log row is written: the socket read before is closed, whatever is
\* registered by now is deleted, the new socket is registered.
ReplaceExisting(c) ==
    /\ c.pc = "replacing"
    /\ connection' = [connection EXCEPT ![c.existing] = "down"]
    /\ activeSockets' = [activeSockets EXCEPT ![SystemOf[c.socket]] = c.socket]
    /\ calls' = (calls \ {c}) \cup {[c EXCEPT !.pc = "logging"]}
    /\ UNCHANGED disturbed

Finish(c) ==
    /\ c.pc = "logging"
    /\ calls' = calls \ {c}
    /\ UNCHANGED <<connection, activeSockets, disturbed>>

\* The log row is refused: the new socket is closed, which removes it if it is
\* the registered one and still open.
LogFails(c) ==
    /\ calls' = calls \ {c}
    /\ connection' = [connection EXCEPT ![c.socket] = "down"]
    /\ activeSockets' = IF connection[c.socket] = "up"
                        THEN Without(c.socket, activeSockets)
                        ELSE activeSockets
    /\ UNCHANGED disturbed

\* The client leaves, or its transport is lost: 'disconnect' and removeSocket.
RemoveSocket(s) ==
    /\ connection[s] = "up"
    /\ connection' = [connection EXCEPT ![s] = "down"]
    /\ activeSockets' = Without(s, activeSockets)
    /\ DisturbIf(Replacing(s), s)
    /\ UNCHANGED calls

\* The process goes down with every socket and comes back with an empty map.
Restart ==
    /\ connection' = [s \in Sockets |-> IF connection[s] = "up" THEN "down" ELSE connection[s]]
    /\ activeSockets' = [sys \in Systems |-> None]
    /\ calls' = {}
    /\ disturbed' = {}

Next ==
    \/ \E s \in Sockets : AddSocket(s) \/ RemoveSocket(s)
    \/ \E c \in calls : ReplaceExisting(c) \/ Finish(c) \/ LogFails(c)
    \/ Restart

Spec == Init /\ [][Next]_vars
-----------------------------------------------------------------------------
(* Properties.                                                              *)

Live(sys) == {s \in Sockets : SystemOf[s] = sys /\ connection[s] = "up"}

Arriving(sys) == {s \in Live(sys) : Replacing(s)}

\* A system's registered socket is its one live socket, apart from one that
\* awaits to replace it, unless during such an await yet another socket of the
\* system came or the waiting one left: refused log rows, failed replacements,
\* clients that leave and restarts cannot break it (addSocket, removeSocket).
RegistryMatchesSockets ==
    \A sys \in Systems : sys \notin disturbed =>
        Live(sys) \ Arriving(sys) = {activeSockets[sys]} \ {None}

\* A registered socket that is alive is only ever given up for a socket whose
\* addSocket call was waiting to replace one: the late disconnect of an older
\* socket never takes the newer one out of the map (the === in removeSocket).
GivenUpOnlyForReplacement ==
    \A s \in Sockets :
        Registered(s) = s /\ connection[s] = "up" /\ connection'[s] = "up" =>
            \/ Registered(s)' = s
            \/ \E c \in calls : c.pc = "replacing" /\ Registered(s)' = c.socket

RegistrationsAreKept == [][GivenUpOnlyForReplacement]_vars
=============================================================================

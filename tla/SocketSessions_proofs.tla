------------------------ MODULE SocketSessions_proofs ------------------------
(***************************************************************************)
(* Theorems about SocketSessions, for any number of sockets and systems.   *)
(*                                                                         *)
(* What makes the registry right is that, in a system nobody disturbs, the *)
(* addSocket call that waits to replace a socket is alone, its own socket  *)
(* is up, and the socket it will close is the registered one or none is.   *)
(***************************************************************************)
EXTENDS SocketSessions, TLAPS

\* A socket has one addSocket call, and none before it connects.
OneCallPerSocket ==
    /\ \A c \in calls : connection[c.socket] # "new"
    /\ \A c, d \in calls : c.socket = d.socket => c = d

OwnSystem ==
    /\ \A sys \in Systems : activeSockets[sys] # None => SystemOf[activeSockets[sys]] = sys
    /\ \A c \in calls : c.pc = "replacing" =>
           /\ c.existing # None
           /\ c.existing # c.socket
           /\ SystemOf[c.existing] = SystemOf[c.socket]

RegisteredHasConnected ==
    \A sys \in Systems : activeSockets[sys] # None => connection[activeSockets[sys]] # "new"

ReplacesTheRegistered ==
    \A c \in calls : c.pc = "replacing" /\ SystemOf[c.socket] \notin disturbed =>
        /\ connection[c.socket] = "up"
        /\ Registered(c.socket) \in {c.existing, None}
        /\ \A d \in calls :
               d.pc = "replacing" /\ SystemOf[d.socket] = SystemOf[c.socket] => d = c

\* RegistryMatchesSockets, socket by socket.
LiveIsRegistered ==
    \A s \in Sockets : SystemOf[s] \notin disturbed =>
        (connection[s] = "up" /\ ~Replacing(s) <=> Registered(s) = s)

IInv ==
    /\ TypeOK
    /\ OneCallPerSocket
    /\ OwnSystem
    /\ RegisteredHasConnected
    /\ ReplacesTheRegistered
    /\ LiveIsRegistered

-----------------------------------------------------------------------------
\* A socket belongs to a system.
LEMMA SystemType ==
    ASSUME NEW s \in Sockets
    PROVE  SystemOf[s] \in Systems
BY ConstantsAssumption DEF ConstantsAssumption

\* What a call of addSocket carries.
LEMMA CallType ==
    ASSUME TypeOK, NEW c \in calls
    PROVE  /\ c \in Call /\ c.socket \in Sockets
           /\ c.existing \in Sockets \cup {None}
           /\ c.pc \in {"replacing", "logging"}
BY DEF TypeOK, Call

\* The invariant gives the property.
LEMMA RegistryMatches == IInv => RegistryMatchesSockets
<1> SUFFICES ASSUME IInv, NEW sys \in Systems, sys \notin disturbed
             PROVE  Live(sys) \ Arriving(sys) = {activeSockets[sys]} \ {None}
    BY DEF RegistryMatchesSockets
<1>1. \A s \in Sockets : s \in Live(sys) \ Arriving(sys) <=>
          SystemOf[s] = sys /\ connection[s] = "up" /\ ~Replacing(s)
    BY DEF Live, Arriving
<1>2. /\ activeSockets[sys] \in Sockets \cup {None} /\ None \notin Sockets
      /\ activeSockets[sys] # None => SystemOf[activeSockets[sys]] = sys
      /\ \A s \in Sockets : SystemOf[s] = sys =>
            (connection[s] = "up" /\ ~Replacing(s) <=> activeSockets[sys] = s)
    BY ConstantsAssumption
    DEF IInv, TypeOK, OwnSystem, LiveIsRegistered, Registered, ConstantsAssumption
<1>3. Live(sys) \ Arriving(sys) \subseteq Sockets
    BY DEF Live
<1> QED
    BY <1>1, <1>2, <1>3

-----------------------------------------------------------------------------
\* A socket is authenticated and its call starts (addSocket).
LEMMA AddSocketIInv ==
    ASSUME IInv, NEW s \in Sockets, AddSocket(s)
    PROVE  IInv'
<1> DEFINE sys == SystemOf[s]
           c == [socket |-> s, existing |-> Registered(s),
                 pc |-> IF Registered(s) = None THEN "logging" ELSE "replacing"]
<1>1. /\ sys \in Systems
      /\ None \notin Sockets
      /\ Registered(s) \in Sockets \cup {None}
      /\ connection[s] = "new"
    BY SystemType, ConstantsAssumption
    DEF IInv, TypeOK, Registered, AddSocket, ConstantsAssumption
<1>2. /\ calls' = calls \cup {c}
      /\ connection' = [connection EXCEPT ![s] = "up"]
      /\ activeSockets' = IF Registered(s) = None THEN [activeSockets EXCEPT ![sys] = s]
                                                  ELSE activeSockets
      /\ disturbed' = IF BeingReplaced(sys) THEN disturbed \cup {sys} ELSE disturbed
    BY DEF AddSocket, DisturbIf
<1>3. \A d \in calls : d.socket # s
    BY <1>1 DEF IInv, OneCallPerSocket
<1>4. \A x \in Systems : activeSockets[x] # s
    BY <1>1 DEF IInv, RegisteredHasConnected
<1>5. /\ c \in Call /\ c.socket = s /\ c.existing = Registered(s)
      /\ c.pc = IF Registered(s) = None THEN "logging" ELSE "replacing"
    BY <1>1 DEF Call
<1> HIDE DEF c
<1>6. TypeOK'
    BY <1>1, <1>2, <1>5 DEF IInv, TypeOK
<1>7. /\ connection'[s] = "up"
      /\ \A t \in Sockets : t # s => connection'[t] = connection[t]
      /\ activeSockets'[sys] = IF Registered(s) = None THEN s ELSE Registered(s)
      /\ \A x \in Systems : x # sys => activeSockets'[x] = activeSockets[x]
    BY <1>1, <1>2 DEF IInv, TypeOK, Registered
<1>8. OneCallPerSocket'
    BY <1>2, <1>3, <1>5, <1>7, CallType DEF IInv, OneCallPerSocket
<1>9. OwnSystem'
  <2>1. \A x \in Systems : activeSockets'[x] # None => SystemOf[activeSockets'[x]] = x
      BY <1>1, <1>7 DEF IInv, OwnSystem, Registered
  <2>2. c.pc = "replacing" => /\ c.existing # None
                              /\ c.existing # c.socket
                              /\ SystemOf[c.existing] = SystemOf[c.socket]
      BY <1>1, <1>4, <1>5 DEF IInv, OwnSystem, Registered
  <2> QED
      BY <1>2, <2>1, <2>2 DEF IInv, OwnSystem
<1>10. RegisteredHasConnected'
    BY <1>1, <1>4, <1>7 DEF IInv, TypeOK, RegisteredHasConnected, Registered
<1>11. ReplacesTheRegistered'
  <2> SUFFICES ASSUME NEW k \in calls', k.pc = "replacing", SystemOf[k.socket] \notin disturbed'
               PROVE  /\ connection'[k.socket] = "up"
                      /\ activeSockets'[SystemOf[k.socket]] \in {k.existing, None}
                      /\ \A d \in calls' :
                             d.pc = "replacing" /\ SystemOf[d.socket] = SystemOf[k.socket] => d = k
      BY DEF ReplacesTheRegistered, Registered
  <2>1. SystemOf[k.socket] \notin disturbed
      BY <1>2
  <2>2. CASE SystemOf[k.socket] = sys
    \* The system is not disturbed by s, so s is the only one that waits.
    <3>1. ~BeingReplaced(sys)
        BY <1>2, <2>2
    <3>2. \A d \in calls : d.pc = "replacing" => SystemOf[d.socket] # sys
        BY <3>1, CallType DEF BeingReplaced, Replacing, IInv
    <3>3. k = c
        BY <1>2, <2>2, <3>2
    <3> QED
        BY <1>2, <1>5, <1>7, <3>2, <3>3
  <2>3. CASE SystemOf[k.socket] # sys
    <3>1. k \in calls /\ k.socket \in Sockets /\ SystemOf[k.socket] \in Systems
        BY <1>2, <1>5, <2>3, CallType, SystemType DEF IInv
    <3>2. k.socket # s
        BY <2>3
    <3> QED
        BY <1>2, <1>5, <1>7, <2>1, <2>3, <3>1, <3>2 DEF IInv, ReplacesTheRegistered, Registered
  <2> QED
      BY <2>2, <2>3
<1>12. LiveIsRegistered'
  <2> SUFFICES ASSUME NEW t \in Sockets, SystemOf[t] \notin disturbed'
               PROVE  connection'[t] = "up" /\ ~Replacing(t)' <=> activeSockets'[SystemOf[t]] = t
      BY DEF LiveIsRegistered, Registered
  <2>1. connection[t] = "up" /\ ~Replacing(t) <=> activeSockets[SystemOf[t]] = t
      BY <1>2 DEF IInv, LiveIsRegistered, Registered
  <2>2. CASE t = s
      BY <1>1, <1>2, <1>3, <1>4, <1>5, <1>7, <2>2 DEF Replacing
  <2>3. CASE t # s
    <3>1. Replacing(t)' <=> Replacing(t)
        BY <1>2, <1>5, <2>3 DEF Replacing
    <3>2. activeSockets'[SystemOf[t]] = t <=> activeSockets[SystemOf[t]] = t
        BY <1>1, <1>7, <2>3, SystemType DEF Registered
    <3> QED
        BY <1>7, <2>1, <2>3, <3>1, <3>2
  <2> QED
      BY <2>2, <2>3
<1> QED
    BY <1>6, <1>8, <1>9, <1>10, <1>11, <1>12 DEF IInv

\* The call disconnects the socket it found (addSocket).
LEMMA ReplaceExistingIInv ==
    ASSUME IInv, NEW c \in calls, ReplaceExisting(c)
    PROVE  IInv'
<1> DEFINE s == c.socket
           sys == SystemOf[s]
           k == [c EXCEPT !.pc = "logging"]
<1>1. /\ c \in Call /\ s \in Sockets /\ sys \in Systems /\ None \notin Sockets
      /\ c.pc = "replacing" /\ c.existing \in Sockets /\ c.existing # s
      /\ SystemOf[c.existing] = sys
    BY CallType, SystemType, ConstantsAssumption
    DEF IInv, OwnSystem, ReplaceExisting, ConstantsAssumption
<1>2. /\ calls' = (calls \ {c}) \cup {k}
      /\ connection' = [connection EXCEPT ![c.existing] = "down"]
      /\ activeSockets' = [activeSockets EXCEPT ![sys] = s]
      /\ disturbed' = disturbed
    BY DEF ReplaceExisting
<1>3. k \in Call /\ k.socket = s /\ k.pc = "logging"
    BY <1>1 DEF Call
<1> HIDE DEF k
<1>4. TypeOK'
    BY <1>1, <1>2, <1>3 DEF IInv, TypeOK
<1>5. /\ connection'[c.existing] = "down"
      /\ \A t \in Sockets : t # c.existing => connection'[t] = connection[t]
      /\ activeSockets'[sys] = s
      /\ \A x \in Systems : x # sys => activeSockets'[x] = activeSockets[x]
    BY <1>1, <1>2 DEF IInv, TypeOK
<1>6. OneCallPerSocket'
  <2>1. \A d \in calls' : connection'[d.socket] # "new"
      BY <1>1, <1>2, <1>3, <1>5, CallType DEF IInv, OneCallPerSocket
  <2>2. \A d \in calls \ {c} : d.socket # s
      BY DEF IInv, OneCallPerSocket
  <2> HIDE DEF s, sys
  <2> QED
      BY <1>2, <1>3, <2>1, <2>2 DEF IInv, OneCallPerSocket
<1>7. OwnSystem'
    BY <1>1, <1>2, <1>3, <1>5 DEF IInv, OwnSystem
<1>8. RegisteredHasConnected'
  <2>1. connection[s] # "new"
      BY DEF IInv, OneCallPerSocket
  <2> QED
      BY <1>1, <1>5, <2>1 DEF IInv, TypeOK, RegisteredHasConnected
<1>9. ReplacesTheRegistered'
  <2> SUFFICES ASSUME NEW d \in calls', d.pc = "replacing", SystemOf[d.socket] \notin disturbed
               PROVE  /\ connection'[d.socket] = "up"
                      /\ activeSockets'[SystemOf[d.socket]] \in {d.existing, None}
                      /\ \A e \in calls' :
                             e.pc = "replacing" /\ SystemOf[e.socket] = SystemOf[d.socket] => e = d
      BY <1>2 DEF ReplacesTheRegistered, Registered
  <2>1. d \in calls /\ d # c /\ d.socket \in Sockets /\ SystemOf[d.socket] \in Systems
      BY <1>2, <1>3, CallType, SystemType DEF IInv
  <2>2. SystemOf[d.socket] # sys
      BY <1>1, <2>1 DEF IInv, ReplacesTheRegistered
  <2>3. d.socket # c.existing
      BY <1>1, <2>2
  <2>4. /\ connection[d.socket] = "up"
        /\ Registered(d.socket) \in {d.existing, None}
        /\ \A e \in calls :
               e.pc = "replacing" /\ SystemOf[e.socket] = SystemOf[d.socket] => e = d
      BY <2>1 DEF IInv, ReplacesTheRegistered
  <2> HIDE DEF s, sys
  <2>5. connection'[d.socket] = "up" /\ activeSockets'[SystemOf[d.socket]] \in {d.existing, None}
      BY <1>5, <2>1, <2>2, <2>3, <2>4 DEF Registered
  <2>6. \A e \in calls' :
            e.pc = "replacing" /\ SystemOf[e.socket] = SystemOf[d.socket] => e = d
      BY <1>2, <1>3, <2>4
  <2> QED
      BY <2>5, <2>6
<1>10. LiveIsRegistered'
  <2> SUFFICES ASSUME NEW t \in Sockets, SystemOf[t] \notin disturbed
               PROVE  connection'[t] = "up" /\ ~Replacing(t)' <=> activeSockets'[SystemOf[t]] = t
      BY <1>2 DEF LiveIsRegistered, Registered
  <2>1. connection[t] = "up" /\ ~Replacing(t) <=> activeSockets[SystemOf[t]] = t
      BY DEF IInv, LiveIsRegistered, Registered
  <2>2. \A d \in calls \ {c} : d.socket # s
      BY DEF IInv, OneCallPerSocket
  <2>3. CASE SystemOf[t] # sys
    <3>1. t # s /\ t # c.existing
        BY <1>1, <2>3
    <3>2. Replacing(t)' <=> Replacing(t)
        BY <1>2, <1>3, <3>1 DEF Replacing
    <3> HIDE DEF s, sys
    <3> QED
        BY <1>5, <2>1, <2>3, <3>1, <3>2, SystemType
  <2>4. CASE SystemOf[t] = sys
    <3>1. /\ connection[s] = "up"
          /\ activeSockets[sys] \in {c.existing, None}
          /\ \A d \in calls : d.pc = "replacing" /\ SystemOf[d.socket] = sys => d = c
        BY <1>1, <2>4 DEF IInv, ReplacesTheRegistered, Registered
    <3>2. CASE t = s
        BY <1>1, <1>2, <1>3, <1>5, <2>2, <3>1, <3>2 DEF Replacing
    <3>3. CASE t # s
      <4>1. ~Replacing(t)
          BY <2>4, <3>1, <3>3 DEF Replacing
      <4>2. connection[t] = "up" => t = c.existing
          BY <1>1, <2>1, <2>4, <3>1, <4>1
      <4> QED
          BY <1>5, <2>4, <3>3, <4>2
    <3> QED
        BY <3>2, <3>3
  <2> QED
      BY <2>3, <2>4
<1> QED
    BY <1>4, <1>6, <1>7, <1>8, <1>9, <1>10 DEF IInv

\* The call ends.
LEMMA FinishIInv ==
    ASSUME IInv, NEW c \in calls, Finish(c)
    PROVE  IInv'
<1>1. /\ calls' = calls \ {c} /\ c.pc = "logging"
      /\ connection' = connection /\ activeSockets' = activeSockets /\ disturbed' = disturbed
    BY DEF Finish
<1>2. \A t \in Sockets : Replacing(t)' <=> Replacing(t)
    BY <1>1 DEF Replacing
<1>3. TypeOK' /\ OneCallPerSocket' /\ OwnSystem' /\ RegisteredHasConnected'
    BY <1>1 DEF IInv, TypeOK, OneCallPerSocket, OwnSystem, RegisteredHasConnected
<1>4. ReplacesTheRegistered' /\ LiveIsRegistered'
    BY <1>1, <1>2 DEF IInv, ReplacesTheRegistered, LiveIsRegistered, Registered
<1> QED
    BY <1>3, <1>4 DEF IInv

\* A socket goes down, with or without its call: LogFails and RemoveSocket.
LEMMA SocketDownIInv ==
    ASSUME IInv, NEW s \in Sockets,
           connection' = [connection EXCEPT ![s] = "down"],
           activeSockets' = IF connection[s] = "up" THEN Without(s, activeSockets)
                                                    ELSE activeSockets,
           connection[s] # "new",
           calls' \subseteq calls,
           \A c \in calls : c.socket # s => c \in calls',
           disturbed \subseteq disturbed', disturbed' \subseteq Systems,
           Replacing(s)' => SystemOf[s] \in disturbed'
    PROVE  IInv'
<1> DEFINE sys == SystemOf[s]
<1>1. sys \in Systems /\ None \notin Sockets
    BY SystemType, ConstantsAssumption DEF ConstantsAssumption
<1>2. /\ connection'[s] = "down"
      /\ \A t \in Sockets : t # s => connection'[t] = connection[t]
      /\ \A x \in Systems : x # sys => activeSockets'[x] = activeSockets[x]
      /\ activeSockets'[sys] = IF connection[s] = "up" /\ activeSockets[sys] = s
                               THEN None ELSE activeSockets[sys]
    BY <1>1 DEF IInv, TypeOK, Without
<1>3. TypeOK'
    BY <1>1 DEF IInv, TypeOK, Without
<1>4. OneCallPerSocket' /\ OwnSystem'
    BY <1>2, CallType DEF IInv, OneCallPerSocket, OwnSystem
<1>5. RegisteredHasConnected'
    BY <1>1, <1>2 DEF IInv, TypeOK, RegisteredHasConnected
<1>6. ReplacesTheRegistered'
  <2> SUFFICES ASSUME NEW d \in calls', d.pc = "replacing", SystemOf[d.socket] \notin disturbed'
               PROVE  /\ connection'[d.socket] = "up"
                      /\ activeSockets'[SystemOf[d.socket]] \in {d.existing, None}
                      /\ \A e \in calls' :
                             e.pc = "replacing" /\ SystemOf[e.socket] = SystemOf[d.socket] => e = d
      BY DEF ReplacesTheRegistered, Registered
  <2>1. d.socket # s
      BY DEF Replacing
  <2>2. d.socket \in Sockets /\ SystemOf[d.socket] \in Systems
      BY CallType, SystemType DEF IInv
  <2> QED
      BY <1>2, <2>1, <2>2 DEF IInv, ReplacesTheRegistered, Registered
<1>7. LiveIsRegistered'
  <2> SUFFICES ASSUME NEW t \in Sockets, SystemOf[t] \notin disturbed'
               PROVE  connection'[t] = "up" /\ ~Replacing(t)' <=> activeSockets'[SystemOf[t]] = t
      BY DEF LiveIsRegistered, Registered
  <2>1. connection[t] = "up" /\ ~Replacing(t) <=> activeSockets[SystemOf[t]] = t
      BY DEF IInv, LiveIsRegistered, Registered
  <2>2. CASE t = s
      BY <1>1, <1>2, <2>1, <2>2
  <2>3. CASE t # s
    <3>1. Replacing(t)' <=> Replacing(t)
        BY <2>3 DEF Replacing
    <3>2. activeSockets'[SystemOf[t]] = t <=> activeSockets[SystemOf[t]] = t
        BY <1>1, <1>2, <2>3, SystemType
    <3> QED
        BY <1>2, <2>1, <2>3, <3>1, <3>2
  <2> QED
      BY <2>2, <2>3
<1> QED
    BY <1>3, <1>4, <1>5, <1>6, <1>7 DEF IInv

\* The log of the call is refused.
LEMMA LogFailsIInv ==
    ASSUME IInv, NEW c \in calls, LogFails(c)
    PROVE  IInv'
<1>1. c.socket \in Sockets /\ connection[c.socket] # "new"
    BY CallType DEF IInv, OneCallPerSocket
<1>2. /\ calls' = calls \ {c} /\ disturbed' = disturbed /\ disturbed \subseteq Systems
      /\ connection' = [connection EXCEPT ![c.socket] = "down"]
      /\ activeSockets' = IF connection[c.socket] = "up" THEN Without(c.socket, activeSockets)
                                                         ELSE activeSockets
    BY DEF LogFails, IInv, TypeOK
<1>3. ~Replacing(c.socket)'
    BY <1>2 DEF IInv, OneCallPerSocket, Replacing
<1>4. calls' \subseteq calls /\ \A d \in calls : d.socket # c.socket => d \in calls'
    BY <1>2
<1> QED
    BY <1>1, <1>2, <1>3, <1>4, SocketDownIInv

\* A socket goes by itself (removeSocket).
LEMMA RemoveSocketIInv ==
    ASSUME IInv, NEW s \in Sockets, RemoveSocket(s)
    PROVE  IInv'
<1>1. /\ connection[s] = "up" /\ calls' = calls
      /\ connection' = [connection EXCEPT ![s] = "down"]
      /\ activeSockets' = Without(s, activeSockets)
      /\ disturbed' = IF Replacing(s) THEN disturbed \cup {SystemOf[s]} ELSE disturbed
    BY DEF RemoveSocket, DisturbIf
<1>2. disturbed \subseteq disturbed' /\ disturbed' \subseteq Systems
    BY <1>1, SystemType DEF IInv, TypeOK
<1>3. Replacing(s)' => SystemOf[s] \in disturbed'
    BY <1>1 DEF Replacing
<1> QED
    BY <1>1, <1>2, <1>3, SocketDownIInv

\* The process restarts.
LEMMA RestartIInv ==
    ASSUME IInv, Restart
    PROVE  IInv'
<1>1. /\ TypeOK' /\ OneCallPerSocket' /\ OwnSystem' /\ RegisteredHasConnected'
      /\ ReplacesTheRegistered'
    BY DEF Restart, IInv, TypeOK, OneCallPerSocket, OwnSystem, RegisteredHasConnected,
           ReplacesTheRegistered
<1>2. ASSUME NEW t \in Sockets
      PROVE  connection'[t] # "up" /\ activeSockets'[SystemOf[t]] # t
    BY SystemType, ConstantsAssumption DEF Restart, ConstantsAssumption
<1>3. LiveIsRegistered'
    BY <1>2 DEF LiveIsRegistered, Registered
<1> QED
    BY <1>1, <1>3 DEF IInv

-----------------------------------------------------------------------------
(* The theorems.                                                            *)

\* The registry invariant of the socket service holds in every state.
THEOREM SpecIInv == Spec => []IInv
<1>1. Init => IInv
  <2> SUFFICES ASSUME Init PROVE IInv
      OBVIOUS
  <2>1. /\ TypeOK /\ OneCallPerSocket /\ OwnSystem /\ RegisteredHasConnected
        /\ ReplacesTheRegistered
      BY DEF Init, TypeOK, OneCallPerSocket, OwnSystem, RegisteredHasConnected,
             ReplacesTheRegistered
  <2>2. LiveIsRegistered
      BY SystemType, ConstantsAssumption
      DEF Init, LiveIsRegistered, Registered, ConstantsAssumption
  <2> QED
      BY <2>1, <2>2 DEF IInv
<1>2. IInv /\ [Next]_vars => IInv'
  <2> SUFFICES ASSUME IInv, [Next]_vars
               PROVE  IInv'
      OBVIOUS
  <2>1. CASE Next
      BY <2>1, AddSocketIInv, RemoveSocketIInv, ReplaceExistingIInv, FinishIInv,
         LogFailsIInv, RestartIInv DEF Next
  <2>2. CASE UNCHANGED vars
    <3>1. \A t \in Sockets : Replacing(t)' <=> Replacing(t)
        BY <2>2 DEF vars, Replacing
    <3>2. /\ connection' = connection /\ activeSockets' = activeSockets
          /\ calls' = calls /\ disturbed' = disturbed
        BY <2>2 DEF vars
    <3>3. ReplacesTheRegistered' /\ LiveIsRegistered'
        BY <3>1, <3>2 DEF IInv, ReplacesTheRegistered, LiveIsRegistered, Registered
    <3> QED
        BY <3>2, <3>3 DEF IInv, TypeOK, OneCallPerSocket, OwnSystem, RegisteredHasConnected
  <2> QED
      BY <2>1, <2>2
<1> QED
    BY <1>1, <1>2, PTL DEF Spec

\* Every reachable state is one of sockets, registry and calls as declared.
THEOREM TypeCorrect == Spec => []TypeOK
<1>1. IInv => TypeOK
    BY DEF IInv
<1> QED
    BY <1>1, SpecIInv, PTL

\* For any number of sockets: activeSockets names the live socket of a system,
\* except where a replacement was disturbed (addSocket awaits with a stale read).
THEOREM RegistryIsRight == Spec => []RegistryMatchesSockets
<1>1. IInv => RegistryMatchesSockets
    BY RegistryMatches
<1> QED
    BY <1>1, SpecIInv, PTL

\* No late disconnect and no failed addSocket takes another, live socket out of
\* the map (removeSocket compares before it deletes).
THEOREM KeepsRegistrations == Spec => RegistrationsAreKept
<1>1. TypeOK /\ [Next]_vars => [GivenUpOnlyForReplacement]_vars
  <2> SUFFICES ASSUME TypeOK, [Next]_vars, NEW s \in Sockets,
                      Registered(s) = s, connection[s] = "up", connection'[s] = "up"
               PROVE  \/ Registered(s)' = s
                      \/ \E c \in calls : c.pc = "replacing" /\ Registered(s)' = c.socket
      BY DEF GivenUpOnlyForReplacement
  <2>1. ASSUME NEW t \in Sockets, AddSocket(t) PROVE Registered(s)' = s
    <3>1. None \notin Sockets
        BY ConstantsAssumption DEF ConstantsAssumption
    <3> QED
        BY <2>1, <3>1, SystemType DEF AddSocket, Registered, TypeOK
  <2>2. ASSUME NEW t \in Sockets, RemoveSocket(t) PROVE Registered(s)' = s
      BY <2>2, SystemType DEF RemoveSocket, Without, Registered, TypeOK
  <2>3. ASSUME NEW c \in calls, LogFails(c) PROVE Registered(s)' = s
      BY <2>3, SystemType, CallType DEF LogFails, Without, Registered, TypeOK
  <2>4. ASSUME NEW c \in calls, ReplaceExisting(c)
        PROVE  Registered(s)' = s \/ (c.pc = "replacing" /\ Registered(s)' = c.socket)
      BY <2>4, SystemType, CallType DEF ReplaceExisting, Registered, TypeOK
  <2>5. ASSUME NEW c \in calls, Finish(c) PROVE Registered(s)' = s
      BY <2>5 DEF Finish, Registered
  <2>6. ~Restart
      BY DEF Restart, TypeOK
  <2>7. CASE UNCHANGED vars
      BY <2>7 DEF vars, Registered
  <2> QED
      BY <2>1, <2>2, <2>3, <2>4, <2>5, <2>6, <2>7 DEF Next
<1> QED
    BY <1>1, TypeCorrect, PTL DEF Spec, RegistrationsAreKept
=============================================================================

-------------------------- MODULE LiveSocketProofs --------------------------
(***************************************************************************)
(* The properties of LiveSocket hold for any number of devices, sockets,   *)
(* reconnect timers and runs of ensureDevice.                              *)
(***************************************************************************)
EXTENDS LiveSocket, TLAPS

SocketRecord == [phase : {"none", "connecting", "open", "closing"},
                 dev : Device \cup {None}, didOpen : {"no", "yes"}, user : {"no", "yes"}]

\* SocketIsKnown of sockets that a step has half made; and "connecting", too, is
\* shown only while there is a socket, and a socket is for a device.
KnownOf(socks, ref, state, auth) ==
    /\ ref # None => /\ socks[ref].phase \in {"connecting", "open"}
                     /\ socks[ref].user = "yes" => auth = "yes"
    /\ state = "connected" => \E s \in Socket : socks[s].phase \in {"open", "closing"}
    /\ state = "connecting" => \E s \in Socket : socks[s].phase # "none"
    /\ \A s \in Socket : socks[s].phase # "none" => socks[s].dev # None

Known == KnownOf(socket, wsRef, connectionState, isAuthenticated)

\* Sockets and timers are made for a device the page knows.
DevicesComeFirst ==
    deviceId = None => /\ \A s \in Socket : socket[s].phase = "none"
                       /\ \A i \in Timer : timer[i] = None

\* A signed-in page without a device is about to get one, asks for one, or gave up.
NoDeviceIsExcused ==
    isAuthenticated = "yes" /\ deviceId = None =>
        Resolving \/ gaveUp = "yes" \/ pendingEnrolment = "shown"

\* Until two ways to connect have met, no timer is set, and ensureDevice runs once
\* at a time, while nothing is stored.
OneWay ==
    overlap = "no" =>
        /\ \A i \in Timer : timer[i] = None
        /\ deviceId # None => stored # None
        /\ \A u \in Run : run[u] # None =>
             /\ stored = None
             /\ \A v \in Run : run[v] # None => v = u

IInv ==
    /\ TypeOK /\ Known /\ DevicesComeFirst /\ NoDeviceIsExcused /\ IdleIsExcused
    /\ OneWay /\ TwoSocketsNeedAnOverlap

-----------------------------------------------------------------------------
States == {"connecting", "connected", "disconnected"}
RunStates == Device \cup {None, "asking", "creating", "prompt", "failed"}

\* No socket of these may carry messages.
NoneLive(socks) == \A s \in Socket : socks[s].phase \notin {"connecting", "open"}

LEMMA InitIInv == Init => IInv
BY NoneAssumption
   DEF Init, IInv, TypeOK, Known, KnownOf, DevicesComeFirst, NoDeviceIsExcused, IdleIsExcused,
       OneWay, TwoSocketsNeedAnOverlap, NoSocket, Live

LEMMA ConnectingRecord ==
  ASSUME NEW d \in Device, NEW user \in {"no", "yes"}
  PROVE  /\ Connecting(d, user) \in SocketRecord
         /\ Connecting(d, user).phase = "connecting" /\ Connecting(d, user).user = user
         /\ Connecting(d, user).dev = d
BY DEF Connecting, SocketRecord

LEMMA NoSocketRecord == NoSocket \in SocketRecord /\ NoSocket.phase = "none"
BY DEF NoSocket, SocketRecord

\* What connect makes of the sockets, wsRef and connectionState.
LEMMA ConnectKeeps ==
  ASSUME NEW d \in Device, NEW user \in {"no", "yes"}, NEW socks \in [Socket -> SocketRecord],
         NEW ref \in Socket \cup {None}, NEW state \in States, NEW auth,
         NEW gave \in {"no", "yes"}, token \in {"no", "yes"}, user = "yes" => auth = "yes",
         KnownOf(socks, ref, state, auth), connect(d, user, socks, ref, state, gave)
  PROVE  /\ socket' \in [Socket -> SocketRecord] /\ wsRef' \in Socket \cup {None}
         /\ connectionState' \in States
         /\ KnownOf(socket', wsRef', connectionState', auth)
         /\ gaveUp' \in {gave, "yes"}
         /\ user = "no" \/ gaveUp' = "yes" \/ \E s \in Socket : socket'[s].phase # "none"
         /\ NoneLive(socks) =>
              \A s \in Socket : socket'[s].phase \in {"connecting", "open"} => s = wsRef'
<1> USE DEF NoneLive, States
<1>1. ASSUME NEW s \in Socket, socket' = [socks EXCEPT ![s] = Connecting(d, user)],
             wsRef' = s, connectionState' = "connecting"
      PROVE  /\ socket' \in [Socket -> SocketRecord] /\ wsRef' \in Socket \cup {None}
             /\ connectionState' \in States
             /\ KnownOf(socket', wsRef', connectionState', auth)
             /\ \E x \in Socket : socket'[x].phase # "none"
             /\ NoneLive(socks) =>
                  \A x \in Socket : socket'[x].phase \in {"connecting", "open"} => x = wsRef'
  <2> DEFINE new == Connecting(d, user)
  <2>1. /\ new \in SocketRecord /\ new.phase = "connecting" /\ new.user = user
        /\ new.dev # None
    BY ConnectingRecord, NoneAssumption
  <2> HIDE DEF new
  <2>2. socket' = [socks EXCEPT ![s] = new]
    BY <1>1 DEF new
  <2> QED
    BY <1>1, <2>1, <2>2 DEF KnownOf
<1>2. CASE /\ socket' = socks /\ wsRef' = ref
           /\ connectionState' = IF token = "yes" THEN "disconnected" ELSE state
           /\ gaveUp' = IF user = "yes" THEN "yes" ELSE gave
  BY <1>2 DEF KnownOf
<1> QED
  BY <1>1, <1>2 DEF connect

LEMMA ClosedKeeps ==
  ASSUME TypeOK, Known, NEW auth
  PROVE  /\ Closed \in [Socket -> SocketRecord]
         /\ KnownOf(Closed, None, connectionState, auth)
         /\ \A s \in Socket : Closed[s].phase = "none" <=> socket[s].phase = "none"
         /\ (\A s \in Socket : Live(s) => s = wsRef) => NoneLive(Closed)
<1>1. socket \in [Socket -> SocketRecord] /\ wsRef \in Socket \cup {None}
  BY DEF TypeOK, SocketRecord
<1>2. CASE wsRef = None
  BY <1>1, <1>2, NoneAssumption DEF Closed, Known, KnownOf, NoneLive, Live
<1>3. CASE wsRef # None
  <2> DEFINE closing == [socket[wsRef] EXCEPT !.phase = "closing"]
  <2>1. socket[wsRef] \in SocketRecord /\ wsRef \in Socket
    BY <1>1, <1>3
  <2>2. closing \in SocketRecord /\ closing.phase = "closing"
        /\ closing.dev = socket[wsRef].dev
    BY <2>1 DEF SocketRecord
  <2>3. Closed = [socket EXCEPT ![wsRef] = closing]
    BY <1>3 DEF Closed
  <2>4. socket[wsRef].phase \in {"connecting", "open"}
    BY <1>3 DEF Known, KnownOf
  <2> HIDE DEF closing
  <2>5. Closed \in [Socket -> SocketRecord] /\ Closed[wsRef].phase = "closing"
        /\ Closed[wsRef].dev = socket[wsRef].dev
        /\ \A s \in Socket : s # wsRef => Closed[s] = socket[s]
    BY <1>1, <2>1, <2>2, <2>3
  <2> QED
    BY <2>1, <2>4, <2>5 DEF Known, KnownOf, NoneLive, Live
<1> QED
  BY <1>2, <1>3

\* What Ask makes of the runs.
LEMMA AskKeeps ==
  ASSUME run \in [Run -> RunStates], Ask
  PROVE  /\ run' \in [Run -> RunStates]
         /\ \E u \in Run : /\ run[u] = None /\ run'[u] # None
                           /\ \A v \in Run \ {u} : run'[v] = run[v]
BY NoneAssumption DEF Ask, RunStates

\* What ensureDevice makes of a signed-in page.
LEMMA EnsureKeeps ==
  ASSUME stored \in Device \cup {None}, run \in [Run -> RunStates],
         deviceId \in Device \cup {None}, token \in {"no", "yes"},
         NEW socks \in [Socket -> SocketRecord],
         NEW ref \in Socket \cup {None}, NEW state \in States, NEW gave \in {"no", "yes"},
         KnownOf(socks, ref, state, "yes"), ensureDevice(socks, ref, state, gave)
  PROVE  /\ socket' \in [Socket -> SocketRecord] /\ wsRef' \in Socket \cup {None}
         /\ connectionState' \in States /\ run' \in [Run -> RunStates]
         /\ deviceId' \in Device \cup {None} /\ gaveUp' \in {gave, "yes"}
         /\ KnownOf(socket', wsRef', connectionState', "yes")
         /\ NoneLive(socks) =>
              \A s \in Socket : socket'[s].phase \in {"connecting", "open"} => s = wsRef'
         /\ \/ /\ stored # None /\ deviceId' = stored /\ run' = run
               /\ gaveUp' = "yes" \/ \E s \in Socket : socket'[s].phase # "none"
            \/ /\ stored = None /\ deviceId' = deviceId /\ socket' = socks
               /\ \E u \in Run : /\ run[u] = None /\ run'[u] # None
                                 /\ \A v \in Run \ {u} : run'[v] = run[v]
<1>1. ASSUME stored # None, deviceId' = stored, connect(stored, "yes", socks, ref, state, gave),
             UNCHANGED run
      PROVE  /\ socket' \in [Socket -> SocketRecord] /\ wsRef' \in Socket \cup {None}
             /\ connectionState' \in States /\ gaveUp' \in {gave, "yes"}
             /\ KnownOf(socket', wsRef', connectionState', "yes")
             /\ gaveUp' = "yes" \/ \E s \in Socket : socket'[s].phase # "none"
             /\ NoneLive(socks) =>
                  \A s \in Socket : socket'[s].phase \in {"connecting", "open"} => s = wsRef'
  BY <1>1, ConnectKeeps
<1>2. ASSUME stored = None, Ask, socket' = socks, wsRef' = ref, connectionState' = state,
             gaveUp' = gave
      PROVE  /\ run' \in [Run -> RunStates]
             /\ KnownOf(socket', wsRef', connectionState', "yes")
             /\ NoneLive(socks) =>
                  \A s \in Socket : socket'[s].phase \in {"connecting", "open"} => s = wsRef'
             /\ \E u \in Run : /\ run[u] = None /\ run'[u] # None
                               /\ \A v \in Run \ {u} : run'[v] = run[v]
  BY <1>2, AskKeeps DEF NoneLive
<1> QED
  BY <1>1, <1>2 DEF ensureDevice

\* The types of the lemmas above, from TypeOK.
LEMMA Types ==
  ASSUME TypeOK
  PROVE  /\ socket \in [Socket -> SocketRecord] /\ wsRef \in Socket \cup {None}
         /\ connectionState \in States /\ run \in [Run -> RunStates]
         /\ stored \in Device \cup {None} /\ deviceId \in Device \cup {None}
         /\ token \in {"no", "yes"} /\ isAuthenticated \in {"no", "yes"}
         /\ gaveUp \in {"no", "yes"}
BY DEF TypeOK, SocketRecord, States, RunStates

-----------------------------------------------------------------------------
(* One lemma per group of actions.                                         *)

LEMMA SignInKeeps ==
  ASSUME IInv, SignIn
  PROVE  IInv'
<1> USE DEF IInv
<1>0. /\ isAuthenticated = "no" /\ isAuthenticated' = "yes"
      /\ UNCHANGED <<pendingEnrolment, token, registered, stored, timer, reconnectTimer,
                     retriedDevice>>
      /\ effectDue' \in {"no", "yes"} /\ overlap' \in {"no", "yes"}
      /\ overlap' = "no" => overlap = "no" /\ ~NeedsSocket /\ ~Resolving /\ wsRef = None
  BY DEF SignIn, TouchEffect, TypeOK
<1>1. PICK socks \in [Socket -> SocketRecord], ref \in Socket \cup {None}, state \in States :
        /\ KnownOf(socks, ref, state, "yes") /\ ensureDevice(socks, ref, state, "no")
        /\ deviceId = None \/ overlap' = "no" => socks = socket
  <2>1. ASSUME NEW s \in Socket, socket[s] = NoSocket, NeedsSocket, token = "yes",
               ensureDevice([socket EXCEPT ![s] = Connecting(deviceId, "yes")], s, "connecting",
                            "no")
        PROVE  LET socks == [socket EXCEPT ![s] = Connecting(deviceId, "yes")]
               IN  /\ socks \in [Socket -> SocketRecord] /\ KnownOf(socks, s, "connecting", "yes")
                   /\ deviceId # None /\ overlap' # "no"
    <3> DEFINE new == Connecting(deviceId, "yes")
    <3>1. deviceId # None /\ deviceId \in Device
      BY <2>1, Types DEF NeedsSocket
    <3>2. /\ new \in SocketRecord /\ new.phase = "connecting" /\ new.user = "yes"
          /\ new.dev # None
      BY <3>1, ConnectingRecord
    <3> HIDE DEF new
    <3>3. /\ [socket EXCEPT ![s] = new] \in [Socket -> SocketRecord]
          /\ KnownOf([socket EXCEPT ![s] = new], s, "connecting", "yes")
      BY <3>2, Types DEF Known, KnownOf
    <3> QED
      BY <1>0, <2>1, <3>1, <3>3 DEF new
  <2>2. KnownOf(socket, wsRef, connectionState, "yes")
    BY <1>0 DEF Known, KnownOf
  <2>3. "connecting" \in States
    BY DEF States
  <2> QED
    BY <2>1, <2>2, <2>3, Types DEF SignIn
<1>2. /\ socket' \in [Socket -> SocketRecord] /\ wsRef' \in Socket \cup {None}
      /\ connectionState' \in States /\ run' \in [Run -> RunStates]
      /\ deviceId' \in Device \cup {None} /\ gaveUp' \in {"no", "yes"}
      /\ KnownOf(socket', wsRef', connectionState', "yes")
      /\ NoneLive(socks) =>
           \A s \in Socket : socket'[s].phase \in {"connecting", "open"} => s = wsRef'
      /\ \/ /\ stored # None /\ deviceId' = stored /\ run' = run
            /\ gaveUp' = "yes" \/ \E s \in Socket : socket'[s].phase # "none"
         \/ /\ stored = None /\ deviceId' = deviceId /\ socket' = socks
            /\ \E u \in Run : /\ run[u] = None /\ run'[u] # None
                              /\ \A v \in Run \ {u} : run'[v] = run[v]
  BY <1>1, EnsureKeeps, Types
<1>3. TypeOK'
  BY <1>0, <1>2 DEF TypeOK, SocketRecord, States, RunStates
<1>4. Known'
  BY <1>0, <1>2 DEF Known
<1>5. DevicesComeFirst'
  BY <1>0, <1>1, <1>2 DEF DevicesComeFirst
<1>6. NoDeviceIsExcused' /\ IdleIsExcused'
  BY <1>0, <1>2 DEF NoDeviceIsExcused, IdleIsExcused, Idle, Resolving
<1>7. OneWay'
  BY <1>0, <1>2 DEF OneWay, Resolving
<1>8. TwoSocketsNeedAnOverlap'
  BY <1>0, <1>1, <1>2, NoneAssumption DEF TwoSocketsNeedAnOverlap, NoneLive, Live
<1> QED
  BY <1>3, <1>4, <1>5, <1>6, <1>7, <1>8

LEMMA UserChangesKeeps ==
  ASSUME IInv, UserChanges
  PROVE  IInv'
<1> USE DEF IInv
<1>0. /\ isAuthenticated = "yes"
      /\ UNCHANGED <<isAuthenticated, pendingEnrolment, token, registered, stored,
                     retriedDevice>>
      /\ effectDue' \in {"no", "yes"} /\ overlap' \in {"no", "yes"}
      /\ overlap' = "no" => overlap = "no" /\ ~Resolving
  BY DEF UserChanges, TouchEffect, TypeOK
<1>1. /\ timer' \in [Timer -> Device \cup {None}] /\ reconnectTimer' = None
      /\ \A i \in Timer : timer'[i] \in {timer[i], None}
  BY DEF UserChanges, ClearTimer, TypeOK
<1>2. /\ Closed \in [Socket -> SocketRecord]
      /\ KnownOf(Closed, None, connectionState, "yes")
      /\ \A s \in Socket : Closed[s].phase = "none" <=> socket[s].phase = "none"
      /\ (\A s \in Socket : Live(s) => s = wsRef) => NoneLive(Closed)
  BY ClosedKeeps
<1>3. ensureDevice(Closed, None, connectionState, gaveUp)
  BY DEF UserChanges
<1>4. /\ socket' \in [Socket -> SocketRecord] /\ wsRef' \in Socket \cup {None}
      /\ connectionState' \in States /\ run' \in [Run -> RunStates]
      /\ deviceId' \in Device \cup {None} /\ gaveUp' \in {gaveUp, "yes"}
      /\ KnownOf(socket', wsRef', connectionState', "yes")
      /\ NoneLive(Closed) =>
           \A s \in Socket : socket'[s].phase \in {"connecting", "open"} => s = wsRef'
      /\ \/ /\ stored # None /\ deviceId' = stored /\ run' = run
            /\ gaveUp' = "yes" \/ \E s \in Socket : socket'[s].phase # "none"
         \/ /\ stored = None /\ deviceId' = deviceId /\ socket' = Closed
            /\ \E u \in Run : /\ run[u] = None /\ run'[u] # None
                              /\ \A v \in Run \ {u} : run'[v] = run[v]
  <2> HIDE DEF IInv
  <2>1. TypeOK
    BY DEF IInv
  <2> QED
    BY <1>2, <1>3, <2>1, EnsureKeeps, Types
<1>5. TypeOK'
  BY <1>0, <1>1, <1>4 DEF TypeOK, SocketRecord, States, RunStates
<1>6. Known'
  BY <1>0, <1>4 DEF Known
<1>7. DevicesComeFirst'
  BY <1>0, <1>1, <1>2, <1>4 DEF DevicesComeFirst
<1>8. NoDeviceIsExcused' /\ IdleIsExcused'
  BY <1>0, <1>4 DEF NoDeviceIsExcused, IdleIsExcused, Idle, Resolving
<1>9. OneWay'
  BY <1>0, <1>1, <1>4 DEF OneWay, Resolving
<1>10. TwoSocketsNeedAnOverlap'
  BY <1>0, <1>2, <1>4 DEF TwoSocketsNeedAnOverlap, NoneLive, Live
<1> QED
  BY <1>5, <1>6, <1>7, <1>8, <1>9, <1>10

LEMMA SignOutKeeps ==
  ASSUME IInv, SignOut
  PROVE  IInv'
<1> USE DEF IInv
<1>1. /\ timer' \in [Timer -> Device \cup {None}] /\ reconnectTimer' = None
      /\ \A i \in Timer : timer'[i] \in {timer[i], None}
  BY DEF SignOut, ClearTimer, TypeOK
<1>2. /\ Closed \in [Socket -> SocketRecord]
      /\ KnownOf(Closed, None, connectionState, "no")
      /\ \A s \in Socket : Closed[s].phase = "none" <=> socket[s].phase = "none"
      /\ (\A s \in Socket : Live(s) => s = wsRef) => NoneLive(Closed)
  BY ClosedKeeps
<1>3. /\ socket' = Closed /\ wsRef' = None /\ connectionState' = "disconnected"
      /\ isAuthenticated' = "no" /\ token' = "no" /\ pendingEnrolment' = "hidden"
      /\ effectDue' = "no" /\ gaveUp' = "no"
      /\ UNCHANGED <<registered, stored, deviceId, run, retriedDevice, overlap>>
  BY DEF SignOut
<1>4. TypeOK'
  BY <1>1, <1>2, <1>3 DEF TypeOK, SocketRecord
<1>5. Known'
  BY <1>2, <1>3 DEF Known, KnownOf
<1>6. DevicesComeFirst'
  BY <1>1, <1>2, <1>3 DEF DevicesComeFirst
<1>7. NoDeviceIsExcused' /\ IdleIsExcused'
  BY <1>3 DEF NoDeviceIsExcused, IdleIsExcused
<1>8. OneWay'
  BY <1>1, <1>3 DEF OneWay
<1>9. TwoSocketsNeedAnOverlap'
  BY <1>2, <1>3 DEF TwoSocketsNeedAnOverlap, NoneLive, Live
<1> QED
  BY <1>4, <1>5, <1>6, <1>7, <1>8, <1>9

\* Steps that leave the sockets, the timers and what the page knows alone.
LEMMA ElsewhereKeeps ==
  ASSUME IInv, \/ TokenChanges \/ \E d \in Device : DeviceDeleted(d)
               \/ \E u \in Run : ServeResolve(u) \/ ServeCreate(u)
               \/ UNCHANGED vars
  PROVE  IInv'
<1> USE DEF IInv
<1>1. /\ UNCHANGED <<isAuthenticated, stored, deviceId, connectionState, pendingEnrolment,
                     socket, wsRef, timer, reconnectTimer, retriedDevice, effectDue, gaveUp,
                     overlap>>
      /\ token' \in {"no", "yes"} /\ registered' \subseteq Device
      /\ run' \in [Run -> RunStates]
      /\ \A u \in Run : run'[u] = None <=> run[u] = None
  <2> USE DEF TypeOK, RunStates
  <2>1. CASE TokenChanges
    BY <2>1 DEF TokenChanges
  <2>2. ASSUME NEW d \in Device, DeviceDeleted(d) PROVE <1>1!:
    BY <2>2 DEF DeviceDeleted
  <2>3. ASSUME NEW u \in Run, ServeResolve(u) PROVE <1>1!:
    BY <2>3, NoneAssumption DEF ServeResolve
  <2>4. ASSUME NEW u \in Run, ServeCreate(u) PROVE <1>1!:
    BY <2>4, NoneAssumption DEF ServeCreate
  <2>5. CASE UNCHANGED vars
    BY <2>5 DEF vars
  <2> QED
    BY <2>1, <2>2, <2>3, <2>4, <2>5
<1>2. TypeOK' /\ Known'
  BY <1>1 DEF TypeOK, RunStates, Known, KnownOf
<1>3. DevicesComeFirst' /\ NoDeviceIsExcused' /\ IdleIsExcused'
  BY <1>1 DEF DevicesComeFirst, NoDeviceIsExcused, IdleIsExcused, Idle, Resolving
<1>4. OneWay' /\ TwoSocketsNeedAnOverlap'
  BY <1>1 DEF OneWay, TwoSocketsNeedAnOverlap, Live
<1> QED
  BY <1>2, <1>3, <1>4

LEMMA DeviceEffectKeeps ==
  ASSUME IInv, DeviceEffect
  PROVE  IInv'
<1> USE DEF IInv
<1>0. /\ effectDue' = "no"
      /\ UNCHANGED <<isAuthenticated, token, registered, stored, deviceId, pendingEnrolment,
                     timer, reconnectTimer, run, retriedDevice, overlap>>
  BY DEF DeviceEffect
<1>1. /\ socket' \in [Socket -> SocketRecord] /\ wsRef' \in Socket \cup {None}
      /\ connectionState' \in States /\ gaveUp' \in {gaveUp, "yes"}
      /\ KnownOf(socket', wsRef', connectionState', isAuthenticated)
      /\ isAuthenticated = "yes" /\ NeedsSocket =>
           gaveUp' = "yes" \/ \E s \in Socket : socket'[s].phase # "none"
      /\ \/ deviceId # None
         \/ UNCHANGED <<socket, wsRef, connectionState>>
      /\ \/ UNCHANGED <<socket, wsRef, connectionState>>
         \/ /\ wsRef = None
            /\ NoneLive(socket) =>
                 \A s \in Socket : socket'[s].phase \in {"connecting", "open"} => s = wsRef'
      /\ ~NeedsSocket => UNCHANGED <<socket, wsRef, connectionState>>
  <2>1. CASE isAuthenticated = "yes" /\ NeedsSocket
    <3>1. /\ deviceId \in Device /\ deviceId # None /\ wsRef = None
          /\ connect(deviceId, isAuthenticated, socket, wsRef, connectionState, gaveUp)
      BY <2>1, Types DEF DeviceEffect, NeedsSocket, connectNow
    <3>2. KnownOf(socket, wsRef, connectionState, isAuthenticated)
      BY DEF Known
    <3>3. /\ socket' \in [Socket -> SocketRecord] /\ wsRef' \in Socket \cup {None}
          /\ connectionState' \in States /\ gaveUp' \in {gaveUp, "yes"}
          /\ KnownOf(socket', wsRef', connectionState', isAuthenticated)
          /\ gaveUp' = "yes" \/ \E s \in Socket : socket'[s].phase # "none"
          /\ NoneLive(socket) =>
               \A s \in Socket : socket'[s].phase \in {"connecting", "open"} => s = wsRef'
      BY <2>1, <3>1, <3>2, ConnectKeeps, Types
    <3> QED
      BY <2>1, <3>1, <3>3
  <2>2. CASE ~(isAuthenticated = "yes" /\ NeedsSocket)
    BY <2>2, Types DEF DeviceEffect, Known
  <2> QED
    BY <2>1, <2>2
<1>2. TypeOK'
  BY <1>0, <1>1 DEF TypeOK, SocketRecord, States
<1>3. Known'
  BY <1>0, <1>1 DEF Known
<1>4. DevicesComeFirst' /\ NoDeviceIsExcused'
  BY <1>0, <1>1 DEF DevicesComeFirst, NoDeviceIsExcused, Resolving
<1>5. IdleIsExcused'
  <2> SUFFICES ASSUME Idle', isAuthenticated = "yes", gaveUp' # "yes",
                      pendingEnrolment # "shown"
               PROVE  FALSE
    BY <1>0 DEF IdleIsExcused
  <2>1. /\ \A s \in Socket : socket'[s].phase = "none"
        /\ ~Resolving /\ deviceId # None
    BY <1>0, <1>1 DEF Idle, Resolving, NoDeviceIsExcused
  <2>2. ~NeedsSocket
    BY <1>0, <1>1, <2>1 DEF TypeOK
  <2>3. socket' = socket
    BY <1>1, <2>2
  <2>4. wsRef = None /\ connectionState = "disconnected"
    BY <2>1, <2>3, Types DEF Known, KnownOf, States
  <2> QED
    BY <2>1, <2>2, <2>4 DEF NeedsSocket, TypeOK
<1>6. OneWay'
  BY <1>0 DEF OneWay
<1>7. TwoSocketsNeedAnOverlap'
  BY <1>0, <1>1, NoneAssumption DEF TwoSocketsNeedAnOverlap, NoneLive, Live
<1> QED
  BY <1>2, <1>3, <1>4, <1>5, <1>6, <1>7

LEMMA ResolvedKeeps ==
  ASSUME IInv, NEW u \in Run, Resolved(u)
  PROVE  IInv'
<1> USE DEF IInv
<1>0. /\ UNCHANGED <<isAuthenticated, token, registered, timer, reconnectTimer, retriedDevice,
                     overlap>>
      /\ run' \in [Run -> RunStates] /\ run[u] # None /\ run'[u] = None
      /\ \A v \in Run \ {u} : run'[v] = run[v]
      /\ effectDue' \in {"no", "yes"}
  BY Types DEF Resolved, TouchEffect, TypeOK, RunStates
<1>1. ASSUME run[u] \in Device, stored' = run[u], deviceId' = run[u], connectNow(run[u]),
             UNCHANGED pendingEnrolment
      PROVE  IInv'
  <2>1. KnownOf(socket, wsRef, connectionState, isAuthenticated)
    BY DEF Known
  <2>2. /\ socket' \in [Socket -> SocketRecord] /\ wsRef' \in Socket \cup {None}
        /\ connectionState' \in States /\ gaveUp' \in {gaveUp, "yes"}
        /\ KnownOf(socket', wsRef', connectionState', isAuthenticated)
        /\ isAuthenticated = "no" \/ gaveUp' = "yes" \/ \E s \in Socket : socket'[s].phase # "none"
        /\ NoneLive(socket) =>
             \A s \in Socket : socket'[s].phase \in {"connecting", "open"} => s = wsRef'
    <3>1. connect(run[u], isAuthenticated, socket, wsRef, connectionState, gaveUp)
      BY <1>1 DEF connectNow
    <3>2. /\ socket \in [Socket -> SocketRecord] /\ wsRef \in Socket \cup {None}
          /\ connectionState \in States /\ token \in {"no", "yes"}
          /\ isAuthenticated \in {"no", "yes"} /\ gaveUp \in {"no", "yes"}
      BY Types
    <3> HIDE DEF IInv
    <3> QED
      BY <1>1, <2>1, <3>1, <3>2, ConnectKeeps
  <2>3. gaveUp' \in {"no", "yes"} /\ deviceId' # None /\ stored' # None
    BY <1>1, <2>2, NoneAssumption, Types
  <2>4. TypeOK'
    BY <1>0, <1>1, <2>2, <2>3 DEF TypeOK, SocketRecord, States, RunStates
  <2>5. Known' /\ DevicesComeFirst' /\ NoDeviceIsExcused'
    BY <1>0, <2>2, <2>3 DEF Known, DevicesComeFirst, NoDeviceIsExcused
  <2>6. IdleIsExcused'
    BY <1>0, <2>2, <2>3 DEF IdleIsExcused, Idle
  \* While ensureDevice runs nothing is stored, no device known, and no socket there.
  <2>7. OneWay'
    BY <1>0, <2>3 DEF OneWay
  <2>8. overlap = "no" => NoneLive(socket)
    BY <1>0 DEF OneWay, DevicesComeFirst, NoneLive
  <2>9. TwoSocketsNeedAnOverlap'
    BY <1>0, <2>2, <2>8 DEF TwoSocketsNeedAnOverlap, Live
  <2> QED
    BY <2>4, <2>5, <2>6, <2>7, <2>9
<1>2. ASSUME \/ pendingEnrolment' = "shown" /\ UNCHANGED gaveUp
             \/ UNCHANGED pendingEnrolment /\ gaveUp' = isAuthenticated,
             UNCHANGED <<stored, deviceId, connectionState, socket, wsRef>>
      PROVE  IInv'
  <2>1. TypeOK' /\ Known' /\ DevicesComeFirst'
    BY <1>0, <1>2 DEF TypeOK, RunStates, Known, KnownOf, DevicesComeFirst
  <2>2. NoDeviceIsExcused' /\ IdleIsExcused'
    BY <1>0, <1>2 DEF NoDeviceIsExcused, IdleIsExcused
  <2>3. OneWay' /\ TwoSocketsNeedAnOverlap'
    BY <1>0, <1>2 DEF OneWay, TwoSocketsNeedAnOverlap, Live
  <2> QED
    BY <2>1, <2>2, <2>3
<1> QED
  <2> HIDE DEF IInv
  <2> QED
    BY <1>1, <1>2 DEF Resolved

LEMMA EnrolKeeps ==
  ASSUME IInv, NEW d \in Device, Enrol(d)
  PROVE  IInv'
<1> USE DEF IInv
<1>1. /\ stored' = d /\ deviceId' = d /\ effectDue' = "yes" /\ pendingEnrolment' = "hidden"
      /\ registered' \subseteq Device
      /\ overlap' \in {"no", "yes"}
      /\ overlap' = "no" => overlap = "no" /\ ~Resolving
      /\ UNCHANGED <<isAuthenticated, token, connectionState, socket, wsRef, timer,
                     reconnectTimer, run, retriedDevice, gaveUp>>
  BY DEF Enrol, TouchEffect, TypeOK
<1>2. TypeOK' /\ Known'
  BY <1>1 DEF TypeOK, Known, KnownOf
<1>3. DevicesComeFirst' /\ NoDeviceIsExcused' /\ IdleIsExcused'
  BY <1>1, NoneAssumption DEF DevicesComeFirst, NoDeviceIsExcused, IdleIsExcused, Idle
<1>4. OneWay' /\ TwoSocketsNeedAnOverlap'
  BY <1>1, NoneAssumption DEF OneWay, TwoSocketsNeedAnOverlap, Live, Resolving
<1> QED
  BY <1>2, <1>3, <1>4

LEMMA OnOpenKeeps ==
  ASSUME IInv, NEW s \in Socket, onopen(s)
  PROVE  IInv'
<1> USE DEF IInv
<1> DEFINE opened == [socket[s] EXCEPT !.phase = "open", !.didOpen = "yes"]
<1>1. /\ opened \in SocketRecord /\ opened.phase = "open" /\ opened.user = socket[s].user
      /\ opened.dev = socket[s].dev
      /\ socket[s].phase = "connecting"
  BY Types DEF onopen, SocketRecord
<1>2. /\ socket' = [socket EXCEPT ![s] = opened]
      /\ retriedDevice' = "no" /\ connectionState' = "connected" /\ gaveUp' = "no"
      /\ effectDue' \in {"no", "yes"}
      /\ UNCHANGED <<isAuthenticated, token, registered, stored, deviceId, pendingEnrolment,
                     wsRef, timer, reconnectTimer, run, overlap>>
  BY DEF onopen, TouchEffect, TypeOK
<1> HIDE DEF opened
<1>3. /\ socket' \in [Socket -> SocketRecord] /\ socket'[s] = opened
      /\ \A x \in Socket \ {s} : socket'[x] = socket[x]
  BY <1>1, <1>2, Types
<1>4. TypeOK'
  BY <1>2, <1>3 DEF TypeOK, SocketRecord
<1>5. Known'
  BY <1>1, <1>2, <1>3, Types DEF Known, KnownOf
<1>6. DevicesComeFirst' /\ NoDeviceIsExcused' /\ IdleIsExcused'
  BY <1>1, <1>2, <1>3 DEF DevicesComeFirst, NoDeviceIsExcused, IdleIsExcused, Idle
<1>7. OneWay' /\ TwoSocketsNeedAnOverlap'
  BY <1>1, <1>2, <1>3 DEF OneWay, TwoSocketsNeedAnOverlap, Live
<1> QED
  BY <1>4, <1>5, <1>6, <1>7

LEMMA OnCloseKeeps ==
  ASSUME IInv, NEW s \in Socket, onclose(s)
  PROVE  IInv'
<1> USE DEF IInv
<1>1. /\ socket' = [socket EXCEPT ![s] = NoSocket] /\ wsRef' = None
      /\ socket[s].phase # "none"
      /\ connectionState' = "disconnected" /\ overlap' = "yes"
      /\ effectDue' \in {"no", "yes"}
      /\ UNCHANGED <<isAuthenticated, token, registered, deviceId, pendingEnrolment, gaveUp>>
  BY DEF onclose, TouchEffect, TypeOK
<1>2. /\ retriedDevice' \in {"no", "yes"} /\ stored' \in Device \cup {None}
      /\ timer' \in [Timer -> Device \cup {None}] /\ reconnectTimer' \in Timer \cup {None}
      /\ run' \in [Run -> RunStates]
      /\ \/ \E u \in Run : run'[u] # None
         \/ run' = run /\ \E i \in Timer : timer' = [timer EXCEPT ![i] = socket[s].dev]
  <2>1. ASSUME retriedDevice' = "yes", stored' = None, Ask, UNCHANGED <<timer, reconnectTimer>>
        PROVE  <1>2!:
    BY <2>1, AskKeeps, Types DEF TypeOK
  <2>2. ASSUME NEW i \in Timer, timer' = [timer EXCEPT ![i] = socket[s].dev],
               reconnectTimer' = i, UNCHANGED <<retriedDevice, stored, run>>
        PROVE  <1>2!:
    BY <2>2, Types DEF TypeOK, SocketRecord
  <2> QED
    BY <2>1, <2>2 DEF onclose
<1>3. /\ socket' \in [Socket -> SocketRecord] /\ deviceId # None
  BY <1>1, NoSocketRecord, Types DEF DevicesComeFirst
<1>4. TypeOK'
  BY <1>1, <1>2, <1>3 DEF TypeOK, SocketRecord, RunStates
<1>5. Known'
  BY <1>1, <1>3, NoSocketRecord, Types DEF Known, KnownOf
<1>6. DevicesComeFirst' /\ NoDeviceIsExcused'
  BY <1>1, <1>3 DEF DevicesComeFirst, NoDeviceIsExcused
<1>7. IdleIsExcused'
  <2>1. socket[s].dev # None
    BY <1>1 DEF Known, KnownOf
  <2>2. (\E u \in Run : run'[u] # None) \/ \E i \in Timer : timer'[i] # None
    BY <1>2, <2>1 DEF TypeOK
  <2> QED
    BY <2>2 DEF IdleIsExcused, Idle, Resolving
<1>8. OneWay' /\ TwoSocketsNeedAnOverlap'
  BY <1>1 DEF OneWay, TwoSocketsNeedAnOverlap
<1> QED
  BY <1>4, <1>5, <1>6, <1>7, <1>8

LEMMA TimerFiresKeeps ==
  ASSUME IInv, NEW i \in Timer, TimerFires(i)
  PROVE  IInv'
<1> USE DEF IInv
<1>1. /\ timer[i] # None /\ timer' = [timer EXCEPT ![i] = None]
      /\ reconnectTimer' \in Timer \cup {None} /\ timer[i] \in Device
      /\ effectDue' \in {"no", "yes"}
      /\ UNCHANGED <<isAuthenticated, token, registered, stored, deviceId, pendingEnrolment,
                     run, retriedDevice, overlap>>
  BY DEF TimerFires, TouchEffect, TypeOK
<1>2. /\ socket' \in [Socket -> SocketRecord] /\ wsRef' \in Socket \cup {None}
      /\ connectionState' \in States /\ gaveUp' \in {gaveUp, "yes"}
      /\ KnownOf(socket', wsRef', connectionState', isAuthenticated)
      /\ isAuthenticated = "no" \/ gaveUp' = "yes" \/ \E s \in Socket : socket'[s].phase # "none"
  <2>1. connect(timer[i], isAuthenticated, socket, wsRef, connectionState, gaveUp)
    BY DEF TimerFires, connectNow
  <2>2. /\ socket \in [Socket -> SocketRecord] /\ wsRef \in Socket \cup {None}
        /\ connectionState \in States /\ token \in {"no", "yes"}
        /\ isAuthenticated \in {"no", "yes"} /\ gaveUp \in {"no", "yes"}
    BY Types
  <2>3. KnownOf(socket, wsRef, connectionState, isAuthenticated)
    BY DEF Known
  <2> HIDE DEF IInv
  <2> QED
    BY <1>1, <2>1, <2>2, <2>3, ConnectKeeps
<1>3. deviceId # None /\ overlap = "yes"
  BY <1>1 DEF DevicesComeFirst, OneWay, TypeOK
<1>4. TypeOK'
  BY <1>1, <1>2 DEF TypeOK, SocketRecord, States
<1>5. Known' /\ DevicesComeFirst' /\ NoDeviceIsExcused'
  BY <1>1, <1>2, <1>3 DEF Known, DevicesComeFirst, NoDeviceIsExcused
<1>6. IdleIsExcused'
  BY <1>1, <1>2, Types DEF IdleIsExcused, Idle
<1>7. OneWay' /\ TwoSocketsNeedAnOverlap'
  BY <1>1, <1>3 DEF OneWay, TwoSocketsNeedAnOverlap
<1> QED
  BY <1>4, <1>5, <1>6, <1>7

LEMMA NextIInv ==
  ASSUME IInv, [Next]_vars
  PROVE  IInv'
BY SignInKeeps, UserChangesKeeps, SignOutKeeps, ElsewhereKeeps, DeviceEffectKeeps,
   ResolvedKeeps, EnrolKeeps, OnOpenKeeps, OnCloseKeeps, TimerFiresKeeps
   DEF Next

LEMMA IInvHolds == Spec => []IInv
BY InitIInv, NextIInv, PTL DEF Spec

-----------------------------------------------------------------------------
(* The theorems                                                            *)

\* Type correctness of the provider's state.
THEOREM TypeCorrect == Spec => []TypeOK
<1>1. IInv => TypeOK
  BY DEF IInv
<1> QED
  BY <1>1, IInvHolds, PTL

\* A signed-in page with nothing under way shows the dialog or gave up: there is no
\* dead end but the dialog and three others (ensureDevice's catch, connect without a
\* token, connect's catch).
THEOREM NoSilentDeadEnd == Spec => []IdleIsExcused
<1>1. IInv => IdleIsExcused
  BY DEF IInv
<1> QED
  BY <1>1, IInvHolds, PTL

\* The socket in wsRef is live and not of a user who has signed out, and "connected"
\* stands for a socket of the page.
THEOREM SocketKnown == Spec => []SocketIsKnown
<1>1. IInv => SocketIsKnown
  BY DEF IInv, Known, KnownOf, SocketIsKnown, Live
<1> QED
  BY <1>1, IInvHolds, PTL

\* The page has a second live socket only after two of its ways to connect have met.
THEOREM OneSocketUnlessTheyMeet == Spec => []TwoSocketsNeedAnOverlap
<1>1. IInv => TwoSocketsNeedAnOverlap
  BY DEF IInv
<1> QED
  BY <1>1, IInvHolds, PTL
=============================================================================

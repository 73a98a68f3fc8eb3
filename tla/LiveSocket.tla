----------------------------- MODULE LiveSocket -----------------------------
(***************************************************************************)
(* The WebSocketProvider of a page (lib/websocket-context.tsx) and the     *)
(* enrolment dialog it shows.  The provider sits in the root layout and is *)
(* never unmounted, so mountedRef is FALSE only between the cleanup of its *)
(* effect and the next run of it, which follow each other in one step.     *)
(*                                                                         *)
(* A step is a turn of the page's event loop or of the server.  Delays of  *)
(* timers are abstracted: a timer that is set fires at any later time.     *)
(***************************************************************************)
EXTENDS Naturals, FiniteSets

CONSTANTS Device,    \* devices of the accounts
          Socket,    \* sockets of the page (a bound on how many live at once)
          Timer,     \* reconnect timers (a bound on how many are pending)
          Run,       \* runs of ensureDevice (a bound on how many are pending)
          None

ASSUME NoneAssumption ==
    None \notin Device \cup Socket \cup Timer \cup {"asking", "creating", "prompt", "failed"}

VARIABLES
    isAuthenticated, \* "yes" while AuthProvider has a user
    token,           \* "yes" while localStorage has an access token
    registered,      \* the devices the server has for the user it is of
    stored,          \* device_id in localStorage
    deviceId,        \* the state of that name
    connectionState,
    pendingEnrolment,\* "shown" while the dialog is
    socket,          \* every WebSocket the page has made and not seen closed
    wsRef,           \* the socket the provider knows of, or None
    timer,           \* pending timeouts: the device each will connect
    reconnectTimer,  \* the timeout the provider can still clear
    run,             \* pending runs of ensureDevice
    retriedDevice,
    effectDue,       \* the effect on deviceId has changed dependencies
    gaveUp,          \* history: ensureDevice failed, or connect found no token or
                     \* threw, since the sign-in or the last time a socket opened
    overlap          \* history: two of the page's ways to connect have met

vars == <<isAuthenticated, token, registered, stored, deviceId, connectionState,
          pendingEnrolment, socket, wsRef, timer, reconnectTimer, run,
          retriedDevice, effectDue, gaveUp, overlap>>

NoSocket == [phase |-> "none", dev |-> None, didOpen |-> "no", user |-> "no"]

Live(s) == socket[s].phase \in {"connecting", "open"}

Init ==
    /\ isAuthenticated = "no" /\ token \in {"no", "yes"} /\ registered \in SUBSET Device
    /\ stored \in Device \cup {None} /\ deviceId = None
    /\ connectionState = "disconnected" /\ pendingEnrolment = "hidden"
    /\ socket = [s \in Socket |-> NoSocket] /\ wsRef = None
    /\ timer = [i \in Timer |-> None] /\ reconnectTimer = None
    /\ run = [u \in Run |-> None]
    /\ retriedDevice = "no" /\ effectDue = "no"
    /\ gaveUp = "no" /\ overlap = "no"

-----------------------------------------------------------------------------
(* Pieces of a step.  socks, ref, state, gave: what the step has made so   *)
(* far of the sockets, wsRef, connectionState and gaveUp.                  *)

\* user: whether the page that made the socket had a user.
Connecting(d, user) ==
    [phase |-> "connecting", dev |-> d, didOpen |-> "no", user |-> user]

\* Without an access token connect does nothing; when the constructor of the
\* socket throws (a URL it does not take, or one a secure page may not use), it
\* says "disconnected" and leaves it at that.
connect(d, user, socks, ref, state, gave) ==
    \/ /\ token = "yes"
       /\ \E s \in Socket :
            /\ socks[s] = NoSocket
            /\ socket' = [socks EXCEPT ![s] = Connecting(d, user)]
            /\ wsRef' = s /\ connectionState' = "connecting"
       /\ gaveUp' = gave
    \/ /\ socket' = socks /\ wsRef' = ref
       /\ connectionState' = IF token = "yes" THEN "disconnected" ELSE state
       /\ gaveUp' = IF user = "yes" THEN "yes" ELSE gave

connectNow(d) == connect(d, isAuthenticated, socket, wsRef, connectionState, gaveUp)

\* Mutant: the effect does not depend on the dialog.
TouchEffectByState ==
    effectDue' = IF connectionState' # connectionState THEN "yes" ELSE effectDue

\* The effect on deviceId is due when one of its dependencies has changed.
TouchEffect ==
    effectDue' = IF \/ deviceId' # deviceId
                    \/ connectionState' # connectionState
                    \/ pendingEnrolment' # pendingEnrolment
                 THEN "yes" ELSE effectDue

\* Mutant: the cleanup drops the socket without closing it.
ClosedNothing == socket

\* The cleanup of the lifecycle effect: the known socket starts to close, its
\* close event comes later; only the last timer can be cleared.
Closed == IF wsRef = None THEN socket
          ELSE [socket EXCEPT ![wsRef] = [socket[wsRef] EXCEPT !.phase = "closing"]]

ClearTimer ==
    /\ timer' = IF reconnectTimer = None THEN timer
                ELSE [timer EXCEPT ![reconnectTimer] = None]
    /\ reconnectTimer' = None

\* ensureDevice: a device in localStorage is connected at once, otherwise the
\* server is asked, which refuses a page without a token.
Ask == \E u \in Run :
    run[u] = None /\ run' = [run EXCEPT ![u] = IF token = "yes" THEN "asking" ELSE "failed"]

ensureDevice(socks, ref, state, gave) ==
    \/ /\ stored # None
       /\ deviceId' = stored
       /\ connect(stored, "yes", socks, ref, state, gave)
       /\ UNCHANGED run
    \/ /\ stored = None
       /\ Ask
       /\ socket' = socks /\ wsRef' = ref /\ connectionState' = state /\ gaveUp' = gave
       /\ UNCHANGED deviceId

Resolving == \E u \in Run : run[u] # None

\* The guard of the effect on deviceId.
NeedsSocket ==
    /\ deviceId # None /\ wsRef = None
    /\ connectionState = "disconnected" /\ pendingEnrolment = "hidden"

-----------------------------------------------------------------------------
(* The lifecycle effect                                                    *)

\* The tokens of localStorage come and go: by a sign-in that is under way, a
\* refresh that fails, or another tab, whose user may be another.
TokenChanges ==
    /\ \/ token = "yes" /\ token' = "no" /\ UNCHANGED registered
       \/ token = "no" /\ token' = "yes" /\ registered' \in SUBSET Device
    /\ UNCHANGED <<isAuthenticated, stored, deviceId, connectionState, pendingEnrolment,
                   socket, wsRef, timer, reconnectTimer, run, retriedDevice, effectDue,
                   gaveUp, overlap>>

\* The user appears: both effects run, the one on deviceId with the state of
\* the session before, so after a sign-out each of them may connect, the second
\* one first (ensureDevice is awaited); it does not when it has no cause to, or
\* throws.  A socket of the page without a user is forgotten, not closed.
SignIn ==
    /\ isAuthenticated = "no" /\ isAuthenticated' = "yes"
    /\ \/ /\ NeedsSocket /\ token = "yes"
          /\ \E s \in Socket :
               /\ socket[s] = NoSocket
               /\ ensureDevice([socket EXCEPT ![s] = Connecting(deviceId, "yes")], s,
                               "connecting", "no")
       \/ ensureDevice(socket, wsRef, connectionState, "no")
    /\ UNCHANGED pendingEnrolment /\ TouchEffect
    /\ overlap' = IF NeedsSocket \/ Resolving \/ wsRef # None THEN "yes" ELSE overlap
    /\ UNCHANGED <<token, registered, stored, timer, reconnectTimer, retriedDevice>>

\* refreshUser stores a new user object: the effect is cleaned up and run again.
UserChanges ==
    /\ isAuthenticated = "yes"
    /\ ClearTimer
    /\ ensureDevice(Closed, None, connectionState, gaveUp)
    /\ UNCHANGED pendingEnrolment /\ TouchEffect
    /\ overlap' = IF Resolving THEN "yes" ELSE overlap
    /\ UNCHANGED <<isAuthenticated, token, registered, stored, retriedDevice>>

\* Mutant: wsRef is not set to null.
SignOutKeepingRef ==
    /\ isAuthenticated = "yes" /\ isAuthenticated' = "no" /\ token' = "no"
    /\ ClearTimer
    /\ socket' = Closed /\ UNCHANGED wsRef
    /\ connectionState' = "disconnected" /\ pendingEnrolment' = "hidden"
    /\ effectDue' = "no" /\ gaveUp' = "no"
    /\ UNCHANGED <<registered, stored, deviceId, run, retriedDevice, overlap>>

SignOut ==
    /\ isAuthenticated = "yes" /\ isAuthenticated' = "no" /\ token' = "no"
    /\ ClearTimer
    /\ socket' = Closed /\ wsRef' = None
    /\ connectionState' = "disconnected" /\ pendingEnrolment' = "hidden"
    /\ effectDue' = "no" /\ gaveUp' = "no"
    /\ UNCHANGED <<registered, stored, deviceId, run, retriedDevice, overlap>>

\* The effect on deviceId.
DeviceEffect ==
    /\ effectDue = "yes" /\ effectDue' = "no"
    /\ IF isAuthenticated = "yes" /\ NeedsSocket
       THEN connectNow(deviceId)
       ELSE UNCHANGED <<socket, wsRef, connectionState, gaveUp>>
    /\ UNCHANGED <<isAuthenticated, token, registered, stored, deviceId, pendingEnrolment,
                   timer, reconnectTimer, run, retriedDevice, overlap>>

-----------------------------------------------------------------------------
(* The device                                                              *)

\* The server matches the browser to a device, or leaves the choice to the user,
\* or has no device of his, so that the page asks for one to be made; or it fails.
ServeResolve(u) ==
    /\ run[u] = "asking"
    /\ \/ \E d \in registered : run' = [run EXCEPT ![u] = d]
       \/ registered # {} /\ run' = [run EXCEPT ![u] = "prompt"]
       \/ registered = {} /\ run' = [run EXCEPT ![u] = "creating"]
       \/ run' = [run EXCEPT ![u] = "failed"]
    /\ UNCHANGED <<isAuthenticated, token, registered, stored, deviceId, connectionState,
                   pendingEnrolment, socket, wsRef, timer, reconnectTimer,
                   retriedDevice, effectDue, gaveUp, overlap>>

\* The device is made, though the answer may fail; or it is not.
ServeCreate(u) ==
    /\ run[u] = "creating"
    /\ \/ \E d \in Device \ registered :
            /\ registered' = registered \cup {d}
            /\ run' \in {[run EXCEPT ![u] = d], [run EXCEPT ![u] = "failed"]}
       \/ run' = [run EXCEPT ![u] = "failed"] /\ UNCHANGED registered
    /\ UNCHANGED <<isAuthenticated, token, stored, deviceId, connectionState,
                   pendingEnrolment, socket, wsRef, timer, reconnectTimer,
                   retriedDevice, effectDue, gaveUp, overlap>>

\* Mutant: the answer is used as a device without a look at "matched".
ResolvedUnchecked(u) ==
    /\ run[u] \notin {None, "asking", "creating"} /\ run' = [run EXCEPT ![u] = None]
    /\ stored' = run[u] /\ deviceId' = run[u]
    /\ connectNow(run[u])
    /\ UNCHANGED pendingEnrolment /\ TouchEffect
    /\ UNCHANGED <<isAuthenticated, token, registered, timer, reconnectTimer, retriedDevice,
                   overlap>>

Resolved(u) ==
    /\ run[u] \notin {None, "asking", "creating"} /\ run' = [run EXCEPT ![u] = None]
    /\ \/ /\ run[u] \in Device
          /\ stored' = run[u] /\ deviceId' = run[u]
          /\ connectNow(run[u])
          /\ UNCHANGED pendingEnrolment
       \/ /\ run[u] = "prompt"
          /\ pendingEnrolment' = "shown"
          /\ UNCHANGED <<stored, deviceId, connectionState, socket, wsRef, gaveUp>>
       \/ /\ run[u] = "failed"
          /\ gaveUp' = isAuthenticated
          /\ UNCHANGED <<stored, deviceId, connectionState, pendingEnrolment,
                         socket, wsRef>>
    /\ TouchEffect
    /\ UNCHANGED <<isAuthenticated, token, registered, timer, reconnectTimer, retriedDevice,
                   overlap>>

\* DeviceEnrolmentDialog: a new device, or one the user claims.
Enrol(d) ==
    /\ pendingEnrolment = "shown" /\ isAuthenticated = "yes"
    /\ pendingEnrolment' = "hidden"
    /\ stored' = d /\ deviceId' = d
    /\ registered' = registered \cup {d}
    /\ UNCHANGED connectionState /\ TouchEffect
    /\ overlap' = IF Resolving THEN "yes" ELSE overlap
    /\ UNCHANGED <<isAuthenticated, token, socket, wsRef, timer, reconnectTimer, run,
                   retriedDevice, gaveUp>>

DeviceDeleted(d) ==
    /\ d \in registered /\ registered' = registered \ {d}
    /\ UNCHANGED <<isAuthenticated, token, stored, deviceId, connectionState,
                   pendingEnrolment, socket, wsRef, timer, reconnectTimer, run,
                   retriedDevice, effectDue, gaveUp, overlap>>

-----------------------------------------------------------------------------
(* The sockets                                                             *)

onopen(s) ==
    /\ socket[s].phase = "connecting" /\ socket[s].dev \in registered
    /\ socket' = [socket EXCEPT ![s] =
                    [socket[s] EXCEPT !.phase = "open", !.didOpen = "yes"]]
    /\ retriedDevice' = "no"
    /\ connectionState' = "connected" /\ gaveUp' = "no"
    /\ UNCHANGED <<deviceId, pendingEnrolment>> /\ TouchEffect
    /\ UNCHANGED <<isAuthenticated, token, registered, stored, wsRef, timer,
                   reconnectTimer, run, overlap>>

\* Mutant: a close does not change connectionState.
oncloseSilently(s) ==
    /\ socket[s].phase # "none"
    /\ socket' = [socket EXCEPT ![s] = NoSocket]
    /\ wsRef' = None
    /\ \E i \in Timer :
         /\ timer[i] = None
         /\ timer' = [timer EXCEPT ![i] = socket[s].dev]
         /\ reconnectTimer' = i
    /\ overlap' = "yes"
    /\ UNCHANGED <<isAuthenticated, token, registered, stored, deviceId, connectionState,
                   pendingEnrolment, run, retriedDevice, effectDue, gaveUp>>

\* Any socket of the page closes: the handler does not ask whether it is the
\* one in wsRef.  A socket that never opened takes the stored device with it,
\* once; otherwise a reconnect is scheduled, and the effect on deviceId sees
\* the new connectionState.
onclose(s) ==
    /\ socket[s].phase # "none"
    /\ socket' = [socket EXCEPT ![s] = NoSocket]
    /\ wsRef' = None
    /\ connectionState' = "disconnected"
    /\ IF socket[s].didOpen = "no" /\ retriedDevice = "no"
       THEN /\ retriedDevice' = "yes" /\ stored' = None
            /\ Ask
            /\ UNCHANGED <<timer, reconnectTimer>>
       ELSE /\ \E i \in Timer :
                 /\ timer[i] = None
                 /\ timer' = [timer EXCEPT ![i] = socket[s].dev]
                 /\ reconnectTimer' = i
            /\ UNCHANGED <<retriedDevice, stored, run>>
    /\ UNCHANGED <<deviceId, pendingEnrolment>> /\ TouchEffect
    /\ overlap' = "yes"
    /\ UNCHANGED <<isAuthenticated, token, registered, gaveUp>>

\* The reference to a timer that has fired stays, and clearing it does nothing.
TimerFires(i) ==
    /\ timer[i] # None /\ timer' = [timer EXCEPT ![i] = None]
    /\ reconnectTimer' = IF reconnectTimer = i THEN None ELSE reconnectTimer
    /\ connectNow(timer[i])
    /\ UNCHANGED <<deviceId, pendingEnrolment>> /\ TouchEffect
    /\ UNCHANGED <<isAuthenticated, token, registered, stored, run, retriedDevice, overlap>>

-----------------------------------------------------------------------------
Next ==
    \/ TokenChanges \/ SignIn \/ UserChanges \/ SignOut \/ DeviceEffect
    \/ \E u \in Run : ServeResolve(u) \/ ServeCreate(u) \/ Resolved(u)
    \/ \E d \in Device : Enrol(d) \/ DeviceDeleted(d)
    \/ \E s \in Socket : onopen(s) \/ onclose(s)
    \/ \E i \in Timer : TimerFires(i)

Spec == Init /\ [][Next]_vars

-----------------------------------------------------------------------------
TypeOK ==
    /\ isAuthenticated \in {"no", "yes"} /\ token \in {"no", "yes"} /\ registered \subseteq Device
    /\ stored \in Device \cup {None} /\ deviceId \in Device \cup {None}
    /\ connectionState \in {"connecting", "connected", "disconnected"}
    /\ pendingEnrolment \in {"hidden", "shown"}
    /\ socket \in [Socket -> [phase : {"none", "connecting", "open", "closing"},
                              dev : Device \cup {None}, didOpen : {"no", "yes"},
                              user : {"no", "yes"}]]
    /\ wsRef \in Socket \cup {None}
    /\ timer \in [Timer -> Device \cup {None}]
    /\ reconnectTimer \in Timer \cup {None}
    /\ run \in [Run -> Device \cup {None, "asking", "creating", "prompt", "failed"}]
    /\ retriedDevice \in {"no", "yes"} /\ effectDue \in {"no", "yes"}
    /\ gaveUp \in {"no", "yes"} /\ overlap \in {"no", "yes"}

\* Nothing of the provider is under way.
Idle ==
    /\ \A s \in Socket : socket[s].phase = "none"
    /\ \A i \in Timer : timer[i] = None
    /\ ~Resolving /\ effectDue = "no"

\* A signed-in page without a socket has something under way that will make
\* one, or shows the dialog, or gave up: when the device could not be resolved, or
\* there was no token to connect with (a refresh has failed, or another tab has
\* signed out), or the browser threw at the URL.  No other path is a dead end.
IdleIsExcused ==
    Idle /\ isAuthenticated = "yes" => gaveUp = "yes" \/ pendingEnrolment = "shown"

\* The user guide: the client attempts to reconnect when the connection is lost.
NeverGivesUp ==
    Idle /\ isAuthenticated = "yes" => pendingEnrolment = "shown"

\* What the provider knows of its socket holds: the one in wsRef may carry messages,
\* never those of a user who has signed out (a page without a user has a socket only
\* if a timer or a run left over found the tokens of another tab); and "connected" is
\* shown only while a socket of the page is open, or closes.
SocketIsKnown ==
    /\ wsRef # None => Live(wsRef) /\ (socket[wsRef].user = "yes" => isAuthenticated = "yes")
    /\ connectionState = "connected" =>
         \E s \in Socket : socket[s].phase \in {"open", "closing"}

\* Two sockets at once (every message then arrives twice) need two ways to
\* connect to have met: a close event, which starts both the timer and the
\* effect; a second sign-in in the same page, or one while it has a socket; a run of
\* ensureDevice that has not ended when the user object changes or the dialog is
\* answered.
TwoSocketsNeedAnOverlap ==
    overlap = "no" => \A s \in Socket : Live(s) => s = wsRef
=============================================================================

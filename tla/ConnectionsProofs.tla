------------------------- MODULE ConnectionsProofs -------------------------
(***************************************************************************)
(* The event loop of the hub never panics, and a handler only in shutdown, *)
(* for every set of connections and every buffer size.                     *)
(*                                                                         *)
(* The argument: a send channel is closed either by removeClient, which    *)
(* runs once the handler has given the connection up and takes it out of   *)
(* the map, or by the drain, after which the loop does nothing any more.   *)
(***************************************************************************)
EXTENDS Connections, TLAPS

Live == {"greeting", "snapshot", "running", "unregistering"}

\* Until the loop returns, the map is the set of handlers between the two
\* rendezvous with it.
MapMatchesHandlers ==
  hub \in {"starting", "running"} => \A c \in Client : c \in clients <=> pc[c] \in Live

\* Only the drain closes the channel of a handler that may still use it.
ClosedMeansGone ==
  hub # "drained" => \A c \in Client : ~sendOpen[c] => pc[c] = "closed"

IndInv ==
  /\ TypeOK
  /\ MapMatchesHandlers
  /\ ClosedMeansGone
  /\ hub = "drained" => main # "serving"
  /\ panics # {} => hub = "drained"
  /\ HubNeverPanics

-----------------------------------------------------------------------------

LEMMA InitIndInv == Init => IndInv
<1> SUFFICES ASSUME Init PROVE IndInv
  OBVIOUS
<1>1. TypeOK
  <2>1. 0 \in 0..SendBufferSize /\ 0 \in 0..FeedBufferSize
    BY SendBufferAssumption, FeedBufferAssumption
  <2> QED
    BY <2>1 DEF Init, TypeOK, HubStates, HandlerStates
<1>2. MapMatchesHandlers /\ ClosedMeansGone
  BY DEF Init, MapMatchesHandlers, ClosedMeansGone, Live
<1> QED
  BY <1>1, <1>2 DEF Init, IndInv, HubNeverPanics

\* What a handler's own send does to its channel: at most one message more.
LEMMA OfferedType ==
  ASSUME TypeOK, NEW c \in Client
  PROVE  Offered(c) \in [Client -> 0..SendBufferSize]
BY SendBufferAssumption DEF TypeOK, Offered

\* Steps of the redis forwarder and of main.
LEMMA EnvironmentStep ==
  ASSUME IndInv, FeedMessage \/ FeedStop \/ Cancel \/ Exit
  PROVE  IndInv'
<1> USE DEF IndInv, hubVars, connVars, feedVars, MapMatchesHandlers,
            ClosedMeansGone, HubNeverPanics, TypeOK
<1>1. CASE FeedMessage
  BY <1>1, FeedBufferAssumption DEF FeedMessage
<1>2. CASE FeedStop
  BY <1>2 DEF FeedStop
<1>3. CASE Cancel
  BY <1>3 DEF Cancel
<1>4. CASE Exit
  BY <1>4 DEF Exit
<1> QED
  BY <1>1, <1>2, <1>3, <1>4

\* Steps of a handler goroutine and of its socket.
LEMMA HandlerStep ==
  ASSUME IndInv, NEW c \in Client, Handler(c) \/ Disconnect(c)
  PROVE  IndInv'
<1> USE DEF IndInv, hubVars, feedVars, MapMatchesHandlers, ClosedMeansGone,
            HubNeverPanics, Live
<1>1. CASE Accept(c)
  BY <1>1 DEF Accept, TypeOK, HandlerStates
<1>2. CASE Run(c)
  BY <1>2 DEF Run, TypeOK, HandlerStates
<1>3. CASE ReadFails(c)
  BY <1>3 DEF ReadFails, TypeOK, HandlerStates
<1>4. CASE Disconnect(c)
  BY <1>4 DEF Disconnect, TypeOK
<1>5. ASSUME NEW next \in HandlerStates, NEW onPanic \in HandlerStates,
             pc[c] \in Live, next \in Live, Send(c, next, onPanic),
             UNCHANGED <<main, hubVars, feedVars, sendOpen, writer, conn, closeFrame>>
      PROVE  IndInv'
  <2>1. CASE sendOpen[c]
    BY <1>5, <2>1, OfferedType DEF Send, TypeOK, HandlerStates
  <2>2. CASE ~sendOpen[c]
    <3>1. hub = "drained"
      BY <1>5, <2>2 DEF TypeOK, HandlerStates
    <3> QED
      BY <1>5, <2>2, <3>1 DEF Send, TypeOK
  <2> QED
    BY <2>1, <2>2
<1>6. CASE SendConnected(c)
  BY <1>5, <1>6 DEF SendConnected, HandlerStates
<1>7. CASE SendSnapshot(c)
  BY <1>5, <1>7 DEF SendSnapshot, HandlerStates
<1>8. CASE ReadAndRefuse(c)
  BY <1>5, <1>8 DEF ReadAndRefuse, HandlerStates
<1> QED
  BY <1>1, <1>2, <1>3, <1>4, <1>6, <1>7, <1>8 DEF Handler

\* Steps of a write pump, which never touches the map or the channel's state.
LEMMA WriterStep ==
  ASSUME IndInv, NEW c \in Client, Writer(c)
  PROVE  IndInv'
<1> USE SendBufferAssumption
    DEF IndInv, hubVars, feedVars, MapMatchesHandlers, ClosedMeansGone,
        HubNeverPanics, Live, TypeOK
<1>1. CASE WriteMessage(c)
  BY <1>1 DEF WriteMessage
<1>2. CASE WriteFails(c)
  BY <1>2 DEF WriteFails
<1>3. CASE PingFails(c)
  BY <1>3 DEF PingFails
<1>4. CASE WriterCloses(c)
  BY <1>4 DEF WriterCloses
<1> QED
  BY <1>1, <1>2, <1>3, <1>4 DEF Writer

\* Steps of the event loop.
LEMMA HubStep ==
  ASSUME IndInv, Hub
  PROVE  IndInv'
<1> USE DEF IndInv, hubVars, feedVars, connVars, MapMatchesHandlers,
            ClosedMeansGone, HubNeverPanics, Live
<1>1. CASE HubSubscribe
  BY <1>1 DEF HubSubscribe, TypeOK, HubStates
<1>2. CASE HubRoute
  <2>1. PICK S \in SUBSET clients :
          IF \A c \in S : sendOpen[c]
            THEN queued' \in AnyOffered(S) /\ UNCHANGED hub
            ELSE hub' = "panicked" /\ UNCHANGED queued
    BY <1>2 DEF HubRoute
  <2>2. \A c \in S : sendOpen[c]
    BY <1>2, <2>1 DEF HubRoute, TypeOK
  <2>3. queued' \in [Client -> 0..SendBufferSize] /\ UNCHANGED hub
    BY <2>1, <2>2 DEF AnyOffered
  <2> QED
    BY <1>2, <2>3, FeedBufferAssumption DEF HubRoute, TypeOK
<1>3. CASE HubShutdown
  BY <1>3 DEF HubShutdown, TypeOK, HubStates, ctxDone
<1>4. CASE HubFeedClosed
  BY <1>4 DEF HubFeedClosed, TypeOK, HubStates
<1>5. ASSUME NEW c \in Client, HubRegister(c)
      PROVE  IndInv'
  BY <1>5 DEF HubRegister, TypeOK, HandlerStates
<1>6. ASSUME NEW c \in Client, HubUnregister(c)
      PROVE  IndInv'
  <2>1. c \in clients /\ sendOpen[c]
    BY <1>6 DEF HubUnregister, TypeOK
  <2>2. /\ clients' = clients \ {c}
        /\ sendOpen' = [sendOpen EXCEPT ![c] = FALSE]
        /\ hub' = hub
        /\ pc' = [pc EXCEPT ![c] = "closed"]
        /\ conn' = [conn EXCEPT ![c] = "down"]
        /\ UNCHANGED <<main, feedVars, queued, writer, closeFrame, panics>>
    BY <1>6, <2>1 DEF HubUnregister, removeClient
  <2>3. TypeOK'
    BY <2>2 DEF TypeOK, HandlerStates
  <2> QED
    BY <2>2, <2>3 DEF TypeOK, HandlerStates
<1> QED
  BY <1>1, <1>2, <1>3, <1>4, <1>5, <1>6 DEF Hub

LEMMA NextIndInv == IndInv /\ [Next]_vars => IndInv'
<1> SUFFICES ASSUME IndInv, [Next]_vars PROVE IndInv'
  OBVIOUS
<1>1. CASE UNCHANGED vars
  BY <1>1 DEF IndInv, vars, hubVars, feedVars, connVars, TypeOK,
     MapMatchesHandlers, ClosedMeansGone, HubNeverPanics
<1>2. CASE Next
  BY <1>2, EnvironmentStep, HandlerStep, WriterStep, HubStep DEF Next
<1> QED
  BY <1>1, <1>2

THEOREM Invariance == Spec => []IndInv
BY InitIndInv, NextIndInv, PTL DEF Spec

\* Every variable keeps its type; in particular no send channel and no feed
\* ever holds more than its capacity.
THEOREM TypeCorrect == Spec => []TypeOK
BY Invariance, PTL DEF IndInv

\* No sequence of registrations, routed messages, failures and shutdowns makes
\* the event loop send on or close a closed channel, which would end the process.
THEOREM HubSafe == Spec => []HubNeverPanics
BY Invariance, PTL DEF IndInv

\* While the loop runs its map holds exactly the live handlers, each with an
\* open channel.
THEOREM MapCorrect == Spec => []RegisteredExactlyWhileOpen
<1>1. IndInv => RegisteredExactlyWhileOpen
  BY DEF IndInv, RegisteredExactlyWhileOpen, MapMatchesHandlers, ClosedMeansGone, Live
<1> QED
  BY <1>1, Invariance, PTL

\* A handler panics only on a channel the drain has closed under it.
THEOREM HandlersSafe == Spec => []HandlerPanicsOnlyInShutdown
<1>1. IndInv => HandlerPanicsOnlyInShutdown
  BY DEF IndInv, HandlerPanicsOnlyInShutdown
<1> QED
  BY <1>1, Invariance, PTL
=============================================================================

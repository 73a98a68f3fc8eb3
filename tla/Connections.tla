---------------------------- MODULE Connections ----------------------------
(***************************************************************************)
(* Lifecycle of the WebSocket connections of one API process.              *)
(*                                                                         *)
(* Goroutines: the hub's event loop (ws/hub.go, Run), the redis forwarder  *)
(* that feeds it (pubsub/redis.go, Subscribe), per connection the HTTP     *)
(* handler that becomes the read pump (ws/handler.go, ws/client.go) and    *)
(* the write pump, and main (cmd/server/main.go), which cancels the hub's  *)
(* context and exits.                                                      *)
(*                                                                         *)
(* A member of Client is one *Client object: one accepted connection. What *)
(* is sent is abstracted to the number of messages in the send channel;    *)
(* WHO receives a routed message is any set of registered clients (module  *)
(* HubRouting decides which).                                              *)
(***************************************************************************)
EXTENDS Naturals, FiniteSets

CONSTANTS
  Client,           \* the connections that may be made
  SendBufferSize,   \* capacity of a client's send channel (256 in the code)
  FeedBufferSize    \* capacity of the channel from redis (256 in the code)

ASSUME SendBufferAssumption == SendBufferSize \in Nat \ {0}
ASSUME FeedBufferAssumption == FeedBufferSize \in Nat \ {0}

VARIABLES
  main,       \* main goroutine: "serving", "stopping" (hubCancel called), "exited"
  hub,        \* event loop; see HubStates
  feedOpen,   \* the channel from redis has not been closed by its forwarder
  backlog,    \* messages waiting in that channel
  clients,    \* Hub.clients: the registered connections
  pc,         \* handler goroutine of each connection
  sendOpen,   \* the send channel has not been closed
  queued,     \* messages in the send channel
  writer,     \* write pump: "none", "running", "exited"
  conn,       \* the socket: "none", "up", "down"
  closeFrame, \* history: a close frame was written to a socket that was up
  panics      \* history: connections whose handler panicked on a closed channel

hubVars  == <<hub, clients>>
feedVars == <<feedOpen, backlog>>
connVars == <<pc, sendOpen, queued, writer, conn, closeFrame, panics>>
vars     == <<main, hubVars, feedVars, connVars>>

HubStates == {"starting", "running",
              "drained",    \* returned through ctx.Done: channels closed
              "abandoned",  \* returned because the feed could not be opened or was closed
              "panicked"}   \* sent on, or closed, a closed channel

HandlerStates == {"idle", "registering", "greeting", "snapshot", "running",
                  "unregistering", "closed", "dead"}

ctxDone == main # "serving"

\* A panic of the hub's goroutine and the exit of main end the process.
Alive == main # "exited" /\ hub # "panicked"

TypeOK ==
  /\ main \in {"serving", "stopping", "exited"}
  /\ hub \in HubStates
  /\ feedOpen \in BOOLEAN
  /\ backlog \in 0..FeedBufferSize
  /\ clients \in SUBSET Client
  /\ pc \in [Client -> HandlerStates]
  /\ sendOpen \in [Client -> BOOLEAN]
  /\ queued \in [Client -> 0..SendBufferSize]
  /\ writer \in [Client -> {"none", "running", "exited"}]
  /\ conn \in [Client -> {"none", "up", "down"}]
  /\ closeFrame \in [Client -> BOOLEAN]
  /\ panics \in SUBSET Client

Init ==
  /\ main = "serving"
  /\ hub = "starting"
  /\ feedOpen = FALSE
  /\ backlog = 0
  /\ clients = {}
  /\ pc = [c \in Client |-> "idle"]
  /\ sendOpen = [c \in Client |-> TRUE]
  /\ queued = [c \in Client |-> 0]
  /\ writer = [c \in Client |-> "none"]
  /\ conn = [c \in Client |-> "none"]
  /\ closeFrame = [c \in Client |-> FALSE]
  /\ panics = {}

-----------------------------------------------------------------------------
(* The redis forwarder.                                                    *)

\* A message from redis is copied to the hub's channel, which blocks when full.
FeedMessage ==
  /\ Alive
  /\ feedOpen
  /\ backlog < FeedBufferSize
  /\ backlog' = backlog + 1
  /\ UNCHANGED <<main, hubVars, feedOpen, connVars>>

\* The forwarder sees ctx.Done, returns, and its defer closes the channel.
FeedStop ==
  /\ Alive
  /\ feedOpen
  /\ ctxDone
  /\ feedOpen' = FALSE
  /\ UNCHANGED <<main, hubVars, backlog, connVars>>

-----------------------------------------------------------------------------
(* The hub's event loop: one action per case of its select. Go's select    *)
(* takes any case that is ready.                                           *)

HubSubscribe ==
  /\ Alive
  /\ hub = "starting"
  /\ \/ hub' = "running" /\ feedOpen' = TRUE
     \/ hub' = "abandoned" /\ UNCHANGED feedOpen
  /\ UNCHANGED <<main, backlog, clients, connVars>>

\* case client := <-h.register, with addClient. The handler goes on.
HubRegister(c) ==
  /\ Alive
  /\ hub = "running"
  /\ pc[c] = "registering"
  /\ clients' = clients \cup {c}
  /\ pc' = [pc EXCEPT ![c] = "greeting"]
  /\ UNCHANGED <<main, hub, feedVars, sendOpen, queued, writer, conn, closeFrame, panics>>

\* Mutant: the client is closed but stays in the map.
M_removeClient_NoDelete(c) ==
  IF c \in clients
    THEN /\ sendOpen' = [sendOpen EXCEPT ![c] = FALSE]
         /\ hub' = IF sendOpen[c] THEN hub ELSE "panicked"
         /\ UNCHANGED clients
    ELSE UNCHANGED <<clients, sendOpen, hub>>

\* removeClient: delete and close once; a second removal finds nothing.
\* Closing a closed channel panics.
removeClient(c) ==
  IF c \in clients
    THEN /\ clients' = clients \ {c}
         /\ sendOpen' = [sendOpen EXCEPT ![c] = FALSE]
         /\ hub' = IF sendOpen[c] THEN hub ELSE "panicked"
    ELSE UNCHANGED <<clients, sendOpen, hub>>

\* case client := <-h.unregister, with removeClient. The read pump's deferred
\* function goes on to close the socket.
HubUnregister(c) ==
  /\ Alive
  /\ hub = "running"
  /\ pc[c] = "unregistering"
  /\ removeClient(c)
  /\ pc' = [pc EXCEPT ![c] = "closed"]
  /\ conn' = [conn EXCEPT ![c] = "down"]
  /\ UNCHANGED <<main, feedVars, queued, writer, closeFrame, panics>>

\* A non-blocking send to c: a full buffer drops the message.
Offered(c) ==
  [queued EXCEPT ![c] = IF @ < SendBufferSize THEN @ + 1 ELSE @]

\* Mutant: the channel is taken to have room for one more.
M_AnyOffered_OffByOne(S) ==
  {q \in [Client -> 0..SendBufferSize + 1] :
     \A c \in Client : q[c] >= queued[c] /\ (c \notin S => q[c] = queued[c])}

\* Any number of non-blocking sends to connections of S.
AnyOffered(S) ==
  {q \in [Client -> 0..SendBufferSize] :
     \A c \in Client : q[c] >= queued[c] /\ (c \notin S => q[c] = queued[c])}

\* Mutant: a connection that is too slow for its buffer is evicted.
M_HubRoute_EvictsSlow ==
  /\ Alive
  /\ hub = "running"
  /\ backlog > 0
  /\ backlog' = backlog - 1
  /\ \E S \in SUBSET clients :
       LET slow == {c \in S : queued[c] = SendBufferSize} IN
       /\ clients' = clients \ slow
       /\ sendOpen' = [c \in Client |-> sendOpen[c] /\ c \notin slow]
       /\ queued' \in AnyOffered(S)
  /\ UNCHANGED <<main, hub, feedOpen, pc, writer, conn, closeFrame, panics>>

\* case msg := <-messages, with routeMessage and the broadcast, send and
\* refresh functions it calls: they offer messages to registered connections.
HubRoute ==
  /\ Alive
  /\ hub = "running"
  /\ backlog > 0
  /\ backlog' = backlog - 1
  /\ \E S \in SUBSET clients :
       IF \A c \in S : sendOpen[c]
         THEN queued' \in AnyOffered(S) /\ UNCHANGED hub
         ELSE hub' = "panicked" /\ UNCHANGED queued
  /\ UNCHANGED <<main, feedOpen, clients, pc, sendOpen, writer, conn, closeFrame, panics>>

\* case <-ctx.Done(): close every registered send channel and return. The
\* clients stay in the map.
HubShutdown ==
  /\ Alive
  /\ hub = "running"
  /\ ctxDone
  /\ hub' = IF \A c \in clients : sendOpen[c] THEN "drained" ELSE "panicked"
  /\ sendOpen' = [c \in Client |-> sendOpen[c] /\ c \notin clients]
  /\ UNCHANGED <<main, clients, feedVars, pc, queued, writer, conn, closeFrame, panics>>

\* case _, ok := <-messages with !ok: the loop returns and closes nothing.
HubFeedClosed ==
  /\ Alive
  /\ hub = "running"
  /\ ~feedOpen
  /\ backlog = 0
  /\ hub' = "abandoned"
  /\ UNCHANGED <<main, clients, feedVars, connVars>>

-----------------------------------------------------------------------------
(* The handler goroutine: ServeHTTP, then Run and readPump.                *)

\* Authentication, device and membership checks passed; the connection is
\* upgraded and the client made. A refused request changes nothing here.
Accept(c) ==
  /\ Alive
  /\ pc[c] = "idle"
  /\ pc' = [pc EXCEPT ![c] = "registering"]
  /\ conn' = [conn EXCEPT ![c] = "up"]
  /\ UNCHANGED <<main, hubVars, feedVars, sendOpen, queued, writer, closeFrame, panics>>

\* sendJSON / sendError by the handler goroutine of c, which then is at next.
\* A send on a closed channel panics and leaves the goroutine at onPanic.
Send(c, next, onPanic) ==
  IF sendOpen[c]
    THEN /\ queued' = Offered(c)
         /\ pc' = [pc EXCEPT ![c] = next]
         /\ UNCHANGED panics
    ELSE /\ panics' = panics \cup {c}
         /\ pc' = [pc EXCEPT ![c] = onPanic]
         /\ UNCHANGED queued

SendConnected(c) ==
  /\ Alive
  /\ pc[c] = "greeting"
  /\ Send(c, "snapshot", "dead")
  /\ UNCHANGED <<main, hubVars, feedVars, sendOpen, writer, conn, closeFrame>>

\* One location_snapshot message of SendSnapshot's loop.
SendSnapshot(c) ==
  /\ Alive
  /\ pc[c] = "snapshot"
  /\ Send(c, "snapshot", "dead")
  /\ UNCHANGED <<main, hubVars, feedVars, sendOpen, writer, conn, closeFrame>>

\* Run: the write pump starts and this goroutine becomes the read pump.
Run(c) ==
  /\ Alive
  /\ pc[c] = "snapshot"
  /\ pc' = [pc EXCEPT ![c] = "running"]
  /\ writer' = [writer EXCEPT ![c] = "running"]
  /\ UNCHANGED <<main, hubVars, feedVars, sendOpen, queued, conn, closeFrame, panics>>

\* A message is read and answered with an error. (One that is accepted
\* touches none of this state.) A panic runs the deferred unregister.
ReadAndRefuse(c) ==
  /\ Alive
  /\ pc[c] = "running"
  /\ conn[c] = "up"
  /\ Send(c, "running", "unregistering")
  /\ UNCHANGED <<main, hubVars, feedVars, sendOpen, writer, conn, closeFrame>>

\* Mutant: the read pump returns without unregistering.
M_ReadFails_NoUnregister(c) ==
  /\ Alive
  /\ pc[c] = "running"
  /\ conn[c] = "down"
  /\ pc' = [pc EXCEPT ![c] = "closed"]
  /\ UNCHANGED <<main, hubVars, feedVars, sendOpen, queued, writer, conn, closeFrame, panics>>

\* conn.Read fails: the read pump returns and its defer offers unregister.
ReadFails(c) ==
  /\ Alive
  /\ pc[c] = "running"
  /\ conn[c] = "down"
  /\ pc' = [pc EXCEPT ![c] = "unregistering"]
  /\ UNCHANGED <<main, hubVars, feedVars, sendOpen, queued, writer, conn, closeFrame, panics>>

\* The peer closes, the network fails, or the read limit is exceeded.
Disconnect(c) ==
  /\ Alive
  /\ conn[c] = "up"
  /\ conn' = [conn EXCEPT ![c] = "down"]
  /\ UNCHANGED <<main, hubVars, feedVars, pc, sendOpen, queued, writer, closeFrame, panics>>

-----------------------------------------------------------------------------
(* The write pump.                                                         *)

WriteMessage(c) ==
  /\ Alive
  /\ writer[c] = "running"
  /\ queued[c] > 0
  /\ conn[c] = "up"
  /\ queued' = [queued EXCEPT ![c] = @ - 1]
  /\ UNCHANGED <<main, hubVars, feedVars, pc, sendOpen, writer, conn, closeFrame, panics>>

\* conn.Write fails or times out: the pump exits; the library closes the socket.
WriteFails(c) ==
  /\ Alive
  /\ writer[c] = "running"
  /\ queued[c] > 0
  /\ queued' = [queued EXCEPT ![c] = @ - 1]
  /\ writer' = [writer EXCEPT ![c] = "exited"]
  /\ conn' = [conn EXCEPT ![c] = "down"]
  /\ UNCHANGED <<main, hubVars, feedVars, pc, sendOpen, closeFrame, panics>>

\* conn.Ping fails or times out: the pump returns and leaves the socket as it
\* is. Its end is for the read pump to notice; until then the connection stays
\* registered and nobody empties its channel.
PingFails(c) ==
  /\ Alive
  /\ writer[c] = "running"
  /\ writer' = [writer EXCEPT ![c] = "exited"]
  /\ UNCHANGED <<main, hubVars, feedVars, pc, conn, sendOpen, queued, closeFrame, panics>>

\* Mutant: the receive's ok flag is not looked at, and the loop goes on.
M_WriterCloses_GoesOn(c) ==
  /\ Alive
  /\ writer[c] = "running"
  /\ ~sendOpen[c]
  /\ queued[c] = 0
  /\ UNCHANGED vars

\* The channel is closed and drained: close frame, exit.
WriterCloses(c) ==
  /\ Alive
  /\ writer[c] = "running"
  /\ ~sendOpen[c]
  /\ queued[c] = 0
  /\ writer' = [writer EXCEPT ![c] = "exited"]
  /\ closeFrame' = [closeFrame EXCEPT ![c] = (conn[c] = "up")]
  /\ conn' = [conn EXCEPT ![c] = "down"]
  /\ UNCHANGED <<main, hubVars, feedVars, pc, sendOpen, queued, panics>>

-----------------------------------------------------------------------------
(* main.                                                                   *)

\* SIGINT/SIGTERM or a server error: hubCancel().
Cancel ==
  /\ Alive
  /\ main = "serving"
  /\ main' = "stopping"
  /\ UNCHANGED <<hubVars, feedVars, connVars>>

\* srv.Shutdown does not wait for upgraded connections, nor main for the hub.
Exit ==
  /\ Alive
  /\ main = "stopping"
  /\ main' = "exited"
  /\ UNCHANGED <<hubVars, feedVars, connVars>>

-----------------------------------------------------------------------------

Handler(c) ==
  \/ Accept(c) \/ SendConnected(c) \/ SendSnapshot(c) \/ Run(c)
  \/ ReadAndRefuse(c) \/ ReadFails(c)

Writer(c) ==
  WriteMessage(c) \/ WriteFails(c) \/ PingFails(c) \/ WriterCloses(c)

Hub ==
  \/ HubSubscribe \/ HubRoute \/ HubShutdown \/ HubFeedClosed
  \/ \E c \in Client : HubRegister(c) \/ HubUnregister(c)

Next ==
  \/ Hub \/ FeedMessage \/ FeedStop \/ Cancel \/ Exit
  \/ \E c \in Client : Handler(c) \/ Writer(c) \/ Disconnect(c)

Spec == Init /\ [][Next]_vars

\* Go runs every ready goroutine, and its select picks among the ready cases
\* at random, so a case that stays ready is taken. Peers, redis, signals and
\* new requests owe nothing.
Fairness ==
  /\ WF_vars(HubSubscribe)
  /\ WF_vars(HubRoute)
  /\ \A c \in Client :
       /\ WF_vars(HubRegister(c))
       /\ WF_vars(HubUnregister(c))
       /\ WF_vars(SendConnected(c))
       /\ WF_vars(Run(c))
       /\ WF_vars(ReadFails(c))
       /\ WF_vars(WriteMessage(c) \/ WriteFails(c))
       /\ WF_vars(WriterCloses(c))

FairSpec == Spec /\ Fairness

-----------------------------------------------------------------------------
(* Properties.                                                             *)

\* The event loop never sends on, and never closes, a closed channel: its
\* panic, unlike a handler's, is recovered by nobody and ends the process
\* (hub.go: removeClient's exists check; the return after the drain).
HubNeverPanics == hub # "panicked"

\* While the loop runs, the map holds exactly the connections whose handler is
\* past register and before the end of unregister, each with an open channel;
\* so no handler can meet a closed channel before shutdown.
RegisteredExactlyWhileOpen ==
  hub = "running" =>
    \A c \in Client :
      /\ c \in clients <=> pc[c] \in {"greeting", "snapshot", "running", "unregistering"}
      /\ ~sendOpen[c] => pc[c] = "closed"

\* A handler goroutine can only panic on its send channel in the shutdown
\* window, where the hub closes channels their handlers still send on.
HandlerPanicsOnlyInShutdown == panics # {} => main # "serving" /\ hub = "drained"

\* A connection whose socket has failed leaves the hub's map, whatever the hub
\* is routing and however full its buffer is, unless the hub itself stopped.
DeadConnectionsLeave ==
  \A c \in Client :
    (c \in clients /\ conn[c] = "down") ~> (c \notin clients \/ hub # "running" \/ ~Alive)

\* Once a send channel is closed, by unregister or by shutdown, the write pump
\* that drains it ends: no goroutine leaks ("Write pumps exit cleanly via
\* channel close", FEATURES.md).
WritersEnd ==
  \A c \in Client :
    (writer[c] = "running" /\ ~sendOpen[c]) ~> (writer[c] = "exited" \/ ~Alive)

=============================================================================

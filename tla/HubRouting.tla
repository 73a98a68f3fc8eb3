----------------------------- MODULE HubRouting -----------------------------
(***************************************************************************)
(* What the hub knows about memberships, and to whom it routes a group's   *)
(* traffic (ws/hub.go, ws/handler.go), composed with the requests that     *)
(* change memberships (GroupService).                                      *)
(*                                                                         *)
(* Each connection carries its own copy of its user's membership rows: it  *)
(* is read when the connection is set up, before the hub knows the         *)
(* connection, and read again when a membership event of the user is       *)
(* routed. Send buffers are the subject of Connections and left out here.  *)
(***************************************************************************)
EXTENDS GroupService

CONSTANTS
  Client,      \* connections
  ClientUser,  \* the user of each
  Device,      \* devices
  ClientDevice,\* the device of each connection
  DeviceUser,  \* the owner of each device
  MaxTraffic   \* bound: messages posted and locations shared

ASSUME ClientAssumption ==
  /\ ClientUser \in [Client -> User]
  /\ ClientDevice \in [Client -> Device]
  /\ DeviceUser \in [Device -> User]
  /\ \A c \in Client : DeviceUser[ClientDevice[c]] = ClientUser[c]

ASSUME TrafficAssumption == MaxTraffic \in Nat

VARIABLES
  link,      \* connection: "offline", "loaded" (memberships read), "registered"
  view,      \* Client.groupMemberships
  missed,    \* history: connections a refresh passed by between load and register
  traffic    \* messages posted so far (bound)

hvars == <<link, view, missed, traffic>>
vars  == <<gvars, hvars>>

View == [Group -> Row \cup {NoRow}]

\* What the hub reads from redis: membership events, and the traffic of
\* group:<id>:messages (by a user) and group:<id>:location (by a device).
Message == {MembershipEvent(u) : u \in User}
           \cup [kind : {"message"}, g : Group, u : User]
           \cup [kind : {"location"}, g : Group, d : Device]

RoutingTypeOK ==
  /\ TableTypeOK
  /\ bus \in Seq(Message)
  /\ link \in [Client -> {"offline", "loaded", "registered"}]
  /\ view \in [Client -> View]
  /\ missed \subseteq Client
  /\ traffic \in 0..MaxTraffic

NoGroups == [g \in Group |-> NoRow]

RoutingInit ==
  /\ Init
  /\ link = [c \in Client |-> "offline"]
  /\ view = [c \in Client |-> NoGroups]
  /\ missed = {}
  /\ traffic = 0

Registered == {c \in Client : link[c] = "registered"}

-----------------------------------------------------------------------------
(* Memberships.                                                            *)

\* SELECT ... FROM group_members WHERE user_id = u
ListMembershipsByUserID(u) == [g \in Group |-> members[g][u]]

\* ServeHTTP reads the memberships ...
HandlerLoad(c) ==
  /\ link[c] = "offline"
  /\ link' = [link EXCEPT ![c] = "loaded"]
  /\ view' = [view EXCEPT ![c] = ListMembershipsByUserID(ClientUser[c])]
  /\ missed' = missed \ {c}
  /\ UNCHANGED <<gvars, traffic>>

\* ... and some time later, the upgrade done, the hub adds the client.
addClient(c) ==
  /\ link[c] = "loaded"
  /\ link' = [link EXCEPT ![c] = "registered"]
  /\ UNCHANGED <<gvars, view, missed, traffic>>

removeClient(c) ==
  /\ link[c] = "registered"
  /\ link' = [link EXCEPT ![c] = "offline"]
  /\ view' = [view EXCEPT ![c] = NoGroups]
  /\ UNCHANGED <<gvars, missed, traffic>>

\* Mutant: only one connection of the user is refreshed.
M_Refreshed_One(u) ==
  LET S == {c \in Registered : ClientUser[c] = u}
  IN  IF S = {} THEN {} ELSE {CHOOSE c \in S : TRUE}

\* The connections h.clients holds for the user.
Refreshed(u) == {c \in Registered : ClientUser[c] = u}

\* Mutant: only groups are added; one that is gone stays.
M_NewMap_AddOnly(c) ==
  [g \in Group |-> IF members[g][ClientUser[c]] = NoRow THEN view[c][g]
                   ELSE members[g][ClientUser[c]]]

NewMap(c) == ListMembershipsByUserID(ClientUser[c])

\* routeMessage on user:<id>:membership, refreshClientMemberships. A failed
\* query leaves the old copies in place. Without a connection of the user,
\* nothing is read.
refreshClientMemberships ==
  /\ bus # <<>>
  /\ Head(bus).kind = "membership"
  /\ bus' = Tail(bus)
  /\ LET u == Head(bus).u
         S == Refreshed(u)
     IN  \/ /\ view' = [c \in Client |-> IF c \in S THEN NewMap(c) ELSE view[c]]
            /\ missed' = (missed \ S) \cup {c \in Client : link[c] = "loaded" /\ ClientUser[c] = u}
            /\ unannounced' = unannounced \ {u}
         \/ /\ S # {}
            /\ unannounced' = unannounced \cup {u}
            /\ UNCHANGED <<view, missed>>
  /\ UNCHANGED <<groups, members, gens, req, granted, contested, link, traffic>>

-----------------------------------------------------------------------------
(* Traffic.                                                                *)

Publish(m) ==
  /\ traffic < MaxTraffic
  /\ traffic' = traffic + 1
  /\ bus' = Append(bus, m)
  /\ UNCHANGED <<groups, members, gens, req, granted, contested, unannounced, link, view, missed>>

\* MessageService.Send to a group: checked against the table.
SendMessage(u, g) ==
  /\ CheckCommunication(Policy, "send_messages", members[g][u], u \in Admin)
  /\ Publish([kind |-> "message", g |-> g, u |-> u])

\* handleLocationUpdate: checked against the connection's copy.
handleLocationUpdate(c, g) ==
  /\ link[c] = "registered"
  /\ CheckCommunication(Policy, "share_location", view[c][g], ClientUser[c] \in Admin)
  /\ Publish([kind |-> "location", g |-> g, d |-> ClientDevice[c]])

\* Mutant: the permission is not looked at, only the membership.
M_Recipients_MembersOnly(m) ==
  {c \in Registered : view[c][m.g] # NoRow
                      /\ IF m.kind = "location" THEN ClientDevice[c] # m.d ELSE ClientUser[c] # m.u}

\* broadcastToGroup excludes the sending user, broadcastToGroupExcludeDevice
\* only the sending device.
Recipients(m) ==
  {c \in Registered :
     IF m.kind = "location"
       THEN /\ ClientDevice[c] # m.d
            /\ CheckCommunication(Policy, "view_locations", view[c][m.g], ClientUser[c] \in Admin)
       ELSE /\ ClientUser[c] # m.u
            /\ CheckCommunication(Policy, "read_messages", view[c][m.g], ClientUser[c] \in Admin)}

\* routeMessage on a group's traffic.
routeMessage ==
  /\ bus # <<>>
  /\ Head(bus).kind # "membership"
  /\ bus' = Tail(bus)
  /\ UNCHANGED <<groups, members, gens, req, granted, contested, unannounced, hvars>>

-----------------------------------------------------------------------------

HubStep ==
  \/ refreshClientMemberships \/ routeMessage
  \/ \E c \in Client : HandlerLoad(c) \/ addClient(c) \/ removeClient(c)

TrafficStep ==
  \E g \in Group : \/ \E u \in User : SendMessage(u, g)
                   \/ \E c \in Client : handleLocationUpdate(c, g)

RoutingNext ==
  \/ GroupNext /\ UNCHANGED hvars
  \/ HubStep
  \/ TrafficStep

RoutingSpec == RoutingInit /\ [][RoutingNext]_vars

\* A request that has begun runs to its end and the event loop routes what it
\* is sent; users, requests and connections owe nothing.
RoutingFairness ==
  /\ WF_vars(refreshClientMemberships)
  /\ WF_vars(routeMessage)
  /\ \A r \in Request : WF_vars(publishMembershipChanged(r) /\ UNCHANGED hvars)

FairRoutingSpec == RoutingSpec /\ RoutingFairness

-----------------------------------------------------------------------------
(* Properties.                                                             *)

\* A change of u's memberships is still on its way to the hub.
Pending(u) ==
  \/ \E r \in Request : req[r].step = "publish" /\ req[r].u = u
  \/ \E i \in DOMAIN bus : bus[i] = MembershipEvent(u)

Current(c) == view[c] = ListMembershipsByUserID(ClientUser[c])

\* A registered connection's copy differs from the table only while an event
\* for its user is on its way, or after a change that no event announced or no
\* refresh could read, or if a refresh passed while it was being set up.
StaleViewsAreExcused ==
  \A c \in Registered :
    Current(c) \/ Pending(ClientUser[c]) \/ ClientUser[c] \in unannounced \/ c \in missed

\* Whom the hub would send the next group message to: users whom the table
\* allows to have it, except under the excuses above.
DeliveriesAreJustified ==
  bus # <<>> /\ Head(bus).kind # "membership" =>
    \A c \in Recipients(Head(bus)) :
      \/ CheckCommunication(Policy,
           IF Head(bus).kind = "location" THEN "view_locations" ELSE "read_messages",
           members[Head(bus).g][ClientUser[c]], ClientUser[c] \in Admin)
      \/ Pending(ClientUser[c]) \/ ClientUser[c] \in unannounced \/ c \in missed

\* A removed permission takes effect: a copy that is out of date is brought up
\* to date, or the connection ends, or one of the excuses holds.
ViewsCatchUp ==
  \A c \in Client :
    (link[c] = "registered" /\ ~Current(c))
      ~> (link[c] # "registered" \/ Current(c)
            \/ ClientUser[c] \in unannounced \/ c \in missed)

\* "notifies the WebSocket hub that a user's group memberships have changed so
\* connected clients can refresh their state" (group_service.go): when every
\* change was announced and every event routed, every copy is current.
QuietViewsAreCurrent ==
  \A c \in Registered :
    ~Pending(ClientUser[c]) /\ ClientUser[c] \notin unannounced => Current(c)

=============================================================================

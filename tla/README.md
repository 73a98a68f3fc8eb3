# Vincenty: a TLA+ verification project

Vincenty is a situational-awareness server (Go, PostgreSQL, redis, S3) with a
web, an iOS and a command-line client: users share locations, messages and
drawings in groups. This directory models the parts of the server where several
actors touch the same state, and the web client, whose pages send requests that
are answered in any order; checks them with TLC on small instances, and proves
the central safety results with TLAPS for every instance.

Paths below are relative to `src/`; `ws/`, `service/`, `repository/`,
`handler/`, `model/`, `middleware/`, `pubsub/` stand for the directories of
`src/services/api/internal/`, `lib/`, `app/`, `components/` for those of
`src/clients/web/src/`.

Contents: 1 the system, 2 the modules and the code, 3 the runs, 4 the proofs,
5 what was found, 6 what is not modelled, 7 the plan.


## 1. The system: inventory

Every request of the API runs in a goroutine of its own and talks to the
database statement by statement; there are hardly any transactions and no row
locks. So the unit of interleaving is the SQL statement, and any request may
stop between two of them (an error, a cancelled context, the end of the
process). What changes is announced over redis pub/sub to the hubs of all API
processes, each of which serves the WebSocket connections made to it.

The web client is single-threaded: a step is a turn of a page's event loop (an
event handler, an effect, the rest of an async function after an `await`).
Nothing cancels a request, so that its answer may come after the user has gone
on, in another order than the requests were sent, or not at all. Tabs of a
browser share `localStorage`, and know nothing else of each other.

| Component | State | Operations | Talks to | Hard behaviour | Correct when |
|---|---|---|---|---|---|
| WebSocket connections (`ws/`, `pubsub/redis.go`, `cmd/server/main.go`) | `Hub.clients`, a send channel per connection, pumps | accept, register, route, unregister, pumps, shutdown | redis, sockets, main | five kinds of goroutine, unbuffered and bounded channels, `close` while others send, shutdown | the loop never panics; the map is exact; dead connections and closed channels get cleaned up |
| Hub routing (`ws/hub.go`, `ws/handler.go`) | a copy of the user's membership rows per connection | load, refresh, broadcast | group tables, policy cache, redis | copy read before registration; refresh can fail; events get lost | a copy is stale only while an event is under way; nobody unentitled gets traffic |
| Groups (`service/group_service.go`, `repository/group_repo.go`) | `groups`, `group_members` | create, delete, add, update, remove member, update marker | policy, redis | check and write are two statements; whole-row updates; publish after commit | only system admins make group admins; removed means removed |
| Permission policy (`model/permission_policy.go`) | none (pure) | check, validate, default | callers above | none | - |
| Policy cache (`service/permission_policy_service.go`) | one row, one cached copy per process | get, update | `server_settings` | load races update; errors cached as default; several processes | a quiet server checks with the stored policy |
| Accounts and sessions (`service/auth_service.go`, `service/user_service.go`) | `users`, `refresh_tokens` | login, refresh, logout, bootstrap, create, edit, password, profile, delete | MFA, redis challenge | rotation in three statements, revocation apart from the write, count-then-write, whole-row updates | spent tokens stay spent; sessions end with the password; there is an admin |
| MFA (`service/mfa_service.go`, `repository/mfa_repo.go`) | TOTP and WebAuthn methods, recovery codes, `users.mfa_enabled`, redis challenges | enrol, verify, disable, reset, recover | users, redis | challenge read then deleted; count then disable; multi-step reset | one challenge, one session; enabled iff a method is left |
| Map and terrain configuration (`service/map_config_service.go`, `service/terrain_config_service.go`) | rows with default, enabled, built-in flags | bootstrap, create, update, delete | settings of every client | clear and set are two statements; bootstrap can stop half-way | exactly one usable default |
| Devices (`handler/device_handler.go`, `repository/device_repo.go`) | `devices` | create, resolve, set primary, delete | WebSocket handler | count then insert | one primary device |
| Locations (`service/location_service.go`) | `location_history`, the throttle's `sync.Map` | update, snapshot, history | hub, redis | throttle load/store; snapshot against live traffic | last position shown is the last recorded |
| Messages (`service/message_service.go`) | `messages`, `attachments`, S3 objects | send, list, delete | hub, S3, drawings | each step fails alone | rows and objects agree |
| Drawings (`service/drawing_service.go`) | `drawings`, `drawing_shares` | create, update, share, unshare, delete | messages, hub | a share is a message plus a row | who sees a drawing is who it is shared with |
| API tokens, server settings, audit log, CoT ingestion | one table each | single statements | - | asynchronous writes | - |
| Authentication, rate limit, CORS, logging middleware | visitors map under a mutex | per request | - | none | - |
| Crypto, parsers (EXIF, GPX, CoT), configuration, migrations, storage | none | pure or at start only | libraries | none | - |
| Web: session (`lib/api.ts`, `lib/auth-context.tsx`) | a token pair in `localStorage`, a user and a refresh promise per tab | request, refresh, sign-in, sign-out | auth service, other tabs | many calls meet one 401; tabs share the pair, not the promise; answers get lost | a page never presents a refresh token twice; no call waits for ever |
| Web: live socket (`lib/websocket-context.tsx`, `components/devices`, `lib/hooks/use-devices.ts`) | known socket, timer, device id, dialog | connect, reconnect, resolve, enrol, close | hub, device handler, session | two effects, a timer and a close event all connect; close events come late | one socket, of the user who is signed in; a way back when it is lost |
| Web: messages (`lib/hooks/use-messages.ts`, `app/(app)/messages`) | open conversation, a list per kind | select, page back, send, receive | message service, socket | late answers, optimistic rows, pages fetched while messages arrive | the thread's messages, each once, none lost |
| Web: conversations (`lib/hooks/use-conversations.ts`, `components/chat`) | list of partners | load, add | messages, users | reads the rendered list, writes the current one | everyone who wrote, once |
| Web: settings lists (`app/(app)/settings`, `components/settings`, `components/audit`) | list, page or filter, dialogs, forms | fetch, turn, create, edit, delete | the server's tables, other admins | overtaking fetches, stale forms, orphaned answers | shows what was chosen and changed; saves what was edited |
| Web: MFA enrolment (`components/mfa`, `lib/hooks/use-mfa.ts`) | steps of three dialogs, the codes | begin, verify, register, regenerate, delete | MFA service | codes are shown once; dialogs outlive their closing | codes in force are with the user |
| Web: settings forms (permissions, keys, security, profile, marker) | form, last answer | edit, save, discard, reload | the record, other admins | whole-record saves, typing while saving | touched fields change, others do not; nothing typed is lost |
| Web: drawing editor (`app/(app)/map/page.tsx`, `components/map/draw-panel.tsx`) | shapes, id of the saved drawing, popover of shares | save, close, share, unshare, delete | drawing service | id stored when the answer comes | a drawing keeps its work |
| Web: replay and filters (`app/(app)/map/page.tsx`, `lib/hooks/use-location-history.ts`) | scope, range, three histories, filters | start, stop, filter | location handler | what is shown depends on data still to come | shows its range; can be left |
| Web: map tools, live locations, sign-in challenge, rendering | - | - | map library, browser | - | - |
| iOS client (`clients/ios/Vincenty/Core`) | keychain, SwiftData store, a socket | refresh, reconnect, cache sync | API | single-flight refresh in an actor | as for the web |
| CLI (`clients/cli`) | none | replay a track | API | none | - |

`PROJECT.json` has the same list with sources and status, and the hazards of
the code with the line where each bites and the properties that watch it.
Hazards of server code without a model, beyond those listed there: `main` exits
without waiting for hijacked connections (`cmd/server/main.go:501`); a restart
fails when the configured admin's username is taken
(`service/auth_service.go:168`); the bootstrap of the map sources is skipped
once a row is there (`service/map_config_service.go:33`); `AdminResetMFA`, the
recovery codes and the first enrolment are several statements
(`service/mfa_service.go:579`, `:724`, `repository/mfa_repo.go:299`); the
location throttle loads and stores in two steps
(`service/location_service.go:81`); a message is committed before its
attachments, and its objects are removed after its rows
(`service/message_service.go:214`, `:351`); the first device becomes primary by
a count and an insert (`repository/device_repo.go:36`); an audit entry is
written by a goroutine nobody waits for (`middleware/audit.go:171`).


## 2. The modules and the code

| Module | Models | Extends |
|---|---|---|
| `Connections` | goroutines and channels of one API process | - |
| `PermissionPolicy` | the action matrix as operators | - |
| `GroupService` | membership requests against the table, and their events | `PermissionPolicy` |
| `HubRouting` | the hub's copies and group traffic, composed with `GroupService` | `GroupService` |
| `PolicyCache` | the policy row and the servers' copies | - |
| `Accounts` | users, refresh tokens and the requests on them | - |
| `DefaultConfig` | the default tile (and terrain) source | - |
| `Credentials` | abstract: a token pair is taken once, and dropped | - |
| `WebSession` | `api.ts` and the AuthProvider of every tab; implements `Credentials` | - |
| `LiveSocket` | the WebSocketProvider of a page | - |
| `MessageThread` | the open conversation | - |
| `ConversationList` | the list beside it | - |
| `ListPage` | eleven lists of the settings, as one model with a record of differences | - |
| `MfaSetup` | the methods and the three dialogs of enrolment | - |
| `SettingsForms` | five forms over one record | - |
| `DrawingEditor` | the draw panel and the list of drawings | - |
| `ReplayMap` | replay and filters | - |
| `WebPages` | the routes: one page is mounted at a time | the seven above |
| `MC...` | constants of an instance for TLC | the module named |
| `...Proofs` | theorems and their proofs | the module named, `TLAPS` |

How actions correspond to code:

- **Connections.** A variable per goroutine (`main`, `hub`, `pc`, `writer`) and
  per channel. One action per case of the hub's `select` (`HubRegister`,
  `HubUnregister`, `HubRoute`, `HubShutdown`, `HubFeedClosed`), each with the
  whole function it calls. A rendezvous on an unbuffered channel is one step of
  both sides. A send that would hit a closed channel sets `panics` (a handler:
  `net/http` recovers it) or `hub = "panicked"` (the loop: the process dies).
  Messages are counted, not described. A failed write closes the socket, as the
  library does; a failed ping only ends the pump.
- **GroupService.** A request is a record in `req` that walks from its checks
  through its write to its publish; each SQL statement is one action. A member's
  row carries a generation for its uuid, so `UPDATE ... WHERE id = $1` misses a
  row that was deleted and made anew. Requests are bounded: `Request` is the set
  of requests ever made. `granted`, `contested` and `unannounced` are history
  variables: `granted` is what system admins decided last about the role of each
  row, `contested` the decisions that met an update in flight with the other
  role. `AddMember` and `RemoveMember` read the group and then the caller's row
  in one step: rows go with their group, so nothing can happen in between that
  the second SELECT does not see.
- **HubRouting.** Adds `link` and `view` (the copy) per connection. `HandlerLoad`
  and `addClient` are the two ends of the window in `ServeHTTP`.
  `refreshClientMemberships` is one step, its failing query the second disjunct.
  The bus is one FIFO queue: redis keeps the order of a subscriber's messages.
  The permission check of a group action is the operator of `PermissionPolicy`.
- **PolicyCache.** A call is `read`ing or about to `store`; the mutex covers
  only the store, as in the code. `ReadRow` may fail and then carries the
  default, `SetRowUnanswered` is a commit whose answer is lost.
- **Accounts.** `req[r].todo` is the list of statements a request still has to
  run, in the code's order, so that each handler is its plan plus one action
  per kind of statement (`Rotate`, `Lookup`, `generateTokens`, `Count`,
  `DeleteAllForUser`, `Write`, `Remove`). `Write` puts back the whole row the
  request read (`base`) with its changes (`new`), because the UPDATE does.
  `Abort` ends a request between any two statements; `Crash` ends all.
  Of a row only what decides access is kept: password, admin, active, MFA.
- **DefaultConfig.** The same scheme for `ClearDefault` followed by an INSERT
  or UPDATE. `InsertBuiltin` is one INSERT of the bootstrap; `Crash` may fall
  between two.

- **WebSession.** A call is a record in `req`: sent, waiting for the tab's
  refresh, answered; `try` is `request`'s `retry`. `refresh[t]` is the promise of
  tab `t`. `Receive` is the code after the `await` of `fetch`, up to the next
  one; `RefreshOk` and `RefreshFailed` are the rest of `tryRefresh` with every
  waiting call's continuation, which runs in the same turn. A token of the model
  is a pair (access and refresh token are issued and stored together); an access
  token may have expired whenever it is used. The server's half (`ServeRefresh`,
  `ServeLogin`, `Serve`) may work and lose its answer, or fail.
- **LiveSocket.** `connect`, `ensureDevice` and the parts of the effects are
  operators, the events are actions. `effectDue` says that a dependency of the
  effect on `deviceId` has changed; `TouchEffect` stands in every action. Slots
  (`Socket`, `Timer`, `Run`) bound how many there are at a time. `TokenChanges`
  is what the session, or another tab, does to the access token meanwhile.
- **The pages.** Requests are slots (`fetch`, `query`, `save`, `ask`, `put`,
  `call`, `find`) that go from sent to answered to handled; an action of the
  user, one of the server and one of the page's continuation follow each other
  in any order. Buttons that the code disables are guards. `ListPage` and
  `SettingsForms` have a record per page of the client that says how it differs
  (which dialog copies its row, where `isLoading` lives, what Enter does, what
  is loaded again), chosen at the start and fixed; the definitions that carry
  the names of the components are these records. Where rows or cards disable only
  themselves (the methods of `MfaSetup`, the cards of the profile), a request
  knows whose it is, and several are under way.

History variables (`closeFrame`, `panics`, `granted`, `contested`, `unannounced`,
`missed`, `issued`, `excused`, `lastLoss`, `lost`, `raced`, and in the web client's modules
`held`, `spent`, `writer`, `gaveUp`, `overlap`, `late`, `got`, `early`, `missed`,
`unrendered`, `answered`, `met...`, `mishap`, `wrong`, `crossed`, `stale`,
`kept`, `unfetched`) never appear in a guard, except that `issued` also picks a
token that was never used, which stands for a fresh random value, and that a
bound (`MaxMet...`) limits how many kinds of trouble one run meets.


## 3. The runs

A run per question; `PROJECT.json` lists them with their properties, and a
mutant for each property: a change of the code that makes the property fail
under the run's own configuration. A property of `WebPages` has several parts, one per
promise; the modules of the pages hold a mutant operator for each part (marked
"Mutant:"), of which `PROJECT.json` lists one per property.

| Run | Question | Instance | States |
|---|---|---|---|
| `connections` | Does the loop survive every order of events, is its map exact, is everything cleaned up? | 2 connections, send buffer 2, feed buffer 1 | 43 thousand |
| `group_safety` | Who decides the role of a member, and can a removed member come back? | 1 system admin, 2 users, 1 group, 2 requests with all bodies of `MCChange` | 166 thousand |
| `routing_safety` | When is a copy stale, and who gets traffic he may not have? | 2 connections of a user on 2 devices, 2 requests, 1 message or location | 991 thousand |
| `routing_live` | Does a stale copy catch up? | the same with 1 request | 47 thousand |
| `acc_sessions` | What survives a change of password; can a spent token come back? | 1 user, 2 tokens, 2 passwords, 2 requests | 591 thousand |
| `acc_admins` | How can the last active admin go? | 3 users, 2 of them bootstrap ids, 2 requests with 4 edits (either flag, set or cleared), profile edits, restarts | 657 thousand |
| `acc_rotation` (violation) | Is a refresh token used once? | 3 tokens, 2 requests | - |
| `cache_safety` | When does a server check with an old policy? | 2 servers, 2 calls, 3 policies, both faults | 630 |
| `config_safety` | When are there two defaults, or none? | 2 built-in rows, 1 custom, 2 requests | 356 thousand |
| `web_session` | Is a refresh token presented twice by a page; does a call wait for ever; do the pairs implement `Credentials`? | 2 tabs, 2 calls, 2 token pairs | 372 thousand |
| `web_socket` | What leaves a signed-in page without a socket; when has it two? | 1 device, 3 sockets, 2 timers, 2 runs of `ensureDevice`, 5 of these at one time | 2.1 million |
| `web_pages` | Do the pages keep what they promise, whatever the order of answers and deliveries? | 2 requests at a time per page, which may be exchanged; see below | 1.34 million |

*Form of the safety properties.* This code has no transactions, so that plain
statements ("the copy is current") are false somewhere. Where a violation is a
disagreement with the documentation it has a run of its own; else the property
names every way in which the plain statement fails (`StaleViewsAreExcused`,
`StaleCacheIsExcused`, `RolesAreDecidedByAdmins`, `LiveSessionsAreCurrent`, `AdminLossIsExcused`,
`TwoDefaultsNeedARace`, `DefaultLossIsExcused`, `IdleIsExcused`,
`TwoSocketsNeedAnOverlap`, and the parts of the nine properties of `WebPages`), and
TLC checks that there is no other. Each excuse is needed: it was found by dropping it and reading the trace.

*Bounds.* All races in this code are between two requests, or a request and the
loop or a restart: a third request would repeat one of the two. Two requests,
two connections of one user and two servers therefore show each of them. A send
buffer of 2 reaches empty, part-full and full. `acc_sessions` needs two tokens
for a parent and its successor, `acc_rotation` three for a parent with two.
`acc_sessions` has a single user: deletion removes his tokens by cascade, which
other users would not change; `acc_admins` has no tokens and one
password, because they do not enter the count of admins (a password change is
then a profile edit), and only `u1` has MFA (`MFAOfOne`): a challenge lets a
login wait while the row changes, which one user shows. `MaxTraffic` bounds messages, `Request` of
`GroupService` the requests ever made, `BootUser` the restarts that insert an
admin. No other counter grows. `acc_admins` exchanges its two requests, and its two
bootstrap ids (`RoleSymmetry`): the code takes whichever a restart generated.

*Bounds of the web client.* A page's races are between a request and what the
user, another request or another actor does before its answer: two requests at a
time show each. Nothing tells two slots for requests apart in `Fetch`, `Save`,
`FormCall` and `Call`, so `web_pages` takes these as a symmetry (`Exchanges`); the
two groups and the two second factors have no order either and are exchanged too.
`MessageThread`: two groups, two messages, fetches of one message (`Page`), so
that paging, a full page and the end of a list all occur; the hook of direct
conversations is a copy of the code of groups. `ListPage`: two rows on pages of
one, two changes; `MfaSetup`: two methods,
two generations of codes; `SettingsForms`: two edits (one of the user's that
another's, or a second save, meets), while the million states with three have
been visited without an error; `DrawingEditor`: two drawings, two works;
`ReplayMap`: two replays. `MaxMet`, `MaxMetMfa`, `MaxMetForm`, `MaxMetDraw` bound how many of the troubles that excuse a mishap one run meets:
two for the lists, one for the others, since a run that has met the excuse of a
property can no longer violate it. In `LiveSocket` three sockets let two be live
while a third closes, and `MaxPending` leaves room for two timers or runs beside
them; with two devices and two sockets TLC has visited six
million states without an error, more than a run of the project should take. In
`WebSession` two pairs are the first of a session and its successor (what a
refresh needs); the proofs cover the rest.

*Deadlock* is not checked where the system may really stop: after the process
has ended (`connections`), when every request of the instance has been served
(`group_safety`), when the bounds of a page are reached (`web_pages`), when all
token pairs are issued and no call is left (`web_session`), when a page without
a user has nothing under way (`web_socket`), when all tokens have been issued and the remaining operations
need one, or the ids are used up and the server is down (`acc_sessions`,
`acc_admins`).

*Fairness.* Safety runs assume none. `connections` assumes that a goroutine
that stays ready runs and that a `select` case which stays ready is taken: the
Go scheduler and the random choice of `select` give this. A write in a pump
ends one way or the other (it has a 10 s timeout). `routing_live` assumes that
the hub routes what is on the bus and that a request that has written goes on to
publish, or to log that it cannot. Nothing is assumed of peers, users, redis,
signals or new requests. `web_session` assumes that a browser's event loop runs
what is ready, and that every call ends, with an answer or an error (`Serve`,
`ServeLogin`, `ServeRefresh` include the loss of it: browsers and proxies time
out); nothing is assumed of the user or of new calls. None of these runs assumes that pings fail on dead sockets.


## 4. The proofs

`tlapm` checks every step; nothing is assumed but the named ASSUMEs of the
constants (buffer sizes are positive; `Admin \subseteq User`; `Policy` is valid;
the values that stand for "none" are not rows, tokens, devices or sockets; the
bounds of the pages and of the traffic are numbers; the users one can write to are
finitely many; request bodies have
optional fields), which TLC evaluates in the runs.

| Theorem | Statement | Argument |
|---|---|---|
| `ConnectionsProofs!HubSafe` | `HubNeverPanics` | Every channel in the map is open while the loop runs: a channel is closed either by `removeClient`, which takes it out of the map in the same step, or by the drain, after which the loop is over |
| `ConnectionsProofs!MapCorrect` | `RegisteredExactlyWhileOpen` | The map equals the set of handlers between the two rendezvous with the loop |
| `ConnectionsProofs!HandlersSafe` | `HandlerPanicsOnlyInShutdown` | Until the drain a closed channel means that its handler is done with it |
| `HubRoutingProofs!RolesDecided` | `RolesAreDecidedByAdmins` | The rows that requests carry between their read and their write must be covered, too: such a copy is written back whole; generations keep decisions on earlier rows of a user apart (`InBounds`, `GensBound`) |
| `HubRoutingProofs!NoResurrection` | `OnlyAddMemberAdds` | An UPDATE matches by generation, and the table holds nothing under a removed one |
| `HubRoutingProofs!StaleOnlyIfExcused` | `StaleViewsAreExcused` | It has to hold of the copies of connections that are loaded but not yet in the map, too, where a refresh in between is recorded in `missed` (`OpenViewsAreExcused`); a write that no event will follow is recorded at once |
| `HubRoutingProofs!DeliveriesJustified` | `DeliveriesAreJustified` | Recipients are computed from the copies by the operator the table is checked with, so it follows from the former |
| `PolicyCacheProofs!StaleOnlyIfExcused` | `StaleCacheIsExcused` | Of a server that is not excused, each call about to store carries the stored policy; if none is, the copy has it already |
| `AccountsProofs!SpentTokensAreRefused` | `ReplayIsRefused` | A request past its DeleteByHash holds a token that is no longer in the table, and no token is issued twice; so the parent of whatever it inserts is gone for good |
| `AccountsProofs!ChangesEndSessions` | `LiveSessionsAreCurrent` | A token that is neither late nor excused is out of date only between the write and the revocation of a password change; an edit that takes a right away finds no such token when it writes, as it has revoked and what is issued since is late; a session in the making for a settled user knows his password (`SessionsInv`) |
| `AccountsProofs!AdminsAreGuarded` | `AdminLossIsExcused` | A request that demotes or deletes one it read as an admin has a count ahead of it or has counted, and what it has counted stays with it and was two admins or more; if they are all there at its write, another is left; else the write takes the flag from the row it read (`AdminsInv`) |
| `DefaultConfigProofs!SecondDefaultNeedsARace` | `TwoDefaultsNeedARace` | A request that has cleared the old default, and was not overtaken by another new one, finds no default but its own row |
| `DefaultConfigProofs!LossNeedsAnExcuse` | `DefaultLossIsExcused` | A request whose write is none of the four losses writes a usable default, or to a row that is none; the bootstrap inserts the default first (`Booted`) |
| `WebSessionProofs!PresentedOnce` | `SingleFlight` | While a tab has a refresh under way no second one starts, and it ends by storing a pair that was never held, or by clearing the store, or because the store was empty |
| `WebSessionProofs!NoOwnRace` | `RefreshesDoNotRace` | Whoever replaces the pair during a tab's refresh is recorded in `writer`: another tab, or a sign-in |
| `WebSessionProofs!ImplementsCredentials` | `CredentialsSpec` | Refinement: an answer under way carries a pair nobody has held (`AnswersAreNew`), and no two carry the same (`AnswersDiffer`), so `setTokens` is `Take`, `clearTokens` is `Drop`, and all else stutters |
| `LiveSocketProofs!NoSilentDeadEnd` | `IdleIsExcused` | Sockets and timers are made for a known device only, and a page without one asks for it, shows the dialog, or gave up after an error; `connect` makes a socket or gives up (no token, or the constructor throws); each event of a socket either belongs to another or leads to a timer, a new connect or an excuse |
| `LiveSocketProofs!SocketKnown` | `SocketIsKnown` | `wsRef` is set with the socket it names and cleared by every close event; "connecting" has a socket, and every socket a device |
| `LiveSocketProofs!OneSocketUnlessTheyMeet` | `TwoSocketsNeedAnOverlap` | Until two ways to connect have met, no timer is set, and one `ensureDevice` runs at a time, while no device is stored (`OneWay`) |
| `WebPagesProofs!ReplaysAreLeft` | `ReplaysCanBeLeft` | At most one request is under way; it is of the replay that is open, which nothing can close until the answer is there, as its track is empty and its hook loading (`RequestIsOfTheReplay`) |
| `WebPagesProofs!DrawingsKept` | `DrawingsAreKept` | Four parts, each until its excuse (`IdIsOfTheWork`, `CreatedIsKnown`, `SharesAreOfThePopover`, `ListFollows`): what a request carries is tied to the panel that sent it. |
| `WebPagesProofs!FormsKept` | `FormsKeepTheirWork` | A save carries what is shown but for what was typed since; what the user has not typed is the record's, in the form and in the saves under way; the page knows the record or is about to (`FormInv`) |
| `WebPagesProofs!CodesAreTold` | `CodesAndMethodsAreTold` | The codes in force are confirmed, shown or in an answer; what is shown or about to be is in force; a change the list does not have is followed by a fetch, whichever row's request made it (`MfaInv`) |
| `WebPagesProofs!ListsKeptCurrent` | `ListsAreCurrent` | The list is as new as what the page was told of, or a fetch that will be is under way (`OwnChangesAreComing`); all requests are of the key chosen (`RequestsAreOfTheKey`); without deletions pages only grow, so an answer about one has rows (`PagesAreThere`) |
| `WebPagesProofs!ChangesAreMeant` | `ListChangesAreMeant` | A dialog that has sent waits for it (`DialogsWaitForTheirs`); until an excuse an answer with all the user's own changes is what there is, and so is the copy a form took from it, or the form is closed before it can be sent (`CopiesAreFresh`); a token is created only once the last was seen (`SecretsComeOnce`) |
| `WebPagesProofs!ThreadsKeptInOrder` | `ThreadsAreInOrder` | Until a late answer the list has messages of what is open, each that did not race before older ones only; what the visit's one fetch will replace raced, and what it will add is older than what did not (`InOrder`, `OwnFetchIsForTheOpen`); the answer itself is in order whatever is stored (`AnswerFacts`) |
| `WebPagesProofs!ConversationsKept` | `ConversationsAreListed` | A list about to be replaced has only who wrote while it loaded, and whom the page has rendered is in it, or was; who has written is in the answer, on his way, or excused: early, or lost and not brought since (`WritersAreKept`) |
| `...!TypeCorrect`, `HubRoutingProofs!RoutingTypeCorrect`, `WebPagesProofs!PagesTypeCorrect` | `TypeOK`, `RoutingTypeOK`, `PagesTypeOK` | Part of each inductive invariant; for `Accounts` it has the foreign key of `refresh_tokens`; for the pages `PageBounds` adds that codes, drawings and pages of a list are among those there have been, in what is shown and in every request and answer |

None of the safety properties is inductive as it stands: each speaks of tables,
and stays true because of what requests in flight will and will not do. The
`IndInv` of each module (`IInv` in `WebSessionProofs` and `LiveSocketProofs`,
`SessionsInv` and `AdminsInv` over it in `AccountsProofs`, `RoutingInv` in
`HubRoutingProofs`, `DrawInv`, `ReplayInv`, `FormInv`, `MfaInv`, `RowsInv`,
`OrderInv` and `ListInv` for the pages) adds that: for
`WebSession`, that every pair on its way to a page was issued and is not yet
held, each by one call only (`HeldWereIssued`, `AnswersAreNew`, `AnswersDiffer`,
`LoginsBringPairs`), without which a late answer could store a pair again. The
theorems hold for every number of connections, users, groups, requests, tokens,
servers, policies, rows, tabs, calls, sockets, timers, drawings and replays, and
every buffer size. TLC checked the invariants first, `DrawInv` with two requests,
drawings and works and all its excuses at a time, `RowsInv` on 8.3 million states,
`OrderInv` and `ListInv` on 0.7 million.

The pages are proved in their composition: a step of another page leaves a page's
variables as they are, so that `WebPagesProofs` has the steps of each page from
that page's lemmas, and all others as stutters.

Only model-checked: liveness (`DeadConnectionsLeave`, `WritersEnd`,
`ViewsCatchUp`, `WaitersAreReleased`; fairness and ENABLED are out of the
prover's reach).


## 5. What was found

With a run that shows it:

- `acc_rotation`: two overlapping refreshes of one token both succeed, against
  "Single-use refresh tokens" (`FEATURES.md:9`): `DeleteByHash` does not say
  whether it deleted. What does hold, and is proved, is that a token with a
  successor is no longer accepted.

Shown by TLC once the definition named is added to the INVARIANTs of a run (each
stands in its module):

- `HubRouting!QuietViewsAreCurrent` (`routing_safety`): a membership change
  routed between a handler's load of the memberships (`ws/handler.go:106`) and
  its registration refreshes nobody; the connection keeps the old rows until it
  ends or the next change.
- `GroupService!DecisionsStand` (`group_safety`): UpdateMember reads a row, and
  later writes all its flags. A group admin who changes a flag of his own row
  while a system admin revokes his role writes the role back, and an edit that
  overlaps a grant takes it away, against "Only system admins can grant/revoke
  group admin" (`service/group_service.go:326`).
- `Accounts!ProfileEditsKeepAccess` (a PROPERTY, `acc_sessions`): a profile edit
  writes the password, role, activation and MFA columns it read, and so undoes a
  concurrent change of them.
- `PolicyCache!GetPolicyIsCurrent` (`cache_safety`): an update of the policy
  through one server never reaches the others, though `ARCHITECTURE.md:143` has
  several behind a load balancer.
- `LiveSocket!NeverGivesUp` (`web_socket`): the user guide has the client
  reconnect when the connection is lost. After a refresh that failed, or a
  sign-out in another tab, `connect` finds no token and returns
  (`lib/websocket-context.tsx:154`), after a failed resolution `ensureDevice`
  returns null (`:113`), and when `new WebSocket` throws the catch only sets the
  state to "disconnected" (`:218`), which the effect may see or not: the page stays signed in without a socket, and tries no
  more until the user object changes.
- `ReplayMap!UnknownMembersDoNotNarrow` (`web_pages`): the comment at
  `app/(app)/map/page.tsx:250` says that a group whose members could not be
  fetched does not narrow what is shown; `filteredHistory` then lets nobody
  through.

Seen in the models, and named by the excuses of a property:

- A login or refresh in flight during a password change leaves a session that
  outlives it; so does a failed `DeleteAllForUser`, whose error is dropped
  (`LiveSessionsAreCurrent`).
- The last admin can be lost by two demotions at once, or by a deactivation,
  which no guard covers although only active admins count
  (`service/user_service.go:118`, `AdminLossIsExcused`); and by a profile edit
  or password change that read the row before a promotion or an activation and
  writes all of it back (`repository/user_repo.go:154`), or a deletion that read
  it before the promotion and so did not count. A restart then inserts
  the configured admin, unless the username is taken, when the process exits.
- A database error while the policy is loaded is cached as the default policy
  (`service/permission_policy_service.go:116`).
- Two default sources after a race of two edits; none after a failed one, after
  deleting the default or unsetting it (`config_safety`).
- Deleting a group sends no event: connections keep its rows
  (`StaleViewsAreExcused`).

Of the web client, named by the excuses of a property:

- A close event sets the timer and starts the effect on `deviceId`, and each may
  connect: the page then has two sockets, and shows every message twice
  (`TwoSocketsNeedAnOverlap`). A timer or a run of `ensureDevice` left over from
  before a sign-out connects with the tokens of another tab (`SocketIsKnown`).
- Two tabs may refresh with one token: the second one's failure clears the pair
  the first has stored (`RefreshesDoNotRace` says that a tab alone cannot).
- The answer of a fetch for one conversation replaces the thread of the next; a
  message that arrives during a fetch is shown twice or vanishes
  (`ThreadsAreInOrder`). Two messages of a new partner before a render list him
  twice, and one during the first load not at all (`ConversationsAreListed`). Nor
  does one that is lost, with the socket down or the client's buffer full
  (`ws/hub.go:433`): `lib/hooks/use-conversations.ts:53` fetches on mount only.
- A list shows the answer that came last, not the one asked for last, and an
  empty page after its last row was deleted (`ListsAreCurrent`). A cancelled
  dialog's answer closes the one opened since; a form filled when its row was
  mounted undoes later changes; Enter creates a second API token whose secret
  replaces the first (`ListChangesAreMeant`).
- Recovery codes whose dialog was closed while they were being made are shown at
  its next opening, when others may be in force (`CodesAndMethodsAreTold`).
- A list of MFA methods that cannot be fetched is shown empty
  (`lib/hooks/use-mfa.ts:29`, `CodesAndMethodsAreTold`).
- What is typed into the marker's form while it is being saved is dropped; a save
  writes fields its user has not touched over another's change. The profile's
  form and the marker's card share one `isLoading`
  (`app/(app)/settings/account/general/page.tsx:28`): the answer of either enables
  Save while the other's request is under way, and an older profile may then be
  written after a newer one (`FormsKeepTheirWork`).
- Closing the draw panel while a drawing is being created gives its id to the
  next work, whose save then replaces it (`DrawingsAreKept`).
- A replay whose entries all fall outside the filters shows neither the bar nor
  the message, and cannot be closed until the filters change
  (`ReplaysCanBeLeft`).

Seen in the models, outside any property kept:

- The feed's channel is closed by the same cancellation as the hub's context,
  and `select` may take that case first: the loop then returns without closing
  a channel, and no close frame is sent (`ws/hub.go:96`; `FEATURES.md:213` says
  there is one). `WritersEnd` starts from a closed channel and does not see it. `main` does not wait for the drain, of which `FEATURES.md:214`
  gives two seconds.
- The comment at `ws/client.go:156` has the write pump end only when its channel
  is closed, so that a close frame is always sent; it ends on a failed write or
  ping as well (`:178`, `:187`), and after a ping the socket stays open, with a
  connection in the map whose channel nobody empties, until its read fails.
- A crash in the bootstrap of the map sources, after the first row, leaves the
  other missing for good (`service/map_config_service.go:33`).
- A handler that registers or unregisters after the loop has returned blocks for
  ever on an unbuffered channel (`ws/client.go:123`, `ws/handler.go:139`); the
  process is ending then.


## 6. What is not modelled, and why

- **Still to come** (section 7): the server's half of MFA, devices, locations,
  messages with their objects, and drawings; group markers and names; snapshots
  and the direct, drawing and self-location routes of the hub.
- **The web client's rendering**: map layers, markers and tools, message bubbles,
  tables and styles, the dashboard; live locations (`lib/hooks/use-locations.ts`
  overwrites one position per user, `use-location-sharing.ts` is a throttled
  watch of the browser); the second step of a sign-in and the password form (one
  request each); the export of audit entries.
- **The iOS client's session**: the pattern of `WebSession` within one process.
- **Data**: the contents of messages, parsing, formatting, geometry, URLs,
  cryptography. No property is about them.
- **Independent single statements**: API tokens, server settings other than the
  policy, CoT events, audit entries. There is nothing to interleave but a last
  timestamp.
- **Access tokens**: signed and stateless, valid until they expire whatever
  happens to the account; the models quantify over callers instead.
- **The iOS offline queue** (`SyncManager.swift`): it is drained on reconnect,
  but nothing in the app calls `enqueue`.
- **Time**: expiry of a token is its deletion or refusal; timeouts are failures
  that may happen at any moment.
- **redis**: a failing publish and a failing refresh are modelled; a message
  dropped for a slow subscriber of redis is, to the hub, a failed publish.


## 7. The plan

In order of importance. Modules that exist are marked; each later one comes with
its MC module, its runs, and its theorems where the table says so.

| # | Module | Composes | Properties wanted | To prove |
|---|---|---|---|---|
| 1 | `Connections` (done) | - | no panic in the loop, exact map, clean-up | safety: done |
| 2 | `GroupService`, `HubRouting` (done) | 1 with 2 by interface | justified deliveries, catching up | done, but for liveness |
| 3 | `Accounts` (done) | - | sessions, rotation, admins | done |
| 4 | `PolicyCache`, `DefaultConfig` (done) | - | staleness, defaults | done |
| 5 | `Credentials`, `WebSession` (done) | server's half of `Accounts`, abstracted | one presentation per token, no waiting for ever, refinement | done, but for liveness |
| 6 | `LiveSocket` (done) | - | one socket, no silent dead end | done |
| 7 | `WebPages` and its seven pages (done) | - | the nine promises | done |
| 8 | `MFA` | `Accounts` (its `mfa` step, `SetMFAEnabled`), `MfaSetup` | one session per challenge; enabled iff a verified method; codes exist while enabled | enabled implies a method, under named excuses |
| 9 | `Sessions` (abstract) | refined by `Accounts` | a user's set of sessions: opened, replaced, ended at once | step simulation for the requests that are not late |
| 10 | `Messages` | object storage as an external | rows and objects agree up to a named residue; delivered only what is stored | residue invariant |
| 11 | `LocationFeed` | `HubRouting` | snapshot against live updates; throttle | last-write order |
| 12 | `Devices` | `LiveSocket` | at most one primary, but for a race | same |
| 13 | `Drawings` | `Messages` | shares match messages | - |
| 14 | `GroupService` completed | - | Update and UpdateMarker: lost updates of a whole row | - |

The abstract specification that `HubRouting` should implement, a membership
relation that each connection follows with a delay, is stated with 11, when all
routes are in the model.

----------------------------- MODULE WebSession -----------------------------
(***************************************************************************)
(* The session of a browser: lib/api.ts and lib/auth-context.tsx in every  *)
(* tab, the token pair they share in localStorage, and the rows of         *)
(* refresh_tokens the server keeps for it.                                 *)
(*                                                                         *)
(* A token stands for a pair: the access token and the refresh token that  *)
(* are issued and stored together.  A step is a turn of a tab's event      *)
(* loop, the server's work on one call, or a failure of the network.       *)
(* Access tokens expire at any moment, so a call that carries one may      *)
(* always be answered with 401.                                            *)
(***************************************************************************)
EXTENDS Naturals, FiniteSets

CONSTANTS Tab,       \* the open tabs of the browser
          Request,   \* the calls under way (a bound on how many at a time)
          Token,     \* token pairs (a bound on how many are issued)
          None       \* no token, no tab

ASSUME NoneAssumption == None \notin Token \cup Tab

VARIABLES
    store,      \* localStorage: the token pair, or None
    signedIn,   \* tabs whose AuthProvider has a user
    loading,    \* tabs whose AuthProvider still checks the session
    req,        \* calls under way
    refresh,    \* refreshPromise of every tab
    rows,       \* the server's rows of refresh_tokens
    issued,     \* pairs the server has issued
    held,       \* history: pairs localStorage has ever held
    spent,      \* history: pairs a page has sent to /auth/refresh
    writer      \* history: the tab whose refresh stored the pair, or None

vars == <<store, signedIn, loading, req, refresh, rows, issued, held, spent, writer>>
server == <<rows, issued>>
local == <<store, held, writer>>

-----------------------------------------------------------------------------
(* me: the check on mount.  page: refreshUser, or any other call of a page *)
(* (get, post, put, delete, upload).  login: password, second factor and   *)
(* passkey, which all end in setTokens and setUser.                        *)
Kind == {"me", "page", "login", "logout"}

Pair == Token \cup {None}

NoCall == [tab |-> None, kind |-> "page", phase |-> "idle", try |-> 1,
           bearer |-> "no", answer |-> "none", body |-> None]

\* body: the refresh token a logout names, or the pair a login is answered with.
Call == [tab : Tab \cup {None}, kind : Kind, phase : {"idle", "sent", "waiting", "answered"},
         try : {1, 2}, bearer : {"no", "yes"},
         answer : {"none", "ok", "401", "error"}, body : Pair]

NoRefresh == [phase |-> "none", token |-> None, pair |-> None]

Refreshing == [phase : {"none", "sent", "answered"}, token : Pair, pair : Pair]

CallsOf(t) == {r \in Request : req[r].tab = t}
WaitingIn(t) == {r \in CallsOf(t) : req[r].phase = "waiting"}
Fresh == CHOOSE n \in Token : n \notin issued

Init ==
    /\ store = None
    /\ signedIn = {} /\ loading = {}
    /\ req = [r \in Request |-> NoCall]
    /\ refresh = [t \in Tab |-> NoRefresh]
    /\ rows = {} /\ issued = {} /\ held = {}
    /\ spent = [t \in Tab |-> {}]
    /\ writer = None

-----------------------------------------------------------------------------
(* localStorage                                                            *)

setTokens(n, w) ==
    /\ store' = n
    /\ held' = held \cup {n}
    /\ writer' = w

clearTokens ==
    /\ store' = None
    /\ writer' = None
    /\ UNCHANGED held

-----------------------------------------------------------------------------
(* Starting a call                                                         *)

\* request and upload put the access token in the header when there is one.
Sending(t, k, body) ==
    [NoCall EXCEPT !.tab = t, !.kind = k, !.phase = "sent", !.body = body,
                   !.bearer = IF store = None THEN "no" ELSE "yes"]

\* The pages are rendered for a signed-in tab only.
Page(t, r) ==
    /\ req[r].phase = "idle" /\ t \in signedIn
    /\ req' = [req EXCEPT ![r] = Sending(t, "page", None)]
    /\ UNCHANGED <<signedIn, loading, refresh, spent, server, local>>

\* The login page is reachable while the check on mount is still under way;
\* its buttons are disabled while one of its calls is.
login(t, r) ==
    /\ req[r].phase = "idle" /\ t \notin signedIn
    /\ \A q \in CallsOf(t) : req[q].kind # "login"
    /\ req' = [req EXCEPT ![r] = Sending(t, "login", None)]
    /\ UNCHANGED <<signedIn, loading, refresh, spent, server, local>>

logout(t, r) ==
    /\ req[r].phase = "idle" /\ t \in signedIn
    /\ \/ /\ store # None
          /\ req' = [req EXCEPT ![r] = Sending(t, "logout", store)]
          /\ UNCHANGED <<signedIn, local>>
       \/ /\ store = None
          /\ signedIn' = signedIn \ {t}
          /\ clearTokens
          /\ UNCHANGED req
    /\ UNCHANGED <<loading, refresh, spent, server>>

-----------------------------------------------------------------------------
(* Settling a call: what its caller does with the result                   *)

SettleMe(r, ok) ==
    /\ req[r].kind = "me"
    /\ loading' = loading \ {req[r].tab}
    /\ \/ ok /\ signedIn' = signedIn \cup {req[r].tab} /\ UNCHANGED local
       \/ ~ok /\ clearTokens /\ UNCHANGED signedIn

\* refreshUser sets the user; the other calls of a page do not.
SettlePage(r, ok) ==
    /\ req[r].kind = "page"
    /\ \/ ok /\ signedIn' = signedIn \cup {req[r].tab}
       \/ UNCHANGED signedIn
    /\ UNCHANGED <<loading, local>>

SettleLogin(r, ok) ==
    /\ req[r].kind = "login"
    /\ \/ /\ ok
          /\ setTokens(req[r].body, None)
          /\ signedIn' = signedIn \cup {req[r].tab}
       \/ ~ok /\ UNCHANGED <<signedIn, local>>
    /\ UNCHANGED loading

SettleLogout(r) ==
    /\ req[r].kind = "logout"
    /\ clearTokens
    /\ signedIn' = signedIn \ {req[r].tab}
    /\ UNCHANGED loading

Settle(r, ok) ==
    /\ req' = [req EXCEPT ![r] = NoCall]
    /\ SettleMe(r, ok) \/ SettlePage(r, ok) \/ SettleLogin(r, ok) \/ SettleLogout(r)
    /\ UNCHANGED <<refresh, spent, server>>

Wait(r) == req' = [req EXCEPT ![r] = [req[r] EXCEPT !.phase = "waiting", !.answer = "none"]]

\* tryRefresh: one refresh per tab; the calls it is for wait for it.
tryRefresh(r) ==
    LET t == req[r].tab IN
    \/ /\ refresh[t].phase # "none"
       /\ Wait(r)
       /\ UNCHANGED <<signedIn, loading, refresh, spent, server, local>>
    \/ /\ refresh[t].phase = "none" /\ store # None
       /\ Wait(r)
       /\ refresh' = [refresh EXCEPT ![t] =
                        [phase |-> "sent", token |-> store, pair |-> None]]
       /\ spent' = [spent EXCEPT ![t] = spent[t] \cup {store}]
       /\ UNCHANGED <<signedIn, loading, server, local>>
    \/ /\ refresh[t].phase = "none" /\ store = None
       /\ Settle(r, FALSE)

Receive(r) ==
    /\ req[r].phase = "answered"
    /\ IF req[r].answer = "401" /\ req[r].try = 1
       THEN tryRefresh(r)
       ELSE Settle(r, req[r].answer = "ok")

-----------------------------------------------------------------------------
(* The end of a refresh                                                    *)

\* Mutant: refreshPromise is not set to null.
RefreshOkKeepsPromise(t) ==
    /\ refresh[t].phase = "answered" /\ refresh[t].pair # None
    /\ setTokens(refresh[t].pair, t)
    /\ req' = [r \in Request |->
                 IF r \in WaitingIn(t)
                 THEN [req[r] EXCEPT !.phase = "sent", !.try = 2, !.bearer = "yes"]
                 ELSE req[r]]
    /\ UNCHANGED <<signedIn, loading, refresh, spent, server>>

\* Mutant: only one of the waiting calls is sent again.
RefreshOkReleasesOne(t) ==
    /\ refresh[t].phase = "answered" /\ refresh[t].pair # None
    /\ setTokens(refresh[t].pair, t)
    /\ refresh' = [refresh EXCEPT ![t] = NoRefresh]
    /\ \E q \in WaitingIn(t) :
         req' = [req EXCEPT ![q] =
                   [req[q] EXCEPT !.phase = "sent", !.try = 2, !.bearer = "yes"]]
    /\ UNCHANGED <<signedIn, loading, spent, server>>

RefreshOk(t) ==
    /\ refresh[t].phase = "answered" /\ refresh[t].pair # None
    /\ setTokens(refresh[t].pair, t)
    /\ refresh' = [refresh EXCEPT ![t] = NoRefresh]
    /\ req' = [r \in Request |->
                 IF r \in WaitingIn(t)
                 THEN [req[r] EXCEPT !.phase = "sent", !.try = 2, !.bearer = "yes"]
                 ELSE req[r]]
    /\ UNCHANGED <<signedIn, loading, spent, server>>

\* Mutant: a failed refresh leaves the tokens where they are.
RefreshFailedKeepsTokens(t) ==
    /\ refresh[t].phase = "answered" /\ refresh[t].pair = None
    /\ refresh' = [refresh EXCEPT ![t] = NoRefresh]
    /\ req' = [r \in Request |-> IF r \in WaitingIn(t) THEN NoCall ELSE req[r]]
    /\ signedIn' = IF \E r \in WaitingIn(t) : req[r].kind = "logout"
                   THEN signedIn \ {t} ELSE signedIn
    /\ loading' = IF \E r \in WaitingIn(t) : req[r].kind = "me"
                  THEN loading \ {t} ELSE loading
    /\ UNCHANGED <<spent, server, local>>

\* Mutant: the calls that wait for a refresh do not hear that it failed.
RefreshFailedSilently(t) ==
    /\ refresh[t].phase = "answered" /\ refresh[t].pair = None
    /\ clearTokens
    /\ refresh' = [refresh EXCEPT ![t] = NoRefresh]
    /\ UNCHANGED <<signedIn, loading, req, spent, server>>

\* Refused, or fetch rejects.  The waiting calls fail with their 401, each in
\* its own way.
RefreshFailed(t) ==
    /\ refresh[t].phase = "answered" /\ refresh[t].pair = None
    /\ clearTokens
    /\ refresh' = [refresh EXCEPT ![t] = NoRefresh]
    /\ req' = [r \in Request |-> IF r \in WaitingIn(t) THEN NoCall ELSE req[r]]
    /\ signedIn' = IF \E r \in WaitingIn(t) : req[r].kind = "logout"
                   THEN signedIn \ {t} ELSE signedIn
    /\ loading' = IF \E r \in WaitingIn(t) : req[r].kind = "me"
                  THEN loading \ {t} ELSE loading
    /\ UNCHANGED <<spent, server>>

\* The page is loaded anew: what the old page had under way is forgotten.
\* AuthProvider checks the session if localStorage has one.
Load(t) ==
    /\ signedIn' = signedIn \ {t}
    /\ refresh' = [refresh EXCEPT ![t] = NoRefresh]
    /\ spent' = [spent EXCEPT ![t] = {}]
    /\ \/ /\ store = None
          /\ loading' = loading \ {t}
          /\ req' = [r \in Request |-> IF r \in CallsOf(t) THEN NoCall ELSE req[r]]
       \/ /\ store # None
          /\ loading' = loading \cup {t}
          /\ \E m \in Request :
               /\ m \in CallsOf(t) \/ req[m].phase = "idle"
               /\ req' = [r \in Request |->
                           IF r = m THEN Sending(t, "me", None)
                           ELSE IF r \in CallsOf(t) THEN NoCall ELSE req[r]]
    /\ UNCHANGED <<server, local>>

-----------------------------------------------------------------------------
(* The server.  An "error" is an answer of that kind or a fetch that       *)
(* rejects: the server has done its work, or it has not.                   *)

Answered(r, a, n) ==
    req' = [req EXCEPT ![r] = [req[r] EXCEPT !.phase = "answered", !.answer = a,
                                             !.body = n, !.bearer = "no"]]

browser == <<store, signedIn, loading, held, spent, writer>>

\* A login may be refused, need a second factor (no token yet), or succeed.
ServeLogin(r) ==
    /\ req[r].phase = "sent" /\ req[r].kind = "login"
    /\ \/ \E a \in {"401", "error"} : Answered(r, a, None) /\ UNCHANGED server
       \/ /\ issued # Token
          /\ Answered(r, "ok", Fresh) \/ Answered(r, "error", None)
          /\ rows' = rows \cup {Fresh} /\ issued' = issued \cup {Fresh}
    /\ UNCHANGED <<browser, refresh>>

\* The routes behind Authenticate; Logout deletes the row of the body's token.
Serve(r) ==
    /\ req[r].phase = "sent" /\ req[r].kind # "login"
    /\ \/ /\ req[r].bearer = "yes"
          /\ \E a \in {"ok", "error"} : Answered(r, a, None)
          /\ rows' = IF req[r].kind = "logout" THEN rows \ {req[r].body} ELSE rows
       \/ Answered(r, "error", None) /\ UNCHANGED rows
       \/ Answered(r, "401", req[r].body) /\ UNCHANGED rows
    /\ UNCHANGED <<browser, refresh, issued>>

\* Rotation: the row is replaced.  A failure comes before the delete, between
\* the delete and the insert, or when the answer is lost.
ServeRefresh(t) ==
    LET n == refresh[t].token IN
    /\ refresh[t].phase = "sent"
    /\ \E p \in {None} \cup (Token \ issued) :
         /\ refresh' = [refresh EXCEPT ![t] =
                          [refresh[t] EXCEPT !.phase = "answered", !.pair = p]]
         /\ \/ /\ n \in rows /\ issued # Token /\ p \in {Fresh, None}
               /\ rows' = (rows \ {n}) \cup {Fresh} /\ issued' = issued \cup {Fresh}
            \/ /\ p = None
               /\ rows' \in {rows, rows \ {n}} /\ UNCHANGED issued
    /\ UNCHANGED <<browser, req>>

-----------------------------------------------------------------------------
Next ==
    \/ \E t \in Tab, r \in Request : Page(t, r) \/ login(t, r) \/ logout(t, r)
    \/ \E r \in Request : Receive(r) \/ ServeLogin(r) \/ Serve(r)
    \/ \E t \in Tab : Load(t) \/ RefreshOk(t) \/ RefreshFailed(t) \/ ServeRefresh(t)

\* Every fetch settles, and a tab's event loop runs what is due.
Fairness ==
    /\ \A r \in Request : WF_vars(Receive(r)) /\ WF_vars(ServeLogin(r) \/ Serve(r))
    /\ \A t \in Tab : /\ WF_vars(RefreshOk(t) \/ RefreshFailed(t))
                      /\ WF_vars(ServeRefresh(t))

Spec == Init /\ [][Next]_vars /\ Fairness

-----------------------------------------------------------------------------
\* Types; and a call that waits for a refresh has one to wait for.
TypeOK ==
    /\ store \in Pair /\ signedIn \subseteq Tab /\ loading \subseteq Tab
    /\ req \in [Request -> Call] /\ refresh \in [Tab -> Refreshing]
    /\ rows \subseteq Token /\ issued \subseteq Token /\ held \subseteq Token
    /\ spent \in [Tab -> SUBSET Token]
    /\ writer \in Tab \cup {None}
    /\ \A r \in Request : req[r].phase = "waiting" => refresh[req[r].tab].phase # "none"

\* A page never presents a refresh token twice (the second time would end the
\* session): a token it has presented is in localStorage only while that very
\* refresh is under way (tryRefresh, one refreshPromise per page).
SingleFlight ==
    \A t \in Tab : store \in spent[t] =>
        refresh[t].phase # "none" /\ refresh[t].token = store

\* While a tab's refresh is under way, its tokens change under it only by
\* another tab or by a sign-in: a tab's own refreshes never race.  (When they
\* do change, a failing refresh clears a pair it never tried.)
RefreshesDoNotRace ==
    \A t \in Tab :
        refresh[t].phase # "none" /\ store \notin {None, refresh[t].token} =>
            writer # t

\* The pairs in localStorage behave as Credentials says.
Pairs == INSTANCE Credentials WITH NoToken <- None, cur <- store, past <- held
CredentialsSpec == Pairs!Spec

\* No call waits for ever for the refresh another call has started: it is sent
\* again or fails (refreshPromise is settled and taken away).
WaitersAreReleased ==
    \A r \in Request : req[r].phase = "waiting" ~> req[r].phase # "waiting"
=============================================================================

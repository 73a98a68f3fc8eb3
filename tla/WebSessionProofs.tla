-------------------------- MODULE WebSessionProofs --------------------------
(***************************************************************************)
(* The token pairs of a browser, for every number of tabs, calls and       *)
(* pairs: what WebSession does to localStorage is what Credentials allows, *)
(* and a page never presents a refresh token twice.                        *)
(*                                                                         *)
(* The argument: a pair that an answer brings to a page has been issued,   *)
(* has never been held, and is brought by no other answer.  Storing it so  *)
(* takes a pair that is new, and not one some page has presented.          *)
(***************************************************************************)
EXTENDS WebSession, TLAPS

\* The pair an answer brings: a login's body.  (The body of a logout is a
\* parameter of the call.)
Brings(r) == IF req[r].kind = "login" THEN req[r].body ELSE None

CallsHaveTabs == \A r \in Request : req[r].phase # "idle" => req[r].tab \in Tab

LoginsBringPairs ==
    \A r \in Request :
        req[r].kind = "login" /\ req[r].phase = "answered" /\ req[r].answer = "ok"
            => req[r].body # None

HeldWereIssued ==
    /\ held \subseteq issued /\ store \in held \cup {None}
    /\ \A t \in Tab : spent[t] \subseteq held

AnswersAreNew ==
    /\ \A r \in Request : Brings(r) # None => Brings(r) \in issued \ held
    /\ \A t \in Tab : refresh[t].pair # None => refresh[t].pair \in issued \ held

AnswersDiffer ==
    /\ \A r, q \in Request : r # q /\ Brings(r) # None => Brings(r) # Brings(q)
    /\ \A t, u \in Tab : t # u /\ refresh[t].pair # None => refresh[t].pair # refresh[u].pair
    /\ \A r \in Request, t \in Tab : Brings(r) # None => Brings(r) # refresh[t].pair

Typed == TypeOK /\ CallsHaveTabs

IInv ==
    /\ Typed /\ LoginsBringPairs
    /\ HeldWereIssued /\ AnswersAreNew /\ AnswersDiffer
    /\ SingleFlight /\ RefreshesDoNotRace

-----------------------------------------------------------------------------

LEMMA InitIInv == Init => IInv
BY DEF Init, IInv, Typed, TypeOK, CallsHaveTabs, LoginsBringPairs, HeldWereIssued,
       AnswersAreNew, AnswersDiffer, SingleFlight, RefreshesDoNotRace, Brings,
       NoCall, NoRefresh, Call, Kind, Pair, Refreshing

LEMMA FreshIsNew ==
  ASSUME TypeOK, issued # Token
  PROVE  Fresh \in Token \ issued
<1>1. \E n \in Token : n \notin issued
  BY DEF TypeOK
<1> QED
  BY <1>1 DEF Fresh

-----------------------------------------------------------------------------
(* Types                                                                   *)

LEMMA NoCallType == NoCall \in Call /\ NoRefresh \in Refreshing
BY DEF NoCall, NoRefresh, Call, Refreshing, Kind, Pair

\* A call that starts.
LEMMA SendingType ==
  ASSUME NEW t \in Tab, NEW k \in Kind, NEW body \in Pair
  PROVE  /\ Sending(t, k, body) \in Call
         /\ Sending(t, k, body).tab = t /\ Sending(t, k, body).kind = k
         /\ Sending(t, k, body).phase = "sent" /\ Sending(t, k, body).body = body
BY DEF Sending, NoCall, Call, Kind, Pair

LEMMA SettleType ==
  ASSUME Typed, NEW r \in Request, req[r].phase = "answered", NEW ok \in BOOLEAN,
         Settle(r, ok), ok => req[r].answer = "ok", LoginsBringPairs
  PROVE  Typed'
<1>1. req[r] \in Call /\ req[r].tab \in Tab
  BY DEF Typed, TypeOK, CallsHaveTabs
<1>2. /\ store' \in Pair /\ held' \subseteq Token /\ writer' \in Tab \cup {None}
      /\ signedIn' \subseteq Tab /\ loading' \subseteq Tab
  <2>1. CASE SettleMe(r, ok)
    BY <1>1, <2>1 DEF SettleMe, Typed, TypeOK, clearTokens, local, Pair
  <2>2. CASE SettlePage(r, ok)
    BY <1>1, <2>2 DEF SettlePage, Typed, TypeOK, local, Pair
  <2>3. CASE SettleLogin(r, ok)
    <3>1. ok => req[r].body \in Token
      BY <1>1, <2>3 DEF SettleLogin, LoginsBringPairs, Call, Pair
    <3> QED
      BY <1>1, <2>3, <3>1 DEF SettleLogin, Typed, TypeOK, setTokens, local, Pair
  <2>4. CASE SettleLogout(r)
    BY <1>1, <2>4 DEF SettleLogout, Typed, TypeOK, clearTokens, local, Pair
  <2> QED
    BY <2>1, <2>2, <2>3, <2>4 DEF Settle
<1>3. /\ req' = [req EXCEPT ![r] = NoCall]
      /\ UNCHANGED <<refresh, spent, rows, issued>>
  BY DEF Settle, server
<1> QED
  BY <1>1, <1>2, <1>3, NoCallType DEF Typed, TypeOK, CallsHaveTabs, NoCall

LEMMA ReceiveType ==
  ASSUME Typed, LoginsBringPairs, NEW r \in Request, Receive(r)
  PROVE  Typed'
<1>1. req[r].phase = "answered" /\ req[r] \in Call /\ req[r].tab \in Tab
  BY DEF Receive, Typed, TypeOK, CallsHaveTabs
<1>2. CASE ~(req[r].answer = "401" /\ req[r].try = 1)
  BY <1>1, <1>2, SettleType DEF Receive
<1>3. CASE req[r].answer = "401" /\ req[r].try = 1
  <2> DEFINE t == req[r].tab
  <2>1. CASE Settle(r, FALSE)
    BY <1>1, <2>1, SettleType
  <2>2. ASSUME Wait(r), refresh' \in [Tab -> Refreshing],
               \A u \in Tab : refresh'[u].phase = "none" => refresh[u].phase = "none" /\ u # t,
               spent' \in [Tab -> SUBSET Token],
               UNCHANGED <<signedIn, loading, server, local>>
        PROVE  Typed'
    <3>1. [req[r] EXCEPT !.phase = "waiting", !.answer = "none"] \in Call
      BY <1>1 DEF Call
    <3> QED
      BY <1>1, <2>2, <3>1 DEF Typed, TypeOK, CallsHaveTabs, Wait, server, local, Call
  <2>3. CASE /\ refresh[t].phase # "none" /\ Wait(r)
             /\ UNCHANGED <<signedIn, loading, refresh, spent, server, local>>
    BY <1>1, <2>2, <2>3 DEF Typed, TypeOK
  <2>4. CASE /\ refresh[t].phase = "none" /\ store # None /\ Wait(r)
             /\ refresh' = [refresh EXCEPT ![t] =
                              [phase |-> "sent", token |-> store, pair |-> None]]
             /\ spent' = [spent EXCEPT ![t] = spent[t] \cup {store}]
             /\ UNCHANGED <<signedIn, loading, server, local>>
    <3>1. store \in Token /\ [phase |-> "sent", token |-> store, pair |-> None] \in Refreshing
      BY <2>4 DEF Typed, TypeOK, Refreshing, Pair
    <3> QED
      BY <1>1, <2>2, <2>4, <3>1 DEF Typed, TypeOK
  <2> QED
    BY <1>3, <2>1, <2>3, <2>4 DEF Receive, tryRefresh
<1> QED
  BY <1>2, <1>3

LEMMA StartType ==
  ASSUME Typed, NEW t \in Tab, NEW r \in Request, Page(t, r) \/ login(t, r) \/ logout(t, r)
  PROVE  Typed'
<1> USE DEF Typed, TypeOK, CallsHaveTabs
<1>1. CASE Page(t, r)
  <2>1. Sending(t, "page", None) \in Call /\ Sending(t, "page", None).tab = t
        /\ Sending(t, "page", None).phase = "sent"
    BY SendingType DEF Kind, Pair
  <2> QED
    BY <1>1, <2>1 DEF Page, server, local
<1>2. CASE login(t, r)
  <2>1. Sending(t, "login", None) \in Call /\ Sending(t, "login", None).tab = t
        /\ Sending(t, "login", None).phase = "sent"
    BY SendingType DEF Kind, Pair
  <2> QED
    BY <1>2, <2>1 DEF login, server, local
<1>3. CASE logout(t, r)
  <2>1. Sending(t, "logout", store) \in Call /\ Sending(t, "logout", store).tab = t
        /\ Sending(t, "logout", store).phase = "sent"
    BY SendingType DEF Kind
  <2> QED
    BY <1>3, <2>1 DEF logout, server, local, clearTokens, Pair
<1> QED
  BY <1>1, <1>2, <1>3

LEMMA TabType ==
  ASSUME Typed, NEW t \in Tab, Load(t) \/ RefreshOk(t) \/ RefreshFailed(t)
  PROVE  Typed'
<1> USE NoCallType DEF Typed, TypeOK, CallsHaveTabs, CallsOf, WaitingIn
<1>0. refresh[t] \in Refreshing
  OBVIOUS
<1>1. CASE Load(t)
  <2>1. Sending(t, "me", None) \in Call /\ Sending(t, "me", None).tab = t
        /\ Sending(t, "me", None).phase = "sent"
    BY SendingType DEF Kind, Pair
  <2> QED
    BY <1>1, <2>1 DEF Load, server, local, NoCall
<1>2. CASE RefreshOk(t)
  <2> DEFINE again(r) == [req[r] EXCEPT !.phase = "sent", !.try = 2, !.bearer = "yes"]
  <2>1. \A r \in Request : /\ again(r) \in Call /\ again(r).tab = req[r].tab
                          /\ again(r).phase = "sent"
    BY DEF Call
  <2>2. refresh[t].pair \in Token
    BY <1>0, <1>2 DEF RefreshOk, Refreshing, Pair
  <2>3. /\ req' = [r \in Request |-> IF r \in WaitingIn(t) THEN again(r) ELSE req[r]]
        /\ refresh' = [refresh EXCEPT ![t] = NoRefresh]
        /\ UNCHANGED <<signedIn, loading, spent, rows, issued>>
        /\ store' = refresh[t].pair /\ held' = held \cup {refresh[t].pair} /\ writer' = t
    BY <1>2 DEF RefreshOk, setTokens, server
  <2> HIDE DEF again
  <2>4. req' \in [Request -> Call]
    BY <2>1, <2>3
  <2>5. refresh' \in [Tab -> Refreshing]
    BY <2>3
  <2>6. \A r \in Request : req'[r].phase = "waiting" => refresh'[req'[r].tab].phase # "none"
    BY <2>1, <2>3
  <2>7. \A r \in Request : req'[r].phase # "idle" => req'[r].tab \in Tab
    BY <2>1, <2>3
  <2> QED
    BY <2>2, <2>3, <2>4, <2>5, <2>6, <2>7 DEF Pair
<1>3. CASE RefreshFailed(t)
  BY <1>3 DEF RefreshFailed, clearTokens, server, Pair, NoCall
<1> QED
  BY <1>1, <1>2, <1>3

LEMMA ServerType ==
  ASSUME Typed,
         \/ \E r \in Request : ServeLogin(r) \/ Serve(r)
         \/ \E t \in Tab : ServeRefresh(t)
  PROVE  Typed'
<1> USE DEF Typed, TypeOK, CallsHaveTabs
<1>1. ASSUME NEW r \in Request, NEW a \in {"ok", "401", "error"}, NEW n \in Pair,
             req[r].phase = "sent", Answered(r, a, n), UNCHANGED <<browser, refresh>>,
             rows' \subseteq Token, issued' \subseteq Token
      PROVE  Typed'
  <2> DEFINE c == [req[r] EXCEPT !.phase = "answered", !.answer = a, !.body = n, !.bearer = "no"]
  <2>1. req[r] \in Call /\ req[r].tab \in Tab
    BY <1>1
  <2>2. c \in Call /\ c.tab = req[r].tab /\ c.phase = "answered"
    BY <2>1 DEF Call, Pair
  <2>3. req' = [req EXCEPT ![r] = c]
    BY <1>1 DEF Answered
  <2> HIDE DEF c
  <2> QED
    BY <1>1, <2>1, <2>2, <2>3 DEF browser
<1>2. ASSUME NEW r \in Request, ServeLogin(r) PROVE Typed'
  <2>1. CASE UNCHANGED server
    BY <1>1, <1>2, <2>1, FreshIsNew DEF ServeLogin, server, Pair
  <2>2. CASE issued # Token /\ rows' = rows \cup {Fresh} /\ issued' = issued \cup {Fresh}
    BY <1>1, <1>2, <2>2, FreshIsNew DEF ServeLogin, server, Pair
  <2> QED
    BY <1>2, <2>1, <2>2 DEF ServeLogin
<1>3. ASSUME NEW r \in Request, Serve(r) PROVE Typed'
  <2>1. req[r].body \in Pair
    BY DEF Call
  <2> QED
    BY <1>1, <1>3, <2>1 DEF Serve, Pair
<1>4. ASSUME NEW t \in Tab, ServeRefresh(t) PROVE Typed'
  <2>1. issued # Token => Fresh \in Token \ issued
    BY FreshIsNew
  <2>2. PICK p \in {None} \cup (Token \ issued) :
          /\ refresh' = [refresh EXCEPT ![t] =
                           [refresh[t] EXCEPT !.phase = "answered", !.pair = p]]
          /\ rows' \subseteq Token /\ issued' \subseteq Token
    BY <1>4, <2>1 DEF ServeRefresh
  <2>3. [refresh[t] EXCEPT !.phase = "answered", !.pair = p] \in Refreshing
    BY DEF Refreshing, Pair
  <2> QED
    BY <1>4, <2>2, <2>3 DEF ServeRefresh, browser, Refreshing
<1> QED
  BY <1>2, <1>3, <1>4

-----------------------------------------------------------------------------
(* The pairs                                                               *)

\* Answers go away, and what is taken was not brought by those that stay.
LEMMA AnswersGo ==
  ASSUME AnswersAreNew, AnswersDiffer, issued \subseteq issued',
         \A r \in Request : Brings(r)' \in {Brings(r), None},
         \A t \in Tab : refresh'[t].pair \in {refresh[t].pair, None},
         \A n \in held' \ held : /\ \A r \in Request : Brings(r)' # n
                                 /\ \A t \in Tab : refresh'[t].pair # n
  PROVE  AnswersAreNew' /\ AnswersDiffer'
<1>1. AnswersAreNew'
  BY DEF AnswersAreNew
<1>2. AnswersDiffer'
  BY DEF AnswersDiffer
<1> QED
  BY <1>1, <1>2

\* What follows of a step that leaves localStorage alone, or clears it.
LEMMA StoreKept ==
  ASSUME Typed, HeldWereIssued, SingleFlight, RefreshesDoNotRace,
         held' = held, issued \subseteq issued',
         \/ store' = store /\ writer' = writer
         \/ store' = None /\ writer' = None,
         \A t \in Tab : spent'[t] \in {spent[t], {}},
         \A t \in Tab : /\ refresh'[t].token = refresh[t].token
                        /\ refresh'[t].phase = "none" <=> refresh[t].phase = "none"
  PROVE  HeldWereIssued' /\ SingleFlight' /\ RefreshesDoNotRace'
<1>1. HeldWereIssued'
  BY DEF HeldWereIssued
<1>2. SingleFlight'
  <2>1. \A t \in Tab : None \notin spent'[t]
    BY NoneAssumption DEF Typed, TypeOK
  <2> QED
    BY <2>1 DEF SingleFlight
<1>3. RefreshesDoNotRace'
  BY DEF RefreshesDoNotRace
<1> QED
  BY <1>1, <1>2, <1>3

\* What follows when a step ends or forgets the refresh of one tab and leaves
\* localStorage cleared, or as it is with nothing presented by the tab.
LEMMA RefreshGone ==
  ASSUME Typed, HeldWereIssued, SingleFlight, RefreshesDoNotRace, NEW t \in Tab,
         held' = held, issued' = issued,
         \/ store' = None /\ writer' = None /\ spent' = spent
         \/ store' = store /\ writer' = writer /\ spent' = [spent EXCEPT ![t] = {}],
         refresh' = [refresh EXCEPT ![t] = NoRefresh]
  PROVE  HeldWereIssued' /\ SingleFlight' /\ RefreshesDoNotRace'
<1>0. /\ \A u \in Tab \ {t} : refresh'[u] = refresh[u] /\ spent'[u] = spent[u]
      /\ refresh'[t].phase = "none"
      /\ \A u \in Tab : spent'[u] \subseteq spent[u]
  BY DEF Typed, TypeOK, NoRefresh
<1>1. HeldWereIssued'
  BY <1>0 DEF HeldWereIssued
<1>2. SingleFlight'
  <2>1. \A u \in Tab : None \notin spent'[u]
    BY <1>0, NoneAssumption DEF Typed, TypeOK
  <2>2. CASE store' = None
    BY <2>1, <2>2 DEF SingleFlight
  <2>3. CASE store' = store /\ spent' = [spent EXCEPT ![t] = {}]
    BY <1>0, <2>3 DEF SingleFlight, Typed, TypeOK
  <2> QED
    BY <2>2, <2>3
<1>3. RefreshesDoNotRace'
  BY <1>0 DEF RefreshesDoNotRace
<1> QED
  BY <1>1, <1>2, <1>3

\* A pair is taken from an answer: it is new, so no page has presented it.
LEMMA PairTaken ==
  ASSUME Typed, HeldWereIssued, SingleFlight, RefreshesDoNotRace,
         NEW n \in issued \ held, n \in Token, NEW w \in Tab \cup {None}, setTokens(n, w),
         issued' = issued, spent' = spent,
         \A t \in Tab : \/ refresh'[t] = refresh[t] /\ w # t
                        \/ refresh'[t].phase = "none"
  PROVE  HeldWereIssued' /\ SingleFlight' /\ RefreshesDoNotRace'
<1> USE DEF setTokens
<1>1. HeldWereIssued'
  BY DEF HeldWereIssued
<1>2. SingleFlight'
  BY DEF SingleFlight, HeldWereIssued
<1>3. RefreshesDoNotRace'
  BY DEF RefreshesDoNotRace
<1> QED
  BY <1>1, <1>2, <1>3

Rest == /\ LoginsBringPairs /\ HeldWereIssued /\ AnswersAreNew /\ AnswersDiffer
        /\ SingleFlight /\ RefreshesDoNotRace

LEMMA StartRest ==
  ASSUME IInv, NEW t \in Tab, NEW r \in Request, Page(t, r) \/ login(t, r) \/ logout(t, r)
  PROVE  Rest'
<1> USE DEF IInv, Typed, TypeOK
<1>1. /\ held' = held /\ issued' = issued /\ refresh' = refresh /\ spent' = spent
      /\ \/ store' = store /\ writer' = writer
         \/ store' = None /\ writer' = None
  BY DEF Page, login, logout, server, local, clearTokens
<1>2. \/ req' = req
      \/ \E k \in Kind, body \in Pair :
           /\ req' = [req EXCEPT ![r] = Sending(t, k, body)]
           /\ k = "login" => body = None
  <2>1. CASE Page(t, r)
    BY <2>1 DEF Page, Kind, Pair
  <2>2. CASE login(t, r)
    BY <2>2 DEF login, Kind, Pair
  <2>3. CASE logout(t, r)
    BY <2>3 DEF logout, Kind, Pair
  <2> QED
    BY <2>1, <2>2, <2>3
<1>3. /\ \A q \in Request : Brings(q)' \in {Brings(q), None}
      /\ LoginsBringPairs'
  BY <1>2, SendingType DEF Brings, LoginsBringPairs
<1>4. AnswersAreNew' /\ AnswersDiffer'
  BY <1>1, <1>3, AnswersGo
<1>5. HeldWereIssued' /\ SingleFlight' /\ RefreshesDoNotRace'
  BY <1>1, StoreKept
<1> QED
  BY <1>3, <1>4, <1>5 DEF Rest

LEMMA SettleRest ==
  ASSUME IInv, Typed', NEW r \in Request, req[r].phase = "answered", NEW ok \in BOOLEAN,
         Settle(r, ok), ok => req[r].answer = "ok"
  PROVE  Rest'
<1> USE DEF IInv, Typed, TypeOK
<1>1. /\ req' = [req EXCEPT ![r] = NoCall]
      /\ refresh' = refresh /\ spent' = spent /\ issued' = issued
  BY DEF Settle, server
<1>2. /\ \A q \in Request \ {r} : Brings(q)' = Brings(q)
      /\ Brings(r)' = None
      /\ LoginsBringPairs'
  BY <1>1 DEF Brings, LoginsBringPairs, NoCall
<1>3. CASE SettleLogin(r, ok) /\ ok
  <2> DEFINE n == req[r].body
  <2>1. n = Brings(r) /\ n # None /\ n \in issued \ held /\ setTokens(n, None)
    BY <1>3 DEF SettleLogin, LoginsBringPairs, AnswersAreNew, Brings
  <2>2. n \in Token
    BY <2>1
  <2> HIDE DEF n
  <2>3. HeldWereIssued' /\ SingleFlight' /\ RefreshesDoNotRace'
    <3>1. \A t \in Tab : refresh'[t] = refresh[t] /\ None # t
      BY <1>1, NoneAssumption
    <3> QED
      BY <1>1, <2>1, <2>2, <3>1, PairTaken
  <2>4. /\ held' \ held = {n}
        /\ \A q \in Request : Brings(q)' # n
        /\ \A t \in Tab : refresh'[t].pair # n
    BY <1>1, <1>2, <2>1 DEF setTokens, AnswersDiffer
  <2>5. AnswersAreNew' /\ AnswersDiffer'
    BY <1>1, <1>2, <2>4, AnswersGo
  <2> QED
    BY <1>2, <2>3, <2>5 DEF Rest
<1>4. CASE ~(SettleLogin(r, ok) /\ ok)
  <2>1. /\ held' = held
        /\ \/ store' = store /\ writer' = writer
           \/ store' = None /\ writer' = None
    BY <1>4 DEF Settle, SettleMe, SettlePage, SettleLogin, SettleLogout, clearTokens, local
  <2>2. HeldWereIssued' /\ SingleFlight' /\ RefreshesDoNotRace'
    BY <1>1, <2>1, StoreKept
  <2>3. AnswersAreNew' /\ AnswersDiffer'
    BY <1>1, <1>2, <2>1, AnswersGo
  <2> QED
    BY <1>2, <2>2, <2>3 DEF Rest
<1> QED
  BY <1>3, <1>4

LEMMA ReceiveRest ==
  ASSUME IInv, Typed', NEW r \in Request, Receive(r)
  PROVE  Rest'
<1> USE DEF IInv, Typed, TypeOK
<1> DEFINE t == req[r].tab
<1>0. req[r].phase = "answered" /\ t \in Tab
  BY DEF Receive, CallsHaveTabs
<1>1. CASE ~(req[r].answer = "401" /\ req[r].try = 1)
  BY <1>0, <1>1, SettleRest DEF Receive
<1>2. CASE req[r].answer = "401" /\ req[r].try = 1 /\ Settle(r, FALSE)
  BY <1>0, <1>2, SettleRest
<1>3. ASSUME Wait(r), UNCHANGED <<signedIn, loading, server, local>>,
             refresh'[t].pair = None \/ refresh' = refresh,
             \A u \in Tab \ {t} : refresh'[u] = refresh[u]
      PROVE  LoginsBringPairs' /\ AnswersAreNew' /\ AnswersDiffer'
  <2>1. /\ \A q \in Request : Brings(q)' = Brings(q)
        /\ LoginsBringPairs'
    BY <1>3 DEF Wait, Brings, LoginsBringPairs
  <2>2. AnswersAreNew' /\ AnswersDiffer'
    BY <1>0, <1>3, <2>1, AnswersGo DEF server, local
  <2> QED
    BY <2>1, <2>2
<1>4. CASE /\ refresh[t].phase # "none" /\ Wait(r)
           /\ UNCHANGED <<signedIn, loading, refresh, spent, server, local>>
  <2>1. HeldWereIssued' /\ SingleFlight' /\ RefreshesDoNotRace'
    BY <1>4, StoreKept DEF server, local
  <2> QED
    BY <1>3, <1>4, <2>1 DEF Rest
<1>5. CASE /\ refresh[t].phase = "none" /\ store # None /\ Wait(r)
           /\ refresh' = [refresh EXCEPT ![t] =
                            [phase |-> "sent", token |-> store, pair |-> None]]
           /\ spent' = [spent EXCEPT ![t] = spent[t] \cup {store}]
           /\ UNCHANGED <<signedIn, loading, server, local>>
  <2> HIDE DEF t
  <2>1. /\ refresh'[t].phase = "sent" /\ refresh'[t].token = store /\ refresh'[t].pair = None
        /\ \A u \in Tab \ {t} : refresh'[u] = refresh[u] /\ spent'[u] = spent[u]
        /\ spent'[t] = spent[t] \cup {store}
        /\ store' = store /\ held' = held /\ writer' = writer /\ issued' = issued
    BY <1>0, <1>5 DEF server, local
  <2>2. HeldWereIssued'
    BY <1>0, <1>5, <2>1 DEF HeldWereIssued
  <2>3. SingleFlight'
    BY <1>0, <2>1 DEF SingleFlight
  <2>4. RefreshesDoNotRace'
    BY <1>0, <2>1 DEF RefreshesDoNotRace
  <2>5. LoginsBringPairs' /\ AnswersAreNew' /\ AnswersDiffer'
    BY <1>3, <1>5, <2>1
  <2> QED
    BY <2>2, <2>3, <2>4, <2>5 DEF Rest
<1> QED
  BY <1>1, <1>2, <1>4, <1>5 DEF Receive, tryRefresh

\* A call that is sent again is the same call.
LEMMA ResentKeeps ==
  ASSUME NEW c \in Call
  PROVE  LET d == [c EXCEPT !.phase = "sent", !.try = 2, !.bearer = "yes"]
         IN  d.kind = c.kind /\ d.body = c.body /\ d.phase = "sent"
BY DEF Call

LEMMA TabRest ==
  ASSUME IInv, Typed', NEW t \in Tab, Load(t) \/ RefreshOk(t) \/ RefreshFailed(t)
  PROVE  Rest'
<1> USE DEF IInv, Typed, TypeOK
<1>1. /\ refresh' = [refresh EXCEPT ![t] = NoRefresh] /\ issued' = issued
      /\ refresh'[t].pair = None /\ refresh'[t].phase = "none"
      /\ \A u \in Tab \ {t} : refresh'[u] = refresh[u]
  <2>1. refresh' = [refresh EXCEPT ![t] = NoRefresh] /\ issued' = issued
    BY DEF Load, RefreshOk, RefreshFailed, server
  <2> QED
    BY <2>1 DEF NoRefresh
<1>2. CASE Load(t)
  <2>1. /\ \A q \in Request : Brings(q)' \in {Brings(q), None}
        /\ LoginsBringPairs'
    <3>1. /\ Sending(t, "me", None).kind = "me" /\ Sending(t, "me", None).phase = "sent"
          /\ NoCall.body = None /\ NoCall.phase = "idle"
      BY SendingType DEF Kind, Pair, NoCall
    <3>2. \A q \in Request : req'[q] \in {req[q], NoCall, Sending(t, "me", None)}
      BY <1>2 DEF Load
    <3> QED
      BY <3>1, <3>2 DEF Brings, LoginsBringPairs
  <2>2. held' = held /\ store' = store /\ writer' = writer /\ spent' = [spent EXCEPT ![t] = {}]
    BY <1>2 DEF Load, local
  <2>3. AnswersAreNew' /\ AnswersDiffer'
    BY <1>1, <2>1, <2>2, AnswersGo
  <2>4. HeldWereIssued' /\ SingleFlight' /\ RefreshesDoNotRace'
    BY <1>1, <2>2, RefreshGone
  <2> QED
    BY <2>1, <2>3, <2>4 DEF Rest
<1>3. CASE RefreshFailed(t)
  <2>1. /\ \A q \in Request : Brings(q)' \in {Brings(q), None}
        /\ LoginsBringPairs'
    BY <1>3 DEF RefreshFailed, Brings, LoginsBringPairs, NoCall
  <2>2. held' = held /\ store' = None /\ writer' = None /\ spent' = spent
    BY <1>3 DEF RefreshFailed, clearTokens
  <2>3. AnswersAreNew' /\ AnswersDiffer'
    BY <1>1, <2>1, <2>2, AnswersGo
  <2>4. HeldWereIssued' /\ SingleFlight' /\ RefreshesDoNotRace'
    BY <1>1, <2>2, RefreshGone
  <2> QED
    BY <2>1, <2>3, <2>4 DEF Rest
<1>4. CASE RefreshOk(t)
  <2> DEFINE n == refresh[t].pair
  <2>1. /\ n # None /\ n \in issued \ held /\ n \in Token
        /\ setTokens(n, t) /\ spent' = spent
    BY <1>4 DEF RefreshOk, AnswersAreNew
  <2>2. /\ \A q \in Request : Brings(q)' = Brings(q)
        /\ LoginsBringPairs'
    <3>1. /\ req' \in [Request -> Call]
          /\ \A q \in Request :
               \/ req'[q] = req[q]
               \/ req'[q] = [req[q] EXCEPT !.phase = "sent", !.try = 2, !.bearer = "yes"]
      BY <1>4 DEF RefreshOk
    <3>2. \A q \in Request :
            /\ req'[q].kind = req[q].kind /\ req'[q].body = req[q].body
            /\ req'[q] = req[q] \/ req'[q].phase = "sent"
      <4> SUFFICES ASSUME NEW q \in Request
                   PROVE  /\ req'[q].kind = req[q].kind /\ req'[q].body = req[q].body
                          /\ req'[q] = req[q] \/ req'[q].phase = "sent"
        OBVIOUS
      <4> DEFINE c == [req[q] EXCEPT !.phase = "sent", !.try = 2, !.bearer = "yes"]
      <4>1. c.kind = req[q].kind /\ c.body = req[q].body /\ c.phase = "sent"
        BY ResentKeeps
      <4>2. req'[q] = req[q] \/ req'[q] = c
        BY <3>1
      <4> HIDE DEF c
      <4> QED
        BY <4>1, <4>2
    <3>3. \A q \in Request : Brings(q)' = Brings(q)
      BY <3>2 DEF Brings
    <3>4. LoginsBringPairs'
      BY <3>2 DEF LoginsBringPairs
    <3> QED
      BY <3>3, <3>4
  <2>3. /\ \A q \in Request : Brings(q) # n
        /\ \A u \in Tab \ {t} : refresh[u].pair # n
    BY <2>1 DEF AnswersDiffer
  <2> HIDE DEF n
  <2>4. /\ held' \ held = {n}
        /\ \A q \in Request : Brings(q)' # n
        /\ \A u \in Tab : refresh'[u].pair # n
    BY <1>1, <2>1, <2>2, <2>3 DEF setTokens
  <2>5. AnswersAreNew' /\ AnswersDiffer'
    BY <1>1, <2>2, <2>4, AnswersGo
  <2>6. HeldWereIssued' /\ SingleFlight' /\ RefreshesDoNotRace'
    BY <1>1, <2>1, PairTaken
  <2> QED
    BY <2>2, <2>5, <2>6 DEF Rest
<1> QED
  BY <1>2, <1>3, <1>4

\* The server's answer to a call: at most one new pair, and for a login only.
LEMMA AnswerRest ==
  ASSUME IInv, NEW r \in Request, NEW a \in {"ok", "401", "error"}, NEW n \in Pair,
         Answered(r, a, n), UNCHANGED <<browser, refresh>>,
         req[r].kind = "login" =>
           \/ n = None /\ a # "ok" /\ issued \subseteq issued'
           \/ n \in Token \ issued /\ issued' = issued \cup {n},
         req[r].kind # "login" => issued' = issued
  PROVE  Rest'
<1> USE DEF IInv, Typed, TypeOK
<1> DEFINE c == [req[r] EXCEPT !.phase = "answered", !.answer = a, !.body = n, !.bearer = "no"]
<1>1. c.kind = req[r].kind /\ c.body = n /\ c.answer = a /\ c.phase = "answered"
  <2>1. req[r] \in Call
    OBVIOUS
  <2> QED
    BY <2>1 DEF Call
<1>2. req' = [req EXCEPT ![r] = c]
  BY DEF Answered
<1> HIDE DEF c
<1>3. /\ \A q \in Request \ {r} : req'[q] = req[q] /\ Brings(q)' = Brings(q)
      /\ Brings(r)' = IF req[r].kind = "login" THEN n ELSE None
      /\ held' = held /\ store' = store /\ writer' = writer /\ spent' = spent
      /\ refresh' = refresh /\ issued \subseteq issued' /\ held \subseteq issued
  BY <1>1, <1>2 DEF Brings, browser, HeldWereIssued
<1>4. LoginsBringPairs'
  BY <1>1, <1>2, NoneAssumption DEF LoginsBringPairs
<1>5. AnswersAreNew'
  BY <1>3 DEF AnswersAreNew
<1>6. AnswersDiffer'
  <2>1. CASE req[r].kind = "login" /\ n \in Token \ issued
    <3>1. /\ \A q \in Request : Brings(q) # n
          /\ \A t \in Tab : refresh[t].pair # n
      BY <2>1, NoneAssumption DEF AnswersAreNew
    <3> QED
      BY <1>3, <2>1, <3>1 DEF AnswersDiffer
  <2>2. CASE ~(req[r].kind = "login" /\ n \in Token \ issued)
    <3>1. Brings(r)' = None
      BY <1>3, <2>2
    <3> QED
      BY <1>3, <3>1 DEF AnswersDiffer
  <2> QED
    BY <2>1, <2>2
<1>7. HeldWereIssued' /\ SingleFlight' /\ RefreshesDoNotRace'
  BY <1>3, StoreKept
<1> QED
  BY <1>4, <1>5, <1>6, <1>7 DEF Rest

LEMMA ServerRest ==
  ASSUME IInv,
         \/ \E r \in Request : ServeLogin(r) \/ Serve(r)
         \/ \E t \in Tab : ServeRefresh(t)
  PROVE  Rest'
<1> USE DEF IInv, Typed, TypeOK
<1>1. ASSUME NEW r \in Request, ServeLogin(r) PROVE Rest'
  <2>1. ASSUME NEW a \in {"401", "error"}, Answered(r, a, None), issued \subseteq issued'
        PROVE  Rest'
    BY <1>1, <2>1, AnswerRest DEF ServeLogin, Pair
  <2>2. CASE /\ issued # Token /\ issued' = issued \cup {Fresh}
             /\ Answered(r, "ok", Fresh)
    <3>1. Fresh \in Token \ issued
      BY <2>2, FreshIsNew
    <3> QED
      BY <1>1, <2>2, <3>1, AnswerRest DEF ServeLogin, Pair
  <2> QED
    BY <1>1, <2>1, <2>2 DEF ServeLogin, server
<1>2. ASSUME NEW r \in Request, Serve(r) PROVE Rest'
  <2>1. req[r].body \in Pair /\ None \in Pair
    BY DEF Call, Pair
  <2>2. req[r].kind # "login" /\ issued' = issued /\ UNCHANGED <<browser, refresh>>
    BY <1>2 DEF Serve
  <2>3. \E a \in {"ok", "401", "error"}, n \in Pair : Answered(r, a, n)
    BY <1>2, <2>1 DEF Serve
  <2> QED
    BY <2>2, <2>3, AnswerRest
<1>3. ASSUME NEW t \in Tab, ServeRefresh(t) PROVE Rest'
  <2>1. PICK p \in {None} \cup (Token \ issued) :
          /\ refresh' = [refresh EXCEPT ![t] =
                           [refresh[t] EXCEPT !.phase = "answered", !.pair = p]]
          /\ issued \subseteq issued'
          /\ p # None => issued' = issued \cup {p}
    BY <1>3 DEF ServeRefresh
  <2> DEFINE a == [refresh[t] EXCEPT !.phase = "answered", !.pair = p]
  <2>2. a.phase = "answered" /\ a.pair = p /\ a.token = refresh[t].token
    <3>1. refresh[t] \in Refreshing
      OBVIOUS
    <3> QED
      BY <3>1 DEF Refreshing
  <2>3. refresh' = [refresh EXCEPT ![t] = a] /\ refresh[t].phase = "sent"
    BY <1>3, <2>1 DEF ServeRefresh
  <2> HIDE DEF a
  <2>4. /\ refresh'[t] = a /\ \A u \in Tab \ {t} : refresh'[u] = refresh[u]
        /\ store' = store /\ held' = held /\ spent' = spent /\ writer' = writer /\ req' = req
        /\ held \subseteq issued
    BY <1>3, <2>3 DEF ServeRefresh, browser, HeldWereIssued
  <2>5. /\ LoginsBringPairs'
        /\ \A r \in Request : Brings(r)' = Brings(r)
    BY <2>4 DEF LoginsBringPairs, Brings
  <2>6. AnswersAreNew'
    BY <2>1, <2>2, <2>4, <2>5 DEF AnswersAreNew
  <2>7. AnswersDiffer'
    <3>1. p # None => /\ \A r \in Request : Brings(r) # p
                      /\ \A u \in Tab : refresh[u].pair # p
      BY DEF AnswersAreNew
    <3> QED
      BY <2>2, <2>4, <2>5, <3>1 DEF AnswersDiffer
  <2>8. HeldWereIssued' /\ SingleFlight' /\ RefreshesDoNotRace'
    <3>1. \A u \in Tab : /\ refresh'[u].token = refresh[u].token
                         /\ refresh'[u].phase = "none" <=> refresh[u].phase = "none"
      BY <2>2, <2>3, <2>4
    <3> QED
      BY <2>1, <2>4, <3>1, StoreKept
  <2> QED
    BY <2>5, <2>6, <2>7, <2>8 DEF Rest
<1> QED
  BY <1>1, <1>2, <1>3

-----------------------------------------------------------------------------

LEMMA NextIInv == IInv /\ [Next]_vars => IInv'
<1> SUFFICES ASSUME IInv, [Next]_vars PROVE IInv'
  OBVIOUS
<1>0. Typed /\ LoginsBringPairs
  BY DEF IInv
<1>1. ASSUME NEW t \in Tab, NEW r \in Request, Page(t, r) \/ login(t, r) \/ logout(t, r)
      PROVE  Typed' /\ Rest'
  BY <1>0, <1>1, StartType, StartRest
<1>2. ASSUME NEW r \in Request, Receive(r) PROVE Typed' /\ Rest'
  <2>1. Typed'
    BY <1>0, <1>2, ReceiveType
  <2> QED
    BY <1>2, <2>1, ReceiveRest
<1>3. ASSUME NEW t \in Tab, Load(t) \/ RefreshOk(t) \/ RefreshFailed(t)
      PROVE  Typed' /\ Rest'
  <2>1. Typed'
    BY <1>0, <1>3, TabType
  <2> QED
    BY <1>3, <2>1, TabRest
<1>4. ASSUME \/ \E r \in Request : ServeLogin(r) \/ Serve(r)
             \/ \E t \in Tab : ServeRefresh(t)
      PROVE  Typed' /\ Rest'
  <2>1. Typed'
    BY <1>0, <1>4, ServerType
  <2>2. Rest'
    BY <1>4, ServerRest
  <2> QED
    BY <2>1, <2>2
<1>5. CASE UNCHANGED vars
  <2>1. \A r \in Request : Brings(r)' = Brings(r)
    BY <1>5 DEF vars, Brings
  <2> QED
    BY <1>5, <2>1 DEF vars, IInv, Typed, TypeOK, CallsHaveTabs, LoginsBringPairs, HeldWereIssued,
       AnswersAreNew, AnswersDiffer, SingleFlight, RefreshesDoNotRace
<1>6. CASE Next
  <2>1. Typed' /\ Rest'
    BY <1>1, <1>2, <1>3, <1>4, <1>6 DEF Next
  <2> QED
    BY <2>1 DEF IInv, Rest
<1> QED
  BY <1>5, <1>6

THEOREM Invariance == Spec => []IInv
BY InitIInv, NextIInv, PTL DEF Spec

\* Every variable keeps its type, and a call that waits has a refresh to wait for.
THEOREM TypeCorrect == Spec => []TypeOK
<1>1. IInv => TypeOK
  BY DEF IInv, Typed
<1> QED
  BY <1>1, Invariance, PTL

\* A page presents no refresh token twice (tryRefresh's refreshPromise).
THEOREM PresentedOnce == Spec => []SingleFlight
<1>1. IInv => SingleFlight
  BY DEF IInv
<1> QED
  BY <1>1, Invariance, PTL

\* A tab's own refreshes never change its tokens under one that is under way.
THEOREM NoOwnRace == Spec => []RefreshesDoNotRace
<1>1. IInv => RefreshesDoNotRace
  BY DEF IInv
<1> QED
  BY <1>1, Invariance, PTL

-----------------------------------------------------------------------------
(* The refinement                                                          *)

LEMMA StepsAreCredentials ==
  ASSUME IInv, [Next]_vars
  PROVE  [Pairs!Next]_<<store, held>>
<1> USE DEF Pairs!Next, Pairs!Take, Pairs!Drop
<1>1. ASSUME NEW n \in Token \ held, NEW w, setTokens(n, w)
      PROVE  Pairs!Next
  BY <1>1 DEF setTokens
<1>2. clearTokens => Pairs!Next
  BY DEF clearTokens
<1>3. ASSUME NEW r \in Request, NEW ok \in BOOLEAN, Settle(r, ok), req[r].phase = "answered",
             ok => req[r].answer = "ok"
      PROVE  Pairs!Next \/ UNCHANGED <<store, held>>
  <2>1. CASE ok /\ SettleLogin(r, ok)
    <3>1. setTokens(req[r].body, None)
      BY <2>1 DEF SettleLogin
    <3>2. req[r].body \in Token \ held
      <4>1. req[r].kind = "login" /\ req[r].body # None
        BY <1>3, <2>1 DEF IInv, LoginsBringPairs, SettleLogin
      <4> QED
        BY <4>1 DEF IInv, AnswersAreNew, Brings, Typed, TypeOK
    <3> QED
      BY <1>1, <3>1, <3>2
  <2>2. CASE ~(ok /\ SettleLogin(r, ok))
    BY <1>2, <1>3, <2>2 DEF Settle, SettleMe, SettlePage, SettleLogin, SettleLogout, local
  <2> QED
    BY <2>1, <2>2
<1>4. ASSUME NEW t \in Tab, RefreshOk(t) PROVE Pairs!Next
  <2>1. setTokens(refresh[t].pair, t) /\ refresh[t].pair # None
    BY <1>4 DEF RefreshOk
  <2>2. refresh[t].pair \in Token \ held
    BY <2>1 DEF IInv, AnswersAreNew, Typed, TypeOK
  <2> QED
    BY <1>1, <2>1, <2>2
<1>5. ASSUME NEW r \in Request, Receive(r) PROVE Pairs!Next \/ UNCHANGED <<store, held>>
  <2>1. CASE Settle(r, req[r].answer = "ok") /\ req[r].phase = "answered"
    BY <1>3, <2>1
  <2>2. CASE Settle(r, FALSE) /\ req[r].phase = "answered"
    BY <1>3, <2>2
  <2> QED
    BY <1>5, <2>1, <2>2 DEF Receive, tryRefresh, local
<1>6. ASSUME NEW t \in Tab, NEW r \in Request, Page(t, r) \/ login(t, r) \/ logout(t, r)
      PROVE  Pairs!Next \/ UNCHANGED <<store, held>>
  BY <1>2, <1>6 DEF Page, login, logout, local
<1>7. ASSUME NEW t \in Tab, Load(t) \/ RefreshFailed(t)
      PROVE  Pairs!Next \/ UNCHANGED <<store, held>>
  BY <1>2, <1>7 DEF Load, RefreshFailed, local
<1>8. CASE \/ \E r \in Request : ServeLogin(r) \/ Serve(r)
           \/ \E t \in Tab : ServeRefresh(t)
  BY <1>8 DEF ServeLogin, Serve, ServeRefresh, browser
<1>9. CASE UNCHANGED vars
  BY <1>9 DEF vars
<1> QED
  BY <1>4, <1>5, <1>6, <1>7, <1>8, <1>9 DEF Next

\* What all tabs do to the pairs of a browser is what Credentials allows: a pair
\* that was replaced or dropped is never stored again.
THEOREM ImplementsCredentials == Spec => CredentialsSpec
<1>1. Init => Pairs!Init
  BY DEF Init, Pairs!Init
<1>2. IInv /\ [Next]_vars => [Pairs!Next]_<<store, held>>
  BY StepsAreCredentials
<1> QED
  BY <1>1, <1>2, Invariance, PTL DEF Spec, CredentialsSpec, Pairs!Spec
=============================================================================

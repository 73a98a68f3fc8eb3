--------------------------- MODULE AccountsProofs ---------------------------
(***************************************************************************)
(* For every set of users, tokens, requests and edits: a refresh token     *)
(* that is still accepted has no successor, a session outlives no change   *)
(* that should end it, and the last admin is guarded, but for the named    *)
(* exceptions (Accounts, TLAPS).                                           *)
(*                                                                         *)
(* These properties look at the tables only. They stay true because of     *)
(* what requests in flight have already done: a refresh that is past its   *)
(* DeleteByHash holds a token that is no longer in the table, and a token  *)
(* that was issued once is not issued again. IndInv adds both; SessionsInv *)
(* and AdminsInv add what is needed of the two other properties.           *)
(***************************************************************************)
EXTENDS Accounts, FiniteSetTheorems, SequenceTheorems, TLAPS

\* A session made from a token was made from one that was issued, and that is
\* gone once the request is past its DeleteByHash.
RefreshInOrder(p, live, iss) ==
  p \in Session /\ p.tok # None =>
    /\ iss[p.tok] # None
    /\ Head(p.todo) = "rotate" \/ p.tok \notin live

SpentParents ==
  \A c \in Token : issued[c] # None /\ issued[c].parent # None =>
    /\ issued[c].parent \notin tokens
    /\ issued[issued[c].parent] # None

IndInv ==
  /\ TypeOK
  /\ SpentParents
  /\ \A r \in Request : RefreshInOrder(req[r], tokens, issued)

-----------------------------------------------------------------------------
(* Requests in flight.                                                     *)

Legal(p) == p \in Session \cup Change \cup {Idle}

ChangeSteps == {"count", "revoke", "write", "remove"}

\* What is left of a request after one statement.
LEMMA SessionTodoFacts ==
  ASSUME NEW s \in SessionTodos
  PROVE  /\ Head(s) \in {"mfa", "rotate", "lookup", "issue"}
         /\ Head(s) = "issue" => Len(s) = 1
         /\ Len(s) # 1 => Tail(s) \in SessionTodos
<1>1. CASE s = <<"mfa", "lookup", "issue">>
  <2>1. Tail(s) = <<"lookup", "issue">>
    BY <1>1
  <2> QED
    BY <1>1, <2>1 DEF SessionTodos
<1>2. CASE s = <<"rotate", "lookup", "issue">>
  <2>1. Tail(s) = <<"lookup", "issue">>
    BY <1>2
  <2> QED
    BY <1>2, <2>1 DEF SessionTodos
<1>3. CASE s = <<"lookup", "issue">>
  <2>1. Tail(s) = <<"issue">>
    BY <1>3
  <2> QED
    BY <1>3, <2>1 DEF SessionTodos
<1>4. CASE s = <<"issue">>
  BY <1>4
<1> QED
  BY <1>1, <1>2, <1>3, <1>4 DEF SessionTodos

LEMMA ChangeTodoFacts ==
  ASSUME NEW s \in ChangeTodos
  PROVE  /\ Head(s) \in ChangeSteps
         /\ Len(s) # 1 => Tail(s) \in ChangeTodos
<1>1. s \in Seq(ChangeSteps) /\ s # <<>>
  BY DEF ChangeTodos, ChangeSteps
<1>2. Head(s) \in ChangeSteps /\ Tail(s) \in Seq(ChangeSteps) /\ Len(Tail(s)) = Len(s) - 1
  BY <1>1, HeadTailProperties
<1>3. Len(s) # 1 => Tail(s) # <<>>
  <2>1. Len(s) \in Nat
    BY <1>1, LenProperties
  <2>2. Len(<<>>) = 0
    BY EmptySeq
  <2>3. Tail(s) = <<>> => Len(Tail(s)) = 0
    BY <2>2, Zenon
  <2> QED
    BY <1>2, <2>1, <2>3
<1> QED
  BY <1>2, <1>3 DEF ChangeTodos, ChangeSteps

\* The record types, told apart by their operation.
LEMMA Shapes ==
  ASSUME NEW p, Legal(p)
  PROVE  /\ p # Idle /\ p.op \in {"login", "refresh"} =>
              p \in Session /\ p.u \in User /\ p.pw \in Password /\ p.tok \in Token \cup {None}
         /\ p # Idle /\ p.op \notin {"login", "refresh"} =>
              /\ p \in Change /\ p.u \in User /\ p.base \in Row /\ p.new \in Row
              /\ p.op \in {"password", "profile", "edit", "delete"}
         /\ p # Idle => p.op # "idle"
  BY DEF Legal, Session, Change, Idle

\* One statement done: what is left is a request of the same kind.
LEMMA TailLegal ==
  ASSUME NEW p, Legal(p), p # Idle, Len(p.todo) # 1
  PROVE  /\ Legal([p EXCEPT !.todo = Tail(p.todo)])
         /\ [p EXCEPT !.todo = Tail(p.todo)] # Idle
         /\ [p EXCEPT !.todo = Tail(p.todo)].op = p.op
         /\ [p EXCEPT !.todo = Tail(p.todo)] \in Session =>
              p \in Session /\ [p EXCEPT !.todo = Tail(p.todo)].tok = p.tok
<1> DEFINE n == [p EXCEPT !.todo = Tail(p.todo)]
<1>1. CASE p \in Session
  <2>1. p.todo \in SessionTodos
    BY <1>1 DEF Session
  <2>2. Tail(p.todo) \in SessionTodos
    BY <2>1, SessionTodoFacts
  <2>3. n \in Session /\ n.op = p.op /\ n.tok = p.tok
    BY <1>1, <2>2 DEF Session
  <2> QED
    BY <2>3, <1>1 DEF Legal, Session, Idle
<1>2. CASE p \in Change
  <2>1. p.todo \in ChangeTodos
    BY <1>2 DEF Change
  <2>2. Tail(p.todo) \in ChangeTodos
    BY <2>1, ChangeTodoFacts
  <2>3. n \in Change /\ n.op = p.op
    BY <1>2, <2>2 DEF Change
  <2>4. n \notin Session
    BY <2>3 DEF Change, Session
  <2> QED
    BY <2>3, <2>4, <1>2 DEF Legal, Change, Idle
<1> QED
  BY <1>1, <1>2 DEF Legal

Requests == [Request -> Session \cup Change \cup {Idle}]

\* p0 became p; no refresh has been made, or put back before its DeleteByHash.
Kept(p, p0) ==
  p \in Session /\ p.tok # None =>
    /\ p0 \in Session /\ p.tok = p0.tok
    /\ Head(p0.todo) = "rotate" => Head(p.todo) = "rotate"

LEMMA IdleIsNoSession == Idle \notin Session /\ Session \cap Change = {}
  BY DEF Idle, Session, Change

LEMMA AdvancedFacts ==
  ASSUME TypeOK, NEW r \in Request, InFlight(r)
  PROVE  /\ Advanced(r) \in Requests
         /\ \A s \in Request \ {r} : Advanced(r)[s] = req[s]
         /\ Advanced(r)[r] # Idle => /\ Advanced(r)[r].op = req[r].op
                                     /\ Advanced(r)[r] \in Session =>
                                          req[r] \in Session /\ Advanced(r)[r].tok = req[r].tok
<1> DEFINE n == IF Len(req[r].todo) = 1 THEN Idle ELSE [req[r] EXCEPT !.todo = Tail(req[r].todo)]
<1>1. req \in Requests /\ Legal(req[r]) /\ req[r] # Idle
  BY DEF TypeOK, Requests, Legal, InFlight
<1>2. Advanced(r) = [req EXCEPT ![r] = n]
  BY DEF Advanced
<1>3. /\ Legal(n)
      /\ n # Idle => n.op = req[r].op /\ (n \in Session => req[r] \in Session /\ n.tok = req[r].tok)
  <2>1. CASE Len(req[r].todo) = 1
    BY <2>1 DEF Legal
  <2>2. CASE Len(req[r].todo) # 1
    BY <1>1, <2>2, TailLegal
  <2> QED
    BY <2>1, <2>2
<1> HIDE DEF n
<1> QED
  BY <1>1, <1>2, <1>3 DEF Requests, Legal

LEMMA EndedFacts ==
  ASSUME TypeOK, NEW r \in Request
  PROVE  /\ Ended(r) \in Requests
         /\ \A s \in Request : Ended(r)[s] = IF s = r THEN Idle ELSE req[s]
  BY DEF TypeOK, Requests, Ended

\* Marking a session changes its flag and nothing else.
LEMMA MarkedLegal ==
  ASSUME NEW p \in Session
  PROVE  LET n == [p EXCEPT !.late = TRUE] IN
         /\ n \in Session
         /\ n.op = p.op /\ n.tok = p.tok /\ n.todo = p.todo
  BY DEF Session

LEMMA MarkLateFacts ==
  ASSUME TypeOK, NEW u \in User, NEW q \in Requests,
         \A s \in Request : IssuesFor(s, u) => q[s] = req[s]
  PROVE  /\ MarkLate(q, u) \in Requests
         /\ \A s \in Request : Kept(MarkLate(q, u)[s], q[s])
<1> DEFINE n(s) == IF IssuesFor(s, u) THEN [q[s] EXCEPT !.late = TRUE] ELSE q[s]
<1>1. MarkLate(q, u) = [s \in Request |-> n(s)]
  BY DEF MarkLate
<1>2. ASSUME NEW s \in Request
      PROVE  n(s) \in Session \cup Change \cup {Idle} /\ Kept(n(s), q[s])
  <2>1. CASE IssuesFor(s, u)
    <3>1. q[s] \in Session
      BY <2>1, Shapes DEF IssuesFor, InFlight, TypeOK, Legal
    <3>2. n(s) \in Session /\ n(s).op = q[s].op /\ n(s).tok = q[s].tok /\ n(s).todo = q[s].todo
      BY <2>1, <3>1, MarkedLegal
    <3> HIDE DEF n
    <3> QED
      BY <3>1, <3>2 DEF Kept
  <2>2. CASE ~IssuesFor(s, u)
    BY <2>2 DEF Requests, Kept
  <2> QED
    BY <2>1, <2>2
<1> HIDE DEF n
<1> QED
  BY <1>1, <1>2 DEF Requests

\* The order of refreshes survives a step that issues nothing.
LEMMA OrderKept ==
  ASSUME IndInv, issued' = issued, tokens' \subseteq tokens,
         \A r \in Request : Kept(req'[r], req[r])
  PROVE  /\ SpentParents'
         /\ \A r \in Request : RefreshInOrder(req'[r], tokens', issued')
<1>1. SpentParents'
  BY DEF IndInv, SpentParents
<1>2. ASSUME NEW r \in Request PROVE RefreshInOrder(req'[r], tokens', issued')
  BY DEF IndInv, RefreshInOrder, Kept
<1> QED
  BY <1>1, <1>2

LEMMA KeptInOrder ==
  ASSUME NEW p, NEW p0, NEW live, NEW iss, Kept(p, p0), RefreshInOrder(p0, live, iss)
  PROVE  RefreshInOrder(p, live, iss)
  BY DEF Kept, RefreshInOrder

\* What a request is, by the statement it is at.
LEMMA AtFacts ==
  ASSUME TypeOK, NEW r \in Request, NEW step, At(r, step)
  PROVE  /\ InFlight(r) /\ Legal(req[r]) /\ req[r].u \in User
         /\ step \in ChangeSteps => req[r] \in Change
         /\ step \notin ChangeSteps => req[r] \in Session /\ req[r].todo \in SessionTodos
<1>1. InFlight(r) /\ Legal(req[r]) /\ Head(req[r].todo) = step /\ req[r] # Idle
  BY DEF At, TypeOK, Legal, InFlight
<1>2. req[r].u \in User
  BY <1>1, Shapes
<1>3. CASE req[r] \in Session
  <2>1. req[r].todo \in SessionTodos
    BY <1>3 DEF Session
  <2>2. step \notin ChangeSteps
    BY <1>1, <2>1, SessionTodoFacts DEF ChangeSteps
  <2> QED
    BY <1>1, <1>2, <1>3, <2>1, <2>2
<1>4. CASE req[r] \in Change
  <2>1. req[r].todo \in ChangeTodos
    BY <1>4 DEF Change
  <2> QED
    BY <1>1, <1>2, <1>4, <2>1, ChangeTodoFacts
<1> QED
  BY <1>1, <1>3, <1>4 DEF Legal

LEMMA RowIsSomething == ASSUME NEW x \in Row PROVE x # None
  BY NoneAssumption

-----------------------------------------------------------------------------
(* Requests that begin.                                                    *)

LEMMA BeginStep ==
  ASSUME IndInv, NEW r \in Request, NEW p, Legal(p), p # Idle,
         RefreshInOrder(p, tokens, issued), Begin(r, p)
  PROVE  IndInv'
<1> DEFINE q == [req EXCEPT ![r] = p]
<1>1. TypeOK /\ ~InFlight(r)
  BY DEF IndInv, Begin
<1>2. q \in Requests /\ \A s \in Request : q[s] = IF s = r THEN p ELSE req[s]
  BY <1>1 DEF TypeOK, Requests, Legal
<1>3. \A s \in Request : RefreshInOrder(q[s], tokens, issued)
  BY <1>2 DEF IndInv
<1>4. req' \in Requests /\ \A s \in Request : Kept(req'[s], q[s])
  <2>1. CASE EndsSessions(p)
    <3>1. p.u \in User
      BY Shapes
    <3>2. \A s \in Request : IssuesFor(s, p.u) => q[s] = req[s]
      BY <1>1, <1>2 DEF IssuesFor
    <3>3. req' = MarkLate(q, p.u)
      BY <2>1 DEF Begin
    <3> HIDE DEF q
    <3> QED
      BY <1>1, <1>2, <3>1, <3>2, <3>3, MarkLateFacts
  <2>2. CASE ~EndsSessions(p)
    <3>1. req' = q
      BY <2>2 DEF Begin
    <3> HIDE DEF q
    <3> QED
      BY <1>2, <3>1 DEF Kept
  <2> QED
    BY <2>1, <2>2
<1> HIDE DEF q
<1>5. UNCHANGED <<server, users, born, tokens, issued, excused, lastLoss>>
  BY DEF Begin
<1>6. TypeOK'
  BY <1>1, <1>4, <1>5 DEF TypeOK, Requests
<1>7. \A s \in Request : RefreshInOrder(req'[s], tokens', issued')
  BY <1>3, <1>4, <1>5, KeptInOrder
<1>8. SpentParents'
  BY <1>5 DEF IndInv, SpentParents
<1> QED
  BY <1>6, <1>7, <1>8 DEF IndInv

\* A plan for a session or for a change is a legal request.
LEMMA SessionPlanLegal ==
  ASSUME NEW op \in {"login", "refresh"}, NEW u \in User, NEW tok \in Token \cup {None},
         NEW pw \in Password, NEW todo \in SessionTodos
  PROVE  LET p == SessionPlan(op, u, tok, pw, todo) IN
         /\ p \in Session
         /\ p.op = op /\ p.tok = tok /\ p.todo = todo
<1>1. (~Settled(u)) \in BOOLEAN
  BY DEF Settled
<1> QED
  BY <1>1 DEF SessionPlan, Session

LEMMA ChangePlanLegal ==
  ASSUME NEW op \in {"password", "profile", "edit", "delete"}, NEW u \in User,
         users[u] \in Row, NEW new \in Row, NEW todo \in ChangeTodos
  PROVE  LET p == ChangePlan(op, u, new, todo) IN
         Legal(p) /\ p # Idle /\ p.op = op
  BY DEF ChangePlan, Change, Legal, Idle

LEMMA ChangeBegins ==
  ASSUME IndInv, NEW r \in Request, NEW u \in User, Exists(u),
         NEW op \in {"password", "profile", "edit", "delete"},
         NEW new \in Row, NEW todo \in ChangeTodos,
         Begin(r, ChangePlan(op, u, new, todo))
  PROVE  IndInv'
<1> DEFINE p == ChangePlan(op, u, new, todo)
<1>1. users[u] \in Row
  BY DEF IndInv, TypeOK, Exists
<1>2. Legal(p) /\ p # Idle /\ p.op = op
  BY <1>1, ChangePlanLegal
<1> HIDE DEF p
<1>3. p \notin Session
  BY <1>2 DEF Session
<1>4. RefreshInOrder(p, tokens, issued)
  BY <1>3 DEF RefreshInOrder
<1> QED
  BY <1>2, <1>4, BeginStep DEF p

LEMMA LoginBegins ==
  ASSUME IndInv, NEW r \in Request, NEW u \in User, NEW pw \in Password,
         NEW todo \in SessionTodos, Begin(r, SessionPlan("login", u, None, pw, todo))
  PROVE  IndInv'
<1> DEFINE p == SessionPlan("login", u, None, pw, todo)
<1>1. p \in Session /\ p.tok = None
  BY SessionPlanLegal
<1> HIDE DEF p
<1>2. Legal(p) /\ p # Idle /\ RefreshInOrder(p, tokens, issued)
  BY <1>1, IdleIsNoSession DEF Legal, RefreshInOrder
<1> QED
  BY <1>2, BeginStep DEF p

LEMMA WhenIsSeq ==
  ASSUME NEW cond, NEW step \in ChangeSteps
  PROVE  When(cond, step) \in Seq(ChangeSteps)
  BY DEF When

LEMMA ConcatTodo ==
  ASSUME NEW s \in Seq(ChangeSteps), NEW t \in ChangeTodos
  PROVE  s \o t \in ChangeTodos
<1>1. t \in Seq(ChangeSteps) /\ t # <<>>
  BY DEF ChangeTodos, ChangeSteps
<1>2. s \o t \in Seq(ChangeSteps) /\ Len(s \o t) = Len(s) + Len(t)
  BY <1>1, ConcatProperties
<1>3. Len(s) \in Nat /\ Len(t) \in Nat \ {0}
  BY <1>1, LenProperties, EmptySeq
<1>4. Len(<<>>) = 0
  BY EmptySeq
<1>5. s \o t = <<>> => Len(s \o t) = 0
  BY <1>4, Zenon
<1> QED
  BY <1>2, <1>3, <1>5 DEF ChangeTodos, ChangeSteps

LEMMA FixedTodos ==
  /\ <<"write">> \in ChangeTodos
  /\ <<"write", "revoke">> \in ChangeTodos
  /\ <<"revoke", "remove">> \in ChangeTodos
  BY DEF ChangeTodos

LEMMA GivenFacts ==
  ASSUME NEW S, NEW opt \in SUBSET S, NEW default \in S
  PROVE  Given(opt, default) \in S
<1>1. CASE opt = {}
  BY <1>1 DEF Given
<1>2. CASE opt # {}
  <2>1. (CHOOSE v \in opt : TRUE) \in opt
    BY <1>2
  <2> QED
    BY <1>2, <2>1 DEF Given
<1> QED
  BY <1>1, <1>2

LEMMA LoginStep ==
  ASSUME IndInv, NEW r \in Request, NEW u \in User, NEW p \in Password, Login(r, u, p)
  PROVE  IndInv'
<1> DEFINE todo == IF users[u].mfa THEN <<"mfa", "lookup", "issue">> ELSE <<"issue">>
<1>1. todo \in SessionTodos
  BY DEF SessionTodos
<1>2. Begin(r, SessionPlan("login", u, None, p, todo))
  BY DEF Login
<1> HIDE DEF todo
<1> QED
  BY <1>1, <1>2, LoginBegins

LEMMA PasskeyLoginStep ==
  ASSUME IndInv, NEW r \in Request, NEW u \in User, PasskeyLogin(r, u)
  PROVE  IndInv'
<1>1. users[u].pw \in Password
  BY DEF IndInv, TypeOK, PasskeyLogin, Exists, Row
<1>2. <<"lookup", "issue">> \in SessionTodos
  BY DEF SessionTodos
<1> QED
  BY <1>1, <1>2, LoginBegins DEF PasskeyLogin

LEMMA RefreshStep ==
  ASSUME IndInv, NEW r \in Request, NEW t \in Token, Refresh(r, t)
  PROVE  IndInv'
<1> DEFINE i == issued[t]
           b == SessionPlan("refresh", i.u, t, i.pw, <<"rotate", "lookup", "issue">>)
           p == [b EXCEPT !.late = @ \/ i.late]
<1>1. t \in tokens /\ Begin(r, p)
  BY DEF Refresh
<1>2. i \in Issue /\ i # None
  BY <1>1 DEF IndInv, TypeOK
<1>3. <<"rotate", "lookup", "issue">> \in SessionTodos /\ i.u \in User /\ i.pw \in Password
  BY <1>2 DEF Issue, SessionTodos
<1>4. b \in Session /\ b.op = "refresh" /\ b.tok = t /\ b.todo = <<"rotate", "lookup", "issue">>
  BY <1>3, SessionPlanLegal
<1>5. (b.late \/ i.late) \in BOOLEAN
  OBVIOUS
<1> HIDE DEF b, i
<1>6. p \in Session /\ p.op = "refresh" /\ p.tok = t /\ p.todo = b.todo
  BY <1>4, <1>5 DEF Session
<1> HIDE DEF p
<1>7. Legal(p) /\ p # Idle
  BY <1>6 DEF Legal, Session, Idle
<1>8. Head(p.todo) = "rotate"
  BY <1>4, <1>6
<1>9. RefreshInOrder(p, tokens, issued)
  BY <1>2, <1>6, <1>8 DEF RefreshInOrder, i
<1> QED
  BY <1>1, <1>7, <1>9, BeginStep

LEMMA ExistingRow == ASSUME TypeOK, NEW u \in User, Exists(u) PROVE users[u] \in Row
  BY DEF TypeOK, Exists

LEMMA ChangeStarts ==
  ASSUME IndInv, NEW r \in Request, NEW u \in User,
         \/ \E p \in Password : ChangePassword(r, u, p)
         \/ UpdateMe(r, u)
         \/ \E e \in Edit : Update(r, u, e)
         \/ Delete(r, u)
  PROVE  IndInv'
<1>1. Exists(u) /\ users[u] \in Row
  BY ExistingRow DEF IndInv, ChangePassword, UpdateMe, Update, Delete
<1>2. ASSUME NEW p \in Password, ChangePassword(r, u, p) PROVE IndInv'
  <2>1. [users[u] EXCEPT !.pw = p] \in Row
    BY <1>1 DEF Row
  <2> QED
    BY <1>1, <1>2, <2>1, FixedTodos, ChangeBegins DEF ChangePassword
<1>3. ASSUME UpdateMe(r, u) PROVE IndInv'
  BY <1>1, <1>3, FixedTodos, ChangeBegins DEF UpdateMe
<1>4. ASSUME NEW e \in Edit, Update(r, u, e) PROVE IndInv'
  <2> DEFINE row  == users[u]
             new  == [row EXCEPT !.pw = Given(e.pw, @), !.admin = Given(e.admin, @),
                                 !.active = Given(e.active, @)]
             todo == When(e.pw # {}, "revoke") \o When(row.admin /\ e.admin = {FALSE}, "count")
                       \o When(e.active = {FALSE}, "revoke") \o <<"write">>
  <2>1. /\ e.pw \in SUBSET Password /\ e.admin \in SUBSET BOOLEAN
        /\ e.active \in SUBSET BOOLEAN
    BY EditAssumption DEF Body
  <2>2. row.pw \in Password /\ row.admin \in BOOLEAN /\ row.active \in BOOLEAN
    BY <1>1 DEF Row
  <2>3. Given(e.pw, row.pw) \in Password
    BY <2>1, <2>2, GivenFacts
  <2>4. Given(e.admin, row.admin) \in BOOLEAN
    BY <2>1, <2>2, GivenFacts
  <2>5. Given(e.active, row.active) \in BOOLEAN
    BY <2>1, <2>2, GivenFacts
  <2>6. new \in Row
    BY <1>1, <2>3, <2>4, <2>5 DEF Row
  <2>7. todo \in ChangeTodos
    <3> DEFINE a == When(e.pw # {}, "revoke")
               b == When(row.admin /\ e.admin = {FALSE}, "count")
               c == When(e.active = {FALSE}, "revoke")
    <3>1. a \in Seq(ChangeSteps) /\ b \in Seq(ChangeSteps) /\ c \in Seq(ChangeSteps)
      BY WhenIsSeq DEF ChangeSteps
    <3> HIDE DEF a, b, c
    <3>2. (a \o b) \o c \in Seq(ChangeSteps)
      BY <3>1, ConcatProperties
    <3>3. ((a \o b) \o c) \o <<"write">> \in ChangeTodos
      BY <3>2, FixedTodos, ConcatTodo
    <3> QED
      BY <3>3 DEF a, b, c
  <2>8. Begin(r, ChangePlan("edit", u, new, todo))
    BY <1>4 DEF Update
  <2> HIDE DEF new, todo
  <2> QED
    BY <1>1, <2>6, <2>7, <2>8, ChangeBegins
<1>5. ASSUME Delete(r, u) PROVE IndInv'
  <2> DEFINE todo == When(users[u].admin, "count") \o <<"revoke", "remove">>
  <2>1. When(users[u].admin, "count") \in Seq(ChangeSteps)
    BY WhenIsSeq DEF ChangeSteps
  <2>2. todo \in ChangeTodos
    BY <2>1, FixedTodos, ConcatTodo
  <2>3. Begin(r, ChangePlan("delete", u, users[u], todo))
    BY <1>5 DEF Delete
  <2> HIDE DEF todo
  <2> QED
    BY <1>1, <2>2, <2>3, ChangeBegins
<1> QED
  BY <1>2, <1>3, <1>4, <1>5

-----------------------------------------------------------------------------
(* Statements.                                                             *)

\* What a step that issues nothing and leaves users alone has to show.
LEMMA QuietStep ==
  ASSUME IndInv, UNCHANGED <<users, issued>>, tokens' \subseteq tokens,
         server' \in {"down", "up", "failed"}, born' \subseteq User,
         excused' \subseteq Token, lastLoss' = lastLoss,
         req' \in Requests, \A s \in Request : Kept(req'[s], req[s])
  PROVE  IndInv'
<1>1. TypeOK'
  BY DEF IndInv, TypeOK, Requests
<1> QED
  BY <1>1, OrderKept DEF IndInv

\* Advancing past a statement other than the DeleteByHash, or ending a request.
LEMMA AdvancedKept ==
  ASSUME TypeOK, NEW r \in Request, InFlight(r), Head(req[r].todo) # "rotate",
         NEW s \in Request
  PROVE  Kept(Advanced(r)[s], req[s])
<1>1. CASE s = r
  BY <1>1, AdvancedFacts, IdleIsNoSession DEF Kept, InFlight
<1>2. CASE s # r
  BY <1>2, AdvancedFacts DEF Kept
<1> QED
  BY <1>1, <1>2

LEMMA EndedKept ==
  ASSUME TypeOK, NEW r \in Request, NEW s \in Request
  PROVE  Kept(Ended(r)[s], req[s])
  BY EndedFacts, IdleIsNoSession DEF Kept

LEMMA MFAVerifiedStep == ASSUME IndInv, NEW r \in Request, MFAVerified(r) PROVE IndInv'
<1>1. TypeOK /\ InFlight(r) /\ Head(req[r].todo) # "rotate"
  BY DEF IndInv, MFAVerified, At
<1>2. req' = Advanced(r) /\ req' \in Requests /\ \A s \in Request : Kept(req'[s], req[s])
  BY <1>1, AdvancedFacts, AdvancedKept DEF MFAVerified
<1> QED
  BY <1>1, <1>2, QuietStep DEF MFAVerified, TypeOK

LEMMA LookupStep == ASSUME IndInv, NEW r \in Request, Lookup(r) PROVE IndInv'
<1>1. TypeOK /\ InFlight(r) /\ Head(req[r].todo) # "rotate"
  BY DEF IndInv, Lookup, At
<1>2. req' = Advanced(r) \/ req' = Ended(r)
  BY DEF Lookup
<1>3. req' \in Requests /\ \A s \in Request : Kept(req'[s], req[s])
  BY <1>1, <1>2, AdvancedFacts, AdvancedKept, EndedFacts, EndedKept
<1> QED
  BY <1>1, <1>3, QuietStep DEF Lookup, TypeOK

\* The token inserted was never issued, so it is nobody's parent; its own
\* parent is gone, because the refresh that holds it is past its DeleteByHash.
LEMMA GenerateStep == ASSUME IndInv, NEW r \in Request, generateTokens(r) PROVE IndInv'
<1>1. /\ TypeOK /\ InFlight(r) /\ req[r] \in Session /\ Head(req[r].todo) = "issue"
      /\ req[r].todo \in SessionTodos
  BY AtFacts DEF IndInv, generateTokens, At, ChangeSteps
<1>2. ASSUME ~Exists(req[r].u) PROVE IndInv'
  <2>1. req' = Ended(r) /\ UNCHANGED <<server, users, born, tokens, issued, excused, lastLoss>>
    BY <1>2 DEF generateTokens
  <2>2. req' \in Requests /\ \A s \in Request : Kept(req'[s], req[s])
    BY <1>1, <2>1, EndedFacts, EndedKept
  <2> QED
    BY <1>1, <2>1, <2>2, QuietStep DEF TypeOK
<1>3. ASSUME Exists(req[r].u) PROVE IndInv'
  <2> DEFINE new == [u |-> req[r].u, pw |-> req[r].pw, parent |-> req[r].tok,
                     late |-> req[r].late]
  <2>1. PICK t \in Token :
          /\ issued[t] = None
          /\ tokens' = tokens \cup {t}
          /\ issued' = [issued EXCEPT ![t] = new]
          /\ excused' = IF req[r].tok \in excused THEN excused \cup {t} ELSE excused
    BY <1>3 DEF generateTokens
  <2>2. /\ req' = Advanced(r) /\ UNCHANGED <<server, users, born, lastLoss>>
    BY <1>3 DEF generateTokens
  <2>3. new \in Issue /\ new.u = req[r].u /\ new.parent = req[r].tok
    BY <1>1 DEF Session, Issue
  <2>4. new # None
    BY <2>3, NoneAssumption
  <2> HIDE DEF new
  <2>5. /\ issued'[t] = new
        /\ \A c \in Token \ {t} : issued'[c] = issued[c]
        /\ issued' \in [Token -> Issue \cup {None}]
    BY <1>1, <2>1, <2>3 DEF TypeOK
  <2>6. req' \in Requests /\ \A s \in Request : Kept(req'[s], req[s])
    BY <1>1, <2>2, AdvancedFacts, AdvancedKept
  <2>7. req'[r] = Idle
    <3>1. Len(req[r].todo) = 1
      BY <1>1, SessionTodoFacts
    <3> QED
      BY <1>1, <2>2, <3>1 DEF Advanced, TypeOK
  <2>8. TypeOK'
    <3>1. tokens' \subseteq Token /\ excused' \subseteq Token
      BY <1>1, <2>1 DEF TypeOK
    <3>2. \A x \in tokens' : issued'[x] # None /\ users'[issued'[x].u] # None
      BY <1>1, <1>3, <2>1, <2>2, <2>3, <2>4, <2>5 DEF TypeOK, Exists
    <3> QED
      BY <1>1, <2>2, <2>5, <2>6, <3>1, <3>2 DEF TypeOK, Requests
  <2>9. ASSUME NEW s \in Request PROVE RefreshInOrder(req'[s], tokens', issued')
    <3>1. CASE s = r
      BY <2>7, <3>1, IdleIsNoSession DEF RefreshInOrder
    <3>2. CASE s # r
      <4>1. req'[s] = req[s]
        BY <1>1, <2>2, <3>2, AdvancedFacts
      <4>2. RefreshInOrder(req[s], tokens, issued)
        BY DEF IndInv
      <4> QED
        BY <2>1, <2>4, <2>5, <4>1, <4>2 DEF RefreshInOrder
    <3> QED
      BY <3>1, <3>2
  <2>10. SpentParents'
    <3> SUFFICES ASSUME NEW c \in Token, issued'[c] # None, issued'[c].parent # None
                 PROVE  issued'[c].parent \notin tokens' /\ issued'[issued'[c].parent] # None
      BY DEF SpentParents
    <3>1. CASE c = t
      <4>1. issued'[c].parent = req[r].tok /\ req[r].tok # None
        BY <2>3, <2>5, <3>1
      <4>2. req[r].tok \in Token
        BY <1>1, <4>1 DEF Session
      <4>3. issued[req[r].tok] # None /\ req[r].tok \notin tokens
        BY <1>1, <4>1 DEF IndInv, RefreshInOrder
      <4> QED
        BY <2>1, <2>4, <2>5, <4>1, <4>2, <4>3
    <3>2. CASE c # t
      <4>1. issued[c] # None /\ issued'[c] = issued[c] /\ issued[c].parent # None
        BY <2>5, <3>2
      <4>2. issued[c].parent \in Token
        BY <1>1, <4>1 DEF TypeOK, Issue
      <4>3. issued[c].parent \notin tokens /\ issued[issued[c].parent] # None
        BY <4>1 DEF IndInv, SpentParents
      <4> QED
        BY <2>1, <2>4, <2>5, <4>1, <4>2, <4>3
    <3> QED
      BY <3>1, <3>2
  <2> QED
    BY <2>8, <2>9, <2>10 DEF IndInv
<1> QED
  BY <1>2, <1>3

LEMMA RotateStep == ASSUME IndInv, NEW r \in Request, Rotate(r) PROVE IndInv'
<1>1. TypeOK /\ InFlight(r)
  BY DEF IndInv, Rotate, At
<1>2. /\ tokens' = tokens \ {req[r].tok}
      /\ req' = Advanced(r)
      /\ UNCHANGED <<server, users, born, issued, excused, lastLoss>>
  BY DEF Rotate
<1>3. req' \in Requests
  BY <1>1, <1>2, AdvancedFacts
<1>4. TypeOK'
  BY <1>1, <1>2, <1>3 DEF TypeOK, Requests
<1>5. SpentParents'
  BY <1>2 DEF IndInv, SpentParents
<1>6. ASSUME NEW s \in Request PROVE RefreshInOrder(req'[s], tokens', issued')
  <2>1. RefreshInOrder(req[s], tokens, issued)
    BY DEF IndInv
  <2>2. CASE s # r
    BY <1>1, <1>2, <2>1, <2>2, AdvancedFacts DEF RefreshInOrder
  <2>3. CASE s = r
    <3>1. req'[r] \in Session => req[r] \in Session /\ req'[r].tok = req[r].tok
      BY <1>1, <1>2, AdvancedFacts, IdleIsNoSession
    <3> QED
      BY <1>2, <2>1, <2>3, <3>1 DEF RefreshInOrder
  <2> QED
    BY <2>2, <2>3
<1> QED
  BY <1>4, <1>5, <1>6 DEF IndInv

LEMMA CountStep == ASSUME IndInv, NEW r \in Request, Count(r) PROVE IndInv'
<1>1. TypeOK /\ InFlight(r) /\ Head(req[r].todo) # "rotate" /\ req[r] \in Change
  BY AtFacts DEF IndInv, Count, At, ChangeSteps
<1>2. ActiveAdmins \subseteq User
  BY DEF ActiveAdmins
<1>3. CASE req' = Ended(r)
  <2>1. req' \in Requests /\ \A s \in Request : Kept(req'[s], req[s])
    BY <1>1, <1>3, EndedFacts, EndedKept
  <2> QED
    BY <1>1, <2>1, QuietStep DEF Count, TypeOK
<1>4. CASE req' = [Advanced(r) EXCEPT ![r].seen = ActiveAdmins]
  <2> DEFINE p == [Advanced(r)[r] EXCEPT !.seen = ActiveAdmins]
  <2>1. /\ Advanced(r) \in Requests
        /\ req' = [Advanced(r) EXCEPT ![r] = p]
    BY <1>1, <1>4, AdvancedFacts
  <2>2. Advanced(r)[r] \in Change \cup {Idle}
    BY <1>1, <2>1, AdvancedFacts, IdleIsNoSession DEF Requests
  <2>3. p \in Change \cup {Idle}
    <3>1. ASSUME Advanced(r)[r] \in Change PROVE p \in Change
      BY <1>2, <3>1 DEF Change
    <3>2. ASSUME Advanced(r)[r] = Idle PROVE p = Idle
      BY <3>2 DEF Idle
    <3> QED
      BY <2>2, <3>1, <3>2
  <2> HIDE DEF p
  <2>4. req' \in Requests /\ req'[r] = p /\ \A s \in Request \ {r} : req'[s] = Advanced(r)[s]
    BY <2>1, <2>3 DEF Requests
  <2>5. \A s \in Request : Kept(req'[s], req[s])
    BY <1>1, <2>3, <2>4, AdvancedKept, IdleIsNoSession DEF Kept
  <2> QED
    BY <1>1, <2>4, <2>5, QuietStep DEF Count, TypeOK
<1> QED
  BY <1>3, <1>4 DEF Count

LEMMA RevokeStep == ASSUME IndInv, NEW r \in Request, DeleteAllForUser(r) PROVE IndInv'
<1>1. TypeOK /\ InFlight(r) /\ Head(req[r].todo) # "rotate"
  BY DEF IndInv, DeleteAllForUser, At
<1>2. req' \in Requests /\ \A s \in Request : Kept(req'[s], req[s])
  BY <1>1, AdvancedFacts, AdvancedKept DEF DeleteAllForUser
<1>3. TokensOf(req[r].u) \subseteq tokens
  BY DEF TokensOf
<1>4. tokens' \subseteq tokens /\ excused' \subseteq Token
  BY <1>1, <1>3 DEF DeleteAllForUser, TypeOK
<1> QED
  BY <1>1, <1>2, <1>4, QuietStep DEF DeleteAllForUser, TypeOK

LEMMA WriteStep == ASSUME IndInv, NEW r \in Request, Write(r) PROVE IndInv'
<1> DEFINE u == req[r].u
           stale == users[u].pw # req[r].base.pw \/ users[u].active # req[r].base.active
<1>1. /\ TypeOK /\ InFlight(r) /\ Head(req[r].todo) # "rotate" /\ req[r] \in Change
      /\ u \in User /\ req[r].new \in Row
  BY AtFacts DEF IndInv, Write, At, ChangeSteps, Change
<1>2. CASE ~Exists(u)
  <2>1. req' = Ended(r) /\ UNCHANGED <<server, users, born, tokens, issued, excused, lastLoss>>
    BY <1>2 DEF Write
  <2>2. req' \in Requests /\ \A s \in Request : Kept(req'[s], req[s])
    BY <1>1, <2>1, EndedFacts, EndedKept
  <2> QED
    BY <1>1, <2>1, <2>2, QuietStep DEF TypeOK
<1>3. CASE Exists(u)
  <2>1. /\ users' = [users EXCEPT ![u] = req[r].new]
        /\ excused' = IF stale THEN excused \cup TokensOf(u) ELSE excused
        /\ req' = IF stale THEN MarkLate(Advanced(r), u) ELSE Advanced(r)
        /\ lastLoss' = IF u \in ActiveAdmins /\ ~(req[r].new.admin /\ req[r].new.active)
                         THEN Loss(r) ELSE lastLoss
        /\ UNCHANGED <<server, born, tokens, issued>>
    BY <1>3 DEF Write
  <2>2. Advanced(r) \in Requests /\ \A s \in Request : Kept(Advanced(r)[s], req[s])
    BY <1>1, AdvancedFacts, AdvancedKept
  <2>3. \A s \in Request : IssuesFor(s, u) => Advanced(r)[s] = req[s]
    <3>1. ~IssuesFor(r, u)
      BY <1>1 DEF IssuesFor, Change
    <3> QED
      BY <1>1, <3>1, AdvancedFacts
  <2> HIDE DEF stale
  <2>4. req' \in Requests /\ \A s \in Request : Kept(req'[s], req[s])
    <3>1. CASE stale
      <4>1. req' = MarkLate(Advanced(r), u)
        BY <2>1, <3>1
      <4>2. req' \in Requests /\ \A s \in Request : Kept(req'[s], Advanced(r)[s])
        BY <1>1, <2>2, <2>3, <4>1, MarkLateFacts
      <4> QED
        BY <2>2, <4>2 DEF Kept
    <3>2. CASE ~stale
      BY <2>1, <2>2, <3>2
    <3> QED
      BY <3>1, <3>2
  <2>5. excused' \subseteq Token /\ lastLoss' \in {"none", "deactivated", "stale", "race", "guarded"}
    BY <1>1, <2>1 DEF TypeOK, TokensOf, Loss
  <2>6. /\ users' \in [User -> Row \cup {None}]
        /\ \A t \in tokens : users'[issued[t].u] # None
    BY <1>1, <2>1, NoneAssumption DEF TypeOK
  <2>7. TypeOK'
    BY <1>1, <2>1, <2>4, <2>5, <2>6 DEF TypeOK, Requests
  <2> QED
    BY <2>1, <2>4, <2>7, OrderKept DEF IndInv
<1> QED
  BY <1>2, <1>3

LEMMA RemoveStep == ASSUME IndInv, NEW r \in Request, Remove(r) PROVE IndInv'
<1> DEFINE u == req[r].u
<1>1. TypeOK /\ InFlight(r) /\ u \in User
  BY AtFacts DEF IndInv, Remove
<1>2. /\ users' = [users EXCEPT ![u] = None]
      /\ tokens' = tokens \ TokensOf(u)
      /\ lastLoss' = IF u \in ActiveAdmins THEN Loss(r) ELSE lastLoss
      /\ req' = Ended(r)
      /\ UNCHANGED <<server, born, issued, excused>>
  BY DEF Remove
<1>3. req' \in Requests /\ \A s \in Request : Kept(req'[s], req[s])
  BY <1>1, <1>2, EndedFacts, EndedKept
<1>4. lastLoss' \in {"none", "deactivated", "stale", "race", "guarded"}
  BY <1>1, <1>2 DEF TypeOK, Loss
<1>5. /\ users' \in [User -> Row \cup {None}]
      /\ \A t \in tokens' : users'[issued[t].u] # None
  BY <1>1, <1>2 DEF TypeOK, TokensOf
<1>6. TypeOK'
  BY <1>1, <1>2, <1>3, <1>4, <1>5 DEF TypeOK, Requests
<1> QED
  BY <1>2, <1>3, <1>6, OrderKept DEF IndInv

LEMMA AbortStep == ASSUME IndInv, NEW r \in Request, Abort(r) PROVE IndInv'
<1>1. TypeOK /\ Left(r) \subseteq tokens
  BY DEF IndInv, Left, TokensOf
<1>2. req' \in Requests /\ \A s \in Request : Kept(req'[s], req[s])
  BY <1>1, EndedFacts, EndedKept DEF Abort
<1> QED
  BY <1>1, <1>2, QuietStep DEF Abort, TypeOK

-----------------------------------------------------------------------------
(* Steps outside requests.                                                 *)

LEMMA SameRequests ==
  ASSUME TypeOK, req' = req
  PROVE  req' \in Requests /\ \A s \in Request : Kept(req'[s], req[s])
  BY DEF TypeOK, Requests, Kept

LEMMA TokenGoneStep ==
  ASSUME IndInv, NEW t \in Token, Logout(t) \/ DeleteExpired(t)
  PROVE  IndInv'
<1>1. TypeOK /\ req' = req
  BY DEF IndInv, Logout, DeleteExpired
<1> QED
  BY <1>1, SameRequests, QuietStep DEF Logout, DeleteExpired, TypeOK

\* A row is put where there was none, or replaced.
LEMMA UsersStep ==
  ASSUME IndInv, UNCHANGED <<tokens, issued, req, excused, lastLoss>>,
         server' \in {"down", "up", "failed"}, born' \subseteq User,
         NEW u \in User, NEW row \in Row, users' = [users EXCEPT ![u] = row]
  PROVE  IndInv'
<1>1. TypeOK
  BY DEF IndInv
<1>2. /\ users' \in [User -> Row \cup {None}]
      /\ \A t \in tokens : users'[issued[t].u] # None
  BY <1>1, NoneAssumption DEF TypeOK
<1>3. TypeOK'
  BY <1>1, <1>2 DEF TypeOK
<1> QED
  BY <1>1, <1>3, SameRequests, OrderKept DEF IndInv

LEMMA BootstrapStep == ASSUME IndInv, BootstrapAdmin PROVE IndInv'
<1>1. TypeOK /\ UNCHANGED <<tokens, issued, req, excused, lastLoss>>
  BY DEF IndInv, BootstrapAdmin
<1>2. CASE UNCHANGED <<users, born>> /\ server' \in {"up", "failed"}
  BY <1>1, <1>2, SameRequests, QuietStep DEF TypeOK
<1>3. CASE \E u \in BootUser \ born :
             /\ users' = [users EXCEPT ![u] =
                  [pw |-> FirstPassword, admin |-> TRUE, active |-> TRUE, mfa |-> FALSE]]
             /\ born' = born \cup {u} /\ server' = "up"
  <2> DEFINE row == [pw |-> FirstPassword, admin |-> TRUE, active |-> TRUE, mfa |-> FALSE]
  <2>1. PICK u \in BootUser \ born :
          users' = [users EXCEPT ![u] = row] /\ born' = born \cup {u} /\ server' = "up"
    BY <1>3
  <2>2. row \in Row
    BY PasswordAssumption DEF Row
  <2>3. u \in User /\ born' \subseteq User
    BY <1>1, <2>1, BootUserAssumption DEF TypeOK
  <2> HIDE DEF row
  <2> QED
    BY <1>1, <2>1, <2>2, <2>3, UsersStep
<1> QED
  BY <1>2, <1>3 DEF BootstrapAdmin

LEMMA CreateStep ==
  ASSUME IndInv, NEW u \in User, NEW admin \in BOOLEAN, CreateUser(u, admin)
  PROVE  IndInv'
<1> DEFINE row == [pw |-> FirstPassword, admin |-> admin, active |-> TRUE, mfa |-> FALSE]
<1>1. users' = [users EXCEPT ![u] = row] /\ born' = born \cup {u}
  BY DEF CreateUser
<1>2. row \in Row
  BY PasswordAssumption DEF Row
<1>3. /\ born' \subseteq User /\ server' \in {"down", "up", "failed"}
      /\ UNCHANGED <<tokens, issued, req, excused, lastLoss>>
  BY <1>1 DEF IndInv, TypeOK, CreateUser
<1> HIDE DEF row
<1> QED
  BY <1>1, <1>2, <1>3, UsersStep

LEMMA SetMFAStep ==
  ASSUME IndInv, NEW u \in User, NEW on \in BOOLEAN, SetMFAEnabled(u, on)
  PROVE  IndInv'
<1> DEFINE row == [users[u] EXCEPT !.mfa = on]
<1>1. users' = [users EXCEPT ![u] = row]
  BY DEF SetMFAEnabled
<1>2. users[u] \in Row
  BY ExistingRow DEF IndInv, SetMFAEnabled
<1>3. row \in Row
  BY <1>2 DEF Row
<1>4. /\ born' \subseteq User /\ server' \in {"down", "up", "failed"}
      /\ UNCHANGED <<tokens, issued, req, excused, lastLoss>>
  BY DEF IndInv, TypeOK, SetMFAEnabled
<1> HIDE DEF row
<1> QED
  BY <1>1, <1>3, <1>4, UsersStep

LEMMA CrashStep == ASSUME IndInv, Crash PROVE IndInv'
<1>1. TypeOK
  BY DEF IndInv
<1>2. \A r \in Request : req'[r] = req[r] \/ req'[r] = Idle
  BY DEF Crash
<1>3. req' \in Requests
  BY <1>1 DEF Crash, TypeOK, Requests
<1>4. \A r \in Request : Kept(req'[r], req[r])
  BY <1>2, IdleIsNoSession DEF Kept
<1>5. excused' \subseteq Token
  <2>1. ASSUME NEW r \in Request PROVE Left(r) \subseteq Token
    BY <1>1 DEF Left, TokensOf, TypeOK
  <2> QED
    BY <1>1, <2>1 DEF Crash, TypeOK
<1> QED
  BY <1>1, <1>3, <1>4, <1>5, QuietStep DEF Crash, TypeOK

-----------------------------------------------------------------------------

LEMMA InitInv == Init => IndInv
<1> SUFFICES ASSUME Init PROVE IndInv
  OBVIOUS
<1>1. TypeOK
  BY DEF Init, TypeOK
<1>2. SpentParents
  BY DEF Init, SpentParents
<1>3. ASSUME NEW r \in Request PROVE RefreshInOrder(req[r], tokens, issued)
  BY IdleIsNoSession DEF Init, RefreshInOrder
<1> QED
  BY <1>1, <1>2, <1>3 DEF IndInv

LEMMA Step == ASSUME IndInv, [Next]_vars PROVE IndInv'
<1>1. ASSUME NEW r \in Request, RequestStart(r) PROVE IndInv'
  <2>1. ASSUME NEW t \in Token, Refresh(r, t) PROVE IndInv'
    BY <2>1, RefreshStep
  <2>2. ASSUME NEW u \in User, NEW p \in Password, Login(r, u, p) PROVE IndInv'
    BY <2>2, LoginStep
  <2>3. ASSUME NEW u \in User, PasskeyLogin(r, u) PROVE IndInv'
    BY <2>3, PasskeyLoginStep
  <2> QED
    BY <1>1, <2>1, <2>2, <2>3, ChangeStarts DEF RequestStart
<1>2. ASSUME NEW r \in Request, RequestStep(r) PROVE IndInv'
  BY <1>2, MFAVerifiedStep, LookupStep, GenerateStep, RotateStep, CountStep, RevokeStep,
     WriteStep, RemoveStep, AbortStep DEF RequestStep
<1>3. ASSUME NEW t \in Token, Logout(t) \/ DeleteExpired(t) PROVE IndInv'
  BY <1>3, TokenGoneStep
<1>4. ASSUME NEW u \in User, NEW b \in BOOLEAN, CreateUser(u, b) \/ SetMFAEnabled(u, b)
      PROVE  IndInv'
  BY <1>4, CreateStep, SetMFAStep
<1>5. CASE UNCHANGED vars
  BY <1>5, SameRequests, QuietStep DEF IndInv, TypeOK, vars
<1> QED
  BY <1>1, <1>2, <1>3, <1>4, <1>5, BootstrapStep, CrashStep DEF Next

LEMMA Invariant == Spec => []IndInv
<1>1. IndInv /\ [Next]_vars => IndInv'
  BY Step
<1> QED
  BY InitInv, <1>1, PTL DEF Spec

\* Type correctness of Accounts, the foreign key of the refresh_tokens table
\* included.
THEOREM TypeCorrect == Spec => []TypeOK
<1>1. IndInv => TypeOK
  BY DEF IndInv
<1> QED
  BY Invariant, <1>1, PTL

\* A refresh token that has a successor is never accepted again, however
\* requests, failures, restarts and cleanups interleave (auth_service.go,
\* Refresh: DeleteByHash before generateTokens).
THEOREM SpentTokensAreRefused == Spec => []ReplayIsRefused
<1>1. IndInv => ReplayIsRefused
  BY NoneAssumption DEF IndInv, TypeOK, SpentParents, ReplayIsRefused
<1> QED
  BY Invariant, <1>1, PTL

-----------------------------------------------------------------------------
(* Sessions that end.                                                      *)
(*                                                                         *)
(* LiveSessionsAreCurrent excuses a user while a request that ends his     *)
(* sessions is in flight. What is true then is needed as well: a clean     *)
(* token may be out of date only between the write and the revocation of a *)
(* password change; an edit revokes first, and what is issued after that   *)
(* is late; and a session being made for a settled user, from no excused   *)
(* token, knows his password.                                              *)

PasswordTodos == {<<"write", "revoke">>, <<"revoke">>}
EditTodos     == {<<"write">>, <<"revoke", "write">>, <<"count", "write">>,
                  <<"revoke", "count", "write">>, <<"count", "revoke", "write">>,
                  <<"revoke", "revoke", "write">>, <<"revoke", "count", "revoke", "write">>}
DeleteTodos   == {<<"count", "revoke", "remove">>, <<"revoke", "remove">>, <<"remove">>}
CountTodos    == {<<"count", "write">>, <<"revoke", "count", "write">>,
                  <<"count", "revoke", "write">>, <<"revoke", "count", "revoke", "write">>,
                  <<"count", "revoke", "remove">>}

Clean(u) == {t \in TokensOf(u) : ~issued[t].late /\ t \notin excused}

\* r has written a password and not yet revoked the sessions.
Dirties(r, u) ==
  InFlight(r) /\ req[r].u = u /\ req[r].op = "password" /\ Head(req[r].todo) = "revoke"
Dirty(u) == \E r \in Request : Dirties(r, u)

CleanTokensAreCurrent ==
  \A t \in tokens : t \in Clean(issued[t].u) =>
    \/ users[issued[t].u].active /\ users[issued[t].u].pw = issued[t].pw
    \/ Dirty(issued[t].u)

SessionInOrder(r) ==
  /\ req[r].u \in born
  /\ ~req[r].late => Settled(req[r].u)
  /\ (~req[r].late /\ req[r].tok \notin excused /\ Exists(req[r].u)) =>
       /\ users[req[r].u].pw = req[r].pw
       /\ req[r].todo = <<"issue">> => users[req[r].u].active

\* An edit that takes a session's right away.
Takes(p) == p.new.pw # p.base.pw \/ (p.base.active /\ ~p.new.active)

ChangeInOrder(r) ==
  LET p == req[r] IN
  /\ p.op = "password" => p.todo \in PasswordTodos
  /\ p.op = "profile" =>
       p.todo = <<"write">> /\ p.new.pw = p.base.pw /\ p.new.active = p.base.active
  /\ p.op = "edit" =>
       /\ p.todo \in EditTodos
       /\ Takes(p) /\ p.todo \in {<<"write">>, <<"count", "write">>} => Clean(p.u) = {}
  /\ p.op = "delete" => p.todo \in DeleteTodos

RequestsInOrder ==
  \A r \in Request : InFlight(r) =>
    /\ req[r] \in Session => SessionInOrder(r)
    /\ req[r] \in Change => ChangeInOrder(r)

BornOnce == \A u \in User : Exists(u) => u \in born

SessionsInv == BornOnce /\ RequestsInOrder /\ CleanTokensAreCurrent
AccountsInv == IndInv /\ SessionsInv

-----------------------------------------------------------------------------
(* What a step does to a request that goes on.                             *)

\* It keeps what the request is about; a session may be marked.
Goes(n, p) ==
  /\ n.op = p.op /\ n.u = p.u
  /\ p \in Session => n \in Session /\ n.tok = p.tok /\ n.pw = p.pw /\ (p.late => n.late)
  /\ p \in Change => n \in Change /\ n.base = p.base /\ n.new = p.new

Rests(n, p) == Goes(n, p) /\ n.todo = p.todo

LEMMA Kinds ==
  ASSUME TypeOK, NEW r \in Request, InFlight(r)
  PROVE  /\ req[r] \in Session \/ req[r] \in Change
         /\ ~(req[r] \in Session /\ req[r] \in Change)
         /\ req[r].u \in User
         /\ req[r] \in Session <=> req[r].op \in {"login", "refresh"}
         /\ req[r] \in Session => req[r].todo \in SessionTodos /\ req[r].late \in BOOLEAN
         /\ req[r] \in Change => /\ req[r].op \in {"password", "profile", "edit", "delete"}
                                 /\ req[r].todo \in ChangeTodos
                                 /\ req[r].base \in Row /\ req[r].new \in Row
<1>1. req[r] \in Session \cup Change
  BY DEF TypeOK, InFlight
<1> QED
  BY <1>1 DEF Session, Change

LEMMA RestsSelf == ASSUME TypeOK, NEW r \in Request, InFlight(r) PROVE Rests(req[r], req[r])
  BY DEF Rests, Goes

LEMMA AdvancedGoes ==
  ASSUME TypeOK, NEW r \in Request, InFlight(r)
  PROVE  /\ Len(req[r].todo) = 1 => Advanced(r)[r] = Idle
         /\ Advanced(r)[r] # Idle =>
              /\ Goes(Advanced(r)[r], req[r])
              /\ Advanced(r)[r].todo = Tail(req[r].todo)
              /\ req[r] \in Change => Advanced(r)[r].seen = req[r].seen
<1> DEFINE n == [req[r] EXCEPT !.todo = Tail(req[r].todo)]
<1>1. Advanced(r)[r] = IF Len(req[r].todo) = 1 THEN Idle ELSE n
  BY DEF Advanced, TypeOK
<1>2. ASSUME Len(req[r].todo) # 1
      PROVE  Goes(n, req[r]) /\ n.todo = Tail(req[r].todo) /\ (req[r] \in Change => n.seen = req[r].seen)
  <2>1. CASE req[r] \in Session
    <3>1. Tail(req[r].todo) \in SessionTodos
      BY <1>2, <2>1, Kinds, SessionTodoFacts
    <3> QED
      BY <2>1, <3>1 DEF Goes, Session, Change
  <2>2. CASE req[r] \in Change
    <3>1. Tail(req[r].todo) \in ChangeTodos
      BY <1>2, <2>2, Kinds, ChangeTodoFacts
    <3> QED
      BY <2>2, <3>1 DEF Goes, Session, Change
  <2> QED
    BY <2>1, <2>2, Kinds
<1> HIDE DEF n
<1> QED
  BY <1>1, <1>2

\* Marking: sessions for u are late, the rest is as it was.
LEMMA MarkedRests ==
  ASSUME TypeOK, NEW u \in User, NEW q \in Requests,
         \A s \in Request : IssuesFor(s, u) => q[s] = req[s],
         NEW s \in Request
  PROVE  /\ IssuesFor(s, u) => Rests(MarkLate(q, u)[s], req[s]) /\ MarkLate(q, u)[s].late
         /\ ~IssuesFor(s, u) => MarkLate(q, u)[s] = q[s]
<1>1. CASE IssuesFor(s, u)
  <2>1. req[s] \in Session
    BY <1>1, Kinds DEF IssuesFor
  <2>2. MarkLate(q, u)[s] = [req[s] EXCEPT !.late = TRUE]
    BY <1>1 DEF MarkLate
  <2>3. [req[s] EXCEPT !.late = TRUE] \in Session
    BY <2>1 DEF Session
  <2> QED
    BY <1>1, <2>1, <2>2, <2>3 DEF Rests, Goes, Session, Change
<1>2. CASE ~IssuesFor(s, u)
  BY <1>2 DEF MarkLate
<1> QED
  BY <1>1, <1>2

LEMMA GoesEnds ==
  ASSUME NEW n, NEW p, Goes(n, p), p \in Session \cup Change
  PROVE  EndsSessions(n) <=> EndsSessions(p)
<1>1. CASE p \in Change
  BY <1>1 DEF Goes, EndsSessions
<1>2. CASE p \in Session
  BY <1>2 DEF Goes, EndsSessions, Session
<1> QED
  BY <1>1, <1>2

-----------------------------------------------------------------------------
(* What keeps the parts of the invariant.                                  *)

\* A user with nothing more in flight than before stays settled.
LEMMA SettledKept ==
  ASSUME TypeOK, NEW u, Settled(u),
         \A s \in Request : InFlight(s)' => InFlight(s) /\ Goes(req'[s], req[s])
  PROVE  Settled(u)'
<1> SUFFICES ASSUME NEW s \in Request, InFlight(s)', req'[s].u = u, EndsSessions(req'[s])
             PROVE  FALSE
  BY DEF Settled, EndsSessions, InFlight
<1>1. InFlight(s) /\ Goes(req'[s], req[s]) /\ req[s] \in Session \cup Change
  BY Kinds
<1>2. EndsSessions(req[s]) /\ req[s].u = u
  BY <1>1, GoesEnds DEF Goes
<1> QED
  BY <1>1, <1>2 DEF Settled

\* The row of u lets in whoever it did before.
RowKept(u) ==
  users'[u] # None =>
    /\ users[u] # None
    /\ users'[u].pw = users[u].pw
    /\ users[u].active => users'[u].active

\* A session that rests or goes on, for a user whose row is kept and who stays
\* settled, unless it is late.
LEMMA SessionKept ==
  ASSUME NEW s \in Request, NEW v, req[s].u = v,
         req[s] \in Session, SessionInOrder(s), Goes(req'[s], req[s]),
         born \subseteq born', excused \subseteq excused',
         req'[s].late \/ (Settled(v) => Settled(v)'),
         req'[s].late \/ RowKept(v),
         req'[s].todo = <<"issue">> =>
           req[s].todo = <<"issue">> \/ (users[v] # None => users[v].active)
  PROVE  SessionInOrder(s)'
<1>1. req'[s].u = v /\ req'[s].tok = req[s].tok /\ req'[s].pw = req[s].pw
      /\ (req[s].late => req'[s].late)
  BY DEF Goes
<1>2. Settled(v)' => Settled(req[s].u)'
  BY <1>1 DEF Settled, InFlight, EndsSessions
<1>3. req'[s].late \/ Settled(req[s].u)'
  BY <1>1, <1>2 DEF SessionInOrder
<1>4. v \in born'
  BY DEF SessionInOrder
<1> QED
  BY <1>1, <1>3, <1>4 DEF SessionInOrder, RowKept, Exists

\* A change at the same statement as before.
LEMMA ChangeKept ==
  ASSUME NEW s \in Request, NEW v, req[s].u = v,
         req[s] \in Change, ChangeInOrder(s), Rests(req'[s], req[s]),
         Clean(v)' \subseteq Clean(v)
  PROVE  ChangeInOrder(s)'
<1>1. /\ req'[s].op = req[s].op /\ req'[s].u = v /\ req'[s].todo = req[s].todo
      /\ req'[s].base = req[s].base /\ req'[s].new = req[s].new
  BY DEF Rests, Goes
<1>2. Clean(req[s].u)' \subseteq Clean(req[s].u)
  BY <1>1 DEF Clean, TokensOf
<1>3. Takes(req[s])' <=> Takes(req[s])
  BY <1>1 DEF Takes
<1> QED
  BY <1>1, <1>2, <1>3 DEF ChangeInOrder

\* A step that issues nothing adds no clean token.
LEMMA CleanShrinks ==
  ASSUME tokens' \subseteq tokens, issued' = issued, excused \subseteq excused', NEW u
  PROVE  Clean(u)' \subseteq Clean(u)
BY DEF Clean, TokensOf

LEMMA CleanKept ==
  ASSUME TypeOK, TypeOK', CleanTokensAreCurrent,
         tokens' \subseteq tokens, issued' = issued, excused \subseteq excused',
         \A u \in User : \/ RowKept(u) /\ (Dirty(u) => Dirty(u)')
                         \/ Clean(u)' = {}
                         \/ Dirty(u)'
  PROVE  CleanTokensAreCurrent'
<1> SUFFICES ASSUME NEW t \in tokens', t \in Clean(issued[t].u)', ~Dirty(issued[t].u)'
             PROVE  users'[issued'[t].u].active /\ users'[issued'[t].u].pw = issued'[t].pw
  BY DEF CleanTokensAreCurrent
<1>1. PICK v \in User : v = issued[t].u
  BY DEF TypeOK, Issue
<1>2. t \in tokens /\ users'[v] # None
  BY <1>1 DEF TypeOK
<1>3. t \in Clean(v)'
  BY <1>1 DEF Clean, TokensOf
<1>4. ~Dirty(v)'
  BY <1>1 DEF Dirty, Dirties, InFlight
<1>5. RowKept(v) /\ ~Dirty(v)
  BY <1>3, <1>4
<1>6. t \in Clean(v)
  BY <1>3, CleanShrinks
<1>7. users[v].active /\ users[v].pw = issued[t].pw
  BY <1>1, <1>2, <1>5, <1>6 DEF CleanTokensAreCurrent
<1> QED
  BY <1>1, <1>2, <1>5, <1>7 DEF RowKept

\* A user stays dirty unless the request that made him so moves.
LEMMA DirtyKept ==
  ASSUME TypeOK, NEW r, NEW u, Dirty(u), ~Dirties(r, u),
         \A s \in Request : s # r /\ InFlight(s) => Rests(req'[s], req[s]) /\ InFlight(s)'
  PROVE  Dirty(u)'
<1>1. PICK s \in Request : Dirties(s, u)
  BY DEF Dirty
<1>2. s # r /\ Rests(req'[s], req[s]) /\ InFlight(s)'
  BY <1>1 DEF Dirties
<1>3. Dirties(s, u)'
  BY <1>1, <1>2 DEF Dirties, Rests, Goes
<1> QED
  BY <1>3 DEF Dirty

LEMMA SessionHeads ==
  ASSUME NEW s \in SessionTodos
  PROVE  /\ Head(s) = "mfa" \/ Head(s) = "rotate" => Tail(s) = <<"lookup", "issue">>
         /\ Head(s) = "lookup" => Tail(s) = <<"issue">>
         /\ Head(s) = "issue" => s = <<"issue">> /\ Len(s) = 1
         /\ <<"lookup", "issue">> # <<"issue">>
<1>1. CASE s = <<"mfa", "lookup", "issue">>
  BY <1>1
<1>2. CASE s = <<"rotate", "lookup", "issue">>
  BY <1>2
<1>3. CASE s = <<"lookup", "issue">>
  BY <1>3
<1>4. CASE s = <<"issue">>
  BY <1>4
<1> QED
  BY <1>1, <1>2, <1>3, <1>4 DEF SessionTodos

LEMMA PasswordHeads ==
  ASSUME NEW s \in PasswordTodos
  PROVE  /\ Head(s) = "write" => Tail(s) = <<"revoke">> /\ Len(s) # 1
         /\ Head(s) # "write" => Head(s) = "revoke" /\ Len(s) = 1
<1>1. CASE s = <<"write", "revoke">>
  BY <1>1
<1>2. CASE s = <<"revoke">>
  BY <1>2
<1> QED
  BY <1>1, <1>2 DEF PasswordTodos

LEMMA DeleteHeads ==
  ASSUME NEW s \in DeleteTodos
  PROVE  /\ Len(s) # 1 => Tail(s) \in DeleteTodos
         /\ Head(s) # "write"
         /\ Head(s) = "remove" => s = <<"remove">>
<1>1. CASE s = <<"count", "revoke", "remove">>
  <2>1. Tail(s) = <<"revoke", "remove">>
    BY <1>1
  <2> QED
    BY <1>1, <2>1 DEF DeleteTodos
<1>2. CASE s = <<"revoke", "remove">>
  <2>1. Tail(s) = <<"remove">>
    BY <1>2
  <2> QED
    BY <1>2, <2>1 DEF DeleteTodos
<1>3. CASE s = <<"remove">>
  BY <1>3
<1> QED
  BY <1>1, <1>2, <1>3 DEF DeleteTodos

\* A revocation is the last statement of an edit but for a count and the write.
LEMMA EditHeads ==
  ASSUME NEW s \in EditTodos
  PROVE  /\ Len(s) # 1 => Tail(s) \in EditTodos /\ Head(s) \in {"count", "revoke"}
         /\ Head(s) = "write" => s = <<"write">> /\ Len(s) = 1
         /\ Head(s) = "count" /\ Tail(s) \in {<<"write">>, <<"count", "write">>}
              => s = <<"count", "write">>
<1>1. CASE s = <<"write">>
  BY <1>1
<1>2. CASE s = <<"revoke", "write">>
  <2>1. Tail(s) = <<"write">>
    BY <1>2
  <2> QED
    BY <1>2, <2>1 DEF EditTodos
<1>3. CASE s = <<"count", "write">>
  <2>1. Tail(s) = <<"write">>
    BY <1>3
  <2> QED
    BY <1>3, <2>1 DEF EditTodos
<1>4. CASE s = <<"revoke", "count", "write">>
  <2>1. Tail(s) = <<"count", "write">>
    BY <1>4
  <2> QED
    BY <1>4, <2>1 DEF EditTodos
<1>5. CASE s = <<"count", "revoke", "write">>
  <2>1. Tail(s) = <<"revoke", "write">>
    BY <1>5
  <2>2. Tail(s) # <<"write">> /\ Tail(s) # <<"count", "write">>
    BY <2>1
  <2> QED
    BY <1>5, <2>1, <2>2 DEF EditTodos
<1>6. CASE s = <<"revoke", "revoke", "write">>
  <2>1. Tail(s) = <<"revoke", "write">>
    BY <1>6
  <2> QED
    BY <1>6, <2>1 DEF EditTodos
<1>7. CASE s = <<"revoke", "count", "revoke", "write">>
  <2>1. Tail(s) = <<"count", "revoke", "write">>
    BY <1>7
  <2> QED
    BY <1>7, <2>1 DEF EditTodos
<1> QED
  BY <1>1, <1>2, <1>3, <1>4, <1>5, <1>6, <1>7 DEF EditTodos

\* One statement of a change done; after a revocation no clean token is left.
LEMMA ChangeAdvances ==
  ASSUME NEW r \in Request, NEW v, req[r].u = v,
         req[r] \in Change, ChangeInOrder(r), Goes(req'[r], req[r]),
         Len(req[r].todo) # 1, req'[r].todo = Tail(req[r].todo),
         Clean(v)' \subseteq Clean(v),
         Head(req[r].todo) = "revoke" => Clean(v)' = {}
  PROVE  ChangeInOrder(r)'
<1> DEFINE p == req[r]
<1>1. /\ req'[r].op = p.op /\ req'[r].u = v
      /\ req'[r].base = p.base /\ req'[r].new = p.new
  BY DEF Goes
<1>2. Clean(req[r].u)' = Clean(v)'
  BY <1>1 DEF Clean, TokensOf
<1>3. Takes(req[r])' <=> Takes(req[r])
  BY <1>1 DEF Takes
<1>4. CASE p.op = "password"
  <2>1. req'[r].todo \in PasswordTodos
    BY <1>4, PasswordHeads DEF ChangeInOrder, PasswordTodos
  <2> QED
    BY <1>1, <1>4, <2>1 DEF ChangeInOrder
<1>5. CASE p.op = "profile"
  <2>1. Len(p.todo) = 1
    BY <1>5 DEF ChangeInOrder
  <2> QED
    BY <2>1
<1>6. CASE p.op = "edit"
  <2>1. p.todo \in EditTodos
    BY <1>6 DEF ChangeInOrder
  <2>2. Tail(p.todo) \in EditTodos /\ Head(p.todo) \in {"count", "revoke"}
    BY <2>1, EditHeads
  <2>3. ASSUME Takes(p), Tail(p.todo) \in {<<"write">>, <<"count", "write">>}
        PROVE  Clean(v)' = {}
    <3>1. CASE Head(p.todo) = "count"
      <4>1. p.todo = <<"count", "write">>
        BY <2>1, <2>3, <3>1, EditHeads
      <4> QED
        BY <1>6, <2>3, <4>1 DEF ChangeInOrder
    <3> QED
      BY <2>2, <3>1
  <2> QED
    BY <1>1, <1>2, <1>3, <1>6, <2>2, <2>3 DEF ChangeInOrder
<1>7. CASE p.op = "delete"
  <2>1. Tail(p.todo) \in DeleteTodos
    BY <1>7, DeleteHeads DEF ChangeInOrder
  <2> QED
    BY <1>1, <1>7, <2>1 DEF ChangeInOrder
<1>8. p.op \in {"password", "profile", "edit", "delete"}
  BY DEF Change
<1> QED
  BY <1>4, <1>5, <1>6, <1>7, <1>8

-----------------------------------------------------------------------------
(* Statements.                                                             *)

NoNewRequest == \A s \in Request : InFlight(s)' => InFlight(s) /\ Goes(req'[s], req[s])

\* A request that rests while another takes a step.
LEMMA OtherKept ==
  ASSUME AccountsInv, NoNewRequest, NEW s \in Request, InFlight(s)', Rests(req'[s], req[s]),
         tokens' \subseteq tokens, issued' = issued, excused \subseteq excused',
         born \subseteq born',
         \A u \in born : RowKept(u) \/ (IssuesFor(s, u) => req'[s].late)
  PROVE  /\ req'[s] \in Session => SessionInOrder(s)'
         /\ req'[s] \in Change => ChangeInOrder(s)'
<1>1. TypeOK /\ InFlight(s)
  BY DEF AccountsInv, IndInv, NoNewRequest
<1>2. CASE req[s] \in Session
  <2>1. req[s].u \in User /\ SessionInOrder(s) /\ IssuesFor(s, req[s].u)
    BY <1>1, <1>2, Kinds DEF AccountsInv, SessionsInv, RequestsInOrder, IssuesFor
  <2>2. PICK v \in User : req[s].u = v
    BY <2>1
  <2>3. v \in born
    BY <2>1, <2>2 DEF SessionInOrder
  <2>4. req'[s].late \/ RowKept(v)
    BY <2>1, <2>2, <2>3
  <2>5. Settled(v) => Settled(v)'
    BY <1>1, SettledKept DEF NoNewRequest
  <2>6. Goes(req'[s], req[s]) /\ req'[s].todo = req[s].todo
    BY DEF Rests
  <2>7. SessionInOrder(s)'
    BY <1>2, <2>1, <2>2, <2>4, <2>5, <2>6, SessionKept
  <2>8. req'[s] \notin Change
    BY <1>2, <2>6 DEF Goes, Session, Change
  <2> QED
    BY <2>7, <2>8
<1>3. CASE req[s] \in Change
  <2>1. ChangeInOrder(s)
    BY <1>1, <1>3 DEF AccountsInv, SessionsInv, RequestsInOrder
  <2>2. PICK v : v = req[s].u
    OBVIOUS
  <2>3. Clean(v)' \subseteq Clean(v)
    BY CleanShrinks
  <2>4. ChangeInOrder(s)'
    BY <1>3, <2>1, <2>2, <2>3, ChangeKept
  <2>5. req'[s] \notin Session
    BY <1>3 DEF Rests, Goes, Session, Change
  <2> QED
    BY <2>4, <2>5
<1> QED
  BY <1>1, <1>2, <1>3, Kinds

\* The others rest, in flight or not.
OthersRest(r) ==
  \A s \in Request : s # r =>
    /\ InFlight(s) => Rests(req'[s], req[s]) /\ InFlight(s)'
    /\ ~InFlight(s) => ~InFlight(s)'

\* What a statement of r that issues nothing has to show.
LEMMA StatementStep ==
  ASSUME AccountsInv, TypeOK', BornOnce', NEW r \in Request, OthersRest(r),
         InFlight(r)' => InFlight(r) /\ Goes(req'[r], req[r]),
         InFlight(r)' /\ req'[r] \in Session => SessionInOrder(r)',
         InFlight(r)' /\ req'[r] \in Change => ChangeInOrder(r)',
         tokens' \subseteq tokens, issued' = issued, excused \subseteq excused',
         born \subseteq born',
         \A u \in User : RowKept(u) \/ \A s \in Request : s # r /\ IssuesFor(s, u) => req'[s].late,
         \A u \in User : \/ RowKept(u) /\ ~Dirties(r, u)
                         \/ Clean(u)' = {}
                         \/ Dirty(u)'
  PROVE  SessionsInv'
<1>1. TypeOK /\ born \subseteq User
  BY DEF AccountsInv, IndInv, TypeOK
<1>2. NoNewRequest
  BY DEF NoNewRequest, OthersRest, Rests
<1>3. ASSUME NEW s \in Request, s # r, InFlight(s)'
      PROVE  /\ req'[s] \in Session => SessionInOrder(s)'
             /\ req'[s] \in Change => ChangeInOrder(s)'
  BY <1>1, <1>2, <1>3, OtherKept DEF OthersRest
<1>4. RequestsInOrder'
  BY <1>3 DEF RequestsInOrder
<1>5. \A u \in User : Dirty(u) /\ ~Dirties(r, u) => Dirty(u)'
  BY <1>1, DirtyKept DEF OthersRest
<1>6. CleanTokensAreCurrent'
  BY <1>1, <1>5, CleanKept DEF AccountsInv, SessionsInv
<1> QED
  BY <1>4, <1>6 DEF SessionsInv

LEMMA AdvancedRest ==
  ASSUME TypeOK, NEW r \in Request, InFlight(r), req' = Advanced(r)
  PROVE  /\ OthersRest(r)
         /\ Len(req[r].todo) = 1 => ~InFlight(r)'
         /\ InFlight(r)' => Goes(req'[r], req[r]) /\ req'[r].todo = Tail(req[r].todo)
<1>1. ASSUME NEW s \in Request, s # r
      PROVE  req'[s] = req[s]
  BY <1>1, AdvancedFacts
<1>2. OthersRest(r)
  BY <1>1, RestsSelf DEF OthersRest, InFlight
<1> QED
  BY <1>2, AdvancedGoes DEF InFlight

LEMMA EndedRest ==
  ASSUME TypeOK, NEW r \in Request, req' = Ended(r)
  PROVE  OthersRest(r) /\ ~InFlight(r)'
<1>1. \A s \in Request : s # r => req'[s] = req[s]
  BY EndedFacts
<1>2. OthersRest(r)
  BY <1>1, RestsSelf DEF OthersRest, InFlight
<1> QED
  BY <1>2, EndedFacts DEF InFlight

LEMMA RowsKept ==
  ASSUME UNCHANGED users
  PROVE  \A u : RowKept(u)
BY DEF RowKept

LEMMA BornKept ==
  ASSUME BornOnce, UNCHANGED <<users, born>>
  PROVE  BornOnce'
BY DEF BornOnce, Exists

\* A request that ends, not being a password change between its statements.
LEMMA EndKeeps ==
  ASSUME AccountsInv, TypeOK', NEW r \in Request, req' = Ended(r),
         \A u \in User : ~Dirties(r, u) \/ Clean(u)' = {},
         UNCHANGED <<users, born, tokens, issued>>, excused \subseteq excused'
  PROVE  SessionsInv'
<1>1. OthersRest(r) /\ ~InFlight(r)'
  BY EndedRest DEF AccountsInv, IndInv
<1>2. BornOnce'
  BY BornKept DEF AccountsInv, SessionsInv
<1> QED
  BY <1>1, <1>2, RowsKept, StatementStep

\* Sessions go on to their next statement.
LEMMA SessionStatement ==
  ASSUME AccountsInv, TypeOK', NEW r \in Request,
         MFAVerified(r) \/ Lookup(r) \/ Rotate(r)
  PROVE  SessionsInv'
<1>1. /\ TypeOK /\ InFlight(r) /\ req[r] \in Session /\ req[r].todo \in SessionTodos
      /\ \A u \in User : ~Dirties(r, u)
  <2>1. TypeOK
    BY DEF AccountsInv, IndInv
  <2>2. InFlight(r) /\ Head(req[r].todo) \in {"mfa", "lookup", "rotate"}
    BY DEF MFAVerified, Lookup, Rotate, At
  <2>3. req[r] \in Session
    BY <2>1, <2>2, AtFacts DEF MFAVerified, Lookup, Rotate, ChangeSteps
  <2> QED
    BY <2>1, <2>2, <2>3, Kinds DEF Dirties
<1>2. tokens' \subseteq tokens /\ UNCHANGED <<users, born, issued, excused>>
  BY DEF MFAVerified, Lookup, Rotate
<1>3. BornOnce'
  BY <1>2, BornKept DEF AccountsInv, SessionsInv
<1>4. CASE req' = Advanced(r)
  <2>1. OthersRest(r) /\ (InFlight(r)' => Goes(req'[r], req[r]) /\ req'[r].todo = Tail(req[r].todo))
    BY <1>1, <1>4, AdvancedRest
  <2>2. PICK v \in User : req[r].u = v
    BY <1>1, Kinds
  <2>3. ASSUME InFlight(r)'
        PROVE  SessionInOrder(r)' /\ req'[r] \notin Change
    <3>1. Settled(v) => Settled(v)'
      BY <1>1, <2>1, <2>3, SettledKept DEF OthersRest, Rests
    <3>2. req'[r].todo = <<"issue">> => (users[v] # None => users[v].active)
      <4>1. CASE Lookup(r)
        <5>1. req' = Ended(r) => ~InFlight(r)'
          BY <1>1, EndedRest
        <5> QED
          BY <2>2, <2>3, <4>1, <5>1 DEF Lookup
      <4>2. CASE MFAVerified(r) \/ Rotate(r)
        BY <1>1, <2>1, <2>3, <4>2, SessionHeads DEF MFAVerified, Rotate, At
      <4> QED
        BY <4>1, <4>2
    <3>3. SessionInOrder(r)
      BY <1>1 DEF AccountsInv, SessionsInv, RequestsInOrder
    <3>4. req'[r] \notin Change
      BY <1>1, <2>1, <2>3 DEF Goes, Session, Change
    <3> QED
      BY <1>1, <1>2, <2>1, <2>2, <2>3, <3>1, <3>2, <3>3, <3>4, RowsKept, SessionKept
  <2> QED
    BY <1>1, <1>2, <1>3, <2>1, <2>3, RowsKept, StatementStep
<1>5. CASE req' = Ended(r)
  <2>1. OthersRest(r) /\ ~InFlight(r)'
    BY <1>1, <1>5, EndedRest
  <2> QED
    BY <1>1, <1>2, <1>3, <2>1, RowsKept, StatementStep
<1> QED
  BY <1>4, <1>5 DEF MFAVerified, Lookup, Rotate

LEMMA CountKeeps ==
  ASSUME AccountsInv, TypeOK', NEW r \in Request, Count(r)
  PROVE  SessionsInv'
<1>1. /\ TypeOK /\ InFlight(r) /\ req[r] \in Change /\ Head(req[r].todo) = "count"
      /\ ChangeInOrder(r)
  BY AtFacts DEF AccountsInv, IndInv, SessionsInv, RequestsInOrder, Count, At, ChangeSteps
<1>2. UNCHANGED <<users, born, tokens, issued, excused>> /\ \A u \in User : ~Dirties(r, u)
  BY <1>1 DEF Count, Dirties
<1>3. CASE req' = Ended(r)
  BY <1>2, <1>3, EndKeeps
<1>4. CASE req' = [Advanced(r) EXCEPT ![r].seen = ActiveAdmins]
  <2> DEFINE a == Advanced(r)[r]
             n == [a EXCEPT !.seen = ActiveAdmins]
  <2>1. /\ Advanced(r) \in Requests
        /\ \A s \in Request \ {r} : Advanced(r)[s] = req[s]
        /\ a # Idle => Goes(a, req[r]) /\ a.todo = Tail(req[r].todo)
        /\ Len(req[r].todo) = 1 => a = Idle
    BY <1>1, AdvancedFacts, AdvancedGoes
  <2>2. req'[r] = n /\ \A s \in Request : s # r => req'[s] = req[s]
    BY <1>4, <2>1 DEF Requests
  <2>3. a = Idle => n = Idle
    BY DEF Idle
  <2>4. ASSUME a # Idle
        PROVE  Goes(n, req[r]) /\ n.todo = Tail(req[r].todo)
    <3>1. a \in Change
      BY <1>1, <2>1, <2>4 DEF Goes
    <3>2. ActiveAdmins \in SUBSET User
      BY DEF ActiveAdmins
    <3>3. n \in Change /\ n.op = a.op /\ n.u = a.u /\ n.base = a.base /\ n.new = a.new /\ n.todo = a.todo
      BY <3>1, <3>2 DEF Change
    <3>4. req[r] \notin Session
      BY <1>1 DEF Session, Change
    <3> HIDE DEF n, a
    <3> QED
      BY <1>1, <2>1, <2>4, <3>3, <3>4 DEF Goes
  <2> HIDE DEF n, a
  <2>5. OthersRest(r)
    BY <1>1, <2>2, RestsSelf DEF OthersRest, InFlight
  <2>6. InFlight(r)' => /\ Goes(req'[r], req[r]) /\ req'[r].todo = Tail(req[r].todo)
                        /\ Len(req[r].todo) # 1
    BY <2>1, <2>2, <2>3, <2>4 DEF InFlight
  <2>7. PICK v : v = req[r].u
    OBVIOUS
  <2>8. Clean(v)' \subseteq Clean(v)
    BY <1>2, CleanShrinks
  <2>9. InFlight(r)' => ChangeInOrder(r)' /\ req'[r] \notin Session
    BY <1>1, <2>6, <2>7, <2>8, ChangeAdvances DEF Goes, Change, Session
  <2>10. BornOnce'
    BY <1>2, BornKept DEF AccountsInv, SessionsInv
  <2> QED
    BY <1>1, <1>2, <2>5, <2>6, <2>9, <2>10, RowsKept, StatementStep
<1> QED
  BY <1>3, <1>4 DEF Count

LEMMA RevokeKeeps ==
  ASSUME AccountsInv, TypeOK', NEW r \in Request, DeleteAllForUser(r)
  PROVE  SessionsInv'
<1>1. /\ TypeOK /\ InFlight(r) /\ req[r] \in Change /\ Head(req[r].todo) = "revoke"
      /\ ChangeInOrder(r) /\ req' = Advanced(r)
  BY AtFacts DEF AccountsInv, IndInv, SessionsInv, RequestsInOrder, DeleteAllForUser, At, ChangeSteps
<1>2. /\ UNCHANGED <<users, born, issued>> /\ tokens' \subseteq tokens /\ excused \subseteq excused'
  BY DEF DeleteAllForUser
<1>3. PICK v \in User : v = req[r].u
  BY <1>1, Kinds
<1>4. Clean(v)' = {}
  BY <1>2, <1>3 DEF DeleteAllForUser, Clean, TokensOf
<1>5. /\ OthersRest(r)
      /\ InFlight(r)' => /\ Goes(req'[r], req[r]) /\ req'[r].todo = Tail(req[r].todo)
                         /\ Len(req[r].todo) # 1
  BY <1>1, AdvancedRest
<1>6. InFlight(r)' => ChangeInOrder(r)' /\ req'[r] \notin Session
  BY <1>1, <1>3, <1>4, <1>5, ChangeAdvances DEF Goes, Change, Session
<1>7. \A u \in User : ~Dirties(r, u) \/ Clean(u)' = {}
  BY <1>3, <1>4 DEF Dirties
<1>8. BornOnce'
  BY <1>2, BornKept DEF AccountsInv, SessionsInv
<1> QED
  BY <1>1, <1>2, <1>5, <1>6, <1>7, <1>8, RowsKept, StatementStep

\* A write is of a row that a session may rely on, or of one nobody relies on.
LEMMA WriteKeeps ==
  ASSUME AccountsInv, TypeOK', NEW r \in Request, Write(r)
  PROVE  SessionsInv'
<1>1. /\ TypeOK /\ InFlight(r) /\ req[r] \in Change /\ Head(req[r].todo) = "write"
      /\ ChangeInOrder(r) /\ req[r].new \in Row
  BY AtFacts DEF AccountsInv, IndInv, SessionsInv, RequestsInOrder, Write, At, ChangeSteps, Change
<1>2. PICK u \in User : u = req[r].u
  BY <1>1, Kinds
<1>3. UNCHANGED <<born, tokens, issued>> /\ excused \subseteq excused'
      /\ \A x \in User : ~Dirties(r, x)
  BY <1>1 DEF Write, Dirties
<1>4. CASE ~Exists(u)
  BY <1>2, <1>3, <1>4, EndKeeps DEF Write
<1>5. CASE Exists(u)
  <2> DEFINE p == req[r]
             stale == users[u].pw # p.base.pw \/ users[u].active # p.base.active
  <2>1. /\ users' = [users EXCEPT ![u] = p.new]
        /\ excused' = IF stale THEN excused \cup TokensOf(u) ELSE excused
        /\ req' = IF stale THEN MarkLate(Advanced(r), u) ELSE Advanced(r)
    BY <1>2, <1>5 DEF Write
  <2>2. /\ users'[u] = p.new /\ users[u] # None /\ p.new # None
        /\ \A x \in User : x # u => users'[x] = users[x]
    BY <1>1, <1>5, <2>1, NoneAssumption DEF TypeOK, Exists
  <2>3. \A x \in User : x # u => RowKept(x)
    BY <2>2 DEF RowKept
  <2> HIDE DEF stale
  <2>4. /\ OthersRest(r) /\ req'[r] = Advanced(r)[r]
        /\ stale => \A s \in Request : s # r /\ IssuesFor(s, u) => req'[s].late
    <3>1. Advanced(r) \in Requests /\ \A s \in Request : s # r => Advanced(r)[s] = req[s]
      BY <1>1, AdvancedFacts
    <3>2. CASE stale
      <4>1. req' = MarkLate(Advanced(r), u)
        BY <2>1, <3>2
      <4>2. ~IssuesFor(r, u)
        BY <1>1 DEF IssuesFor, Change
      <4>3. \A s \in Request : /\ IssuesFor(s, u) => Rests(req'[s], req[s]) /\ req'[s].late
                               /\ ~IssuesFor(s, u) => req'[s] = Advanced(r)[s]
        BY <1>1, <3>1, <4>1, <4>2, MarkedRests
      <4>4. \A s \in Request : IssuesFor(s, u) => InFlight(s)'
        <5>1. ASSUME NEW s \in Request, IssuesFor(s, u)
              PROVE  InFlight(s)'
          <6>1. req[s] \in Session
            BY <1>1, <5>1, Kinds DEF IssuesFor
          <6>2. req'[s] \in Session
            BY <4>3, <5>1, <6>1 DEF Rests, Goes
          <6> QED
            BY <6>2, IdleIsNoSession DEF InFlight
        <5> QED
          BY <5>1
      <4>5. OthersRest(r)
        BY <1>1, <3>1, <4>3, <4>4, RestsSelf DEF OthersRest, InFlight, IssuesFor
      <4> QED
        BY <4>2, <4>3, <4>5
    <3>3. CASE ~stale
      BY <1>1, <2>1, <3>3, AdvancedRest
    <3> QED
      BY <3>2, <3>3
  <2>5. InFlight(r)' => /\ Goes(req'[r], req[r]) /\ req'[r].todo = Tail(req[r].todo)
                        /\ Len(req[r].todo) # 1
    BY <1>1, <2>4, AdvancedGoes DEF InFlight
  <2>6. Clean(u)' \subseteq Clean(u)
    BY <1>3, CleanShrinks
  <2>7. InFlight(r)' => ChangeInOrder(r)' /\ req'[r] \notin Session
    BY <1>1, <1>2, <2>5, <2>6, ChangeAdvances DEF Goes, Change, Session
  <2>8. stale => Clean(u)' = {}
    BY <1>3, <2>1 DEF Clean, TokensOf
  <2>9. EndsSessions(p) => \A s \in Request : s # r /\ IssuesFor(s, u) => req'[s].late
    <3> SUFFICES ASSUME EndsSessions(p), NEW s \in Request, s # r, IssuesFor(s, u)
                 PROVE  req'[s].late
      OBVIOUS
    <3>1. InFlight(s) /\ req[s] \in Session /\ req[s].u = u
      BY <1>1, Kinds DEF IssuesFor
    <3>2. ~Settled(u)
      BY <1>1, <1>2 DEF Settled
    <3>3. req[s].late
      BY <3>1, <3>2 DEF AccountsInv, SessionsInv, RequestsInOrder, SessionInOrder
    <3> QED
      BY <2>4, <3>1, <3>3 DEF OthersRest, Rests, Goes
  <2>10. CASE stale
    <3>1. BornOnce'
      BY <1>3, <2>2 DEF AccountsInv, SessionsInv, BornOnce, Exists
    <3> QED
      BY <1>1, <1>3, <2>3, <2>4, <2>5, <2>7, <2>8, <2>10, <3>1, StatementStep
  <2>11. CASE ~stale
    <3>1. users[u].pw = p.base.pw /\ users[u].active = p.base.active
      BY <2>11 DEF stale
    <3>2. BornOnce'
      BY <1>3, <2>2 DEF AccountsInv, SessionsInv, BornOnce, Exists
    <3>3. RowKept(u) \/ EndsSessions(p)
      <4>1. p.op \in {"password", "profile", "edit", "delete"}
        BY <1>1 DEF Change
      <4>2. p.op = "profile" => RowKept(u)
        BY <2>2, <3>1, <1>1 DEF RowKept, ChangeInOrder
      <4> QED
        BY <2>2, <3>1, <4>1, <4>2 DEF RowKept, EndsSessions
    <3>4. RowKept(u) \/ Clean(u)' = {} \/ Dirty(u)'
      <4>1. CASE p.op = "password"
        <5>1. p.todo \in PasswordTodos
          BY <1>1, <4>1 DEF ChangeInOrder
        <5>2. Tail(p.todo) = <<"revoke">> /\ Len(p.todo) # 1
          BY <1>1, <5>1, PasswordHeads
        <5>3. req'[r] = [p EXCEPT !.todo = Tail(p.todo)]
          BY <1>1, <2>4, <5>2 DEF Advanced, TypeOK
        <5>4. InFlight(r)'
          BY <1>1, <5>3, TailLegal, <5>2 DEF InFlight, Legal
        <5>5. req'[r].u = u /\ req'[r].op = "password"
          BY <1>2, <2>5, <4>1, <5>4 DEF Goes
        <5>6. req'[r].todo = <<"revoke">>
          BY <2>5, <5>2, <5>4
        <5>7. Head(req'[r].todo) = "revoke"
          BY <5>6
        <5>8. Dirties(r, u)'
          BY <5>4, <5>5, <5>7 DEF Dirties
        <5> QED
          BY <5>8 DEF Dirty
      <4>2. CASE p.op = "profile"
        BY <1>1, <2>2, <3>1, <4>2 DEF RowKept, ChangeInOrder
      <4>3. CASE p.op = "edit"
        <5>1. p.todo = <<"write">>
          BY <1>1, <4>3, EditHeads DEF ChangeInOrder
        <5>2. Takes(p) => Clean(u)' = {}
          BY <1>1, <1>2, <2>6, <4>3, <5>1 DEF ChangeInOrder
        <5>3. ~Takes(p) => RowKept(u)
          BY <2>2, <3>1 DEF Takes, RowKept
        <5> QED
          BY <5>2, <5>3
      <4>4. p.op # "delete"
        BY <1>1, DeleteHeads DEF ChangeInOrder
      <4> QED
        BY <1>1, <4>1, <4>2, <4>3, <4>4 DEF Change
    <3> QED
      BY <1>1, <1>3, <2>3, <2>4, <2>5, <2>7, <2>9, <3>2, <3>3, <3>4, StatementStep
  <2> QED
    BY <2>10, <2>11
<1> QED
  BY <1>4, <1>5

LEMMA RemoveKeeps ==
  ASSUME AccountsInv, TypeOK', NEW r \in Request, Remove(r)
  PROVE  SessionsInv'
<1>1. TypeOK /\ InFlight(r) /\ Head(req[r].todo) = "remove" /\ req[r].u \in User
  BY AtFacts DEF AccountsInv, IndInv, Remove, At
<1>2. /\ UNCHANGED <<born, issued, excused>> /\ req' = Ended(r) /\ tokens' \subseteq tokens
      /\ \A x \in User : users'[x] = IF x = req[r].u THEN None ELSE users[x]
  BY <1>1 DEF Remove, TypeOK
<1>3. \A x \in User : RowKept(x) /\ ~Dirties(r, x)
  BY <1>1, <1>2 DEF RowKept, Dirties
<1>4. OthersRest(r) /\ ~InFlight(r)'
  BY <1>1, <1>2, EndedRest
<1>5. BornOnce'
  BY <1>2 DEF AccountsInv, SessionsInv, BornOnce, Exists
<1> QED
  BY <1>2, <1>3, <1>4, <1>5, StatementStep

LEMMA AbortKeeps ==
  ASSUME AccountsInv, TypeOK', NEW r \in Request, Abort(r)
  PROVE  SessionsInv'
<1>1. req' = Ended(r) /\ UNCHANGED <<users, born, tokens, issued>> /\ excused' = excused \cup Left(r)
  BY DEF Abort
<1>2. ASSUME NEW u \in User, Dirties(r, u)
      PROVE  Clean(u)' = {}
  <2>1. Left(r) = TokensOf(u)
    BY <1>2 DEF Left, Dirties
  <2> QED
    BY <1>1, <2>1 DEF Clean, TokensOf
<1> QED
  BY <1>1, <1>2, EndKeeps

\* A change at rest while a token is issued: none that a session of a settled
\* user could spoil.
LEMMA ChangeSpared ==
  ASSUME NEW s \in Request, NEW v, req[s].u = v, InFlight(s), Settled(v),
         req[s] \in Change, ChangeInOrder(s), Rests(req'[s], req[s])
  PROVE  ChangeInOrder(s)'
<1>1. /\ req'[s].op = req[s].op /\ req'[s].todo = req[s].todo
      /\ req'[s].base = req[s].base /\ req'[s].new = req[s].new
  BY DEF Rests, Goes
<1>2. ~EndsSessions(req[s])
  BY DEF Settled
<1>3. req[s].op = "edit" => ~Takes(req'[s])
  BY <1>1, <1>2 DEF Takes, EndsSessions
<1>4. Takes(req[s])' <=> Takes(req'[s])
  BY DEF Takes
<1> QED
  BY <1>1, <1>3, <1>4 DEF ChangeInOrder

\* A token is issued to a session that is late, excused or up to date.
LEMMA GenerateKeeps ==
  ASSUME AccountsInv, TypeOK', NEW r \in Request, generateTokens(r)
  PROVE  SessionsInv'
<1>1. /\ TypeOK /\ InFlight(r) /\ req[r] \in Session /\ Head(req[r].todo) = "issue"
      /\ req[r].todo \in SessionTodos
  <2>1. TypeOK /\ InFlight(r) /\ Head(req[r].todo) = "issue"
    BY DEF AccountsInv, IndInv, generateTokens, At
  <2>2. req[r] \in Session
    BY <2>1, AtFacts DEF generateTokens, ChangeSteps
  <2> QED
    BY <2>1, <2>2, Kinds
<1>2. SessionInOrder(r) /\ req[r].todo = <<"issue">> /\ Len(req[r].todo) = 1
  BY <1>1, SessionHeads DEF AccountsInv, SessionsInv, RequestsInOrder
<1>3. PICK u \in User : u = req[r].u
  BY <1>1, Kinds
<1>4. UNCHANGED <<users, born>> /\ \A x \in User : ~Dirties(r, x)
  BY <1>1 DEF generateTokens, Dirties
<1>5. CASE ~Exists(u)
  <2>1. req' = Ended(r) /\ UNCHANGED <<tokens, issued, excused>>
    BY <1>3, <1>5 DEF generateTokens
  <2> QED
    BY <1>4, <2>1, EndKeeps
<1>6. CASE Exists(u)
  <2> DEFINE new == [u |-> req[r].u, pw |-> req[r].pw, parent |-> req[r].tok,
                     late |-> req[r].late]
  <2>1. /\ req' = Advanced(r)
        /\ \E t \in Token :
             /\ issued[t] = None
             /\ tokens' = tokens \cup {t}
             /\ issued' = [issued EXCEPT ![t] = new]
             /\ excused' = IF req[r].tok \in excused THEN excused \cup {t} ELSE excused
    BY <1>3, <1>6 DEF generateTokens
  <2>2. PICK t \in Token :
          /\ issued[t] = None
          /\ tokens' = tokens \cup {t}
          /\ issued' = [issued EXCEPT ![t] = new]
          /\ excused' = IF req[r].tok \in excused THEN excused \cup {t} ELSE excused
    BY <2>1
  <2>3. OthersRest(r) /\ ~InFlight(r)'
    BY <1>1, <1>2, <2>1, AdvancedRest
  <2>4. /\ issued'[t] = new /\ new.u = u /\ new.pw = req[r].pw /\ new.late = req[r].late
        /\ \A x \in Token : x # t => issued'[x] = issued[x]
        /\ t \notin tokens /\ tokens \subseteq Token /\ excused \subseteq excused'
        /\ t \notin excused' => req[r].tok \notin excused
    BY <1>1, <1>3, <2>2 DEF TypeOK
  <2> HIDE DEF new
  <2>5. \A x \in User : Clean(x)' \subseteq Clean(x) \cup {t}
    BY <2>2, <2>4 DEF Clean, TokensOf
  <2>6. \A x \in User \ {u} : Clean(x)' \subseteq Clean(x)
    BY <2>2, <2>4 DEF Clean, TokensOf
  <2>7. t \in Clean(u)' => Settled(u) /\ users[u].pw = req[r].pw /\ users[u].active
    BY <1>2, <1>3, <1>6, <2>4 DEF Clean, SessionInOrder
  <2>8. NoNewRequest
    BY <2>3 DEF NoNewRequest, OthersRest, Rests
  <2>9. ASSUME NEW s \in Request, s # r, InFlight(s)'
        PROVE  /\ req'[s] \in Session => SessionInOrder(s)'
               /\ req'[s] \in Change => ChangeInOrder(s)'
    <3>1. InFlight(s) /\ Rests(req'[s], req[s])
      BY <2>3, <2>9 DEF OthersRest
    <3>2. PICK v \in User : req[s].u = v
      BY <1>1, <3>1, Kinds
    <3>3. CASE req[s] \in Session
      <4>1. SessionInOrder(s)
        BY <3>1, <3>3 DEF AccountsInv, SessionsInv, RequestsInOrder
      <4>2. Settled(v) => Settled(v)'
        BY <1>1, <2>8, SettledKept DEF NoNewRequest
      <4>3. Goes(req'[s], req[s]) /\ req'[s].todo = req[s].todo /\ RowKept(v)
        BY <1>4, <3>1, RowsKept DEF Rests
      <4>4. SessionInOrder(s)'
        BY <1>4, <2>4, <3>2, <3>3, <4>1, <4>2, <4>3, SessionKept
      <4>5. req'[s] \notin Change
        BY <3>3, <4>3 DEF Goes, Session, Change
      <4> QED
        BY <4>4, <4>5
    <3>4. CASE req[s] \in Change
      <4>1. ChangeInOrder(s)
        BY <3>1, <3>4 DEF AccountsInv, SessionsInv, RequestsInOrder
      <4>2. Settled(v) \/ Clean(v)' \subseteq Clean(v)
        BY <2>5, <2>6, <2>7
      <4>3. ChangeInOrder(s)'
        BY <3>1, <3>2, <3>4, <4>1, <4>2, ChangeKept, ChangeSpared
      <4>4. req'[s] \notin Session
        BY <3>1, <3>4 DEF Rests, Goes, Session, Change
      <4> QED
        BY <4>3, <4>4
    <3> QED
      BY <1>1, <3>1, <3>3, <3>4, Kinds
  <2>10. RequestsInOrder'
    BY <2>3, <2>9 DEF RequestsInOrder
  <2>11. ASSUME NEW x \in tokens', x \in Clean(issued[x].u)'
         PROVE  \/ users'[issued'[x].u].active /\ users'[issued'[x].u].pw = issued'[x].pw
                \/ Dirty(issued[x].u)'
    <3>1. CASE x = t
      <4>1. t \in Clean(u)'
        BY <2>4, <2>11, <3>1 DEF Clean, TokensOf
      <4> QED
        BY <1>4, <2>4, <2>7, <3>1, <4>1
    <3>2. CASE x # t
      <4>1. x \in tokens /\ issued'[x] = issued[x]
        BY <2>2, <2>4, <3>2
      <4>2. PICK v \in User : v = issued[x].u
        BY <1>1, <4>1 DEF TypeOK, Issue
      <4>3. x \in Clean(v)'
        BY <2>11, <4>1, <4>2 DEF Clean, TokensOf
      <4>4. x \in Clean(v)
        BY <2>5, <3>2, <4>3
      <4>5. (users[v].active /\ users[v].pw = issued[x].pw) \/ Dirty(v)
        BY <4>1, <4>2, <4>4 DEF AccountsInv, SessionsInv, CleanTokensAreCurrent
      <4>6. Dirty(v) => Dirty(v)'
        BY <1>1, <1>4, <2>3, DirtyKept DEF OthersRest
      <4>7. Dirty(v)' => Dirty(issued[x].u)'
        BY <4>1, <4>2 DEF Dirty, Dirties, InFlight
      <4> QED
        BY <1>4, <4>1, <4>2, <4>5, <4>6, <4>7
    <3> QED
      BY <3>1, <3>2
  <2>12. CleanTokensAreCurrent'
    BY <2>11 DEF CleanTokensAreCurrent
  <2>13. BornOnce'
    BY <1>4, BornKept DEF AccountsInv, SessionsInv
  <2> QED
    BY <2>10, <2>12, <2>13 DEF SessionsInv
<1> QED
  BY <1>5, <1>6

-----------------------------------------------------------------------------
(* Steps outside requests, and requests that begin.                        *)

\* A row may be put where there never was one.
LEMMA OutsideKeeps ==
  ASSUME AccountsInv, TypeOK', BornOnce', UNCHANGED <<req, issued, excused>>,
         tokens' \subseteq tokens, born \subseteq born',
         \A u \in born : RowKept(u)
  PROVE  SessionsInv'
<1>1. TypeOK /\ \A u \in User : Exists(u) => u \in born
  BY DEF AccountsInv, IndInv, SessionsInv, BornOnce
<1>2. \A s \in Request : InFlight(s)' => InFlight(s) /\ Rests(req'[s], req[s])
  BY <1>1, RestsSelf DEF InFlight
<1>3. NoNewRequest
  BY <1>2 DEF NoNewRequest, Rests
<1>4. RequestsInOrder'
  <2>1. ASSUME NEW s \in Request, InFlight(s)'
        PROVE  /\ req'[s] \in Session => SessionInOrder(s)'
               /\ req'[s] \in Change => ChangeInOrder(s)'
    BY <1>2, <1>3, <2>1, OtherKept
  <2> QED
    BY <2>1 DEF RequestsInOrder
<1>5. ASSUME NEW u \in User
      PROVE  (RowKept(u) /\ (Dirty(u) => Dirty(u)')) \/ Clean(u)' = {}
  <2>1. Dirty(u) => Dirty(u)'
    BY DEF Dirty, Dirties, InFlight
  <2>2. CASE u \notin born
    <3>1. TokensOf(u) = {}
      BY <1>1, <2>2 DEF TypeOK, TokensOf, Exists
    <3>2. Clean(u) = {}
      BY <3>1 DEF Clean
    <3>3. Clean(u)' \subseteq Clean(u)
      BY CleanShrinks
    <3> QED
      BY <3>2, <3>3
  <2> QED
    BY <2>1, <2>2
<1>6. CleanTokensAreCurrent'
  BY <1>1, <1>5, CleanKept DEF AccountsInv, SessionsInv
<1> QED
  BY <1>4, <1>6 DEF SessionsInv

LEMMA TokenGoneKeeps ==
  ASSUME AccountsInv, TypeOK', NEW t \in Token, Logout(t) \/ DeleteExpired(t)
  PROVE  SessionsInv'
<1>1. UNCHANGED <<users, born, req, issued, excused>> /\ tokens' \subseteq tokens
  BY DEF Logout, DeleteExpired
<1>2. BornOnce'
  BY <1>1, BornKept DEF AccountsInv, SessionsInv
<1> QED
  BY <1>1, <1>2, RowsKept, OutsideKeeps

\* A row for a new id.
LEMMA NewRowKeeps ==
  ASSUME AccountsInv, TypeOK', NEW u \in User \ born, NEW row,
         users' = [users EXCEPT ![u] = row], born' = born \cup {u},
         UNCHANGED <<tokens, issued, req, excused>>
  PROVE  SessionsInv'
<1>1. \A x \in User : x # u => users'[x] = users[x]
  BY DEF AccountsInv, IndInv, TypeOK
<1>2. BornOnce'
  BY <1>1 DEF AccountsInv, SessionsInv, BornOnce, Exists
<1>3. \A x \in born : RowKept(x)
  BY <1>1 DEF AccountsInv, IndInv, TypeOK, RowKept
<1> QED
  BY <1>2, <1>3, OutsideKeeps

LEMMA UserRowsKeep ==
  ASSUME AccountsInv, TypeOK',
         \/ BootstrapAdmin
         \/ \E u \in User, b \in BOOLEAN : CreateUser(u, b) \/ SetMFAEnabled(u, b)
  PROVE  SessionsInv'
<1>1. UNCHANGED <<tokens, issued, req, excused>>
  BY DEF BootstrapAdmin, CreateUser, SetMFAEnabled
<1>2. CASE UNCHANGED <<users, born>>
  <2>1. BornOnce'
    BY <1>2, BornKept DEF AccountsInv, SessionsInv
  <2> QED
    BY <1>1, <1>2, <2>1, RowsKept, OutsideKeeps
<1>3. CASE \E u \in User \ born, row \in {[pw |-> FirstPassword, admin |-> b, active |-> TRUE,
                                          mfa |-> FALSE] : b \in BOOLEAN} :
             users' = [users EXCEPT ![u] = row] /\ born' = born \cup {u}
  BY <1>1, <1>3, NewRowKeeps
<1>4. ASSUME NEW u \in User, NEW on \in BOOLEAN, SetMFAEnabled(u, on)
      PROVE  SessionsInv'
  <2>1. /\ users' = [users EXCEPT ![u] = [users[u] EXCEPT !.mfa = on]]
        /\ Exists(u) /\ born' = born
    BY <1>4 DEF SetMFAEnabled
  <2>2. users[u] \in Row
    BY <2>1, ExistingRow DEF AccountsInv, IndInv
  <2>3. /\ users'[u] = [users[u] EXCEPT !.mfa = on]
        /\ \A x \in User : x # u => users'[x] = users[x]
    BY <2>1 DEF AccountsInv, IndInv, TypeOK
  <2>4. users'[u].pw = users[u].pw /\ users'[u].active = users[u].active
    BY <2>2, <2>3 DEF Row
  <2>5. BornOnce'
    BY <2>1, <2>3 DEF AccountsInv, SessionsInv, BornOnce, Exists
  <2>6. \A x \in born : RowKept(x)
    BY <2>1, <2>3, <2>4 DEF AccountsInv, IndInv, TypeOK, RowKept, Exists
  <2> QED
    BY <1>1, <2>1, <2>5, <2>6, OutsideKeeps
<1>5. BootstrapAdmin \/ (\E u \in User, b \in BOOLEAN : CreateUser(u, b)) =>
        UNCHANGED <<users, born>> \/
        \E u \in User \ born, row \in {[pw |-> FirstPassword, admin |-> b, active |-> TRUE,
                                       mfa |-> FALSE] : b \in BOOLEAN} :
             users' = [users EXCEPT ![u] = row] /\ born' = born \cup {u}
  <2>1. CASE BootstrapAdmin
    BY <2>1, BootUserAssumption DEF BootstrapAdmin
  <2>2. CASE \E u \in User, b \in BOOLEAN : CreateUser(u, b)
    BY <2>2 DEF CreateUser
  <2> QED
    BY <2>1, <2>2
<1> QED
  BY <1>2, <1>3, <1>4, <1>5

\* A request begins: in order itself, and sparing the sessions it does not end.
LEMMA BeginKeeps ==
  ASSUME AccountsInv, TypeOK', NEW r \in Request, NEW p, Begin(r, p), Legal(p), p # Idle,
         p \in Session =>
           /\ p.u \in born
           /\ ~p.late => Settled(p.u)
           /\ (~p.late /\ p.tok \notin excused /\ Exists(p.u)) =>
                /\ users[p.u].pw = p.pw
                /\ p.todo = <<"issue">> => users[p.u].active,
         p \in Change =>
           /\ p.op = "password" => p.todo \in PasswordTodos
           /\ p.op = "profile" =>
                p.todo = <<"write">> /\ p.new.pw = p.base.pw /\ p.new.active = p.base.active
           /\ p.op = "edit" =>
                p.todo \in EditTodos /\ (Takes(p) => p.todo \notin {<<"write">>, <<"count", "write">>})
           /\ p.op = "delete" => p.todo \in DeleteTodos
  PROVE  SessionsInv'
<1> DEFINE q == [req EXCEPT ![r] = p]
<1>1. TypeOK /\ ~InFlight(r) /\ UNCHANGED <<users, born, tokens, issued, excused>>
  BY DEF AccountsInv, IndInv, Begin
<1>2. PICK u \in User : u = p.u
  BY Shapes
<1>3. q \in Requests /\ \A s \in Request : q[s] = IF s = r THEN p ELSE req[s]
  BY <1>1 DEF TypeOK, Requests, Legal
<1>4. req' = IF EndsSessions(p) THEN MarkLate(q, u) ELSE q
  BY <1>2 DEF Begin
<1> HIDE DEF q
<1>5. ~IssuesFor(r, u)
  BY <1>1 DEF IssuesFor
<1>6. /\ req'[r] = p /\ OthersRest(r)
      /\ EndsSessions(p) => \A s \in Request : s # r /\ IssuesFor(s, u) => req'[s].late
  <2>1. CASE EndsSessions(p)
    <3>1. \A s \in Request : /\ IssuesFor(s, u) => Rests(req'[s], req[s]) /\ req'[s].late
                             /\ ~IssuesFor(s, u) => req'[s] = q[s]
      BY <1>1, <1>3, <1>4, <1>5, <2>1, MarkedRests
    <3>2. ASSUME NEW s \in Request, IssuesFor(s, u)
          PROVE  InFlight(s)'
      <4>1. req[s] \in Session
        BY <1>1, <3>2, Kinds DEF IssuesFor
      <4>2. req'[s] \in Session
        BY <3>1, <3>2, <4>1 DEF Rests, Goes
      <4> QED
        BY <4>2, IdleIsNoSession DEF InFlight
    <3>3. OthersRest(r)
      BY <1>1, <1>3, <3>1, <3>2, RestsSelf DEF OthersRest, InFlight, IssuesFor
    <3> QED
      BY <1>3, <1>5, <3>1, <3>3
  <2>2. CASE ~EndsSessions(p)
    <3>1. OthersRest(r)
      BY <1>1, <1>3, <1>4, <2>2, RestsSelf DEF OthersRest, InFlight
    <3> QED
      BY <1>3, <1>4, <2>2, <3>1
  <2> QED
    BY <2>1, <2>2
<1>7. ASSUME NEW v \in User, Settled(v), ~(EndsSessions(p) /\ v = u)
      PROVE  Settled(v)'
  <2> SUFFICES ASSUME NEW s \in Request, InFlight(s)', req'[s].u = v, EndsSessions(req'[s])
               PROVE  FALSE
    BY DEF Settled, EndsSessions, InFlight
  <2>1. s # r
    BY <1>2, <1>6, <1>7
  <2>2. InFlight(s) /\ Goes(req'[s], req[s])
    BY <1>6, <2>1 DEF OthersRest, Rests
  <2>3. req[s] \in Session \cup Change
    BY <1>1, <2>2, Kinds
  <2>4. EndsSessions(req[s]) /\ req[s].u = v
    BY <2>2, <2>3, GoesEnds DEF Goes
  <2> QED
    BY <1>7, <2>2, <2>4 DEF Settled
<1>8. ASSUME NEW s \in Request, s # r, InFlight(s)'
      PROVE  /\ req'[s] \in Session => SessionInOrder(s)'
             /\ req'[s] \in Change => ChangeInOrder(s)'
  <2>1. InFlight(s) /\ Rests(req'[s], req[s])
    BY <1>6, <1>8 DEF OthersRest
  <2>2. PICK v \in User : req[s].u = v
    BY <1>1, <2>1, Kinds
  <2>3. CASE req[s] \in Session
    <3>1. SessionInOrder(s) /\ IssuesFor(s, v)
      BY <1>1, <2>1, <2>2, <2>3, Kinds DEF AccountsInv, SessionsInv, RequestsInOrder, IssuesFor
    <3>2. req'[s].late \/ (Settled(v) => Settled(v)')
      BY <1>6, <1>7, <1>8, <3>1
    <3>3. Goes(req'[s], req[s]) /\ req'[s].todo = req[s].todo /\ RowKept(v)
      BY <1>1, <2>1, RowsKept DEF Rests
    <3>4. SessionInOrder(s)'
      BY <1>1, <2>2, <2>3, <3>1, <3>2, <3>3, SessionKept
    <3>5. req'[s] \notin Change
      BY <2>3, <3>3 DEF Goes, Session, Change
    <3> QED
      BY <3>4, <3>5
  <2>4. CASE req[s] \in Change
    <3>1. ChangeInOrder(s)
      BY <2>1, <2>4 DEF AccountsInv, SessionsInv, RequestsInOrder
    <3>2. Clean(v)' \subseteq Clean(v)
      BY <1>1, CleanShrinks
    <3>3. ChangeInOrder(s)'
      BY <2>1, <2>2, <2>4, <3>1, <3>2, ChangeKept
    <3>4. req'[s] \notin Session
      BY <2>1, <2>4 DEF Rests, Goes, Session, Change
    <3> QED
      BY <3>3, <3>4
  <2> QED
    BY <1>1, <2>1, <2>3, <2>4, Kinds
<1>9. p \in Session => SessionInOrder(r)'
  <2> SUFFICES ASSUME p \in Session PROVE SessionInOrder(r)'
    OBVIOUS
  <2>1. ~EndsSessions(p)
    BY DEF EndsSessions, Session
  <2>2. Settled(u) => Settled(u)'
    BY <1>7, <2>1
  <2>3. Settled(u)' => Settled(req[r].u)'
    BY <1>2, <1>6 DEF Settled, InFlight, EndsSessions
  <2>4. ~p.late => Settled(req[r].u)'
    BY <1>2, <2>2, <2>3
  <2> QED
    BY <1>1, <1>6, <2>4 DEF SessionInOrder, Exists
<1>10. p \in Change => ChangeInOrder(r)'
  <2>1. Takes(req[r])' <=> Takes(p)
    BY <1>6 DEF Takes
  <2> QED
    BY <1>6, <2>1 DEF ChangeInOrder
<1>11. RequestsInOrder'
  BY <1>6, <1>8, <1>9, <1>10 DEF RequestsInOrder
<1>12. \A x \in User : Dirty(x) => Dirty(x)'
  <2>1. \A x \in User : ~Dirties(r, x)
    BY <1>1 DEF Dirties
  <2> QED
    BY <1>1, <1>6, <2>1, DirtyKept DEF OthersRest
<1>13. CleanTokensAreCurrent'
  BY <1>1, <1>12, RowsKept, CleanKept DEF AccountsInv, SessionsInv
<1>14. BornOnce'
  BY <1>1, BornKept DEF AccountsInv, SessionsInv
<1> QED
  BY <1>11, <1>13, <1>14 DEF SessionsInv

LEMMA LoginKeeps ==
  ASSUME AccountsInv, TypeOK', NEW r \in Request, NEW u \in User,
         PasskeyLogin(r, u) \/ \E p \in Password : Login(r, u, p)
  PROVE  SessionsInv'
<1>1. Exists(u) /\ users[u] \in Row /\ u \in born
  BY ExistingRow DEF AccountsInv, IndInv, SessionsInv, BornOnce, PasskeyLogin, Login
<1>2. PICK todo \in SessionTodos :
        /\ todo = <<"issue">> => users[u].active
        /\ Begin(r, SessionPlan("login", u, None, users[u].pw, todo))
  <2>1. <<"mfa", "lookup", "issue">> \in SessionTodos /\ <<"issue">> \in SessionTodos
        /\ <<"lookup", "issue">> \in SessionTodos /\ <<"lookup", "issue">> # <<"issue">>
    BY DEF SessionTodos
  <2>2. CASE PasskeyLogin(r, u)
    BY <2>1, <2>2 DEF PasskeyLogin
  <2>3. CASE \E p \in Password : Login(r, u, p)
    <3>1. PICK p \in Password : Login(r, u, p)
      BY <2>3
    <3> QED
      BY <2>1, <3>1 DEF Login
  <2> QED
    BY <2>2, <2>3
<1> DEFINE p == SessionPlan("login", u, None, users[u].pw, todo)
<1>3. p \in Session /\ p.tok = None /\ p.todo = todo
  BY <1>1, SessionPlanLegal DEF Row
<1>4. p.u = u /\ p.pw = users[u].pw /\ p.late = ~Settled(u)
  BY DEF SessionPlan
<1>5. Begin(r, p)
  BY <1>2
<1> HIDE DEF p
<1>6. Legal(p) /\ p # Idle /\ p \notin Change
  BY <1>3, IdleIsNoSession DEF Legal
<1> QED
  BY <1>1, <1>2, <1>3, <1>4, <1>5, <1>6, BeginKeeps

LEMMA RefreshKeeps ==
  ASSUME AccountsInv, TypeOK', NEW r \in Request, NEW t \in Token, Refresh(r, t)
  PROVE  SessionsInv'
<1> DEFINE i == issued[t]
           todo == <<"rotate", "lookup", "issue">>
           b == SessionPlan("refresh", i.u, t, i.pw, todo)
           p == [b EXCEPT !.late = @ \/ i.late]
<1>1. t \in tokens /\ Begin(r, p)
  BY DEF Refresh
<1>2. i \in Issue /\ i.u \in User /\ Exists(i.u) /\ i.u \in born /\ i.pw \in Password
  <2>1. i \in Issue /\ Exists(i.u)
    BY <1>1 DEF AccountsInv, IndInv, TypeOK, Exists
  <2> QED
    BY <2>1 DEF Issue, AccountsInv, SessionsInv, BornOnce
<1>3. todo \in SessionTodos /\ todo # <<"issue">>
  BY DEF SessionTodos
<1>4. b \in Session /\ b.u = i.u /\ b.pw = i.pw /\ b.late = ~Settled(i.u)
      /\ b.tok = t /\ b.todo = todo
  <2>1. b \in Session /\ b.tok = t /\ b.todo = todo
    BY <1>2, <1>3, SessionPlanLegal
  <2> QED
    BY <2>1 DEF SessionPlan
<1> HIDE DEF b
<1>5. p \in Session /\ p.u = i.u /\ p.pw = i.pw /\ p.tok = t /\ p.todo = todo
      /\ p.late = (b.late \/ i.late)
  BY <1>2, <1>4 DEF Session, Issue
<1> HIDE DEF p, todo
<1>6. Legal(p) /\ p # Idle /\ p \notin Change
  BY <1>5, IdleIsNoSession DEF Legal
<1>7. ASSUME ~p.late, t \notin excused
      PROVE  users[i.u].pw = i.pw
  <2>1. Settled(i.u) /\ t \in Clean(i.u)
    BY <1>1, <1>4, <1>5, <1>7 DEF Clean, TokensOf
  <2>2. ~Dirty(i.u)
    BY <2>1 DEF Dirty, Dirties, Settled, EndsSessions
  <2> QED
    BY <1>1, <2>1, <2>2 DEF AccountsInv, SessionsInv, CleanTokensAreCurrent
<1> HIDE DEF i
<1> QED
  BY <1>1, <1>2, <1>3, <1>4, <1>5, <1>6, <1>7, BeginKeeps

\* A step at the end of a short list.
LEMMA Joined ==
  /\ \A x, y : <<x>> \o <<y>> = <<x, y>>
  /\ \A w, x, y : <<w, x>> \o <<y>> = <<w, x, y>>
  /\ \A w, x, y, z : <<w, x, y>> \o <<z>> = <<w, x, y, z>>
  /\ \A x, y, z : <<x>> \o <<y, z>> = <<x, y, z>>
<1>1. ASSUME NEW S, NEW s \in Seq(S), NEW t \in Seq(S), NEW e \in S, Len(t) = Len(s) + 1,
             \A i \in 1 .. Len(s) : t[i] = s[i], t[Len(s) + 1] = e
      PROVE  s \o <<e>> = t
  <2>1. Len(s) \in Nat
    BY <1>1, LenProperties
  <2>2. Len(s \o <<e>>) = Len(t)
    BY <1>1, <2>1, ConcatProperties
  <2>3. ASSUME NEW i \in 1 .. Len(s \o <<e>>)
        PROVE  (s \o <<e>>)[i] = t[i]
    BY <1>1, <2>1, <2>2, ConcatProperties
  <2>4. s \o <<e>> \in Seq(S)
    BY <1>1, <2>1, ConcatProperties
  <2> QED
    BY <1>1, <2>2, <2>3, <2>4, SeqEqual
<1>2. ASSUME NEW x, NEW y
      PROVE  <<x>> \o <<y>> = <<x, y>>
  <2> DEFINE S == {x, y}
  <2>1. <<x>> \in Seq(S) /\ <<x, y>> \in Seq(S) /\ y \in S
    OBVIOUS
  <2> HIDE DEF S
  <2>2. Len(<<x>>) = 1 /\ Len(<<x, y>>) = 2 /\ <<x, y>>[2] = y
    OBVIOUS
  <2>3. <<x, y>>[1] = <<x>>[1]
    OBVIOUS
  <2>4. \A i \in 1 .. Len(<<x>>) : <<x, y>>[i] = <<x>>[i]
    BY <2>2, <2>3
  <2>5. <<x, y>>[Len(<<x>>) + 1] = y /\ Len(<<x, y>>) = Len(<<x>>) + 1
    BY <2>2
  <2>6. \A s, t \in Seq(S), e \in S :
          (Len(t) = Len(s) + 1 /\ (\A i \in 1 .. Len(s) : t[i] = s[i]) /\ t[Len(s) + 1] = e)
            => s \o <<e>> = t
    BY <1>1
  <2> QED
    BY <2>1, <2>4, <2>5, <2>6
<1>3. ASSUME NEW w, NEW x, NEW y
      PROVE  <<w, x>> \o <<y>> = <<w, x, y>>
  <2> DEFINE S == {w, x, y}
  <2>1. <<w, x>> \in Seq(S) /\ <<w, x, y>> \in Seq(S) /\ y \in S
    OBVIOUS
  <2> HIDE DEF S
  <2>2. Len(<<w, x>>) = 2 /\ Len(<<w, x, y>>) = 3 /\ <<w, x, y>>[3] = y
    OBVIOUS
  <2>3. <<w, x, y>>[1] = <<w, x>>[1] /\ <<w, x, y>>[2] = <<w, x>>[2]
    OBVIOUS
  <2>4. \A i \in 1 .. Len(<<w, x>>) : <<w, x, y>>[i] = <<w, x>>[i]
    BY <2>2, <2>3
  <2>5. <<w, x, y>>[Len(<<w, x>>) + 1] = y /\ Len(<<w, x, y>>) = Len(<<w, x>>) + 1
    BY <2>2
  <2>6. \A s, t \in Seq(S), e \in S :
          (Len(t) = Len(s) + 1 /\ (\A i \in 1 .. Len(s) : t[i] = s[i]) /\ t[Len(s) + 1] = e)
            => s \o <<e>> = t
    BY <1>1
  <2> QED
    BY <2>1, <2>4, <2>5, <2>6
<1>4. ASSUME NEW w, NEW x, NEW y, NEW z
      PROVE  <<w, x, y>> \o <<z>> = <<w, x, y, z>>
  <2> DEFINE S == {w, x, y, z}
  <2>1. <<w, x, y>> \in Seq(S) /\ <<w, x, y, z>> \in Seq(S) /\ z \in S
    OBVIOUS
  <2> HIDE DEF S
  <2>2. Len(<<w, x, y>>) = 3 /\ Len(<<w, x, y, z>>) = 4 /\ <<w, x, y, z>>[4] = z
    OBVIOUS
  <2>3. <<w, x, y, z>>[1] = <<w, x, y>>[1] /\ <<w, x, y, z>>[2] = <<w, x, y>>[2] /\ <<w, x, y, z>>[3] = <<w, x, y>>[3]
    OBVIOUS
  <2>4. \A i \in 1 .. Len(<<w, x, y>>) : <<w, x, y, z>>[i] = <<w, x, y>>[i]
    BY <2>2, <2>3
  <2>5. <<w, x, y, z>>[Len(<<w, x, y>>) + 1] = z /\ Len(<<w, x, y, z>>) = Len(<<w, x, y>>) + 1
    BY <2>2
  <2>6. \A s, t \in Seq(S), e \in S :
          (Len(t) = Len(s) + 1 /\ (\A i \in 1 .. Len(s) : t[i] = s[i]) /\ t[Len(s) + 1] = e)
            => s \o <<e>> = t
    BY <1>1
  <2> QED
    BY <2>1, <2>4, <2>5, <2>6
<1>5. ASSUME NEW x, NEW y, NEW z
      PROVE  <<x>> \o <<y, z>> = <<x, y, z>>
  <2>1. <<x>> \in Seq({x, y, z}) /\ <<y>> \in Seq({x, y, z}) /\ <<z>> \in Seq({x, y, z})
    OBVIOUS
  <2>2. (<<x>> \o <<y>>) \o <<z>> = <<x>> \o (<<y>> \o <<z>>)
    BY <2>1, ConcatAssociative
  <2> QED
    BY <1>2, <1>3, <2>2
<1> QED
  BY <1>2, <1>3, <1>4, <1>5

\* What an edit is to run: with a new password, or without the account being
\* active, a revocation is in it; without an admin's role, a count.
LEMMA EditPlans ==
  ASSUME NEW a \in BOOLEAN, NEW b \in BOOLEAN, NEW c \in BOOLEAN
  PROVE  LET todo == When(a, "revoke") \o When(b, "count") \o When(c, "revoke") \o <<"write">>
         IN /\ todo \in EditTodos
            /\ a \/ c => todo \notin {<<"write">>, <<"count", "write">>}
            /\ b => todo \in CountTodos
<1> DEFINE todo == When(a, "revoke") \o When(b, "count") \o When(c, "revoke") \o <<"write">>
<1> SUFFICES /\ todo \in EditTodos
             /\ a \/ c => todo \notin {<<"write">>, <<"count", "write">>}
             /\ b => todo \in CountTodos
  OBVIOUS
<1>1. CASE a /\ b /\ c
  <2>1. todo = <<"revoke", "count", "revoke", "write">>
    <3>1. <<"revoke">> \o <<"count">> = <<"revoke", "count">>
      BY Joined
    <3>2. <<"revoke", "count">> \o <<"revoke">> = <<"revoke", "count", "revoke">>
      BY Joined
    <3>3. <<"revoke", "count", "revoke">> \o <<"write">> = <<"revoke", "count", "revoke", "write">>
      BY Joined
    <3>4. When(a, "revoke") = <<"revoke">> /\ When(b, "count") = <<"count">> /\ When(c, "revoke") = <<"revoke">>
      BY <1>1 DEF When
    <3> QED
      BY <3>1, <3>2, <3>3, <3>4
  <2> HIDE DEF todo
  <2> QED
    BY <2>1 DEF EditTodos, CountTodos
<1>2. CASE a /\ b /\ ~c
  <2>1. todo = <<"revoke", "count", "write">>
    <3>1. <<"revoke">> \o <<"count">> = <<"revoke", "count">>
      BY Joined
    <3>2. <<"revoke", "count">> \o <<"write">> = <<"revoke", "count", "write">>
      BY Joined
    <3>3. When(a, "revoke") = <<"revoke">> /\ When(b, "count") = <<"count">> /\ When(c, "revoke") = <<>>
      BY <1>2 DEF When
    <3>4. <<"revoke", "count">> \o <<>> = <<"revoke", "count">>
      OBVIOUS
    <3> QED
      BY <3>1, <3>2, <3>3, <3>4
  <2> HIDE DEF todo
  <2> QED
    BY <2>1 DEF EditTodos, CountTodos
<1>3. CASE a /\ ~b /\ c
  <2>1. todo = <<"revoke", "revoke", "write">>
    <3>1. <<"revoke">> \o <<"revoke">> = <<"revoke", "revoke">>
      BY Joined
    <3>2. <<"revoke", "revoke">> \o <<"write">> = <<"revoke", "revoke", "write">>
      BY Joined
    <3>3. When(a, "revoke") = <<"revoke">> /\ When(b, "count") = <<>> /\ When(c, "revoke") = <<"revoke">>
      BY <1>3 DEF When
    <3>4. <<"revoke">> \o <<>> = <<"revoke">>
      OBVIOUS
    <3> QED
      BY <3>1, <3>2, <3>3, <3>4
  <2> HIDE DEF todo
  <2> QED
    BY <1>3, <2>1 DEF EditTodos
<1>4. CASE a /\ ~b /\ ~c
  <2>1. todo = <<"revoke", "write">>
    BY <1>4, Joined DEF When
  <2> HIDE DEF todo
  <2> QED
    BY <1>4, <2>1 DEF EditTodos
<1>5. CASE ~a /\ b /\ c
  <2>1. todo = <<"count", "revoke", "write">>
    <3>1. <<"count">> \o <<"revoke">> = <<"count", "revoke">>
      BY Joined
    <3>2. <<"count", "revoke">> \o <<"write">> = <<"count", "revoke", "write">>
      BY Joined
    <3>3. When(a, "revoke") = <<>> /\ When(b, "count") = <<"count">> /\ When(c, "revoke") = <<"revoke">>
      BY <1>5 DEF When
    <3>4. <<>> \o <<"count">> = <<"count">>
      OBVIOUS
    <3> QED
      BY <3>1, <3>2, <3>3, <3>4
  <2> HIDE DEF todo
  <2> QED
    BY <2>1 DEF EditTodos, CountTodos
<1>6. CASE ~a /\ b /\ ~c
  <2>1. todo = <<"count", "write">>
    BY <1>6, Joined DEF When
  <2> HIDE DEF todo
  <2> QED
    BY <1>6, <2>1 DEF EditTodos, CountTodos
<1>7. CASE ~a /\ ~b /\ c
  <2>1. todo = <<"revoke", "write">>
    BY <1>7, Joined DEF When
  <2> HIDE DEF todo
  <2> QED
    BY <1>7, <2>1 DEF EditTodos
<1>8. CASE ~a /\ ~b /\ ~c
  <2>1. todo = <<"write">>
    BY <1>8, Joined DEF When
  <2> HIDE DEF todo
  <2> QED
    BY <1>8, <2>1 DEF EditTodos
<1> HIDE DEF todo
<1> QED
  BY <1>1, <1>2, <1>3, <1>4, <1>5, <1>6, <1>7, <1>8

\* A field that is given has one value.
LEMMA GivenFalse ==
  ASSUME NEW opt \in SUBSET BOOLEAN, Cardinality(opt) <= 1, NEW old \in BOOLEAN, old, ~Given(opt, old)
  PROVE  opt = {FALSE}
<1>2. opt # {TRUE, FALSE}
  <2>1. IsFiniteSet({TRUE}) /\ Cardinality({TRUE}) = 1
    BY FS_Singleton
  <2>2. FALSE \notin {TRUE} /\ {TRUE} \cup {FALSE} = {TRUE, FALSE}
    OBVIOUS
  <2>3. Cardinality({TRUE} \cup {FALSE}) = Cardinality({TRUE}) + 1
    BY <2>1, <2>2, FS_AddElement
  <2>4. Cardinality({TRUE, FALSE}) = Cardinality({TRUE}) + 1
    BY <2>2, <2>3, Zenon
  <2>5. opt = {TRUE, FALSE} => Cardinality(opt) = Cardinality({TRUE, FALSE})
    BY Zenon
  <2>6. opt = {TRUE, FALSE} => Cardinality(opt) = Cardinality({TRUE}) + 1
    BY <2>4, <2>5, Zenon
  <2>7. Cardinality(opt) # Cardinality({TRUE}) + 1
    BY <2>1
  <2> QED
    BY <2>6, <2>7, Zenon
<1>3. opt # {}
  BY DEF Given
<1>4. Given(opt, old) \in opt
  BY <1>3 DEF Given
<1> QED
  BY <1>2, <1>4

LEMMA LongTodos == EditTodos \cup DeleteTodos \subseteq ChangeTodos
<1>1. /\ <<"write">> \in ChangeTodos /\ <<"remove">> \in ChangeTodos
      /\ <<"revoke", "write">> \in ChangeTodos /\ <<"count", "write">> \in ChangeTodos
      /\ <<"revoke", "remove">> \in ChangeTodos
  BY DEF ChangeTodos
<1>2. /\ <<"revoke", "count", "write">> \in ChangeTodos
      /\ <<"count", "revoke", "write">> \in ChangeTodos
      /\ <<"revoke", "revoke", "write">> \in ChangeTodos
      /\ <<"count", "revoke", "remove">> \in ChangeTodos
      /\ <<"revoke", "count", "revoke", "write">> \in ChangeTodos
  BY DEF ChangeTodos
<1> QED
  BY <1>1, <1>2 DEF EditTodos, DeleteTodos

LEMMA UpdateKeeps ==
  ASSUME AccountsInv, TypeOK', NEW r \in Request, NEW u \in User, NEW e \in Edit,
         Update(r, u, e)
  PROVE  SessionsInv'
<1> DEFINE row  == users[u]
           new  == [row EXCEPT !.pw = Given(e.pw, @), !.admin = Given(e.admin, @),
                               !.active = Given(e.active, @)]
           todo == When(e.pw # {}, "revoke") \o When(row.admin /\ e.admin = {FALSE}, "count")
                     \o When(e.active = {FALSE}, "revoke") \o <<"write">>
           p == ChangePlan("edit", u, new, todo)
<1>1. Exists(u) /\ row \in Row /\ Begin(r, p)
  BY ExistingRow DEF AccountsInv, IndInv, Update
<1>2. /\ row.pw \in Password /\ row.admin \in BOOLEAN /\ row.active \in BOOLEAN
      /\ e.pw \in SUBSET Password /\ e.admin \in SUBSET BOOLEAN /\ e.active \in SUBSET BOOLEAN
  BY <1>1, EditAssumption DEF Row, Body
<1>3. /\ Given(e.pw, row.pw) \in Password /\ Given(e.admin, row.admin) \in BOOLEAN
      /\ Given(e.active, row.active) \in BOOLEAN
  BY <1>2, GivenFacts
<1>4. new \in Row /\ new.pw = Given(e.pw, row.pw) /\ new.active = Given(e.active, row.active)
  BY <1>1, <1>3 DEF Row
<1>5. /\ todo \in EditTodos
      /\ e.pw # {} \/ e.active = {FALSE} => todo \notin {<<"write">>, <<"count", "write">>}
  BY <1>2, EditPlans
<1> HIDE DEF new, todo
<1>6. todo \in ChangeTodos
  BY <1>5, LongTodos
<1>7. Legal(p) /\ p # Idle /\ p.op = "edit"
  BY <1>1, <1>4, <1>6, ChangePlanLegal
<1>8. p.todo = todo /\ p.base = row /\ p.new = new
  BY DEF ChangePlan
<1>9. Takes(p) => e.pw # {} \/ e.active = {FALSE}
  <2>1. new.pw # row.pw => e.pw # {}
    BY <1>4 DEF Given
  <2>2. row.active /\ ~new.active => e.active = {FALSE}
    <3>1. Cardinality(e.active) <= 1
      BY EditAssumption DEF Body
    <3> QED
      BY <1>2, <1>4, <3>1, GivenFalse
  <2> QED
    BY <1>8, <2>1, <2>2 DEF Takes
<1> HIDE DEF p
<1>10. p \notin Session
  BY <1>7 DEF Session
<1> QED
  BY <1>1, <1>5, <1>7, <1>8, <1>9, <1>10, BeginKeeps

LEMMA ChangesKeep ==
  ASSUME AccountsInv, TypeOK', NEW r \in Request, NEW u \in User,
         \/ \E p \in Password : ChangePassword(r, u, p)
         \/ UpdateMe(r, u) \/ Delete(r, u)
  PROVE  SessionsInv'
<1>1. Exists(u) /\ users[u] \in Row
  BY ExistingRow DEF AccountsInv, IndInv, ChangePassword, UpdateMe, Delete
<1>2. ASSUME NEW op \in {"password", "profile", "delete"}, NEW new \in Row,
             NEW todo \in ChangeTodos, Begin(r, ChangePlan(op, u, new, todo)),
             op = "password" => todo \in PasswordTodos,
             op = "profile" => todo = <<"write">> /\ new = users[u],
             op = "delete" => todo \in DeleteTodos
      PROVE  SessionsInv'
  <2> DEFINE p == ChangePlan(op, u, new, todo)
  <2>1. Legal(p) /\ p # Idle /\ p.op = op
    BY <1>1, ChangePlanLegal
  <2>2. p.todo = todo /\ p.base = users[u] /\ p.new = new
    BY DEF ChangePlan
  <2>3. Begin(r, p)
    BY <1>2
  <2> HIDE DEF p
  <2>4. p \notin Session
    BY <2>1 DEF Session
  <2> QED
    BY <1>2, <2>1, <2>2, <2>3, <2>4, BeginKeeps
<1>3. ASSUME NEW p \in Password, ChangePassword(r, u, p)
      PROVE  SessionsInv'
  <2>1. [users[u] EXCEPT !.pw = p] \in Row
    BY <1>1 DEF Row
  <2>2. <<"write", "revoke">> \in PasswordTodos
    BY DEF PasswordTodos
  <2> QED
    BY <1>2, <1>3, <2>1, <2>2, FixedTodos DEF ChangePassword
<1>4. CASE UpdateMe(r, u)
  BY <1>1, <1>2, <1>4, FixedTodos DEF UpdateMe
<1>5. CASE Delete(r, u)
  <2> DEFINE todo == When(users[u].admin, "count") \o <<"revoke", "remove">>
  <2>1. todo \in DeleteTodos
    <3>1. CASE users[u].admin
      <4>1. todo = <<"count", "revoke", "remove">>
        BY <3>1, Joined DEF When
      <4> HIDE DEF todo
      <4> QED
        BY <4>1 DEF DeleteTodos
    <3>2. CASE ~users[u].admin
      <4>1. todo = <<"revoke", "remove">>
        BY <3>2 DEF When
      <4> HIDE DEF todo
      <4> QED
        BY <4>1 DEF DeleteTodos
    <3> QED
      BY <3>1, <3>2
  <2>2. Begin(r, ChangePlan("delete", u, users[u], todo))
    BY <1>5 DEF Delete
  <2> HIDE DEF todo
  <2>3. todo \in ChangeTodos
    BY <2>1, LongTodos
  <2> QED
    BY <1>1, <1>2, <2>1, <2>2, <2>3
<1> QED
  BY <1>3, <1>4, <1>5

\* A crash leaves only challenges to be met; the token of a password change
\* between its statements are excused.
LEMMA CrashKeeps ==
  ASSUME AccountsInv, TypeOK', Crash
  PROVE  SessionsInv'
<1>1. /\ TypeOK /\ UNCHANGED <<users, born, tokens, issued>>
      /\ req' = [r \in Request |->
           IF InFlight(r) /\ Head(req[r].todo) = "mfa" THEN req[r] ELSE Idle]
      /\ excused' = excused \cup UNION {Left(r) : r \in Request}
  BY DEF AccountsInv, IndInv, Crash
<1>2. ASSUME NEW s \in Request, InFlight(s)'
      PROVE  InFlight(s) /\ req'[s] = req[s] /\ Rests(req'[s], req[s])
  <2>1. InFlight(s) /\ req'[s] = req[s]
    BY <1>1, <1>2 DEF InFlight
  <2> QED
    BY <1>1, <2>1, RestsSelf
<1>3. NoNewRequest
  BY <1>2 DEF NoNewRequest, Rests
<1>4. excused \subseteq excused'
  BY <1>1
<1>5. RequestsInOrder'
  <2>1. ASSUME NEW s \in Request, InFlight(s)'
        PROVE  /\ req'[s] \in Session => SessionInOrder(s)'
               /\ req'[s] \in Change => ChangeInOrder(s)'
    BY <1>1, <1>2, <1>3, <1>4, <2>1, RowsKept, OtherKept
  <2> QED
    BY <2>1 DEF RequestsInOrder
<1>6. ASSUME NEW u \in User, Dirty(u)
      PROVE  Clean(u)' = {}
  <2>1. PICK s \in Request : Dirties(s, u)
    BY <1>6 DEF Dirty
  <2>2. Left(s) = TokensOf(u)
    BY <2>1 DEF Left, Dirties
  <2>3. TokensOf(u) \subseteq excused'
    BY <1>1, <2>2
  <2> QED
    BY <1>1, <2>3 DEF Clean, TokensOf
<1>7. CleanTokensAreCurrent'
  BY <1>1, <1>4, <1>6, RowsKept, CleanKept DEF AccountsInv, SessionsInv
<1>8. BornOnce'
  BY <1>1, BornKept DEF AccountsInv, SessionsInv
<1> QED
  BY <1>5, <1>7, <1>8 DEF SessionsInv

-----------------------------------------------------------------------------

LEMMA InitSessions == Init => SessionsInv
<1> SUFFICES ASSUME Init PROVE SessionsInv
  OBVIOUS
<1>1. BornOnce
  BY DEF Init, BornOnce, Exists
<1>2. RequestsInOrder
  BY DEF Init, RequestsInOrder, InFlight
<1>3. CleanTokensAreCurrent
  BY DEF Init, CleanTokensAreCurrent
<1> QED
  BY <1>1, <1>2, <1>3 DEF SessionsInv

LEMMA SessionsStep == ASSUME AccountsInv, [Next]_vars PROVE AccountsInv'
<1>1. IndInv'
  BY Step DEF AccountsInv
<1>2. TypeOK'
  BY <1>1 DEF IndInv
<1>3. SessionsInv'
  <2>1. ASSUME NEW r \in Request, RequestStart(r) PROVE SessionsInv'
    <3>1. ASSUME NEW t \in Token, Refresh(r, t) PROVE SessionsInv'
      BY <1>2, <3>1, RefreshKeeps
    <3>2. ASSUME NEW u \in User, NEW e \in Edit, Update(r, u, e) PROVE SessionsInv'
      BY <1>2, <3>2, UpdateKeeps
    <3>3. ASSUME NEW u \in User, PasskeyLogin(r, u) \/ \E p \in Password : Login(r, u, p)
          PROVE  SessionsInv'
      BY <1>2, <3>3, LoginKeeps
    <3> QED
      BY <1>2, <2>1, <3>1, <3>2, <3>3, ChangesKeep DEF RequestStart
  <2>2. ASSUME NEW r \in Request, RequestStep(r) PROVE SessionsInv'
    BY <1>2, <2>2, SessionStatement, GenerateKeeps, CountKeeps, RevokeKeeps, WriteKeeps,
       RemoveKeeps, AbortKeeps DEF RequestStep
  <2>3. ASSUME NEW t \in Token, Logout(t) \/ DeleteExpired(t) PROVE SessionsInv'
    BY <1>2, <2>3, TokenGoneKeeps
  <2>4. CASE UNCHANGED vars
    <3>1. UNCHANGED <<users, born, tokens, issued, req, excused>>
      BY <2>4 DEF vars
    <3>2. BornOnce'
      BY <3>1, BornKept DEF AccountsInv, SessionsInv
    <3> QED
      BY <1>2, <3>1, <3>2, RowsKept, OutsideKeeps
  <2> QED
    BY <1>2, <2>1, <2>2, <2>3, <2>4, UserRowsKeep, CrashKeeps DEF Next
<1> QED
  BY <1>1, <1>3 DEF AccountsInv

LEMMA SessionsInvariant == Spec => []AccountsInv
<1>1. Init => AccountsInv
  BY InitInv, InitSessions DEF AccountsInv
<1>2. AccountsInv /\ [Next]_vars => AccountsInv'
  BY SessionsStep
<1> QED
  BY <1>1, <1>2, PTL DEF Spec

\* A password change, a deactivation and a delete end every session of the
\* user, however logins, refreshes, edits, failures and restarts overlap them;
\* the sessions that may stay are those LiveSessionsAreCurrent names
\* (user_service.go: DeleteAllForUser in Update, ChangePassword and Delete).
THEOREM ChangesEndSessions == Spec => []LiveSessionsAreCurrent
<1>1. ASSUME AccountsInv
      PROVE  LiveSessionsAreCurrent
  <2> SUFFICES ASSUME NEW t \in tokens \ excused, ~issued[t].late
               PROVE  Current(t)
    BY DEF LiveSessionsAreCurrent
  <2>1. Exists(issued[t].u)
    BY <1>1 DEF AccountsInv, IndInv, TypeOK, Exists
  <2>2. t \in Clean(issued[t].u)
    BY DEF Clean, TokensOf
  <2>3. Dirty(issued[t].u) => ~Settled(issued[t].u)
    BY DEF Dirty, Dirties, Settled, EndsSessions
  <2> QED
    BY <1>1, <2>1, <2>2, <2>3 DEF AccountsInv, SessionsInv, CleanTokensAreCurrent, Current
<1> QED
  BY SessionsInvariant, <1>1, PTL

-----------------------------------------------------------------------------
(* The last active admin.                                                  *)
(*                                                                         *)
(* A request that takes the role of one it read as an admin, or deletes    *)
(* him, has a count before it or has counted; a count that lets it go on   *)
(* saw two admins or more, and what it saw stays with the request: if they *)
(* are all still there when the row is written, another admin is left.     *)

MustCount(q) == q.base.admin /\ (q.op = "delete" \/ (q.op = "edit" /\ ~q.new.admin))

ChangeCounted(q) ==
  /\ q.seen = {} \/ Cardinality(q.seen) > 1
  /\ MustCount(q) => q.seen # {} \/ q.todo \in CountTodos
  /\ q.op \in {"password", "profile"} =>
       q.new.admin = q.base.admin /\ q.new.active = q.base.active

CountsInOrder == \A r \in Request : req[r] \in Change => ChangeCounted(req[r])

AdminsInv == AccountsInv /\ CountsInOrder /\ AdminLossIsExcused

\* n is no change, or goes on from p with what p has counted.
Counted(n, p) ==
  n \in Change =>
    /\ p \in Change
    /\ n.op = p.op /\ n.base = p.base /\ n.new = p.new /\ n.seen = p.seen
    /\ n.todo = p.todo \/ (n.todo = Tail(p.todo) /\ Head(p.todo) # "count")
Same(n, p) == n \in Change => n = p

LEMMA AdvancedCounted ==
  ASSUME TypeOK, NEW r \in Request, InFlight(r), Head(req[r].todo) # "count", NEW s \in Request
  PROVE  Counted(Advanced(r)[s], req[s])
<1>1. CASE s = r
  <2>1. Advanced(r)[r] = Idle \/ (Goes(Advanced(r)[r], req[r])
          /\ Advanced(r)[r].todo = Tail(req[r].todo)
          /\ (req[r] \in Change => Advanced(r)[r].seen = req[r].seen))
    BY AdvancedGoes
  <2>2. Idle \notin Change
    BY DEF Idle, Change
  <2> QED
    BY <1>1, <2>1, <2>2, Kinds, IdleIsNoSession DEF Counted, Goes
<1>2. CASE s # r
  BY <1>2, AdvancedFacts DEF Counted
<1> QED
  BY <1>1, <1>2

LEMMA EndedCounted ==
  ASSUME TypeOK, NEW r \in Request, NEW s \in Request
  PROVE  Counted(Ended(r)[s], req[s])
  BY EndedFacts DEF Counted, Idle, Change

LEMMA MarkedCounted ==
  ASSUME TypeOK, NEW u \in User, NEW q \in Requests,
         \A s \in Request : IssuesFor(s, u) => q[s] = req[s],
         NEW s \in Request
  PROVE  Same(MarkLate(q, u)[s], q[s])
<1>1. CASE IssuesFor(s, u)
  <2>1. req[s] \in Session
    BY <1>1, Kinds DEF IssuesFor
  <2>2. MarkLate(q, u)[s] \in Session
    BY <1>1, <2>1, MarkedRests DEF Rests, Goes
  <2> QED
    BY <2>2, IdleIsNoSession DEF Same
<1>2. CASE ~IssuesFor(s, u)
  BY <1>2, MarkedRests DEF Same
<1> QED
  BY <1>1, <1>2

LEMMA CountAhead == ASSUME NEW s \in CountTodos, Head(s) # "count" PROVE Tail(s) \in CountTodos
<1>1. CASE s = <<"revoke", "count", "write">>
  <2>1. Tail(s) = <<"count", "write">>
    BY <1>1
  <2> QED
    BY <2>1 DEF CountTodos
<1>2. CASE s = <<"revoke", "count", "revoke", "write">>
  <2>1. Tail(s) = <<"count", "revoke", "write">>
    BY <1>2
  <2> QED
    BY <2>1 DEF CountTodos
<1> QED
  BY <1>1, <1>2 DEF CountTodos

LEMMA CountedGoes ==
  ASSUME NEW n, NEW p, n \in Change, Counted(n, p), ChangeCounted(p)
  PROVE  ChangeCounted(n)
<1>1. p.todo \in CountTodos => n.todo \in CountTodos
  BY CountAhead DEF Counted
<1>2. MustCount(n) <=> MustCount(p)
  BY DEF Counted, MustCount
<1> QED
  BY <1>1, <1>2 DEF Counted, ChangeCounted

LEMMA CountsKept ==
  ASSUME CountsInOrder, \A s \in Request : Counted(req'[s], req[s])
  PROVE  CountsInOrder'
<1> SUFFICES ASSUME NEW s \in Request, req'[s] \in Change PROVE ChangeCounted(req'[s])
  BY DEF CountsInOrder, ChangeCounted, MustCount
<1>1. req[s] \in Change /\ Counted(req'[s], req[s]) /\ ChangeCounted(req[s])
  BY DEF Counted, CountsInOrder
<1> QED
  BY <1>1, CountedGoes

LEMMA AdminsKept ==
  ASSUME AdminLossIsExcused, UNCHANGED <<users, lastLoss>>, server' = server \/ server' # "up"
  PROVE  AdminLossIsExcused'
<1>1. ActiveAdmins' = ActiveAdmins
  BY DEF ActiveAdmins, Exists
<1> QED
  BY <1>1 DEF AdminLossIsExcused

\* A change begins without having counted.
LEMMA BeginCounts ==
  ASSUME AdminsInv, NEW r \in Request, NEW p, Legal(p), p # Idle,
         p \in Change => ChangeCounted(p), Begin(r, p)
  PROVE  CountsInOrder' /\ AdminLossIsExcused'
<1> DEFINE q == [req EXCEPT ![r] = p]
<1>1. TypeOK /\ ~InFlight(r) /\ CountsInOrder
  BY DEF AdminsInv, AccountsInv, IndInv, Begin
<1>2. q \in Requests /\ \A s \in Request : q[s] = IF s = r THEN p ELSE req[s]
  BY <1>1 DEF TypeOK, Requests, Legal
<1>3. p.u \in User
  BY Shapes
<1>4. \A s \in Request : IssuesFor(s, p.u) => q[s] = req[s]
  BY <1>1, <1>2 DEF IssuesFor
<1>5. req' = IF EndsSessions(p) THEN MarkLate(q, p.u) ELSE q
  BY DEF Begin
<1> HIDE DEF q
<1>6. \A s \in Request : Same(req'[s], q[s])
  <2>1. CASE EndsSessions(p)
    BY <1>1, <1>2, <1>3, <1>4, <1>5, <2>1, MarkedCounted
  <2>2. CASE ~EndsSessions(p)
    BY <1>5, <2>2 DEF Same
  <2> QED
    BY <2>1, <2>2
<1>7. CountsInOrder'
  <2> SUFFICES ASSUME NEW s \in Request, req'[s] \in Change PROVE ChangeCounted(req'[s])
    BY DEF CountsInOrder, ChangeCounted, MustCount
  <2>1. req'[s] = q[s]
    BY <1>6 DEF Same
  <2> QED
    BY <1>1, <1>2, <2>1 DEF CountsInOrder
<1> QED
  BY <1>7, AdminsKept DEF AdminsInv, Begin

LEMMA StartsCount ==
  ASSUME AdminsInv, NEW r \in Request, RequestStart(r)
  PROVE  CountsInOrder' /\ AdminLossIsExcused'
<1>1. TypeOK
  BY DEF AdminsInv, AccountsInv, IndInv
<1>2. ASSUME NEW u \in User, NEW pw \in Password, NEW todo \in SessionTodos,
             Begin(r, SessionPlan("login", u, None, pw, todo))
      PROVE  CountsInOrder' /\ AdminLossIsExcused'
  <2> DEFINE p == SessionPlan("login", u, None, pw, todo)
  <2>1. p \in Session
    BY SessionPlanLegal
  <2>2. Begin(r, p)
    BY <1>2
  <2> HIDE DEF p
  <2> QED
    BY <2>1, <2>2, IdleIsNoSession, BeginCounts DEF Legal
<1>3. ASSUME NEW u \in User, Exists(u), NEW op \in {"password", "profile", "edit", "delete"},
             NEW new \in Row, NEW todo \in ChangeTodos, Begin(r, ChangePlan(op, u, new, todo)),
             users[u].admin /\ (op = "delete" \/ (op = "edit" /\ ~new.admin))
               => todo \in CountTodos,
             op \in {"password", "profile"} =>
               new.admin = users[u].admin /\ new.active = users[u].active
      PROVE  CountsInOrder' /\ AdminLossIsExcused'
  <2> DEFINE p == ChangePlan(op, u, new, todo)
  <2>1. users[u] \in Row
    BY <1>1, <1>3, ExistingRow
  <2>2. Legal(p) /\ p # Idle /\ ChangeCounted(p)
    BY <1>3, <2>1, ChangePlanLegal DEF ChangePlan, ChangeCounted, MustCount
  <2>3. Begin(r, p)
    BY <1>3
  <2> HIDE DEF p
  <2> QED
    BY <2>2, <2>3, BeginCounts
<1>4. ASSUME NEW t \in Token, Refresh(r, t)
      PROVE  CountsInOrder' /\ AdminLossIsExcused'
  <2> DEFINE i == issued[t]
             b == SessionPlan("refresh", i.u, t, i.pw, <<"rotate", "lookup", "issue">>)
             p == [b EXCEPT !.late = @ \/ i.late]
  <2>1. t \in tokens /\ Begin(r, p)
    BY <1>4 DEF Refresh
  <2>2. i \in Issue
    BY <1>1, <2>1 DEF TypeOK
  <2>3. <<"rotate", "lookup", "issue">> \in SessionTodos /\ i.u \in User /\ i.pw \in Password
    BY <2>2 DEF Issue, SessionTodos
  <2>4. b \in Session
    BY <2>3, SessionPlanLegal
  <2>5. (b.late \/ i.late) \in BOOLEAN
    OBVIOUS
  <2> HIDE DEF b, i
  <2>6. p \in Session
    BY <2>4, <2>5 DEF Session
  <2> HIDE DEF p
  <2> QED
    BY <2>1, <2>6, IdleIsNoSession, BeginCounts DEF Legal
<1>5. ASSUME NEW u \in User, NEW p \in Password, Login(r, u, p)
      PROVE  CountsInOrder' /\ AdminLossIsExcused'
  BY <1>2, <1>5 DEF Login, SessionTodos
<1>6. ASSUME NEW u \in User, PasskeyLogin(r, u)
      PROVE  CountsInOrder' /\ AdminLossIsExcused'
  <2>1. users[u].pw \in Password
    BY <1>1, <1>6, ExistingRow DEF PasskeyLogin, Row
  <2> QED
    BY <1>2, <1>6, <2>1 DEF PasskeyLogin, SessionTodos
<1>7. ASSUME NEW u \in User,
             UpdateMe(r, u) \/ Delete(r, u) \/ \E p \in Password : ChangePassword(r, u, p)
      PROVE  CountsInOrder' /\ AdminLossIsExcused'
  <2>1. Exists(u) /\ users[u] \in Row
    BY <1>1, <1>7, ExistingRow DEF UpdateMe, Delete, ChangePassword
  <2>2. ASSUME Delete(r, u)
        PROVE  CountsInOrder' /\ AdminLossIsExcused'
    <3>1. When(users[u].admin, "count") \in Seq(ChangeSteps)
      BY WhenIsSeq DEF ChangeSteps
    <3>2. When(users[u].admin, "count") \o <<"revoke", "remove">> \in ChangeTodos
      BY <3>1, FixedTodos, ConcatTodo
    <3>3. users[u].admin => When(users[u].admin, "count") \o <<"revoke", "remove">> \in CountTodos
      BY Joined DEF When, CountTodos
    <3> QED
      BY <1>3, <2>1, <2>2, <3>2, <3>3 DEF Delete
  <2>3. \A p \in Password :
          LET new == [users[u] EXCEPT !.pw = p]
          IN  new \in Row /\ new.admin = users[u].admin /\ new.active = users[u].active
    BY <2>1 DEF Row
  <2> QED
    BY <1>3, <1>7, <2>1, <2>2, <2>3, FixedTodos DEF UpdateMe, ChangePassword
<1>8. ASSUME NEW u \in User, NEW e \in Edit, Update(r, u, e)
      PROVE  CountsInOrder' /\ AdminLossIsExcused'
  <2> DEFINE row  == users[u]
             new  == [row EXCEPT !.pw = Given(e.pw, @), !.admin = Given(e.admin, @),
                                 !.active = Given(e.active, @)]
             todo == When(e.pw # {}, "revoke") \o When(row.admin /\ e.admin = {FALSE}, "count")
                       \o When(e.active = {FALSE}, "revoke") \o <<"write">>
  <2>1. Exists(u) /\ row \in Row /\ Begin(r, ChangePlan("edit", u, new, todo))
    BY <1>1, <1>8, ExistingRow DEF Update
  <2>2. /\ row.pw \in Password /\ row.admin \in BOOLEAN /\ row.active \in BOOLEAN
        /\ e.pw \in SUBSET Password /\ e.admin \in SUBSET BOOLEAN /\ e.active \in SUBSET BOOLEAN
    BY <2>1, EditAssumption DEF Row, Body
  <2>3. /\ Given(e.pw, row.pw) \in Password /\ Given(e.admin, row.admin) \in BOOLEAN
        /\ Given(e.active, row.active) \in BOOLEAN
    BY <2>2, GivenFacts
  <2>4. new \in Row /\ new.admin = Given(e.admin, row.admin)
    BY <2>1, <2>3 DEF Row
  <2>5. todo \in EditTodos /\ (row.admin /\ e.admin = {FALSE} => todo \in CountTodos)
    BY <2>2, EditPlans
  <2> HIDE DEF new, todo
  <2>6. row.admin /\ ~new.admin => e.admin = {FALSE}
    <3>1. Cardinality(e.admin) <= 1
      BY EditAssumption DEF Body
    <3> QED
      BY <2>2, <2>4, <3>1, GivenFalse
  <2> QED
    BY <1>3, <2>1, <2>4, <2>5, <2>6, LongTodos
<1> QED
  BY <1>4, <1>5, <1>6, <1>7, <1>8 DEF RequestStart

\* A row written or removed by r: whoever else was an active admin still is.
LEMMA LossIsExcused ==
  ASSUME AdminsInv, NEW r \in Request, InFlight(r), req[r] \in Change,
         NEW u \in User, u = req[r].u, server = "up",
         u \in ActiveAdmins /\ u \notin ActiveAdmins' =>
           \/ Loss(r) \in {"deactivated", "stale"}
           \/ MustCount(req[r]) /\ req[r].todo \notin CountTodos,
         \A x \in User : x # u => users'[x] = users[x],
         lastLoss' = IF u \in ActiveAdmins /\ u \notin ActiveAdmins' THEN Loss(r) ELSE lastLoss
  PROVE  AdminLossIsExcused'
<1> SUFFICES ASSUME ActiveAdmins' = {} PROVE lastLoss' \in {"deactivated", "stale", "race"}
  BY DEF AdminLossIsExcused
<1>1. ActiveAdmins \subseteq {u}
  BY DEF ActiveAdmins, Exists
<1>2. CASE u \in ActiveAdmins
  <2>1. ActiveAdmins = {u}
    BY <1>1, <1>2
  <2>2. CASE MustCount(req[r]) /\ req[r].todo \notin CountTodos
    <3>1. Cardinality({u}) = 1
      BY FS_Singleton
    <3>2. req[r].seen # {} /\ Cardinality(req[r].seen) > 1
      BY <2>2 DEF AdminsInv, CountsInOrder, ChangeCounted
    <3>3. ~(req[r].seen \subseteq ActiveAdmins)
      <4>1. req[r].seen \subseteq {u} => req[r].seen = {u}
        BY <3>2
      <4> QED
        BY <2>1, <3>1, <3>2, <4>1
    <3> QED
      BY <1>2, <3>3 DEF Loss
  <2> QED
    BY <1>2, <2>2
<1>3. CASE u \notin ActiveAdmins
  <2>1. ActiveAdmins = {}
    BY <1>1, <1>3
  <2> QED
    BY <1>3, <2>1 DEF AdminsInv, AdminLossIsExcused
<1> QED
  BY <1>2, <1>3

LEMMA RequestsCount ==
  ASSUME AdminsInv, NEW r \in Request, RequestStep(r)
  PROVE  CountsInOrder' /\ AdminLossIsExcused'
<1>1. TypeOK /\ InFlight(r) /\ CountsInOrder /\ AdminLossIsExcused
  BY DEF AdminsInv, AccountsInv, IndInv, RequestStep, MFAVerified, Lookup, generateTokens, Rotate,
         Count, DeleteAllForUser, Write, Remove, Abort, At
<1>2. /\ Head(req[r].todo) # "count" => \A s \in Request : Counted(Advanced(r)[s], req[s])
      /\ \A s \in Request : Counted(Ended(r)[s], req[s])
  BY <1>1, AdvancedCounted, EndedCounted
<1>3. CASE /\ (req' = Advanced(r) /\ Head(req[r].todo) # "count") \/ req' = Ended(r)
           /\ UNCHANGED <<server, users, lastLoss>>
  BY <1>1, <1>2, <1>3, CountsKept, AdminsKept
<1>4. CASE Count(r) /\ req' # Ended(r)
  <2>1. /\ CountAdmins > 1 /\ req' = [Advanced(r) EXCEPT ![r].seen = ActiveAdmins]
        /\ UNCHANGED <<server, users, lastLoss>>
    BY <1>4 DEF Count
  <2> DEFINE n == [Advanced(r)[r] EXCEPT !.seen = ActiveAdmins]
  <2>2. Advanced(r) \in Requests /\ req[r] \in Change /\ ActiveAdmins \in SUBSET User
    BY <1>1, <1>4, AdvancedFacts, AtFacts DEF Count, ChangeSteps, At, ActiveAdmins
  <2>3. Advanced(r)[r] \in Change \cup {Idle}
    BY <1>1, <2>2, AdvancedGoes DEF Goes
  <2>4. req' = [Advanced(r) EXCEPT ![r] = n] /\ (n \in Change => n.seen = ActiveAdmins)
    <3>1. ASSUME Advanced(r)[r] \in Change PROVE n.seen = ActiveAdmins
      BY <2>2, <3>1 DEF Change
    <3>2. ASSUME Advanced(r)[r] = Idle PROVE n \notin Change
      BY <3>2 DEF Idle, Change
    <3> QED
      BY <2>1, <2>2, <2>3, <3>1, <3>2
  <2>6. /\ Advanced(r)[r] = Idle => n \notin Change
        /\ n \in Change => /\ n.op = Advanced(r)[r].op /\ n.base = Advanced(r)[r].base
                           /\ n.new = Advanced(r)[r].new
    <3>1. ASSUME Advanced(r)[r] = Idle PROVE n \notin Change
      BY <3>1 DEF Idle, Change
    <3>2. ASSUME Advanced(r)[r] \in Change
          PROVE  /\ n.op = Advanced(r)[r].op /\ n.base = Advanced(r)[r].base
                 /\ n.new = Advanced(r)[r].new
      BY <3>2 DEF Change
    <3> QED
      BY <2>3, <3>1, <3>2
  <2> HIDE DEF n
  <2>5. req'[r] = n /\ \A s \in Request : s # r => req'[s] = Advanced(r)[s]
    BY <2>2, <2>4 DEF Requests
  <2>7. CountsInOrder'
    <3> SUFFICES ASSUME NEW s \in Request, req'[s] \in Change PROVE ChangeCounted(req'[s])
      BY DEF CountsInOrder, ChangeCounted, MustCount
    <3>1. CASE s = r
      <4>1. n \in Change /\ n.seen = ActiveAdmins /\ Cardinality(ActiveAdmins) > 1
        BY <2>1, <2>4, <2>5, <3>1 DEF CountAdmins
      <4>2. ActiveAdmins # {}
        BY <4>1, FS_EmptySet
      <4>3. Advanced(r)[r] # Idle
        BY <2>6, <4>1
      <4>4. n.op = req[r].op /\ n.base = req[r].base /\ n.new = req[r].new
        BY <1>1, <2>2, <2>6, <4>1, <4>3, AdvancedGoes DEF Goes
      <4>5. ChangeCounted(req[r])
        BY <1>1, <2>2 DEF CountsInOrder
      <4> QED
        BY <2>5, <3>1, <4>1, <4>2, <4>4, <4>5 DEF ChangeCounted
    <3>2. CASE s # r
      BY <1>1, <2>2, <2>5, <3>2, AdvancedFacts DEF CountsInOrder
    <3> QED
      BY <3>1, <3>2
  <2> QED
    BY <1>1, <2>1, <2>7, AdminsKept
<1>5. CASE Write(r) /\ Exists(req[r].u)
  <2> DEFINE stale == \/ users[req[r].u].pw # req[r].base.pw
                      \/ users[req[r].u].active # req[r].base.active
  <2>1. /\ req[r] \in Change /\ req[r].new \in Row /\ server = "up"
    BY <1>1, <1>5, AtFacts, Kinds DEF Write, At, ChangeSteps
  <2>2. PICK u \in User : u = req[r].u
    BY <1>1, Kinds
  <2>3. /\ users' = [users EXCEPT ![u] = req[r].new]
        /\ req' = IF stale THEN MarkLate(Advanced(r), u) ELSE Advanced(r)
        /\ lastLoss' = IF u \in ActiveAdmins /\ ~(req[r].new.admin /\ req[r].new.active)
                         THEN Loss(r) ELSE lastLoss
    BY <1>5, <2>2 DEF Write
  <2> HIDE DEF stale
  <2>4. users'[u] = req[r].new /\ \A x \in User : x # u => users'[x] = users[x]
    BY <1>1, <2>3 DEF TypeOK
  <2>5. u \in ActiveAdmins' <=> req[r].new.admin /\ req[r].new.active
    BY <2>1, <2>4, NoneAssumption DEF ActiveAdmins, Exists
  <2>8. ASSUME ~(req[r].new.admin /\ req[r].new.active), Loss(r) \notin {"deactivated", "stale"}
        PROVE  MustCount(req[r]) /\ req[r].todo \notin CountTodos
    <3>1. /\ req[r].op \in {"password", "profile", "edit", "delete"}
          /\ ChangeInOrder(r) /\ ChangeCounted(req[r]) /\ Head(req[r].todo) = "write"
      BY <1>1, <1>5, <2>1, Kinds
         DEF AdminsInv, AccountsInv, SessionsInv, RequestsInOrder, CountsInOrder, Write, At
    <3>2. ~ByOldRow(req[r])
      BY <2>8 DEF Loss
    <3>3. req[r].op # "delete"
      BY <3>1, DeleteHeads DEF ChangeInOrder
    <3>4. req[r].op = "edit"
      BY <2>8, <3>1, <3>2, <3>3 DEF ChangeCounted, ByOldRow
    <3>5. req[r].new.active
      BY <2>8, <3>2, <3>4 DEF Loss, ByOldRow
    <3>6. req[r].todo = <<"write">>
      BY <3>1, <3>4, EditHeads DEF ChangeInOrder
    <3> QED
      BY <2>8, <3>2, <3>4, <3>5, <3>6 DEF MustCount, ByOldRow, CountTodos
  <2>6. AdminLossIsExcused'
    BY <1>1, <2>1, <2>2, <2>3, <2>4, <2>5, <2>8, LossIsExcused
  <2>7. \A s \in Request : Counted(req'[s], req[s])
    <3>1. Advanced(r) \in Requests
      BY <1>1, AdvancedFacts
    <3>2. \A s \in Request : IssuesFor(s, u) => Advanced(r)[s] = req[s]
      BY <1>1, <2>1, AdvancedFacts DEF IssuesFor, Change
    <3>3. \A s \in Request : Same(MarkLate(Advanced(r), u)[s], Advanced(r)[s])
      BY <1>1, <3>1, <3>2, MarkedCounted
    <3>4. \A s \in Request : Counted(Advanced(r)[s], req[s])
      BY <1>2, <1>5 DEF Write, At
    <3> QED
      BY <2>3, <3>3, <3>4 DEF Counted, Same
  <2> QED
    BY <1>1, <2>6, <2>7, CountsKept
<1>6. CASE Remove(r)
  <2>1. req[r] \in Change /\ server = "up"
    BY <1>1, <1>6, AtFacts DEF Remove, At, ChangeSteps
  <2>2. PICK u \in User : u = req[r].u
    BY <1>1, Kinds
  <2>3. /\ users' = [users EXCEPT ![u] = None] /\ req' = Ended(r)
        /\ lastLoss' = IF u \in ActiveAdmins THEN Loss(r) ELSE lastLoss
    BY <1>6, <2>2 DEF Remove
  <2>4. users'[u] = None /\ \A x \in User : x # u => users'[x] = users[x]
    BY <1>1, <2>3 DEF TypeOK
  <2>5. u \notin ActiveAdmins'
    BY <2>4 DEF ActiveAdmins, Exists
  <2>6. ASSUME Loss(r) \notin {"deactivated", "stale"}
        PROVE  MustCount(req[r]) /\ req[r].todo \notin CountTodos
    <3>1. /\ req[r].op \in {"password", "profile", "edit", "delete"}
          /\ ChangeInOrder(r) /\ Head(req[r].todo) = "remove"
      BY <1>1, <1>6, <2>1, Kinds
         DEF AdminsInv, AccountsInv, SessionsInv, RequestsInOrder, Remove, At
    <3>2. req[r].op # "password"
      BY <3>1, PasswordHeads DEF ChangeInOrder
    <3>3. req[r].op # "profile"
      BY <3>1 DEF ChangeInOrder
    <3>4. req[r].op # "edit"
      BY <3>1, EditHeads DEF ChangeInOrder, EditTodos
    <3>5. req[r].todo = <<"remove">>
      BY <3>1, <3>2, <3>3, <3>4, DeleteHeads DEF ChangeInOrder
    <3>6. ~ByOldRow(req[r])
      BY <2>6 DEF Loss
    <3> QED
      BY <3>1, <3>2, <3>3, <3>4, <3>5, <3>6 DEF MustCount, ByOldRow, CountTodos
  <2>7. AdminLossIsExcused'
    BY <1>1, <2>1, <2>2, <2>3, <2>4, <2>5, <2>6, LossIsExcused
  <2> QED
    BY <1>1, <1>2, <2>3, <2>7, CountsKept
<1>7. \/ MFAVerified(r) \/ Lookup(r) \/ generateTokens(r) \/ Rotate(r) \/ DeleteAllForUser(r)
      \/ Abort(r) \/ (Count(r) /\ req' = Ended(r)) \/ (Write(r) /\ ~Exists(req[r].u))
      => /\ (req' = Advanced(r) /\ Head(req[r].todo) # "count") \/ req' = Ended(r)
         /\ UNCHANGED <<server, users, lastLoss>>
  BY DEF At, MFAVerified, Lookup, generateTokens, Rotate, Count, DeleteAllForUser, Write, Abort
<1> QED
  BY <1>3, <1>4, <1>5, <1>6, <1>7 DEF RequestStep

LEMMA OutsideCounts ==
  ASSUME AdminsInv,
         \/ \E t \in Token : Logout(t) \/ DeleteExpired(t)
         \/ \E u \in User, b \in BOOLEAN : CreateUser(u, b) \/ SetMFAEnabled(u, b)
         \/ BootstrapAdmin \/ Crash \/ UNCHANGED vars
  PROVE  CountsInOrder' /\ AdminLossIsExcused'
<1>1. TypeOK /\ CountsInOrder /\ AdminLossIsExcused
  BY DEF AdminsInv, AccountsInv, IndInv
<1>2. CountsInOrder'
  <2>1. CASE req' = req
    BY <1>1, <2>1 DEF CountsInOrder
  <2>2. CASE Crash
    <3>1. \A s \in Request : req'[s] = req[s] \/ req'[s] = Idle
      BY <2>2 DEF Crash
    <3>2. Idle \notin Change
      BY DEF Idle, Change
    <3> QED
      BY <1>1, <3>1, <3>2 DEF CountsInOrder
  <2> QED
    BY <2>1, <2>2 DEF Logout, DeleteExpired, CreateUser, SetMFAEnabled, BootstrapAdmin, vars
<1>3. CASE UNCHANGED <<users, lastLoss>> /\ (server' = server \/ server' # "up")
  BY <1>1, <1>2, <1>3, AdminsKept
<1>4. CASE ActiveAdmins \subseteq ActiveAdmins' /\ server' = server /\ lastLoss' = lastLoss
  BY <1>1, <1>2, <1>4 DEF AdminLossIsExcused
<1>5. CASE ActiveAdmins' # {}
  BY <1>2, <1>5 DEF AdminLossIsExcused
<1>6. ASSUME NEW u \in User, NEW b \in BOOLEAN, CreateUser(u, b) \/ SetMFAEnabled(u, b)
      PROVE  ActiveAdmins \subseteq ActiveAdmins' /\ server' = server /\ lastLoss' = lastLoss
  <2>1. server' = server /\ lastLoss' = lastLoss
    BY <1>6 DEF CreateUser, SetMFAEnabled
  <2>2. \A x \in User : x # u => users'[x] = users[x]
    BY <1>1, <1>6 DEF CreateUser, SetMFAEnabled, TypeOK
  <2>3. u \in ActiveAdmins => u \in ActiveAdmins'
    <3>1. CASE CreateUser(u, b)
      <4>1. ~Exists(u)
        BY <3>1 DEF CreateUser, AdminsInv, AccountsInv, SessionsInv, BornOnce
      <4> QED
        BY <4>1 DEF ActiveAdmins
    <3>2. CASE SetMFAEnabled(u, b)
      <4>1. users'[u] = [users[u] EXCEPT !.mfa = b] /\ Exists(u)
        BY <1>1, <3>2 DEF SetMFAEnabled, TypeOK
      <4>2. users[u] \in Row
        BY <1>1, <4>1, ExistingRow
      <4>3. users'[u] \in Row /\ users'[u].admin = users[u].admin /\ users'[u].active = users[u].active
        BY <4>1, <4>2 DEF Row
      <4> QED
        BY <4>3, NoneAssumption DEF ActiveAdmins, Exists
    <3> QED
      BY <1>6, <3>1, <3>2
  <2> QED
    BY <2>1, <2>2, <2>3 DEF ActiveAdmins, Exists
<1>7. ASSUME BootstrapAdmin, server' = "up" PROVE ActiveAdmins' # {}
  <2>1. CASE ActiveAdmins # {} /\ UNCHANGED <<users, born>>
    BY <2>1 DEF ActiveAdmins, Exists
  <2>2. CASE \E u \in BootUser \ born :
               users' = [users EXCEPT ![u] =
                  [pw |-> FirstPassword, admin |-> TRUE, active |-> TRUE, mfa |-> FALSE]]
    <3>1. PICK u \in User :
            users'[u] = [pw |-> FirstPassword, admin |-> TRUE, active |-> TRUE, mfa |-> FALSE]
      BY <1>1, <2>2, BootUserAssumption DEF TypeOK
    <3>2. users'[u] \in Row /\ users'[u].admin /\ users'[u].active
      BY <3>1, PasswordAssumption DEF Row
    <3> QED
      BY <3>2, NoneAssumption DEF ActiveAdmins, Exists
  <2> QED
    BY <1>7, <2>1, <2>2 DEF BootstrapAdmin
<1>8. CASE BootstrapAdmin
  <2>1. server' # "up" => UNCHANGED <<users, lastLoss>>
    BY <1>8 DEF BootstrapAdmin
  <2> QED
    BY <1>3, <1>5, <1>7, <1>8, <2>1
<1> QED
  BY <1>3, <1>4, <1>6, <1>8 DEF Logout, DeleteExpired, Crash, vars

LEMMA AdminsStep == ASSUME AdminsInv, [Next]_vars PROVE AdminsInv'
<1>1. AccountsInv'
  BY SessionsStep DEF AdminsInv
<1>2. CountsInOrder' /\ AdminLossIsExcused'
  <2>1. CASE \E r \in Request : RequestStart(r) \/ RequestStep(r)
    BY <2>1, StartsCount, RequestsCount
  <2> QED
    BY <2>1, OutsideCounts DEF Next
<1> QED
  BY <1>1, <1>2 DEF AdminsInv

\* While the server is up there is an active admin, unless the last one was
\* deactivated, or lost to a request that acted on a row changed since, or to
\* one that counted two or more of whom one has gone since: the counts of
\* user_service.go and the bootstrap of main hold against everything else, for
\* any number of admins and requests.
THEOREM AdminsAreGuarded == Spec => []AdminLossIsExcused
<1>1. Init => AdminsInv
  <2>1. Init => CountsInOrder /\ AdminLossIsExcused
    BY DEF Init, CountsInOrder, AdminLossIsExcused, Idle, Change
  <2> QED
    BY <2>1, InitInv, InitSessions DEF AdminsInv, AccountsInv
<1>2. AdminsInv /\ [Next]_vars => AdminsInv'
  BY AdminsStep
<1>3. AdminsInv => AdminLossIsExcused
  BY DEF AdminsInv
<1> QED
  BY <1>1, <1>2, <1>3, PTL DEF Spec
=============================================================================

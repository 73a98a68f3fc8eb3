------------------------------ MODULE Accounts ------------------------------
(***************************************************************************)
(* User accounts and refresh tokens: service/auth_service.go (login,       *)
(* refresh, logout, bootstrap) and service/user_service.go (profile,       *)
(* password, admin edit, delete) against the users and refresh_tokens      *)
(* tables. Each SQL statement is one atomic step; a request in flight is   *)
(* the list of the statements it has still to run.                         *)
(*                                                                         *)
(* A member of User is a user id, never used twice. The columns kept are   *)
(* those that decide who may log in and who administers; the others are    *)
(* what a profile edit changes.                                            *)
(***************************************************************************)
EXTENDS Naturals, FiniteSets, Sequences

CONSTANTS
  User,
  BootUser,   \* the ids that may be given to the configured admin username
  Token,      \* the refresh tokens that may be made
  Password,
  FirstPassword,   \* the password a new account gets
  Request,    \* the requests that may be in flight at one time
  Edit,       \* the bodies of admin edits considered
  Ops,        \* the operations considered
  None        \* no row, no token

OpNames == {"login", "refresh", "logout", "password", "profile", "edit", "delete",
            "mfa", "crash"}

Row  == [pw : Password, admin : BOOLEAN, active : BOOLEAN, mfa : BOOLEAN]
\* late: the request overlapped one that ends the sessions of its user.
Issue == [u : User, pw : Password, parent : Token \cup {None}, late : BOOLEAN]
\* An optional field of a request body is the set of its value, or empty.
Body == [pw : SUBSET Password, admin : SUBSET BOOLEAN, active : SUBSET BOOLEAN]

ASSUME BootUserAssumption == BootUser \subseteq User
ASSUME PasswordAssumption == FirstPassword \in Password
ASSUME EditAssumption ==
  Edit \subseteq Body /\ \A e \in Edit : \A f \in DOMAIN e : Cardinality(e[f]) <= 1
ASSUME OpsAssumption  == Ops \subseteq OpNames
ASSUME NoneAssumption == None \notin Row \cup Issue \cup Token

VARIABLES
  server,    \* "down", "up" or "failed" (exited during bootstrap)
  users,     \* the users table
  born,      \* ids that have been used
  tokens,    \* the refresh_tokens table
  issued,    \* history: what each token was issued for; None: not yet issued
  req,       \* the requests in flight
  excused,   \* history: tokens left by a revocation or write that went wrong
  lastLoss   \* history: how the last active admin to go was lost

vars == <<server, users, born, tokens, issued, req, excused, lastLoss>>

\* What a request that issues a token, and one that changes a row, may have left.
SessionTodos == {<<"mfa", "lookup", "issue">>, <<"rotate", "lookup", "issue">>,
                 <<"lookup", "issue">>, <<"issue">>}
ChangeTodos  == Seq({"count", "revoke", "write", "remove"}) \ {<<>>}
Session == [op : {"login", "refresh"}, todo : SessionTodos, u : User,
            tok : Token \cup {None}, pw : Password, late : BOOLEAN]
Change  == [op : {"password", "profile", "edit", "delete"}, todo : ChangeTodos, u : User,
            base : Row, new : Row, seen : SUBSET User]
Idle    == [op |-> "idle"]

TypeOK ==
  /\ server \in {"down", "up", "failed"}
  /\ users \in [User -> Row \cup {None}]
  /\ born \subseteq User
  /\ tokens \subseteq Token
  /\ \A t \in tokens : issued[t] # None /\ users[issued[t].u] # None    \* foreign key
  /\ issued \in [Token -> Issue \cup {None}]
  /\ req \in [Request -> Session \cup Change \cup {Idle}]
  /\ excused \subseteq Token
  /\ lastLoss \in {"none", "deactivated", "stale", "race", "guarded"}

Init ==
  /\ server = "down"
  /\ users = [u \in User |-> None]
  /\ born = {}
  /\ tokens = {}
  /\ issued = [t \in Token |-> None]
  /\ req = [r \in Request |-> Idle]
  /\ excused = {}
  /\ lastLoss = "none"

-----------------------------------------------------------------------------
(* Building blocks.                                                        *)

Exists(u)    == users[u] # None
ActiveAdmins == {u \in User : Exists(u) /\ users[u].admin /\ users[u].active}

\* Mutant: inactive admins are counted too.
M_CountAdmins_Inactive == Cardinality({u \in User : Exists(u) /\ users[u].admin})

CountAdmins == Cardinality(ActiveAdmins)
TokensOf(u) == {t \in tokens : issued[t].u = u}
InFlight(r) == req[r] # Idle

IssuesFor(r, u) == InFlight(r) /\ req[r].op \in {"login", "refresh"} /\ req[r].u = u

\* The request p is to end the sessions of its user.
EndsSessions(p) ==
  \/ p.op \in {"password", "delete"}
  \/ p.op = "edit" /\ (p.new.pw # p.base.pw \/ ~p.new.active)

Settled(u) == \A r \in Request : ~(InFlight(r) /\ req[r].u = u /\ EndsSessions(req[r]))

\* Requests for u with the statements they will run: one that issues a token,
\* the successor of tok if there is one, and one that changes the row to new.
SessionPlan(op, u, tok, pw, todo) ==
  [op |-> op, todo |-> todo, u |-> u, tok |-> tok, pw |-> pw, late |-> ~Settled(u)]
ChangePlan(op, u, new, todo) ==
  [op |-> op, todo |-> todo, u |-> u, base |-> users[u], new |-> new, seen |-> {}]

\* Every request that will issue a token for u is marked.
MarkLate(q, u) ==
  [s \in Request |-> IF IssuesFor(s, u) THEN [q[s] EXCEPT !.late = TRUE] ELSE q[s]]

Begin(r, p) ==
  /\ server = "up"
  /\ p.op \in Ops
  /\ ~InFlight(r)
  /\ LET q == [req EXCEPT ![r] = p]
     IN req' = IF EndsSessions(p) THEN MarkLate(q, p.u) ELSE q
  /\ UNCHANGED <<server, users, born, tokens, issued, excused, lastLoss>>

\* The next statement of r is step.
At(r, step) ==
  /\ server = "up"
  /\ InFlight(r)
  /\ Head(req[r].todo) = step

\* Mutant: a finished request is not ended.
M_Advanced_NoEnd(r) == [req EXCEPT ![r].todo = Tail(@)]

Advanced(r) ==
  [req EXCEPT ![r] = IF Len(req[r].todo) = 1 THEN Idle
                     ELSE [req[r] EXCEPT !.todo = Tail(req[r].todo)]]
Ended(r) == [req EXCEPT ![r] = Idle]

When(cond, step) == IF cond THEN <<step>> ELSE <<>>

-----------------------------------------------------------------------------
(* AuthService.                                                            *)

\* Login: the row is read, is_active and the password checked. With MFA the
\* caller gets a challenge; else the tokens are generated from this row.
Login(r, u, p) ==
  /\ Exists(u)
  /\ users[u].active
  /\ users[u].pw = p
  /\ Begin(r, SessionPlan("login", u, None, p,
       IF users[u].mfa THEN <<"mfa", "lookup", "issue">> ELSE <<"issue">>))

\* A passkey assertion names the user (FinishPasskeyLogin).
PasskeyLogin(r, u) ==
  /\ Exists(u)
  /\ Begin(r, SessionPlan("login", u, None, users[u].pw, <<"lookup", "issue">>))

\* The challenge is met; its token lives in redis (service/mfa_service.go).
MFAVerified(r) ==
  /\ At(r, "mfa")
  /\ req' = Advanced(r)
  /\ UNCHANGED <<server, users, born, tokens, issued, excused, lastLoss>>

\* GetByID, then the is_active check.
Lookup(r) ==
  /\ At(r, "lookup")
  /\ req' = IF Exists(req[r].u) /\ users[req[r].u].active THEN Advanced(r) ELSE Ended(r)
  /\ UNCHANGED <<server, users, born, tokens, issued, excused, lastLoss>>

\* generateTokens: INSERT of a fresh token, which needs the user's row.
generateTokens(r) ==
  /\ At(r, "issue")
  /\ \/ /\ Exists(req[r].u)
        /\ \E t \in Token :
             /\ issued[t] = None
             /\ tokens' = tokens \cup {t}
             /\ issued' = [issued EXCEPT ![t] =
                  [u |-> req[r].u, pw |-> req[r].pw, parent |-> req[r].tok, late |-> req[r].late]]
             /\ excused' = IF req[r].tok \in excused THEN excused \cup {t} ELSE excused
        /\ req' = Advanced(r)
     \/ /\ ~Exists(req[r].u)
        /\ req' = Ended(r)
        /\ UNCHANGED <<tokens, issued, excused>>
  /\ UNCHANGED <<server, users, born, lastLoss>>

\* Refresh: GetByHash finds the token. (One that is past its expires_at is
\* refused like one that is not there.)
Refresh(r, t) ==
  /\ t \in tokens
  /\ LET i == issued[t] IN
     Begin(r, [SessionPlan("refresh", i.u, t, i.pw, <<"rotate", "lookup", "issue">>)
                 EXCEPT !.late = @ \/ i.late])

\* Mutant: the row is kept.
M_Rotate_Keeps(r) ==
  /\ At(r, "rotate")
  /\ req' = Advanced(r)
  /\ UNCHANGED <<server, users, born, tokens, issued, excused, lastLoss>>

\* Refresh: DeleteByHash, which is content to delete nothing.
Rotate(r) ==
  /\ At(r, "rotate")
  /\ tokens' = tokens \ {req[r].tok}
  /\ req' = Advanced(r)
  /\ UNCHANGED <<server, users, born, issued, excused, lastLoss>>

Logout(t) ==
  /\ server = "up"
  /\ "logout" \in Ops
  /\ t \in tokens
  /\ tokens' = tokens \ {t}
  /\ UNCHANGED <<server, users, born, issued, req, excused, lastLoss>>

\* The token cleanup goroutine finds t past its expires_at.
DeleteExpired(t) ==
  /\ server = "up"
  /\ "logout" \in Ops
  /\ t \in tokens
  /\ tokens' = tokens \ {t}
  /\ UNCHANGED <<server, users, born, issued, req, excused, lastLoss>>

\* main starts; BootstrapAdmin inserts the configured admin if there is no
\* active one, and the process exits when the username is taken.
BootstrapAdmin ==
  /\ server = "down"
  /\ \/ ActiveAdmins # {} /\ server' = "up" /\ UNCHANGED <<users, born>>
     \/ /\ ActiveAdmins = {}
        /\ \E u \in BootUser : Exists(u)
        /\ server' = "failed"
        /\ UNCHANGED <<users, born>>
     \/ /\ ActiveAdmins = {}
        /\ \A u \in BootUser : ~Exists(u)
        /\ \E u \in BootUser \ born :
             /\ users' = [users EXCEPT ![u] =
                  [pw |-> FirstPassword, admin |-> TRUE, active |-> TRUE, mfa |-> FALSE]]
             /\ born' = born \cup {u}
        /\ server' = "up"
  /\ UNCHANGED <<tokens, issued, req, excused, lastLoss>>

-----------------------------------------------------------------------------
(* UserService.                                                            *)

\* Create: the unique username lets at most one row carry the admin's name.
CreateUser(u, admin) ==
  /\ server = "up"
  /\ u \notin born
  /\ u \in BootUser => \A v \in BootUser : ~Exists(v)
  /\ users' = [users EXCEPT ![u] =
       [pw |-> FirstPassword, admin |-> admin, active |-> TRUE, mfa |-> FALSE]]
  /\ born' = born \cup {u}
  /\ UNCHANGED <<server, tokens, issued, req, excused, lastLoss>>

\* Mutant: the other sessions are left alone.
M_ChangePassword_NoRevoke(r, u, p) ==
  /\ Exists(u)
  /\ Begin(r, ChangePlan("password", u, [users[u] EXCEPT !.pw = p], <<"write">>))

\* ChangePassword by the owner, who knows the current one.
ChangePassword(r, u, p) ==
  /\ Exists(u)
  /\ Begin(r, ChangePlan("password", u, [users[u] EXCEPT !.pw = p], <<"write", "revoke">>))

\* UpdateMe, UploadAvatar, DeleteAvatar: none of the columns kept here.
UpdateMe(r, u) ==
  /\ Exists(u)
  /\ Begin(r, ChangePlan("profile", u, users[u], <<"write">>))

Given(opt, default) == IF opt = {} THEN default ELSE CHOOSE v \in opt : TRUE

\* Mutant: the last admin may be demoted.
M_Update_NoCount(r, u, e) ==
  /\ Exists(u)
  /\ LET row  == users[u]
         new  == [row EXCEPT !.pw = Given(e.pw, @), !.admin = Given(e.admin, @),
                             !.active = Given(e.active, @)]
         todo == When(e.pw # {}, "revoke") \o When(e.active = {FALSE}, "revoke") \o <<"write">>
     IN Begin(r, ChangePlan("edit", u, new, todo))

\* Update by an admin, in the order of its ifs.
Update(r, u, e) ==
  /\ Exists(u)
  /\ LET row  == users[u]
         new  == [row EXCEPT !.pw = Given(e.pw, @), !.admin = Given(e.admin, @),
                             !.active = Given(e.active, @)]
         todo == When(e.pw # {}, "revoke") \o When(row.admin /\ e.admin = {FALSE}, "count")
                   \o When(e.active = {FALSE}, "revoke") \o <<"write">>
     IN Begin(r, ChangePlan("edit", u, new, todo))

\* Mutant: the last admin may be deleted.
M_Delete_NoCount(r, u) ==
  /\ Exists(u)
  /\ Begin(r, ChangePlan("delete", u, users[u], <<"revoke", "remove">>))

Delete(r, u) ==
  /\ Exists(u)
  /\ Begin(r, ChangePlan("delete", u, users[u],
       When(users[u].admin, "count") \o <<"revoke", "remove">>))

\* CountAdmins, then "count <= 1" refuses.
Count(r) ==
  /\ At(r, "count")
  /\ req' = IF CountAdmins > 1
              THEN [Advanced(r) EXCEPT ![r].seen = ActiveAdmins] ELSE Ended(r)
  /\ UNCHANGED <<server, users, born, tokens, issued, excused, lastLoss>>

\* DeleteAllForUser, whose error every caller drops.
DeleteAllForUser(r) ==
  /\ At(r, "revoke")
  /\ \/ tokens' = tokens \ TokensOf(req[r].u) /\ UNCHANGED excused
     \/ excused' = excused \cup TokensOf(req[r].u) /\ UNCHANGED tokens
  /\ req' = Advanced(r)
  /\ UNCHANGED <<server, users, born, issued, lastLoss>>

\* r takes from the row it has read, and not from its own request, what makes u
\* no active admin; so the row has changed since.
ByOldRow(q) == ~q.base.admin \/ (q.op # "delete" /\ ~q.base.active /\ ~q.new.active)

\* What a write or removal by r is that takes an active admin away: "guarded" if
\* it should have counted and either has not, or everybody counted is still there.
Loss(r) ==
  LET q == req[r]
  IN  IF q.op = "edit" /\ q.base.active /\ ~q.new.active THEN "deactivated"
      ELSE IF ByOldRow(q) THEN "stale"
      ELSE IF ~(q.seen \subseteq ActiveAdmins) THEN "race"
      ELSE "guarded"

\* UserRepository.Update writes every column as r read or set it.
Write(r) ==
  /\ At(r, "write")
  /\ LET u     == req[r].u
         now   == users[u]
         stale == now.pw # req[r].base.pw \/ now.active # req[r].base.active
     IN \/ /\ ~Exists(u)
           /\ req' = Ended(r)
           /\ UNCHANGED <<users, excused, lastLoss>>
        \/ /\ Exists(u)
           /\ users' = [users EXCEPT ![u] = req[r].new]
           /\ excused' = IF stale THEN excused \cup TokensOf(u) ELSE excused
           /\ req' = IF stale THEN MarkLate(Advanced(r), u) ELSE Advanced(r)
           /\ lastLoss' = IF u \in ActiveAdmins /\ ~(req[r].new.admin /\ req[r].new.active)
                            THEN Loss(r) ELSE lastLoss
  /\ UNCHANGED <<server, born, tokens, issued>>

\* UserRepository.Delete; the tokens go by cascade.
Remove(r) ==
  /\ At(r, "remove")
  /\ LET u == req[r].u IN
     /\ users' = [users EXCEPT ![u] = None]
     /\ tokens' = tokens \ TokensOf(u)
     /\ lastLoss' = IF u \in ActiveAdmins THEN Loss(r) ELSE lastLoss
  /\ req' = Ended(r)
  /\ UNCHANGED <<server, born, issued, excused>>

\* SetMFAEnabled writes one column (called by the MFA service).
SetMFAEnabled(u, on) ==
  /\ server = "up"
  /\ "mfa" \in Ops
  /\ Exists(u)
  /\ users[u].mfa # on
  /\ users' = [users EXCEPT ![u].mfa = on]
  /\ UNCHANGED <<server, born, tokens, issued, req, excused, lastLoss>>

-----------------------------------------------------------------------------
(* Failures.                                                               *)

\* Tokens that r, written but not yet followed by its revocation, leaves.
Left(r) ==
  IF InFlight(r) /\ req[r].op = "password" /\ Head(req[r].todo) = "revoke"
    THEN TokensOf(req[r].u) ELSE {}

\* A statement fails or the caller goes away: the request ends where it is.
Abort(r) ==
  /\ InFlight(r)
  /\ req' = Ended(r)
  /\ excused' = excused \cup Left(r)
  /\ UNCHANGED <<server, users, born, tokens, issued, lastLoss>>

\* The process ends or exited in bootstrap, and is started again. Challenges
\* are in redis and survive. (Bounded by the ids left for a bootstrap.)
Crash ==
  /\ "crash" \in Ops
  /\ server \in {"up", "failed"}
  /\ BootUser \ born # {}
  /\ server' = "down"
  /\ req' = [r \in Request |->
       IF InFlight(r) /\ Head(req[r].todo) = "mfa" THEN req[r] ELSE Idle]
  /\ excused' = excused \cup UNION {Left(r) : r \in Request}
  /\ UNCHANGED <<users, born, tokens, issued, lastLoss>>

-----------------------------------------------------------------------------

RequestStep(r) ==
  \/ MFAVerified(r) \/ Lookup(r) \/ generateTokens(r) \/ Rotate(r)
  \/ Count(r) \/ DeleteAllForUser(r) \/ Write(r) \/ Remove(r) \/ Abort(r)

RequestStart(r) ==
  \/ \E t \in Token : Refresh(r, t)
  \/ \E u \in User :
       \/ PasskeyLogin(r, u) \/ UpdateMe(r, u) \/ Delete(r, u)
       \/ \E p \in Password : Login(r, u, p) \/ ChangePassword(r, u, p)
       \/ \E e \in Edit : Update(r, u, e)

Next ==
  \/ \E r \in Request : RequestStart(r) \/ RequestStep(r)
  \/ \E t \in Token : Logout(t) \/ DeleteExpired(t)
  \/ \E u \in User, b \in BOOLEAN : CreateUser(u, b) \/ SetMFAEnabled(u, b)
  \/ BootstrapAdmin \/ Crash

Spec == Init /\ [][Next]_vars

-----------------------------------------------------------------------------
(* Properties.                                                             *)

Current(t) ==
  LET i == issued[t] IN
  Exists(i.u) /\ (Settled(i.u) => users[i.u].active /\ users[i.u].pw = i.pw)

\* A password change, a deactivation and a delete end every session of the
\* user: each live refresh token belongs to an active user and was obtained
\* under his present password. The exceptions: a token of a request, or a
\* descendant of one, that overlapped the change, and a revocation or a write
\* that went wrong (user_service.go: DeleteAllForUser in Update,
\* ChangePassword and Delete).
LiveSessionsAreCurrent ==
  \A t \in tokens \ excused : issued[t].late \/ Current(t)

\* Rotation: a refresh token that is still accepted has no successor yet, in
\* whatever order requests, failures and cleanups come (auth_service.go,
\* Refresh deletes before it issues).
ReplayIsRefused ==
  \A t \in tokens, c \in Token : issued[c] # None => issued[c].parent # t

\* FEATURES.md: "Single-use refresh tokens (rotation on every refresh)".
SingleUse ==
  \A c, d \in Token :
    (issued[c] # None /\ issued[d] # None /\ issued[c].parent = issued[d].parent)
      => c = d \/ issued[c].parent = None

\* "Prevents deleting the last admin", "Prevent removing admin from the last
\* admin" (user_service.go:257, :104): a demotion or a deletion that empties the
\* set of active admins has counted two or more of them, and one of those has
\* gone since. The other ways to be without one: a deactivation, which has no
\* guard, and a request that acts on a row that has changed since it read it
\* (the whole-row write of a profile or password change, or the removal of one
\* whom another request has promoted).
AdminLossIsExcused ==
  (server = "up" /\ ActiveAdmins = {}) => lastLoss \in {"deactivated", "stale", "race"}

\* user_service.go: "UpdateMe modifies the current user's own profile": such a
\* write leaves password, roles, activation and MFA as they are.
ProfileEditsKeepAccess ==
  [][\A r \in Request :
       (At(r, "write") /\ req[r].op = "profile" /\ req'[r] = Idle) => UNCHANGED users]_vars

=============================================================================

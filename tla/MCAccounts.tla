----------------------------- MODULE MCAccounts -----------------------------
(* Instances of Accounts for TLC. *)
EXTENDS Accounts, TLC

CONSTANTS a1, a2, u1, t1, t2, t3, p1, p2, r1, r2

NoChange   == [pw |-> {}, admin |-> {}, active |-> {}]
Demote     == [NoChange EXCEPT !.admin = {FALSE}]
Promote    == [NoChange EXCEPT !.admin = {TRUE}]
Deactivate == [NoChange EXCEPT !.active = {FALSE}]
Activate   == [NoChange EXCEPT !.active = {TRUE}]

SessionEdits == {[Deactivate EXCEPT !.pw = {p2}]}
LossEdits    == {Demote, Promote, Deactivate, Activate}
OffEdit      == {Deactivate}
NoEdits      == {}

SessionSymmetry == Permutations({t1, t2, t3}) \cup Permutations({r1, r2})
RoleSymmetry    == {r @@ a : r \in Permutations({r1, r2}), a \in Permutations({a1, a2})}

\* Bound: only u1 has MFA, which does not enter the count of admins.
MFAOfOne == \A u \in BootUser : Exists(u) => ~users[u].mfa
=============================================================================

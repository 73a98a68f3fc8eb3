---------------------------- MODULE GroupService ----------------------------
(***************************************************************************)
(* Group memberships: the requests of service/group_service.go against the *)
(* group_members table (repository/group_repo.go), each SQL statement one  *)
(* atomic step, and the membership events they publish.                    *)
(*                                                                         *)
(* A row is identified by its group, user and generation: a user who is    *)
(* removed and added again gets a new row, as he gets a new uuid.          *)
(***************************************************************************)
EXTENDS Naturals, Sequences, PermissionPolicy

CONSTANTS
  User, Group,
  Admin,      \* users whose token says is_admin
  Request,    \* the requests that may be made
  Policy,     \* the permission policy in force
  Change      \* the request bodies considered: three optional flags

Optional == {{}, {TRUE}, {FALSE}}    \* a *bool of a request: nil, or a value
Body     == [canRead : Optional, canWrite : Optional, isGroupAdmin : Optional]
NoBody   == [canRead |-> {}, canWrite |-> {}, isGroupAdmin |-> {}]
OrElse(opt, default) ==
  IF opt = {TRUE} THEN TRUE ELSE IF opt = {FALSE} THEN FALSE ELSE default

ASSUME AdminAssumption  == Admin \subseteq User
ASSUME PolicyAssumption == Policy \in ValidPolicies
ASSUME ChangeAssumption == Change \subseteq Body

Row == [gen : Nat, canRead : BOOLEAN, canWrite : BOOLEAN, isGroupAdmin : BOOLEAN]
ASSUME NoRowAssumption == NoRow \notin Row

VARIABLES
  groups,       \* state of each group: "unborn", "live" or "deleted"
  members,      \* the group_members table
  gens,         \* generation of the last row of each group and user
  req,          \* the requests in flight
  bus,          \* what is published and not yet routed by the hub
  granted,      \* history: rows that system admins last decided to be group admin
  contested,    \* history: rows decided while an update with the other role was in flight
  unannounced   \* history: users with a change no event will tell

gvars == <<groups, members, gens, req, bus, granted, contested, unannounced>>

\* A message on redis channel user:<id>:membership.
MembershipEvent(u) == [kind |-> "membership", u |-> u]

Steps == {"insert", "check", "write", "target", "delete", "publish"}
Idle  == [step |-> "idle"]
Done  == [step |-> "done"]

TableTypeOK ==
  /\ groups \in [Group -> {"unborn", "live", "deleted"}]
  /\ members \in [Group -> [User -> Row \cup {NoRow}]]
  /\ gens \in [Group -> [User -> Nat]]
  /\ DOMAIN req = Request
  /\ \A r \in Request :
       \/ req[r] \in {Idle, Done}
       \/ req[r] \in [step : Steps, caller : User, g : Group, u : User, ch : Body,
                      row : Row \cup {NoRow}]
  /\ granted \subseteq Group \X User \X Nat
  /\ contested \subseteq Group \X User \X Nat
  /\ unannounced \subseteq User

TypeOK == TableTypeOK /\ bus \in Seq({MembershipEvent(u) : u \in User})

\* Some groups exist, with any members; every group admin was made one by a
\* system admin.
Init ==
  /\ groups \in [Group -> {"unborn", "live"}]
  /\ gens = [g \in Group |-> [u \in User |-> 0]]
  /\ members \in [Group -> [User ->
       [gen : {0}, canRead : {TRUE}, canWrite : {FALSE}, isGroupAdmin : BOOLEAN] \cup {NoRow}]]
  /\ \A g \in Group, u \in User : groups[g] = "unborn" => members[g][u] = NoRow
  /\ req = [r \in Request |-> Idle]
  /\ bus = <<>>
  /\ granted = {t \in Group \X User \X {0} :
                  members[t[1]][t[2]] # NoRow /\ members[t[1]][t[2]].isGroupAdmin}
  /\ contested = {}
  /\ unannounced = {}

-----------------------------------------------------------------------------
(* Building blocks.                                                        *)

\* System admins bypass the matrix; others need a role of the group that the
\* policy allows the action.
MayManage(caller, g, action) ==
  \/ caller \in Admin
  \/ CheckManagement(Policy, action, members[g][caller])

Begin(r, step, caller, g, u, ch, row) ==
  /\ req[r].step = "idle"
  /\ req' = [req EXCEPT ![r] = [step |-> step, caller |-> caller, g |-> g, u |-> u,
                                ch |-> ch, row |-> row]]

Goto(r, step) == req' = [req EXCEPT ![r].step = step]
Finish(r)     == req' = [req EXCEPT ![r] = Done]

\* Updates in flight that leave the role alone, and so will write back the one
\* they have read.
Carries(r, g, u, gen, role) ==
  /\ req[r].step \in {"check", "write"}
  /\ req[r].g = g /\ req[r].u = u /\ req[r].row.gen = gen
  /\ req[r].ch.isGroupAdmin = {}
  /\ req[r].row.isGroupAdmin = role

\* The role of row is what a system admin decided: the latest decision is kept,
\* and whether an update with the other role was in flight.
Decide(g, u, row) ==
  LET t == <<g, u, row.gen>>
  IN  /\ granted' = IF row.isGroupAdmin THEN granted \cup {t} ELSE granted \ {t}
      /\ contested' = IF \E r \in Request : Carries(r, g, u, row.gen, ~row.isGroupAdmin)
                        THEN contested \cup {t} ELSE contested \ {t}

-----------------------------------------------------------------------------
(* AddMember: checks, INSERT, publish.                                     *)

\* The SELECTs of the group and of the caller's row make one step: rows go with
\* their group, so a caller whose row is found belongs to a group still there.
AddMemberCheck(r, caller, g, u, ch) ==
  /\ groups[g] = "live"
  /\ MayManage(caller, g, "add_members")
  /\ ch.isGroupAdmin = {TRUE} => caller \in Admin
  /\ Begin(r, "insert", caller, g, u, ch, NoRow)
  /\ UNCHANGED <<groups, members, gens, bus, granted, contested, unannounced>>

\* The INSERT fails on the unique (group, user) and on a group that is gone.
AddMemberInsert(r) ==
  LET q   == req[r]
      row == [gen          |-> gens[q.g][q.u] + 1,
              canRead      |-> OrElse(q.ch.canRead, TRUE),
              canWrite     |-> OrElse(q.ch.canWrite, FALSE),
              isGroupAdmin |-> OrElse(q.ch.isGroupAdmin, FALSE)]
  IN  /\ q.step = "insert"
      /\ IF groups[q.g] = "live" /\ members[q.g][q.u] = NoRow
           THEN /\ members' = [members EXCEPT ![q.g][q.u] = row]
                /\ gens' = [gens EXCEPT ![q.g][q.u] = row.gen]
                /\ IF q.caller \in Admin THEN Decide(q.g, q.u, row)
                                         ELSE UNCHANGED <<granted, contested>>
                /\ Goto(r, "publish")
           ELSE /\ Finish(r)
                /\ UNCHANGED <<members, gens, granted, contested>>
      /\ UNCHANGED <<groups, bus, unannounced>>

-----------------------------------------------------------------------------
(* UpdateMember: read the row, check the caller, write all flags, publish. *)

UpdateMemberRead(r, caller, g, u, ch) ==
  /\ members[g][u] # NoRow
  /\ Begin(r, "check", caller, g, u, ch, members[g][u])
  /\ UNCHANGED <<groups, members, gens, bus, granted, contested, unannounced>>

\* Mutant: the role in a non-admin's request is accepted.
M_UpdateMemberCheck_NoRoleGuard(r) ==
  LET q       == req[r]
      allowed == \/ q.caller \in Admin
                 \/ /\ CheckManagement(Policy, "update_members", members[q.g][q.caller])
                    /\ ~(q.row.isGroupAdmin /\ q.u # q.caller)
      row     == [q.row EXCEPT !.canRead      = OrElse(q.ch.canRead, @),
                               !.canWrite     = OrElse(q.ch.canWrite, @),
                               !.isGroupAdmin = OrElse(q.ch.isGroupAdmin, @)]
  IN  /\ q.step = "check"
      /\ IF allowed
           THEN req' = [req EXCEPT ![r] = [q EXCEPT !.step = "write", !.row = row]]
           ELSE Finish(r)
      /\ UNCHANGED <<groups, members, gens, bus, granted, contested, unannounced>>

UpdateMemberCheck(r) ==
  LET q       == req[r]
      allowed == \/ q.caller \in Admin
                 \/ /\ CheckManagement(Policy, "update_members", members[q.g][q.caller])
                    /\ ~(q.row.isGroupAdmin /\ q.u # q.caller)
                    /\ q.ch.isGroupAdmin = {}
      row     == [q.row EXCEPT !.canRead      = OrElse(q.ch.canRead, @),
                               !.canWrite     = OrElse(q.ch.canWrite, @),
                               !.isGroupAdmin = OrElse(q.ch.isGroupAdmin, @)]
  IN  /\ q.step = "check"
      /\ IF allowed
           THEN req' = [req EXCEPT ![r] = [q EXCEPT !.step = "write", !.row = row]]
           ELSE Finish(r)
      /\ UNCHANGED <<groups, members, gens, bus, granted, contested, unannounced>>

\* Mutant: the UPDATE is an upsert.
M_Matches_Upsert(g, u, row) == groups[g] = "live"

\* UPDATE ... WHERE id = $1 finds the row that was read, or none.
Matches(g, u, row) == members[g][u] # NoRow /\ members[g][u].gen = row.gen

UpdateMemberWrite(r) ==
  LET q == req[r]
  IN  /\ q.step = "write"
      /\ IF Matches(q.g, q.u, q.row)
           THEN /\ members' = [members EXCEPT ![q.g][q.u] = q.row]
                /\ IF q.caller \in Admin /\ q.ch.isGroupAdmin # {}
                     THEN Decide(q.g, q.u, q.row) ELSE UNCHANGED <<granted, contested>>
                /\ Goto(r, "publish")
           ELSE /\ Finish(r)
                /\ UNCHANGED <<members, granted, contested>>
      /\ UNCHANGED <<groups, gens, bus, unannounced>>

-----------------------------------------------------------------------------
(* RemoveMember: the group and the caller, then the target's role, DELETE, *)
(* publish.                                                                *)

RemoveMemberCheck(r, caller, g, u) ==
  /\ groups[g] = "live"
  /\ MayManage(caller, g, "remove_members")
  /\ Begin(r, IF caller \in Admin THEN "delete" ELSE "target", caller, g, u, NoBody, NoRow)
  /\ UNCHANGED <<groups, members, gens, bus, granted, contested, unannounced>>

RemoveMemberTarget(r) ==
  LET target == members[req[r].g][req[r].u]
  IN  /\ req[r].step = "target"
      /\ IF target # NoRow /\ ~target.isGroupAdmin THEN Goto(r, "delete") ELSE Finish(r)
      /\ UNCHANGED <<groups, members, gens, bus, granted, contested, unannounced>>

RemoveMemberDelete(r) ==
  LET q == req[r]
  IN  /\ q.step = "delete"
      /\ IF members[q.g][q.u] # NoRow
           THEN members' = [members EXCEPT ![q.g][q.u] = NoRow] /\ Goto(r, "publish")
           ELSE Finish(r) /\ UNCHANGED members
      /\ UNCHANGED <<groups, gens, bus, granted, contested, unannounced>>

-----------------------------------------------------------------------------

\* Mutant: the event names the group instead of the user.
M_publishMembershipChanged_WrongId(r) ==
  /\ req[r].step = "publish"
  /\ Finish(r)
  /\ \/ bus' = Append(bus, MembershipEvent(req[r].g)) /\ UNCHANGED unannounced
     \/ unannounced' = unannounced \cup {req[r].u} /\ UNCHANGED bus
  /\ UNCHANGED <<groups, members, gens, granted, contested>>

\* publishMembershipChanged; a failure is only logged.
publishMembershipChanged(r) ==
  /\ req[r].step = "publish"
  /\ Finish(r)
  /\ \/ bus' = Append(bus, MembershipEvent(req[r].u)) /\ UNCHANGED unannounced
     \/ unannounced' = unannounced \cup {req[r].u} /\ UNCHANGED bus
  /\ UNCHANGED <<groups, members, gens, granted, contested>>

CreateGroup(g) ==
  /\ groups[g] = "unborn"
  /\ groups' = [groups EXCEPT ![g] = "live"]
  /\ UNCHANGED <<members, gens, req, bus, granted, contested, unannounced>>

\* The rows of the group are deleted with it (ON DELETE CASCADE); no event.
DeleteGroup(g) ==
  /\ groups[g] = "live"
  /\ groups' = [groups EXCEPT ![g] = "deleted"]
  /\ members' = [members EXCEPT ![g] = [u \in User |-> NoRow]]
  /\ unannounced' = unannounced \cup {u \in User : members[g][u] # NoRow}
  /\ UNCHANGED <<gens, req, bus, granted, contested>>

RequestStep(r) ==
  \/ \E caller \in User, g \in Group, u \in User :
       \/ \E ch \in Change : AddMemberCheck(r, caller, g, u, ch)
                             \/ UpdateMemberRead(r, caller, g, u, ch)
       \/ RemoveMemberCheck(r, caller, g, u)
  \/ AddMemberInsert(r) \/ UpdateMemberCheck(r) \/ UpdateMemberWrite(r)
  \/ RemoveMemberTarget(r) \/ RemoveMemberDelete(r) \/ publishMembershipChanged(r)

GroupNext ==
  \/ \E r \in Request : RequestStep(r)
  \/ \E g \in Group : CreateGroup(g) \/ DeleteGroup(g)

Spec == Init /\ [][GroupNext]_gvars

-----------------------------------------------------------------------------
(* Properties.                                                             *)

\* "Only system admins can grant/revoke group admin" (group_service.go:326): the
\* role of every row is the one system admins decided last, whatever others write
\* into the row and however their requests interleave with removals and
\* re-additions. The excuse is the lost update of UpdateMember: a decision taken
\* while an update that had read the other role was in flight is overwritten.
RolesAreDecidedByAdmins ==
  \A g \in Group, u \in User :
    members[g][u] # NoRow =>
      LET t == <<g, u, members[g][u].gen>>
      IN  (members[g][u].isGroupAdmin <=> t \in granted) \/ t \in contested

\* The comment without the excuse. It does not hold: a group admin who updates a
\* flag of his own writes back the whole row he has read.
DecisionsStand ==
  \A g \in Group, u \in User :
    members[g][u] # NoRow =>
      (members[g][u].isGroupAdmin <=> <<g, u, members[g][u].gen>> \in granted)

\* A user who was removed comes back only by an AddMember: an update in flight
\* does not resurrect him.
OnlyAddMemberAdds ==
  [][\A g \in Group, u \in User :
       members[g][u] = NoRow /\ members'[g][u] # NoRow
         => \E r \in Request : AddMemberInsert(r) /\ req[r].g = g /\ req[r].u = u]_gvars

=============================================================================

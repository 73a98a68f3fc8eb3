-------------------------- MODULE PermissionPolicy --------------------------
(***************************************************************************)
(* The server-wide permission matrix (model/permission_policy.go): which   *)
(* roles may perform an action in a group. A lookup that finds no member   *)
(* is NoRow (a nil *GroupMember in the code).                              *)
(***************************************************************************)

CONSTANT NoRow

CommunicationActions == {"send_messages", "read_messages", "send_attachments",
                         "share_drawings", "share_location", "view_locations"}
ManagementActions    == {"add_members", "remove_members", "update_members",
                         "update_marker", "view_audit_logs"}
CommunicationRoles   == {"server_admin", "group_admin", "writer", "reader"}
ManagementRoles      == {"group_admin", "member"}

\* The policies Validate lets an administrator store: every known action, with
\* known roles of its matrix, and nothing else.
ValidPolicies ==
  [communication : [CommunicationActions -> SUBSET CommunicationRoles],
   management    : [ManagementActions -> SUBSET ManagementRoles]]

DefaultPermissionPolicy ==
  [communication |->
     [a \in CommunicationActions |->
        IF a \in {"read_messages", "share_location", "view_locations"}
          THEN CommunicationRoles ELSE CommunicationRoles \ {"reader"}],
   management |-> [a \in ManagementActions |-> {"group_admin"}]]

\* The roles a member holds, in the sense of matchesAny.
RolesOf(member, isServerAdmin) ==
  {"member"}
    \cup (IF isServerAdmin THEN {"server_admin"} ELSE {})
    \cup (IF member.isGroupAdmin THEN {"group_admin"} ELSE {})
    \cup (IF member.canWrite THEN {"writer"} ELSE {})
    \cup (IF member.canRead THEN {"reader"} ELSE {})

matchesAny(roles, member, isServerAdmin) ==
  roles \cap RolesOf(member, isServerAdmin) # {}

\* A non-member is denied whatever else he is, a server admin included.
CheckCommunication(policy, action, member, isServerAdmin) ==
  /\ member # NoRow
  /\ action \in DOMAIN policy.communication
  /\ matchesAny(policy.communication[action], member, isServerAdmin)

\* The management matrix knows group roles only.
CheckManagement(policy, action, member) ==
  /\ member # NoRow
  /\ action \in DOMAIN policy.management
  /\ \/ "group_admin" \in policy.management[action] /\ member.isGroupAdmin
     \/ "member" \in policy.management[action]
=============================================================================

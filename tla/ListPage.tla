------------------------------ MODULE ListPage ------------------------------
(***************************************************************************)
(* The pages of the web client that show a list and change it: users,      *)
(* groups, members of a group, tile and terrain configs, the own devices,  *)
(* API tokens and groups, and the audit logs (app/(app)/settings,          *)
(* components/settings, lib/hooks).                                        *)
(*                                                                         *)
(* They are built alike: a hook fetches the list on mount and when its key *)
(* (the page or the filter) changes, dialogs and menus send one request,   *)
(* and the list is fetched again once it is answered.  A record describes  *)
(* what each dialog, row and page does differently; the actions are those  *)
(* of the page described by the record in console.  Of the row that a form *)
(* shows, one field stands for all that are copied into the form and sent  *)
(* back: its value is the number of the change that wrote it.              *)
(***************************************************************************)
EXTENDS Naturals, FiniteSets

CONSTANTS MaxRow,    \* bound: rows of the list; a page of it shows one
          Query,     \* fetches of the list (a bound on how many at a time)
          Save,      \* bound: requests of the page that change something
          MaxChange, \* bound: changes the server makes
          MaxMet     \* bound: what a run meets that excuses a mishap

ASSUME BoundsAssumption == MaxRow \in Nat \ {0} /\ MaxChange \in Nat

Row == 1..MaxRow
Change == 0..MaxChange

VARIABLES
    console,    \* what the page does, one of the records below
    remote,     \* the server's rows, each with the value of the copied field
    changes,    \* changes the server has made
    key,        \* the page, or the filter, the user has chosen
    table,      \* the answer the list shows, and what it answers
    isLoading,  \* of the list: a skeleton is in place of the rows
    query,      \* fetches under way
    dialog,     \* the dialog that is open, and the copy in its form
    createBusy, editBusy, \* isLoading of the hooks behind the dialogs
    save,       \* changing requests under way
    reveal,     \* the secret that is shown, if any
    answered,   \* history: the last change of this page it has been told of
    met,        \* history: what the page has met that excuses a mishap
    mishap      \* history: what went wrong for the user

settings == <<console, remote, changes, key, table, isLoading, query, dialog,
              createBusy, editBusy, save, reveal, answered, met, mishap>>

-----------------------------------------------------------------------------
(* The dialogs.  copies: its form holds a copy of the row, all of which is *)
(* sent; form: unmounted when closed, or kept; busy: where the hook that   *)
(* disables the button lives; enter: a key handler submits as well.        *)

PlainDialog == [kind |-> "dialog", copies |-> "no", busy |-> "dialog", enter |-> "no",
                reveals |-> "no"]
FormDialog == [PlainDialog EXCEPT !.copies = "yes"]
NoDialog == [PlainDialog EXCEPT !.kind = "none"]

CreateUserDialog == PlainDialog
EditUserDialog == FormDialog          \* a password is sent only when it is typed
CreateGroupDialog == PlainDialog
EditGroupDialog == FormDialog
AddMemberDialog == PlainDialog
EditMemberDialog == FormDialog
CreateTileConfigDialog == PlainDialog
EditTileConfigDialog == FormDialog    \* is_default among the rest
CreateTerrainConfigDialog == PlainDialog
EditTerrainConfigDialog == FormDialog
MarkerEditorDialog == FormDialog
RenameDialog == [PlainDialog EXCEPT !.busy = "page", !.enter = "yes"]
CreateTokenDialog == [PlainDialog EXCEPT !.busy = "page", !.enter = "yes", !.reveals = "yes"]

(* The rows: the requests of the menu.  "default" moves a flag that the    *)
(* form copies too.  All ask for confirmation but default and toggle.      *)
UserRow == {"delete", "toggle"}               \* delete, reset MFA
GroupRow == {"delete"}
MemberRow == {"delete"}
TileConfigRow == {"delete", "default", "toggle"}
TerrainConfigRow == {"delete", "default", "toggle"}
DeviceRow == {"delete", "toggle"}             \* remove, set as primary
TokenRow == {"delete"}

(* The queries.  pages: the list has pages, or a filter, or neither.       *)
useUsers == [pages |-> "pages"]
useGroups == [pages |-> "pages"]
useGroupMembers == [pages |-> "none"]
useMapConfigs == [pages |-> "none"]
useTerrainConfigs == [pages |-> "none"]
useMyDevices == [pages |-> "none"]
useApiTokens == [pages |-> "none"]
useMyAuditLogs == [pages |-> "filter"]
useAllAuditLogs == [pages |-> "filter"]
useGroupAuditLogs == [pages |-> "pages"]

NoList == [pages |-> "none", create |-> NoDialog, edit |-> NoDialog, row |-> {},
           beside |-> "nothing", onError |-> "keep"]

UsersSettingsPage ==
    [NoList EXCEPT !.pages = useUsers.pages, !.create = CreateUserDialog,
                   !.edit = EditUserDialog, !.row = UserRow]
GroupsSettingsPage ==
    [NoList EXCEPT !.pages = useGroups.pages, !.create = CreateGroupDialog,
                   !.edit = EditGroupDialog, !.row = GroupRow]
\* Saving the marker beside the list fetches the group again, and the page with
\* its dialogs is replaced by a skeleton until the answer.
GroupDetailPage ==
    [NoList EXCEPT !.pages = useGroupMembers.pages, !.create = AddMemberDialog,
                   !.edit = EditMemberDialog, !.row = MemberRow, !.beside = "marker"]
TileConfigs ==
    [NoList EXCEPT !.pages = useMapConfigs.pages, !.create = CreateTileConfigDialog,
                   !.edit = EditTileConfigDialog, !.row = TileConfigRow]
TerrainConfigs ==
    [NoList EXCEPT !.pages = useTerrainConfigs.pages, !.create = CreateTerrainConfigDialog,
                   !.edit = EditTerrainConfigDialog, !.row = TerrainConfigRow]
DevicesSettingsPage ==
    [NoList EXCEPT !.pages = useMyDevices.pages, !.edit = RenameDialog, !.row = DeviceRow]
ApiTokenList ==
    [NoList EXCEPT !.pages = useApiTokens.pages, !.create = CreateTokenDialog, !.row = TokenRow]
\* A list that cannot be fetched is shown empty.
AccountGroupsPage == [NoList EXCEPT !.edit = MarkerEditorDialog, !.onError = "empty"]
ActivityPage == [NoList EXCEPT !.pages = useMyAuditLogs.pages]
AuditLogsSettingsPage == [NoList EXCEPT !.pages = useAllAuditLogs.pages]
GroupAuditSection == [NoList EXCEPT !.pages = useGroupAuditLogs.pages]

Console == {UsersSettingsPage, GroupsSettingsPage, GroupDetailPage, TileConfigs,
            TerrainConfigs, DevicesSettingsPage, ApiTokenList, AccountGroupsPage,
            ActivityPage, AuditLogsSettingsPage, GroupAuditSection}

-----------------------------------------------------------------------------
NoTable == [of |-> 0, at |-> 0, rows |-> [r \in {} |-> 0], total |-> 0]
NoQuery == [phase |-> "none", key |-> 0, answer |-> NoTable]
NoSave == [phase |-> "none", op |-> "none", row |-> 0, flag |-> 0, key |-> 0,
           dialog |-> "gone", at |-> 0]
NoneOpen == [open |-> "none", row |-> 0, copy |-> 0]

Querying == \E q \in Query : query[q] # NoQuery
DoneSave == [NoSave EXCEPT !.phase = "done"]
Saving == \E s \in Save : save[s].phase \in {"sent", "ok"}
Quiet == ~Querying /\ ~Saving

\* A page that differs from another only in asking less adds nothing.
Covered(c) == \E d \in Console \ {c} : [c EXCEPT !.row = d.row] = d /\ c.row \subseteq d.row

ListPageInit ==
    /\ console \in {c \in Console : ~Covered(c)}
    /\ \E n \in 0..MaxRow : remote = [r \in 1..n |-> 0]
    /\ changes = 0 /\ key = 1 /\ table = NoTable
    /\ \E q \in Query :
         query = [x \in Query |-> IF x = q THEN [NoQuery EXCEPT !.phase = "sent", !.key = 1]
                                           ELSE NoQuery]
    /\ isLoading = "yes"
    /\ dialog = NoneOpen /\ createBusy = "no" /\ editBusy = "no"
    /\ save = [s \in Save |-> NoSave] /\ reveal = 0
    /\ answered = 0 /\ met = {} /\ mishap = {}

-----------------------------------------------------------------------------
(* The list                                                                *)

fetchRows(k) ==
    /\ \E q \in Query :
         /\ query[q] = NoQuery
         /\ query' = [query EXCEPT ![q] = [NoQuery EXCEPT !.phase = "sent", !.key = k]]
    /\ isLoading' = "yes"

\* The rows of one page, or all of them.
OnPage(k) ==
    IF console.pages = "pages"
    THEN {r \in DOMAIN remote : Cardinality({x \in DOMAIN remote : x <= r}) = k}
    ELSE DOMAIN remote

ServeList(q) ==
    /\ query[q].phase = "sent"
    /\ query' = [query EXCEPT ![q] = [query[q] EXCEPT !.phase = "ok",
                    !.answer = [of |-> query[q].key, at |-> changes,
                                rows |-> [r \in OnPage(query[q].key) |-> remote[r]],
                                total |-> Cardinality(DOMAIN remote)]]]
    /\ UNCHANGED <<console, remote, changes, key, table, isLoading, dialog, createBusy,
                   editBusy, save, reveal, answered, met, mishap>>

\* The answer that comes last is shown, whichever key it is for.
ListAnswered(q) ==
    /\ \/ /\ query[q].phase = "ok"
          /\ table' = query[q].answer
          /\ met' = IF query[q].answer.at < table.at THEN met \cup {"overtaken"} ELSE met
       \/ /\ query[q].phase = "sent"
          /\ table' = IF console.onError = "empty" THEN NoTable ELSE table
          /\ met' = met \cup {"failed"}
    /\ isLoading' = "no"
    /\ query' = [query EXCEPT ![q] = NoQuery]
    /\ UNCHANGED <<console, remote, changes, key, dialog, createBusy, editBusy, save,
                   reveal, answered, mishap>>

\* Nothing modal is in the way, and the rows and the pager are rendered.
AtRest == dialog = NoneOpen /\ reveal = 0
Listed == AtRest /\ isLoading = "no"

\* Mutant: the fetch does not depend on the page.
TurnPageOnly(k) ==
    /\ \/ /\ console.pages = "pages" /\ Listed /\ table.total > 1
          /\ k \in {key - 1, key + 1} \cap Row
          /\ k > key => key < table.total
       \/ console.pages = "filter" /\ k \in Row \ {key}
    /\ key' = k
    /\ met' = IF Quiet THEN met ELSE met \cup {"turned"}
    /\ UNCHANGED <<console, remote, changes, table, isLoading, query, dialog, createBusy,
                   editBusy, save, reveal, answered, mishap>>

\* Mutant: the last page has a next one.
TurnPageBeyond(k) ==
    /\ console.pages = "pages" /\ Listed /\ table.total > 0
    /\ k \in {key - 1, key + 1} \cap Row
    /\ k > key => key <= table.total
    /\ key' = k /\ fetchRows(k)
    /\ met' = IF Quiet THEN met ELSE met \cup {"turned"}
    /\ UNCHANGED <<console, remote, changes, table, dialog, createBusy,
                   editBusy, save, reveal, answered, mishap>>

\* Previous and Next are hidden while the list loads, and when it fits a page;
\* the filter bar is always there.
TurnPage(k) ==
    /\ \/ /\ console.pages = "pages" /\ Listed /\ table.total > 1
          /\ k \in {key - 1, key + 1} \cap Row
          /\ k > key => key < table.total
       \/ console.pages = "filter" /\ k \in Row \ {key}
    /\ key' = k /\ fetchRows(k)
    /\ met' = IF Quiet THEN met ELSE met \cup {"turned"}
    /\ UNCHANGED <<console, remote, changes, table, dialog, createBusy,
                   editBusy, save, reveal, answered, mishap>>

-----------------------------------------------------------------------------
(* The dialogs and the rows                                                *)

\* What it means to open a dialog while something is under way.
MetAtOpening == met \cup (IF Saving THEN {"busy"} ELSE {})
                    \cup (IF Querying THEN {"loading"} ELSE {})
                    \cup (IF \E s \in Save : save[s].op = "marker" THEN {"beside"} ELSE {})

OpenCreate ==
    /\ AtRest /\ console.create # NoDialog
    /\ dialog' = [NoneOpen EXCEPT !.open = "create"]
    /\ met' = MetAtOpening
    /\ UNCHANGED <<console, remote, changes, key, table, isLoading, query, createBusy,
                   editBusy, save, reveal, answered, mishap>>

\* Mutant: the rows stay while the list is fetched, and are old.
OpenEditOfOldRow(r) ==
    /\ AtRest /\ console.edit # NoDialog /\ r \in DOMAIN table.rows
    /\ dialog' = [open |-> "edit", row |-> r, copy |-> 0]
    /\ editBusy' = IF console.edit.busy = "dialog" THEN "no" ELSE editBusy
    /\ met' = MetAtOpening
    /\ UNCHANGED <<console, remote, changes, key, table, isLoading, query, createBusy,
                   save, reveal, answered, mishap>>

\* The form is mounted with a copy of the row as the list shows it.
OpenEdit(r) ==
    /\ Listed /\ console.edit # NoDialog /\ r \in DOMAIN table.rows
    /\ dialog' = [open |-> "edit", row |-> r, copy |-> table.rows[r]]
    /\ editBusy' = IF console.edit.busy = "dialog" THEN "no" ELSE editBusy
    /\ met' = MetAtOpening
    /\ UNCHANGED <<console, remote, changes, key, table, isLoading, query, createBusy,
                   save, reveal, answered, mishap>>

\* The requests of a dialog that has closed go on.
Orphaned(op) ==
    [s \in Save |-> IF save[s].op = op THEN [save[s] EXCEPT !.dialog = "gone"] ELSE save[s]]

Cancel ==
    /\ dialog.open # "none" /\ reveal = 0
    /\ dialog' = NoneOpen /\ save' = Orphaned(dialog.open)
    /\ met' = IF save' = save THEN met ELSE met \cup {"left"}
    /\ UNCHANGED <<console, remote, changes, key, table, isLoading, query, createBusy,
                   editBusy, reveal, answered, mishap>>

Request(op, r, flag) ==
    \E s \in Save :
        /\ save[s] = NoSave
        /\ save' = [save EXCEPT ![s] =
             [NoSave EXCEPT !.phase = "sent", !.op = op, !.row = r, !.flag = flag,
                            !.key = key, !.dialog = IF op \in {"create", "edit"}
                                                    THEN "mine" ELSE "gone"]]

\* The copied field is sent as it was copied, or with a new value (the number it
\* will get, for which MaxChange + 1 stands).
Flags(op) == IF op = "edit" /\ console.edit.copies = "yes"
             THEN {dialog.copy, MaxChange + 1} ELSE {0}

\* Mutant: the button stays enabled while a request is under way.
SubmitTwice(op) ==
    /\ dialog.open = op /\ reveal = 0
    /\ \E flag \in Flags(op) : Request(op, dialog.row, flag)
    /\ createBusy' = IF op = "create" THEN "yes" ELSE createBusy
    /\ editBusy' = IF op = "edit" THEN "yes" ELSE editBusy
    /\ UNCHANGED <<console, remote, changes, key, table, isLoading, query, dialog,
                   reveal, answered, met, mishap>>

\* handleSubmit, handleCreate, handleRename: the button is disabled while a
\* request is under way, the Enter key is not.
Submit(op) ==
    LET what == IF op = "create" THEN console.create ELSE console.edit
        busy == IF op = "create" THEN createBusy ELSE editBusy
    IN
    /\ dialog.open = op /\ reveal = 0
    /\ busy = "no" \/ what.enter = "yes"
    /\ \E flag \in Flags(op) : Request(op, dialog.row, flag)
    /\ createBusy' = IF op = "create" THEN "yes" ELSE createBusy
    /\ editBusy' = IF op = "edit" THEN "yes" ELSE editBusy
    /\ met' = IF busy = "no" THEN met ELSE met \cup {"enter"}
    /\ UNCHANGED <<console, remote, changes, key, table, isLoading, query, dialog,
                   reveal, answered, mishap>>

\* handleDelete, handleSetDefault, handleToggleEnabled and their like.
RowRequest(op, r) ==
    /\ Listed /\ op \in console.row /\ r \in DOMAIN table.rows
    /\ Request(op, r, 0)
    /\ met' = IF Saving THEN met \cup {"two"} ELSE met
    /\ UNCHANGED <<console, remote, changes, key, table, isLoading, query, dialog,
                   createBusy, editBusy, reveal, answered, mishap>>

\* handleSave of the marker section.
SaveBeside ==
    /\ AtRest /\ console.beside # "nothing"
    /\ Request("marker", 0, 0)
    /\ UNCHANGED <<console, remote, changes, key, table, isLoading, query, dialog,
                   createBusy, editBusy, reveal, answered, met, mishap>>

-----------------------------------------------------------------------------
(* The server                                                              *)

Put(f, rows, v) == [r \in DOMAIN f \cup rows |-> IF r \in rows THEN v ELSE f[r]]

\* Moving the default takes it from the row that had it, listed or not.
Moved(r) == {r} \cup IF "default" \in console.row THEN DOMAIN remote ELSE {}

\* A form writes the row, its flag as it was copied or set anew; and where it sets the
\* default, the server first takes that from the row that had it.
Written(r, flag, moves) ==
    LET v == changes + 1
        taken == Put(remote, IF moves = "yes" /\ flag # remote[r] THEN Moved(r) ELSE {}, v)
    IN  Put(taken, {r}, IF flag > MaxChange THEN v ELSE flag)

\* What a request makes of the rows.
Applied(s) ==
    LET v == changes + 1  r == save[s].row IN
    \/ /\ save[s].op = "create"
       /\ \E x \in Row \ DOMAIN remote, moves \in {"yes", "no"} :
            remote' = Put(remote, IF moves = "yes" THEN Moved(x) ELSE {x}, v)
       /\ UNCHANGED mishap
    \/ /\ save[s].op = "edit" /\ r \in DOMAIN remote
       /\ IF console.edit.copies = "no"
          THEN UNCHANGED <<remote, mishap>>
          ELSE /\ \E moves \in {"yes", "no"} : remote' = Written(r, save[s].flag, moves)
               /\ mishap' = IF save[s].flag \in {remote[r], MaxChange + 1}
                            THEN mishap ELSE mishap \cup {"undone"}
    \/ /\ save[s].op = "delete" /\ r \in DOMAIN remote
       /\ remote' = [x \in DOMAIN remote \ {r} |-> remote[x]]
       /\ UNCHANGED mishap
    \/ /\ save[s].op = "default" /\ r \in DOMAIN remote
       /\ remote' = Put(remote, Moved(r), v)
       /\ UNCHANGED mishap
    \/ /\ save[s].op = "marker" \/ (save[s].op = "toggle" /\ r \in DOMAIN remote)
       /\ UNCHANGED <<remote, mishap>>

ServeSave(s) ==
    /\ save[s].phase = "sent"
    /\ changes < MaxChange /\ changes' = changes + 1
    /\ Applied(s)
    /\ save' = [save EXCEPT ![s] = [save[s] EXCEPT !.phase = "ok", !.at = changes + 1]]
    /\ met' = met \cup IF save[s].op = "delete" THEN {"deleted"} ELSE {}
    /\ UNCHANGED <<console, key, table, isLoading, query, dialog, createBusy, editBusy,
                   reveal, answered>>

\* Someone else changes, adds or deletes a row.
OthersChange(r) ==
    /\ changes < MaxChange /\ changes' = changes + 1
    /\ \/ remote' = Put(remote, {r}, changes + 1)
          /\ met' = met \cup {"others"}
       \/ r \in DOMAIN remote /\ remote' = [x \in DOMAIN remote \ {r} |-> remote[x]]
          /\ met' = met \cup {"others", "deleted"}
    /\ UNCHANGED <<console, key, table, isLoading, query, dialog, createBusy, editBusy,
                   save, reveal, answered, mishap>>

-----------------------------------------------------------------------------
(* The answers                                                             *)

\* Refused, or served and the answer lost: the list is not fetched again.
SaveFailed(s) ==
    /\ save[s].phase \in {"sent", "ok"}
    /\ save' = [save EXCEPT ![s] = DoneSave] /\ met' = met \cup {"failed"}
    /\ createBusy' = IF save[s].op = "create" THEN "no" ELSE createBusy
    /\ editBusy' = IF save[s].op = "edit" /\ (save[s].dialog = "mine" \/ console.edit.busy = "page")
                   THEN "no" ELSE editBusy
    /\ UNCHANGED <<console, remote, changes, key, table, isLoading, query, dialog, reveal,
                   answered, mishap>>

\* Mutant: a row's request is not followed by a fetch.
RowSavedQuietly(s) ==
    /\ save[s].phase = "ok" /\ save[s].op \in {"delete", "default", "toggle"}
    /\ save' = [save EXCEPT ![s] = DoneSave]
    /\ answered' = save[s].at
    /\ UNCHANGED <<console, remote, changes, key, table, isLoading, query, dialog,
                   createBusy, editBusy, reveal, met, mishap>>

\* The fetch that follows is for the page the row was on when it was asked.
RowSaved(s) ==
    /\ save[s].phase = "ok" /\ save[s].op \in {"delete", "default", "toggle"}
    /\ save' = [save EXCEPT ![s] = DoneSave]
    /\ answered' = IF save[s].at > answered THEN save[s].at ELSE answered
    /\ fetchRows(save[s].key)
    /\ UNCHANGED <<console, remote, changes, key, table, dialog, createBusy, editBusy,
                   reveal, met, mishap>>

\* The dialog of that kind is closed, be it the one that asked or a later one.
DialogSaved(s) ==
    LET op == save[s].op IN
    /\ save[s].phase = "ok" /\ op \in {"create", "edit"}
    /\ save' = [Orphaned(op) EXCEPT ![s] = DoneSave]
    /\ dialog' = IF dialog.open = op THEN NoneOpen ELSE dialog
    /\ createBusy' = IF op = "create" THEN "no" ELSE createBusy
    /\ editBusy' = IF op = "edit" /\ (save[s].dialog = "mine" \/ console.edit.busy = "page")
                   THEN "no" ELSE editBusy
    /\ IF op = "create" /\ console.create.reveals = "yes"
       THEN /\ reveal' = save[s].at
            /\ mishap' = mishap \cup (IF reveal # 0 THEN {"secret"} ELSE {})
                    \cup (IF dialog.open = op /\ save[s].dialog = "gone" THEN {"taken"} ELSE {})
       ELSE /\ UNCHANGED reveal
            /\ mishap' = mishap \cup
                    (IF dialog.open = op /\ save[s].dialog = "gone" THEN {"taken"} ELSE {})
    /\ answered' = IF save[s].at > answered THEN save[s].at ELSE answered
    /\ fetchRows(save[s].key)
    /\ UNCHANGED <<console, remote, changes, key, table, met>>

\* The group is fetched again; the dialogs are mounted anew, with empty forms.
\* (The time the skeleton stands is left out: nothing can be done meanwhile.)
BesideSaved(s) ==
    /\ save[s].phase = "ok" /\ save[s].op = "marker"
    /\ save' = [x \in Save |-> IF x = s THEN DoneSave
                               ELSE [save[x] EXCEPT !.dialog = "gone"]]
    /\ createBusy' = "no" /\ editBusy' = "no"
    /\ mishap' = IF dialog = NoneOpen THEN mishap ELSE mishap \cup {"taken"}
    /\ UNCHANGED <<console, remote, changes, key, table, isLoading, query, dialog, reveal,
                   answered, met>>

RevealDone ==
    /\ reveal # 0 /\ reveal' = 0
    /\ UNCHANGED <<console, remote, changes, key, table, isLoading, query, dialog,
                   createBusy, editBusy, save, answered, met, mishap>>

-----------------------------------------------------------------------------
\* Each invariant excuses a mishap by what the page has met: a run that meets
\* more shows less, and MaxMet bounds it.
ListPageNext ==
    /\ \/ \E q \in Query : ServeList(q) \/ ListAnswered(q)
       \/ \E r \in Row : TurnPage(r) \/ OpenEdit(r) \/ OthersChange(r)
       \/ \E r \in Row, op \in {"delete", "default", "toggle"} : RowRequest(op, r)
       \/ OpenCreate \/ Cancel \/ SaveBeside \/ RevealDone
       \/ \E op \in {"create", "edit"} : Submit(op)
       \/ \E s \in Save : \/ ServeSave(s) \/ SaveFailed(s)
                          \/ RowSaved(s) \/ DialogSaved(s) \/ BesideSaved(s)
    /\ Cardinality(met') <= MaxMet

ListPageSpec == ListPageInit /\ [][ListPageNext]_settings

-----------------------------------------------------------------------------
\* Types; and a list that says it is loading has a fetch under way.
ListPageTypeOK ==
    /\ isLoading = "yes" => Querying
    /\ console \in Console /\ DOMAIN remote \subseteq Row
    /\ changes \in Change /\ key \in Row /\ answered \in Change
    /\ DOMAIN table.rows \subseteq Row /\ table.of \in Row \cup {0}
    /\ \A q \in Query : query[q].phase \in {"none", "sent", "ok"}
    /\ \A s \in Save : save[s].phase \in {"none", "sent", "ok", "done"}
    /\ dialog.open \in {"none", "create", "edit"} /\ reveal \in Change
    /\ createBusy \in {"no", "yes"} /\ editBusy \in {"no", "yes"}
    /\ mishap \subseteq {"taken", "undone", "secret"}

\* With nothing under way the list shows what this page has changed, unless a
\* request failed or two answers came in the other order.
ListsTakeOwnChanges ==
    Quiet /\ met \cap {"failed", "overtaken"} = {} => table.at >= answered

\* The list is that of the page or filter chosen, unless that was chosen while
\* a request was under way (whose answer, or whose fetch, is for the one before).
ListsAreOfTheirKey ==
    Quiet /\ met \cap {"failed", "turned"} = {} => table.of = key

\* "No users found" stands on a page, while there are users, only after some
\* were deleted: the page is then beyond the last.
EmptyPagesFollowDeletes ==
    Quiet /\ console.pages = "pages" /\ table.total > 0 /\ DOMAIN table.rows = {}
        => "deleted" \in met

\* A dialog closes, or loses its form, under its user only if an earlier one was
\* cancelled after it had sent its request, or the marker was being saved when it
\* was opened, or Enter was pressed twice.
DialogsAreTheirUsers ==
    "taken" \in mishap => met \cap {"left", "beside", "enter"} # {}

\* Saving a form undoes a change of a field the user left alone only if someone
\* else made it, or the form was opened on rows that were not up to date.
UndoneChangesAreExcused ==
    "undone" \in mishap => met \cap {"others", "busy", "loading", "two", "failed", "overtaken"} # {}

\* A token's secret, shown only once, is replaced unseen by another's only if
\* Enter was pressed while the first was being created.
SecretsAreSeen == "secret" \in mishap => "enter" \in met
=============================================================================

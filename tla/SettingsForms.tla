---------------------------- MODULE SettingsForms ----------------------------
(***************************************************************************)
(* The settings pages that edit one record of the server, which others may *)
(* edit too: the permission matrix, the API keys, the MFA switch, the      *)
(* user's own profile, and the marker of a group (app/(app)/settings).     *)
(*                                                                         *)
(* They differ in what fills the form, what a save sends, and whether the  *)
(* inputs are there while a request is under way.  The record has two      *)
(* fields; a value is the number of the edit it comes from, and Empty an   *)
(* input without text.                                                     *)
(***************************************************************************)
EXTENDS Integers, FiniteSets, Functions

CONSTANTS FormCall,        \* saves and loads under way (a bound on how many at a time)
          MaxEdit,    \* bound: edits, the user's and the others'
          MaxMetForm  \* bound: what a run meets that excuses a mishap

ASSUME FormBoundsAssumption == MaxEdit \in Nat /\ MaxMetForm \in Nat

VARIABLES
    page,        \* which of the pages it is
    record,      \* the server's: field -> value
    edit,        \* edits so far
    snap,        \* what the page has last been told of the record
    form,        \* the inputs, or the draft
    dirty,       \* there is a draft; or, of the marker, the button Save
    skeleton,    \* isLoading: a skeleton is in place of the inputs
    busy,        \* isLoading of the hook that saves: its button is disabled
    put,         \* the requests
    typed,       \* history: fields typed into since they were saved or filled
    metForm,     \* history: what the page has met
    wrong        \* history: what went wrong

forms == <<page, record, edit, snap, form, dirty, skeleton, busy, put, typed,
           metForm, wrong>>

Field == {"x", "y"}
Empty == 0
Blank == [f \in Field |-> Empty]
NoBody == [f \in {} |-> Empty]
Without == [f \in Field |-> -1]            \* null: nothing has been loaded

(* The pages.  fills: an answer fills the inputs; hides: a skeleton is in  *)
(* their place while a request is under way; sends: the fields of a save;  *)
(* then: a save is followed by a load.                                     *)
ServerPermissionsPage == [fills |-> "no", hides |-> "yes", sends |-> "all", then |-> "end"]
ApiKeysSection == [fills |-> "yes", hides |-> "yes", sends |-> "all", then |-> "end"]
ServerSecuritySettingsPage == [fills |-> "no", hides |-> "yes", sends |-> "one", then |-> "end"]
GeneralSettingsPage == [fills |-> "no", hides |-> "no", sends |-> "filled", then |-> "load"]
MarkerSettingsSection == [fills |-> "yes", hides |-> "no", sends |-> "all", then |-> "load"]

FormPages == {ServerPermissionsPage, ApiKeysSection, ServerSecuritySettingsPage,
              GeneralSettingsPage, MarkerSettingsSection}

\* The other cards of the profile's page.
Card == {"upload", "remove", "marker"}

\* card: the card that saves, or whose save the load follows.
NoPut == [kind |-> "none", phase |-> "none", body |-> NoBody, own |-> {}, answer |-> Blank,
          card |-> "none"]

Putting(kinds) == \E r \in FormCall : put[r].kind \in kinds
FormQuiet == ~Putting({"save", "load", "beside"})

\* The profile and the group are there when the page is; the others are loaded.
FormInit ==
    /\ page \in FormPages
    /\ record = Blank /\ edit = 0 /\ dirty = "no" /\ busy = "no" /\ form = Blank
    /\ IF page.then = "end"
       THEN /\ snap = Without /\ skeleton = "yes"
            /\ \E r \in FormCall : put = [q \in FormCall |->
                 IF q = r THEN [NoPut EXCEPT !.kind = "load", !.phase = "sent"] ELSE NoPut]
       ELSE snap = record /\ skeleton = "no" /\ put = [q \in FormCall |-> NoPut]
    /\ typed = {} /\ metForm = {} /\ wrong = {}

-----------------------------------------------------------------------------
(* The user                                                                *)

\* What the inputs show: the draft, or the policy it would start from.
Effective == IF page = ServerPermissionsPage /\ dirty = "no" THEN snap ELSE form

\* Typing while a save is under way, where that may cost what is typed.
WhileSaving == IF page = MarkerSettingsSection /\ Putting({"save"}) THEN {"typing"} ELSE {}

\* Mutant: the inputs stay while a request is under way.
EditUnhidden(f) ==
    /\ page # ServerSecuritySettingsPage
    /\ page = ServerPermissionsPage => snap # Without
    /\ edit < MaxEdit /\ edit' = edit + 1
    /\ form' = [Effective EXCEPT ![f] = edit + 1]
    /\ dirty' = "yes" /\ typed' = typed \cup {f}
    /\ metForm' = metForm \cup WhileSaving
    /\ UNCHANGED <<page, record, snap, skeleton, busy, put, wrong>>

\* handleChange, and onChange of the inputs.
Edit(f) ==
    /\ page # ServerSecuritySettingsPage /\ skeleton = "no"
    /\ page = ServerPermissionsPage => snap # Without
    /\ edit < MaxEdit /\ edit' = edit + 1
    /\ form' = [Effective EXCEPT ![f] = edit + 1]
    /\ dirty' = "yes" /\ typed' = typed \cup {f}
    /\ metForm' = metForm \cup WhileSaving
    /\ UNCHANGED <<page, record, snap, skeleton, busy, put, wrong>>

\* An emptied input.
Clear(f) ==
    /\ page \in {ApiKeysSection, GeneralSettingsPage} /\ skeleton = "no"
    /\ form[f] # Empty
    /\ form' = [form EXCEPT ![f] = Empty] /\ typed' = typed \cup {f}
    /\ metForm' = metForm \cup WhileSaving
    /\ UNCHANGED <<page, record, edit, snap, dirty, skeleton, busy, put, wrong>>

\* handleReset.
Discard ==
    /\ page = ServerPermissionsPage /\ dirty = "yes"
    /\ dirty' = "no" /\ typed' = {}
    /\ UNCHANGED <<page, record, edit, snap, form, skeleton, busy, put, metForm, wrong>>

\* The profile sends  value || undefined : an emptied field is left out.
Body == IF page.sends = "filled" THEN Restrict(form, {f \in Field : form[f] # Empty})
        ELSE form

SendForm(kind, body, own, card) ==
    \E r \in FormCall :
        /\ put[r].kind = "none"
        /\ put' = [put EXCEPT ![r] = [NoPut EXCEPT !.kind = kind, !.phase = "sent",
                                !.body = body, !.own = own, !.card = card]]

\* Mutant: Save is not disabled while a save is under way.
handleSaveAgain ==
    /\ page # ServerSecuritySettingsPage
    /\ page \in {ServerPermissionsPage, MarkerSettingsSection} => dirty = "yes"
    /\ SendForm("save", Body, typed, "none")
    /\ busy' = "yes" /\ skeleton' = page.hides
    /\ UNCHANGED <<page, record, edit, snap, form, dirty, typed, metForm, wrong>>

\* handleSave, handleProfileSave.  The hook sets isLoading, which on some pages
\* hides the inputs, on the others only disables the button.  "saves": of the profile
\* another is under way, the button having been enabled by the marker's answer.
handleSave ==
    /\ page # ServerSecuritySettingsPage
    /\ busy = "no" /\ skeleton = "no"
    /\ page \in {ServerPermissionsPage, MarkerSettingsSection} => dirty = "yes"
    /\ SendForm("save", Body, typed, "none")
    /\ busy' = "yes" /\ skeleton' = page.hides
    /\ metForm' = metForm \cup IF Putting({"save"}) THEN {"saves"} ELSE {}
    /\ UNCHANGED <<page, record, edit, snap, form, dirty, typed, wrong>>

\* handleToggleMFA: the opposite of what the page has been told.
handleToggleMFA ==
    /\ page = ServerSecuritySettingsPage /\ skeleton = "no" /\ snap # Without
    /\ edit < MaxEdit /\ edit' = edit + 1
    /\ SendForm("save", [f \in {"x"} |-> edit + 1], {"x"}, "none")
    /\ busy' = "yes" /\ skeleton' = "yes"
    /\ UNCHANGED <<page, record, snap, form, dirty, typed, metForm, wrong>>

\* handleAvatarUpload, handleAvatarRemove, handleMarkerSave: other fields of the
\* profile; the user is loaded again as after the form's own save.  Each holds off
\* itself: the avatar's until the answer, the marker's until the load after it.  The
\* marker's takes the hook of the form's save, and so its isLoading.
SaveOtherCard(c) ==
    /\ page = GeneralSettingsPage
    /\ ~\E r \in FormCall : put[r].card = c /\ (put[r].kind = "beside" \/ c = "marker")
    /\ SendForm("beside", NoBody, {}, c)
    /\ busy' = IF c = "marker" THEN "yes" ELSE busy
    /\ UNCHANGED <<page, record, edit, snap, form, dirty, skeleton, typed, metForm, wrong>>

-----------------------------------------------------------------------------
(* The server, and the others who edit there                               *)

ChangeByAnother(f) ==
    /\ edit < MaxEdit /\ edit' = edit + 1
    /\ record' = [record EXCEPT ![f] = edit + 1]
    /\ metForm' = metForm \cup {"other"}
    /\ UNCHANGED <<page, snap, form, dirty, skeleton, busy, put, typed, wrong>>

\* A save writes the fields it has; blind: one the user has not touched, with
\* another value than it had.
Serve(r) ==
    LET body == put[r].body
        after == [f \in Field |-> IF f \in DOMAIN body THEN body[f] ELSE record[f]]
        blind == \E f \in DOMAIN body \ put[r].own : body[f] # record[f]
    IN  /\ put[r].phase = "sent"
        /\ record' = after
        /\ wrong' = wrong \cup IF blind THEN {"blind"} ELSE {}
        /\ put' = [put EXCEPT ![r] = [put[r] EXCEPT !.phase = "ok", !.answer = after]]
        /\ UNCHANGED <<page, edit, snap, form, dirty, skeleton, busy, typed, metForm>>

-----------------------------------------------------------------------------
(* The answers                                                             *)

\* The fields typed into that an answered save does not have.
StillTyped(r) == {f \in typed : f \notin DOMAIN put[r].body \/ form[f] # put[r].body[f]}

Settled(r) == put' = [put EXCEPT ![r] = NoPut]
Reload(r) == put' = [put EXCEPT ![r] = [NoPut EXCEPT !.kind = "load", !.phase = "sent",
                                                     !.card = put[r].card]]

\* The hook that saves has its answer: isLoading ends, of whichever call it was.
Updating(r) == put[r].kind = "save" \/ (put[r].kind = "beside" /\ put[r].card = "marker")

LostIf(fields) == wrong' = wrong \cup IF fields # {} THEN {"lost"} ELSE {}

\* Mutant: the answer of a save is not taken for the policy.
SavedAndForgotten(r) ==
    /\ put[r].kind = "save" /\ put[r].phase = "ok" /\ page.then = "end"
    /\ Settled(r)
    /\ dirty' = "no" /\ skeleton' = "no" /\ busy' = "no"
    /\ typed' = {} /\ LostIf(StillTyped(r))
    /\ UNCHANGED <<page, record, edit, snap, form, metForm>>

\* Permissions, keys, switch: the answer is the record; the draft is dropped, or
\* the inputs filled.
Saved(r) ==
    /\ put[r].kind = "save" /\ put[r].phase = "ok" /\ page.then = "end"
    /\ Settled(r)
    /\ snap' = put[r].answer
    /\ form' = IF page.fills = "yes" THEN put[r].answer ELSE form
    /\ dirty' = "no" /\ skeleton' = "no" /\ busy' = "no"
    /\ typed' = {} /\ LostIf(IF dirty = "yes" THEN StillTyped(r) ELSE {})
    /\ UNCHANGED <<page, record, edit, metForm>>

\* The profile, then refreshUser.  The form stays as it is.
ProfileSaved(r) ==
    /\ page = GeneralSettingsPage /\ put[r].kind \in {"save", "beside"} /\ put[r].phase = "ok"
    /\ Reload(r)
    /\ busy' = IF Updating(r) THEN "no" ELSE busy
    /\ typed' = StillTyped(r)
    /\ metForm' = metForm \cup IF Putting({"load"}) THEN {"loads"} ELSE {}
    /\ UNCHANGED <<page, record, edit, snap, form, dirty, skeleton, wrong>>

\* Mutant: the group is not fetched again.
MarkerSavedQuietly(r) ==
    /\ page = MarkerSettingsSection /\ put[r].kind = "save" /\ put[r].phase = "ok"
    /\ Settled(r)
    /\ busy' = "no" /\ dirty' = "no" /\ skeleton' = "no"
    /\ typed' = {} /\ LostIf(StillTyped(r))
    /\ UNCHANGED <<page, record, edit, snap, form, metForm>>

\* The marker, then onUpdated: the group is fetched again, and the skeleton of the
\* whole page takes the form with it.
MarkerSaved(r) ==
    /\ page = MarkerSettingsSection /\ put[r].kind = "save" /\ put[r].phase = "ok"
    /\ Reload(r)
    /\ busy' = "no" /\ dirty' = "no" /\ skeleton' = "yes"
    /\ typed' = {} /\ LostIf(StillTyped(r))
    /\ UNCHANGED <<page, record, edit, snap, form, metForm>>

Loaded(r) ==
    /\ put[r].kind = "load" /\ put[r].phase = "ok"
    /\ Settled(r)
    /\ snap' = put[r].answer /\ skeleton' = "no"
    /\ form' = IF page.fills = "yes" THEN put[r].answer ELSE form
    /\ UNCHANGED <<page, record, edit, dirty, busy, typed, metForm, wrong>>

\* Refused, or served and the answer lost.  What was loaded stays, and what was
\* typed; the marker's form comes back with the group as it was.
Missed(r) ==
    /\ put[r].kind # "none"
    /\ Settled(r)
    /\ skeleton' = "no" /\ busy' = IF Updating(r) THEN "no" ELSE busy
    /\ form' = IF page = MarkerSettingsSection /\ put[r].kind = "load" THEN snap ELSE form
    /\ metForm' = metForm \cup {"missed"}
    /\ UNCHANGED <<page, record, edit, snap, dirty, typed, wrong>>

-----------------------------------------------------------------------------
FormNext ==
    /\ \/ \E f \in Field : Edit(f) \/ Clear(f) \/ ChangeByAnother(f)
       \/ Discard \/ handleSave \/ handleToggleMFA \/ \E c \in Card : SaveOtherCard(c)
       \/ \E r \in FormCall : \/ Serve(r) \/ Saved(r) \/ ProfileSaved(r) \/ MarkerSaved(r)
                         \/ Loaded(r) \/ Missed(r)
    /\ Cardinality(metForm') <= MaxMetForm

FormSpec == FormInit /\ [][FormNext]_forms

-----------------------------------------------------------------------------
\* Types; and, but for the profile's, one save is under way at a time.
FormTypeOK ==
    /\ page \in FormPages /\ dirty \in {"yes", "no"} /\ busy \in {"yes", "no"}
    /\ skeleton \in {"yes", "no"} /\ edit \in 0..MaxEdit /\ typed \subseteq Field
    /\ \A f \in Field : record[f] \in 0..MaxEdit /\ form[f] \in 0..MaxEdit
    /\ \A f \in Field : snap[f] \in -1..MaxEdit
    /\ \A r \in FormCall : put[r].phase \in {"none", "sent", "ok"}
    /\ page # GeneralSettingsPage =>
         "saves" \notin metForm /\ Cardinality({r \in FormCall : put[r].kind = "save"}) <= 1

\* A save changes a field its user has not touched only if another has changed the
\* record, if an answer was missed: that of the first load of the keys, whose form is
\* then empty, or of an earlier save; or if two saves of the profile overlapped.
UntouchedFieldsAreKept == "blind" \in wrong => metForm \cap {"other", "missed", "saves"} # {}

\* What the user typed is dropped without a save only from the marker's form, and
\* only what he typed while it was being saved.
TypedIsKept == "lost" \in wrong => page = MarkerSettingsSection /\ "typing" \in metForm

\* With nothing under way and nothing typed the page shows the record, unless
\* another has changed it, an answer was missed, or two saves of the profile or two
\* refreshes of the user were under way at a time.
FormsShowTheRecord ==
    FormQuiet /\ typed = {} /\ metForm \cap {"other", "missed", "saves", "loads"} = {}
        => /\ snap = record
           /\ page \notin {ServerPermissionsPage, ServerSecuritySettingsPage} => form = record
=============================================================================

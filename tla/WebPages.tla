------------------------------ MODULE WebPages ------------------------------
(***************************************************************************)
(* The routes of the web client under app/(app).  One page is mounted at a *)
(* time, and starts from what it holds when it is mounted; pages share no  *)
(* state but the session and the socket, which WebSession and LiveSocket   *)
(* have.                                                                   *)
(***************************************************************************)
EXTENDS MessageThread, ConversationList, ListPage, MfaSetup, SettingsForms, DrawingEditor,
        ReplayMap

VARIABLE route   \* the part of the client that is mounted

Route == {"thread", "conversations", "settings", "mfa", "forms", "drawings", "replay"}

pages == <<route, thread, list, settings, mfa, forms, draw, replay>>

\* What is not mounted is in one of its first states, always the same.
PagesInit ==
    /\ route \in Route
    /\ ThreadInit /\ ListInit /\ ListPageInit /\ MfaInit /\ FormInit /\ DrawInit /\ ReplayInit
    /\ route # "conversations" => partners = {}
    /\ route # "settings" => /\ console = UsersSettingsPage /\ DOMAIN remote = {}
                             /\ query[CHOOSE q \in Query : TRUE] # NoQuery
    /\ route # "mfa" => methods = {} /\ ask[CHOOSE k \in Ask : TRUE] # NoAsk
    /\ route # "forms" => page = GeneralSettingsPage

PagesNext ==
    \/ /\ route = "thread" /\ ThreadNext
       /\ UNCHANGED <<route, list, settings, mfa, forms, draw, replay>>
    \/ /\ route = "conversations" /\ ListNext
       /\ UNCHANGED <<route, thread, settings, mfa, forms, draw, replay>>
    \/ /\ route = "settings" /\ ListPageNext
       /\ UNCHANGED <<route, thread, list, mfa, forms, draw, replay>>
    \/ /\ route = "mfa" /\ MfaNext
       /\ UNCHANGED <<route, thread, list, settings, forms, draw, replay>>
    \/ /\ route = "forms" /\ FormNext
       /\ UNCHANGED <<route, thread, list, settings, mfa, draw, replay>>
    \/ /\ route = "drawings" /\ DrawNext
       /\ UNCHANGED <<route, thread, list, settings, mfa, forms, replay>>
    \/ /\ route = "replay" /\ ReplayNext
       /\ UNCHANGED <<route, thread, list, settings, mfa, forms, draw>>

PagesSpec == PagesInit /\ [][PagesNext]_pages

-----------------------------------------------------------------------------
(* What the pages promise.  Each part's module states the named conjuncts  *)
(* and what excuses them.                                                  *)

\* Types; a spinner has something to wait for; no button sends twice what must
\* be sent once.
PagesTypeOK ==
    /\ route \in Route
    /\ route = "thread" => ThreadTypeOK
    /\ route = "conversations" => ListTypeOK
    /\ route = "settings" => ListPageTypeOK
    /\ route = "mfa" => MfaTypeOK
    /\ route = "forms" => FormTypeOK
    /\ route = "drawings" => DrawTypeOK
    /\ route = "replay" => ReplayTypeOK

\* A thread shows the messages of its conversation, each once, and keeps those it
\* has shown (use-messages.ts, the optimistic append and the socket's events).
ThreadsAreInOrder == ForeignMessagesAreLate /\ DuplicatesNeedARace /\ GapsNeedARace

\* Whoever has written is in the list of conversations, once (use-conversations.ts).
ConversationsAreListed == PartnersAreListedOnce /\ WritersAreListed

\* A list that is at rest shows the page chosen, with what its user has changed
\* (the hooks of lib/hooks and the refetch after every change).
ListsAreCurrent == ListsTakeOwnChanges /\ ListsAreOfTheirKey /\ EmptyPagesFollowDeletes

\* A dialog belongs to the user who opened it, its save changes what he has edited,
\* and a secret is shown until he has seen it (the dialogs of the settings pages).
ListChangesAreMeant == DialogsAreTheirUsers /\ UndoneChangesAreExcused /\ SecretsAreSeen

\* The recovery codes in force are with the user, he confirms no others, and the
\* list shows the methods there are (components/mfa).
CodesAndMethodsAreTold == CodesAreInHand /\ ConfirmedCodesAreInForce /\ MethodListIsCurrent

\* A form changes the fields its user has touched, keeps what he types, and shows
\* the record when at rest (the settings pages with one record).
FormsKeepTheirWork == UntouchedFieldsAreKept /\ TypedIsKept /\ FormsShowTheRecord

\* A saved drawing stays the work it was made of, is made once, shared and unshared
\* as itself, and listed (map/page.tsx and draw-panel.tsx).
DrawingsAreKept ==
    DrawingsKeepTheirWork /\ WorksAreCreatedOnce /\ UnshareIsOfItsDrawing /\ DrawingsAreListed

\* A replay shows the tracks of its range and can be left (map/page.tsx).
ReplaysCanBeLeft == TracksAreOfTheRange /\ ReplayCanBeClosed
=============================================================================

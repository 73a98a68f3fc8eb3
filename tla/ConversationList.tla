-------------------------- MODULE ConversationList --------------------------
(***************************************************************************)
(* The list of direct conversations beside the thread: useConversations    *)
(* (lib/hooks/use-conversations.ts), the subscription of the messages page *)
(* that adds the sender of a direct message to it, and the dialog that     *)
(* starts a new one.  Groups only ever come from the answer of the server. *)
(*                                                                         *)
(* addDmConversation looks for the partner in the list of the last render, *)
(* and adds to the list of the moment: two calls may fall between renders. *)
(***************************************************************************)
EXTENDS Naturals, Sequences, FiniteSets, SequencesExt

CONSTANTS Partner,   \* the users one can write to
          MaxDms     \* bound on the direct messages of the run

ASSUME MaxDmsAssumption == MaxDms \in Nat
ASSUME PartnerAssumption == IsFiniteSet(Partner)

VARIABLES
    dmConversations, \* the list
    rendered,        \* the partners in it at the last render
    convFetch,       \* the fetch of the conversations: its phase and answer
    partners,        \* the server's: partners with a message
    incoming,        \* senders of messages the socket has still to bring
    newDm,           \* the dialog: closed, or what it lists
    dms,             \* direct messages so far
    early,           \* history: senders brought while the list was loading, not since
    missed,          \* history: senders of messages that were lost, not brought since
    unrendered       \* history: partners named again before the page had rendered them

list == <<dmConversations, rendered, convFetch, partners, incoming, newDm, dms,
          early, missed, unrendered>>

Loading == convFetch.phase \in {"sent", "ok", "failed"}

Closed == [phase |-> "closed", users |-> {}]

ListInit ==
    /\ dmConversations = <<>> /\ rendered = {}
    /\ convFetch = [phase |-> "sent", answer |-> {}]
    /\ partners \in SUBSET Partner /\ incoming = <<>>
    /\ newDm = Closed /\ dms = 0
    /\ early = {} /\ missed = {} /\ unrendered = {}

-----------------------------------------------------------------------------
\* Both requests of fetchConversations, and what becomes of them.
ServeConversations ==
    /\ convFetch.phase = "sent"
    /\ \/ convFetch' = [phase |-> "ok", answer |-> partners]
       \/ convFetch' = [phase |-> "failed", answer |-> {}]
    /\ UNCHANGED <<dmConversations, rendered, partners, incoming, newDm, dms,
                   early, missed, unrendered>>

\* The answer replaces the list, whatever was added to it meanwhile.
fetchConversations ==
    /\ convFetch.phase \in {"ok", "failed"}
    /\ dmConversations' = IF convFetch.phase = "ok"
                          THEN SetToSeq(convFetch.answer) ELSE dmConversations
    /\ convFetch' = [phase |-> IF convFetch.phase = "ok" THEN "done" ELSE "error",
                     answer |-> {}]
    /\ UNCHANGED <<rendered, partners, incoming, newDm, dms, early, missed, unrendered>>

Render ==
    /\ rendered # ToSet(dmConversations)
    /\ rendered' = ToSet(dmConversations)
    /\ UNCHANGED <<dmConversations, convFetch, partners, incoming, newDm, dms, early,
                   missed, unrendered>>

\* Mutant: the partner is added without a look at the list.
addAlways(p) ==
    /\ dmConversations' = <<p>> \o dmConversations
    /\ unrendered' = unrendered

addDmConversation(p) ==
    IF p \in rendered
    THEN UNCHANGED <<dmConversations, unrendered>>
    ELSE /\ dmConversations' = <<p>> \o dmConversations
         /\ unrendered' = IF p \in ToSet(dmConversations) THEN unrendered \cup {p}
                          ELSE unrendered

DmArrives(p) ==
    /\ dms < MaxDms /\ dms' = dms + 1
    /\ partners' = partners \cup {p} /\ incoming' = Append(incoming, p)
    /\ UNCHANGED <<dmConversations, rendered, convFetch, newDm, early, missed, unrendered>>

\* Sent while the socket is down, or when the send buffer of its client is full: the
\* hub drops it, and nothing fetches the list again.
LoseDm ==
    /\ incoming # <<>> /\ incoming' = Tail(incoming)
    /\ missed' = missed \cup {Head(incoming)}
    /\ UNCHANGED <<dmConversations, rendered, convFetch, partners, newDm, dms, early,
                   unrendered>>

\* What is recorded of a sender when a message of his is brought: on a page that is
\* loaded and rendered nothing excuses his absence any more.
Brought(p) ==
    /\ early' = IF Loading THEN early \cup {p}
                ELSE IF rendered = ToSet(dmConversations) THEN early \ {p} ELSE early
    /\ missed' = missed \ {p}

\* Mutant: a message of a new partner is not added to the list.
DeliverDmIgnored ==
    /\ incoming # <<>> /\ incoming' = Tail(incoming)
    /\ Brought(Head(incoming))
    /\ UNCHANGED <<dmConversations, rendered, convFetch, partners, newDm, dms, unrendered>>

\* The page's subscription: a direct message from someone else.
DeliverDm ==
    /\ incoming # <<>> /\ incoming' = Tail(incoming)
    /\ addDmConversation(Head(incoming))
    /\ Brought(Head(incoming))
    /\ UNCHANGED <<rendered, convFetch, partners, newDm, dms>>

-----------------------------------------------------------------------------
\* Mutant: the button is there while the list loads.
OpenNewDmAnyTime ==
    /\ newDm.phase \in {"closed", "closed loading"}
    /\ newDm' = [newDm EXCEPT !.phase = "loading"]
    /\ UNCHANGED <<dmConversations, rendered, convFetch, partners, incoming, dms,
                   early, missed, unrendered>>

\* The button is in the list, which is not rendered while it loads; the user
\* acts on a page that is rendered.
OpenNewDm ==
    /\ ~Loading /\ rendered = ToSet(dmConversations) /\ newDm.phase \in {"closed", "closed loading"}
    /\ newDm' = [newDm EXCEPT !.phase = "loading"]
    /\ UNCHANGED <<dmConversations, rendered, convFetch, partners, incoming, dms,
                   early, missed, unrendered>>

\* fetchUsers: all users for an admin, the members of the own groups otherwise;
\* a group that cannot be read is left out, and on an error the users stay.
fetchUsers ==
    /\ newDm.phase \in {"loading", "closed loading"}
    /\ \E u \in {Partner, newDm.users} :
         newDm' = [phase |-> IF newDm.phase = "loading" THEN "open" ELSE "closed",
                   users |-> u]
    /\ UNCHANGED <<dmConversations, rendered, convFetch, partners, incoming, dms,
                   early, missed, unrendered>>

handleSelect(p) ==
    /\ newDm.phase = "open" /\ p \in newDm.users
    /\ addDmConversation(p)
    /\ newDm' = [newDm EXCEPT !.phase = "closed"]
    /\ UNCHANGED <<rendered, convFetch, partners, incoming, dms, early, missed>>

CloseNewDm ==
    /\ newDm.phase \in {"open", "loading"}
    /\ newDm' = [newDm EXCEPT !.phase =
                   IF newDm.phase = "open" THEN "closed" ELSE "closed loading"]
    /\ UNCHANGED <<dmConversations, rendered, convFetch, partners, incoming, dms,
                   early, missed, unrendered>>

ListNext ==
    \/ ServeConversations \/ fetchConversations \/ Render \/ DeliverDm
    \/ LoseDm \/ OpenNewDm \/ fetchUsers \/ CloseNewDm
    \/ \E p \in Partner : DmArrives(p) \/ handleSelect(p)

-----------------------------------------------------------------------------
\* Types; and the dialog is never open over a list that is still to come.
ListTypeOK ==
    /\ newDm.phase \in {"open", "loading"} => ~Loading
    /\ dmConversations \in Seq(Partner) /\ rendered \subseteq Partner
    /\ convFetch.phase \in {"sent", "ok", "failed", "done", "error"}
    /\ convFetch.answer \subseteq partners /\ partners \subseteq Partner
    /\ incoming \in Seq(Partner) /\ dms \in 0..MaxDms
    /\ newDm.phase \in {"closed", "loading", "closed loading", "open"}
    /\ newDm.users \subseteq Partner
    /\ early \subseteq Partner /\ missed \subseteq Partner /\ unrendered \subseteq Partner

\* A partner is in the list twice only if a second message (or the dialog)
\* named him before the page had rendered the first.
PartnersAreListedOnce ==
    \A i, j \in DOMAIN dmConversations :
        i # j /\ dmConversations[i] = dmConversations[j] => dmConversations[i] \in unrendered

\* Once the list is loaded, whoever has written is in it, except for those whose
\* message came while it loaded (the answer replaces the list) or was lost (the list
\* is not fetched again), until they write again.
WritersAreListed ==
    convFetch.phase = "done" =>
        \A p \in partners :
            p \in ToSet(dmConversations) \cup ToSet(incoming) \cup early \cup missed
=============================================================================

--------------------------- MODULE MessageThread ---------------------------
(***************************************************************************)
(* The open conversation of the messages page: useGroupMessages and        *)
(* useDirectMessages (lib/hooks/use-messages.ts), handleSend and the       *)
(* selection of a conversation (app/(app)/messages/page.tsx), the input    *)
(* and the thread (components/chat).                                       *)
(*                                                                         *)
(* The page runs one hook per kind of conversation; a hook keeps its list  *)
(* when the user goes to the other kind.  The answers of fetches come in   *)
(* any order, and none is cancelled.                                       *)
(***************************************************************************)
EXTENDS Naturals, Sequences, FiniteSets, SequencesExt

CONSTANTS Conv,      \* conversations: groups, and the partners of direct ones
          KindOf,    \* "group" or "direct"
          Fetch,     \* fetches under way (a bound on how many at a time)
          MaxMsg,    \* messages are numbered in the order they are stored
          Page,      \* the limit of a fetch (50 in the code)
          NoConv

ASSUME KindAssumption == KindOf \in [Conv -> {"group", "direct"}]
ASSUME NoConvAssumption == NoConv \notin Conv
ASSUME PageAssumption == Page \in Nat \ {0} /\ MaxMsg \in Nat

Hook == {"group", "direct"}
Msg == 1..MaxMsg

VARIABLES
    active,    \* activeConversation
    messages, loading, hasMore,   \* the state of each hook
    fetch,     \* fetches under way
    sending,   \* the send under way
    stored,    \* the server's messages: the conversation of each
    wire,      \* messages of others that the socket has still to bring
    late,      \* history: hooks an answer of an earlier visit has reached
    raced,     \* history: messages that met a fetch or came out of order
    got        \* history: messages added to the open conversation

thread == <<active, messages, loading, hasMore, fetch, sending, stored, wire,
            late, raced, got>>
hooks == <<messages, loading, hasMore>>
history == <<late, raced, got>>

NoFetch == [phase |-> "none", hook |-> "group", conv |-> NoConv,
            before |-> 0, result |-> <<>>, visit |-> "this"]
NoSend == [phase |-> "none", conv |-> NoConv, msg |-> 0]

\* The conversation a hook is for: its groupId or otherUserId.
Key(h, c) == IF c # NoConv /\ KindOf[c] = h THEN c ELSE NoConv

Under(h) == {f \in Fetch : fetch[f].phase # "none" /\ fetch[f].hook = h}

ThreadInit ==
    /\ active = NoConv
    /\ messages = [h \in Hook |-> <<>>]
    /\ loading = [h \in Hook |-> "no"] /\ hasMore = [h \in Hook |-> "yes"]
    /\ fetch = [f \in Fetch |-> NoFetch] /\ sending = NoSend
    /\ stored = <<>> /\ wire = {}
    /\ late = {} /\ raced = {} /\ got = {}

-----------------------------------------------------------------------------
(* Fetching                                                                *)

\* fetchMessages: before = 0 is the initial load, which begins a visit.
fetchMessages(h, c, before) ==
    /\ \E f \in Fetch :
         /\ fetch[f] = NoFetch
         /\ fetch' = [x \in Fetch |->
              IF x = f THEN [phase |-> "sent", hook |-> h, conv |-> c, before |-> before,
                             result |-> <<>>, visit |-> "this"]
              ELSE IF x \in Under(h) /\ before = 0 THEN [fetch[x] EXCEPT !.visit = "earlier"]
              ELSE fetch[x]]
    /\ loading' = [loading EXCEPT ![h] = "yes"]

\* Mutant: the list of the conversation before stays until the answer comes.
SelectKeepingMessages(c) ==
    LET h == KindOf[c] IN
    /\ c # active /\ active' = c
    /\ hasMore' = [hasMore EXCEPT ![h] = "yes"]
    /\ fetchMessages(h, c, 0)
    /\ late' = late \ {h} /\ got' = {}
    /\ UNCHANGED <<messages, sending, stored, wire, raced>>

\* Another conversation: its hook starts again, without the old messages.
\* Back, or a conversation of the other kind: the hook's effect returns early.
SelectConversation(c) ==
    LET h == KindOf[c] IN
    /\ c # active /\ active' = c
    /\ messages' = [messages EXCEPT ![h] = <<>>]
    /\ hasMore' = [hasMore EXCEPT ![h] = "yes"]
    /\ fetchMessages(h, c, 0)
    /\ late' = late \ {h} /\ got' = {}
    /\ UNCHANGED <<sending, stored, wire, raced>>

handleBack ==
    /\ active # NoConv /\ active' = NoConv
    /\ got' = {}
    /\ UNCHANGED <<hooks, fetch, sending, stored, wire, late, raced>>

\* Mutant: the cursor is the newest message instead of the oldest.
loadMoreFromNewest ==
    /\ active # NoConv
    /\ LET h == KindOf[active] IN
         /\ messages[h] # <<>> /\ hasMore[h] = "yes" /\ loading[h] = "no"
         /\ fetchMessages(h, active, Head(messages[h]))
    /\ UNCHANGED <<active, messages, hasMore, sending, stored, wire, history>>

loadMore ==
    /\ active # NoConv
    /\ LET h == KindOf[active] IN
         /\ messages[h] # <<>> /\ hasMore[h] = "yes" /\ loading[h] = "no"
         /\ fetchMessages(h, active, Last(messages[h]))
    /\ UNCHANGED <<active, messages, hasMore, sending, stored, wire, history>>

\* The newest messages of the conversation, newest first, older than before.
Answer(c, before) ==
    LET all == {i \in DOMAIN stored : stored[i] = c /\ (before = 0 \/ i < before)}
        size == Cardinality(all)
    IN  [k \in 1..(IF size < Page THEN size ELSE Page) |->
            CHOOSE m \in all : Cardinality({i \in all : i >= m}) = k]

\* Messages that are on their way to the page by another path.
Pending == wire \cup (IF sending.phase = "done" THEN {sending.msg} ELSE {})

ServeFetch(f) ==
    /\ fetch[f].phase = "sent"
    /\ LET r == Answer(fetch[f].conv, fetch[f].before) IN
         \/ /\ fetch' = [fetch EXCEPT ![f] =
                           [fetch[f] EXCEPT !.phase = "ok", !.result = r]]
            /\ raced' = raced \cup Pending
         \/ /\ fetch' = [fetch EXCEPT ![f] = [fetch[f] EXCEPT !.phase = "failed"]]
            /\ UNCHANGED raced
    /\ UNCHANGED <<active, hooks, sending, stored, wire, late, got>>

\* Mutant: a failed fetch leaves isLoading set.
FetchedWithoutFinally(f) ==
    LET h == fetch[f].hook  r == fetch[f].result IN
    /\ fetch[f].phase \in {"ok", "failed"}
    /\ IF fetch[f].phase = "ok"
       THEN /\ messages' = [messages EXCEPT ![h] =
                              IF fetch[f].before = 0 THEN r ELSE messages[h] \o r]
            /\ hasMore' = [hasMore EXCEPT ![h] = IF Len(r) = Page THEN "yes" ELSE "no"]
            /\ loading' = [loading EXCEPT ![h] = "no"]
       ELSE UNCHANGED hooks
    /\ late' = IF fetch[f].visit = "this" THEN late ELSE late \cup {h}
    /\ fetch' = [fetch EXCEPT ![f] = NoFetch]
    /\ UNCHANGED <<active, sending, stored, wire, raced, got>>

\* The answer goes into the hook's list, whichever conversation that is for by
\* now, and loading is over even if another fetch is under way.
Fetched(f) ==
    LET h == fetch[f].hook  r == fetch[f].result IN
    /\ fetch[f].phase \in {"ok", "failed"}
    /\ IF fetch[f].phase = "ok"
       THEN /\ messages' = [messages EXCEPT ![h] =
                              IF fetch[f].before = 0 THEN r ELSE messages[h] \o r]
            /\ hasMore' = [hasMore EXCEPT ![h] = IF Len(r) = Page THEN "yes" ELSE "no"]
       ELSE UNCHANGED <<messages, hasMore>>
    /\ late' = IF fetch[f].visit = "this" THEN late ELSE late \cup {h}
    /\ loading' = [loading EXCEPT ![h] = "no"]
    /\ fetch' = [fetch EXCEPT ![f] = NoFetch]
    /\ UNCHANGED <<active, sending, stored, wire, raced, got>>

-----------------------------------------------------------------------------
(* Messages of others                                                      *)

Post(c) ==
    /\ Len(stored) < MaxMsg
    /\ stored' = Append(stored, c)
    /\ wire' = wire \cup {Len(stored) + 1}
    /\ UNCHANGED <<active, hooks, fetch, sending, history>>

\* Mutant: the new message is all that is left of the list.
AddingAlone(h, m) ==
    /\ messages' = [messages EXCEPT ![h] = <<m>>]
    /\ raced' = IF Under(h) # {} \/ \E x \in ToSet(messages[h]) : x > m
                THEN raced \cup {m} ELSE raced
    /\ got' = IF stored[m] = Key(h, active) THEN got \cup {m} ELSE got

\* A new message goes to the front.  While a fetch for the hook is under way its
\* answer may overwrite it; after a newer one it is out of order, and the last
\* of the list, the cursor of loadMore, is then not the oldest.
Adding(h, m) ==
    /\ messages' = [messages EXCEPT ![h] = <<m>> \o messages[h]]
    /\ raced' = IF Under(h) # {} \/ \E x \in ToSet(messages[h]) : x > m
                THEN raced \cup {m} ELSE raced
    /\ got' = IF stored[m] = Key(h, active) THEN got \cup {m} ELSE got

\* message_new: each hook takes the messages of its own conversation.
Deliver(m) ==
    /\ m \in wire /\ wire' = wire \ {m}
    /\ IF stored[m] = active
       THEN Adding(KindOf[active], m)
       ELSE UNCHANGED <<messages, raced, got>>
    /\ UNCHANGED <<active, loading, hasMore, fetch, sending, stored, late>>

-----------------------------------------------------------------------------
(* Sending                                                                 *)

\* handleSubmit: the input is disabled while a message is sent, and cleared
\* whatever becomes of it.
handleSend ==
    /\ active # NoConv /\ sending = NoSend
    /\ sending' = [phase |-> "sent", conv |-> active, msg |-> 0]
    /\ UNCHANGED <<active, hooks, fetch, stored, wire, history>>

ServeSend ==
    /\ sending.phase = "sent"
    /\ \/ /\ Len(stored) < MaxMsg
          /\ stored' = Append(stored, sending.conv)
          /\ sending' = [sending EXCEPT !.phase = "done", !.msg = Len(stored) + 1]
       \/ sending' = [sending EXCEPT !.phase = "failed"] /\ UNCHANGED stored
    /\ UNCHANGED <<active, hooks, fetch, wire, history>>

\* addOptimistic of the hook that was the active one when the message was sent.
Sent ==
    /\ sending.phase \in {"done", "failed"} /\ sending' = NoSend
    /\ LET h == KindOf[sending.conv] IN
         IF sending.phase = "done"
         THEN /\ Adding(h, sending.msg)
              /\ late' = IF sending.conv = Key(h, active) THEN late ELSE late \cup {h}
         ELSE UNCHANGED <<messages, raced, got, late>>
    /\ UNCHANGED <<active, loading, hasMore, fetch, stored, wire>>

-----------------------------------------------------------------------------
ThreadNext ==
    \/ \E c \in Conv : SelectConversation(c) \/ Post(c)
    \/ handleBack \/ loadMore \/ handleSend \/ ServeSend \/ Sent
    \/ \E f \in Fetch : ServeFetch(f) \/ Fetched(f)
    \/ \E m \in wire : Deliver(m)

ThreadSpec == ThreadInit /\ [][ThreadNext]_thread

-----------------------------------------------------------------------------
\* Types; and a hook that says it is loading has a fetch under way.
ThreadTypeOK ==
    /\ \A h \in Hook : loading[h] = "yes" => Under(h) # {}
    /\ active \in Conv \cup {NoConv}
    /\ messages \in [Hook -> Seq(Msg)]
    /\ loading \in [Hook -> {"no", "yes"}] /\ hasMore \in [Hook -> {"no", "yes"}]
    /\ \A f \in Fetch :
         /\ fetch[f].phase \in {"none", "sent", "ok", "failed"}
         /\ fetch[f].hook \in Hook /\ fetch[f].conv \in Conv \cup {NoConv}
         /\ fetch[f].before \in 0..MaxMsg /\ fetch[f].result \in Seq(Msg)
    /\ sending.phase \in {"none", "sent", "done", "failed"}
    /\ sending.conv \in Conv \cup {NoConv} /\ sending.msg \in 0..MaxMsg
    /\ stored \in Seq(Conv) /\ wire \subseteq Msg
    /\ late \subseteq Hook /\ raced \subseteq Msg /\ got \subseteq Msg

Open == active # NoConv
Shown == messages[KindOf[active]]
Times(m) == Cardinality({i \in DOMAIN Shown : Shown[i] = m})

\* The open thread shows a message of another conversation only if an answer
\* came late: a fetch or a send that was under way when the user moved on.
ForeignMessagesAreLate ==
    Open /\ KindOf[active] \notin late => \A m \in ToSet(Shown) : stored[m] = active

\* A message is shown twice only if it was on its way to the page when an answer
\* was made, or came after a newer one, or after a late answer.
DuplicatesNeedARace ==
    Open /\ KindOf[active] \notin late => \A m \in ToSet(Shown) : Times(m) > 1 => m \in raced

\* A message the open thread has shown goes away only if it was added while a
\* fetch was under way, whose answer replaced the list.
GapsNeedARace ==
    Open /\ KindOf[active] \notin late => got \subseteq ToSet(Shown) \cup raced
=============================================================================

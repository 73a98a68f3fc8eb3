------------------------------ MODULE ReplayMap ------------------------------
(***************************************************************************)
(* Replay on the map page: a range of time is chosen, the history of the   *)
(* scope the filters give is fetched and shown, and the replay closed      *)
(* again (app/(app)/map/page.tsx, components/map/replay-panel.tsx,         *)
(* lib/hooks/use-location-history.ts).                                     *)
(*                                                                         *)
(* There are one group and two users, a mate who is a member of it and     *)
(* another; of a history the users it has entries of are kept, and the     *)
(* range it was fetched for.                                               *)
(***************************************************************************)
EXTENDS Naturals, FiniteSets

CONSTANTS Find,      \* history requests under way (a bound on how many at a time)
          MaxRange   \* bound: replays started

ASSUME ReplayBoundsAssumption == MaxRange \in Nat

VARIABLES
    replayActive, replayPanelOpen, filterPanelOpen,
    replayScope, replayRange,   \* range: the number of the replay (0: none)
    track,           \* of each hook: range and users of its data
    trackLoading,    \* of each hook: isLoading
    find,            \* requests under way
    selectedGroup, selectedUsers,   \* the filters
    members,         \* groupMemberCache: "none", or "known"
    asking,          \* "yes" while the members are being fetched
    unfetched        \* history: "yes" when they could not be fetched

replay == <<replayActive, replayPanelOpen, filterPanelOpen, replayScope, replayRange, track,
            trackLoading, find, selectedGroup, selectedUsers, members, asking, unfetched>>

Scope == {"all", "group", "user"}
Person == {"mate", "other"}
NoTrack == [range |-> 0, users |-> {}]
NoFind == [scope |-> "none", phase |-> "none", track |-> NoTrack]

ReplayInit ==
    /\ replayActive = "no" /\ replayPanelOpen = "no" /\ filterPanelOpen = "no"
    /\ replayScope = "all" /\ replayRange = 0
    /\ track = [s \in Scope |-> NoTrack] /\ trackLoading = [s \in Scope |-> "no"]
    /\ find = [f \in Find |-> NoFind]
    /\ selectedGroup = "no" /\ selectedUsers = {}
    /\ members = "none" /\ asking = "no" /\ unfetched = "no"

-----------------------------------------------------------------------------
(* What is shown                                                           *)

activeHistory == track[replayScope]

\* The users whose tracks pass the filters.  Members that are not known let no one
\* through.
filteredHistory ==
    {u \in activeHistory.users :
        /\ selectedGroup = "yes" => members = "known" /\ u = "mate"
        /\ selectedUsers # {} => u \in selectedUsers}

\* Mutant: the bar can be closed while the history is being fetched.
BarShownAtOnce == replayActive = "yes" /\ replayRange # 0

\* ReplayControls, and the message that there is no data: both have the button
\* that closes the replay.
ControlsShown == replayActive = "yes" /\ filteredHistory # {} /\ replayRange # 0

\* Mutant: the message is there for the scope of all users only.
NoDataOfAllShown == /\ replayActive = "yes" /\ replayScope = "all"
                    /\ activeHistory.users = {} /\ trackLoading["all"] = "no"

NoDataShown == replayActive = "yes" /\ activeHistory.users = {}
               /\ trackLoading[replayScope] = "no"

-----------------------------------------------------------------------------
(* The user                                                                *)

onReplayClick ==
    /\ replayPanelOpen' = IF replayPanelOpen = "yes" THEN "no" ELSE "yes"
    /\ filterPanelOpen' = "no"
    /\ UNCHANGED <<replayActive, replayScope, replayRange, track, trackLoading, find,
                   selectedGroup, selectedUsers, members, asking, unfetched>>

\* Mutant: the other panel stays open.
onFilterClickAlone ==
    /\ filterPanelOpen' = IF filterPanelOpen = "yes" THEN "no" ELSE "yes"
    /\ UNCHANGED <<replayActive, replayPanelOpen, replayScope, replayRange, track,
                   trackLoading, find, selectedGroup, selectedUsers, members, asking, unfetched>>

onFilterClick ==
    /\ filterPanelOpen' = IF filterPanelOpen = "yes" THEN "no" ELSE "yes"
    /\ replayPanelOpen' = "no"
    /\ UNCHANGED <<replayActive, replayScope, replayRange, track, trackLoading, find,
                   selectedGroup, selectedUsers, members, asking, unfetched>>

ScopeOfFilters == IF Cardinality(selectedUsers) = 1 THEN "user"
                  ELSE IF selectedGroup = "yes" THEN "group" ELSE "all"

\* Start is disabled while the history of the last scope is being fetched.
handleReplayStart ==
    /\ replayPanelOpen = "yes" /\ replayActive = "no" /\ trackLoading[replayScope] = "no"
    /\ replayRange < MaxRange
    /\ replayRange' = replayRange + 1 /\ replayScope' = ScopeOfFilters
    /\ \E f \in Find :
         /\ find[f] = NoFind
         /\ find' = [find EXCEPT ![f] = [scope |-> ScopeOfFilters, phase |-> "sent",
                                         track |-> [range |-> replayRange + 1, users |-> {}]]]
    /\ track' = [s \in Scope |-> NoTrack]
    /\ trackLoading' = [trackLoading EXCEPT ![ScopeOfFilters] = "yes"]
    /\ replayActive' = "yes" /\ replayPanelOpen' = "no"
    /\ UNCHANGED <<filterPanelOpen, selectedGroup, selectedUsers, members, asking, unfetched>>

\* The range is kept as a number that only grows.
stopReplay ==
    /\ ControlsShown \/ NoDataShown
    /\ replayActive' = "no" /\ replayScope' = "all"
    /\ track' = [s \in Scope |-> NoTrack]
    /\ UNCHANGED <<replayPanelOpen, filterPanelOpen, replayRange, trackLoading, find,
                   selectedGroup, selectedUsers, members, asking, unfetched>>

\* A group is selected: its members are fetched, unless they have been.
onGroupToggle ==
    /\ filterPanelOpen = "yes"
    /\ selectedGroup' = IF selectedGroup = "yes" THEN "no" ELSE "yes"
    /\ asking' = IF selectedGroup = "no" /\ members = "none" THEN "yes" ELSE asking
    /\ UNCHANGED <<replayActive, replayPanelOpen, filterPanelOpen, replayScope, replayRange,
                   track, trackLoading, find, selectedUsers, members, unfetched>>

onUserToggle(u) ==
    /\ filterPanelOpen = "yes"
    /\ selectedUsers' = IF u \in selectedUsers THEN selectedUsers \ {u}
                                               ELSE selectedUsers \cup {u}
    /\ UNCHANGED <<replayActive, replayPanelOpen, filterPanelOpen, replayScope, replayRange,
                   track, trackLoading, find, selectedGroup, members, asking, unfetched>>

-----------------------------------------------------------------------------
(* The answers                                                             *)

\* The server: of a group its members, of a user (the one selected) himself.
ServeHistory(f) ==
    /\ find[f].phase = "sent"
    /\ \E users \in SUBSET IF find[f].scope = "group" THEN {"mate"} ELSE Person :
         /\ find[f].scope = "user" => Cardinality(users) <= 1
         /\ find' = [find EXCEPT ![f] = [find[f] EXCEPT !.phase = "ok", !.track.users = users]]
    /\ UNCHANGED <<replayActive, replayPanelOpen, filterPanelOpen, replayScope, replayRange,
                   track, trackLoading, selectedGroup, selectedUsers, members, asking, unfetched>>

\* setData, in the hook that asked; nothing when the request has failed.
HistoryFetched(f) ==
    /\ find[f].phase # "none"
    /\ find' = [find EXCEPT ![f] = NoFind]
    /\ track' = [track EXCEPT ![find[f].scope] =
                   IF find[f].phase = "ok" THEN find[f].track ELSE NoTrack]
    /\ trackLoading' = [trackLoading EXCEPT ![find[f].scope] = "no"]
    /\ UNCHANGED <<replayActive, replayPanelOpen, filterPanelOpen, replayScope, replayRange,
                   selectedGroup, selectedUsers, members, asking, unfetched>>

\* fetchGroupMembers: an error is dropped.
MembersFetched ==
    /\ asking = "yes" /\ asking' = "no"
    /\ \/ members' = "known" /\ UNCHANGED unfetched
       \/ UNCHANGED members /\ unfetched' = "yes"
    /\ UNCHANGED <<replayActive, replayPanelOpen, filterPanelOpen, replayScope, replayRange,
                   track, trackLoading, find, selectedGroup, selectedUsers>>

-----------------------------------------------------------------------------
ReplayNext ==
    \/ onReplayClick \/ onFilterClick \/ handleReplayStart \/ stopReplay \/ onGroupToggle
    \/ \E u \in Person : onUserToggle(u)
    \/ \E f \in Find : ServeHistory(f) \/ HistoryFetched(f)
    \/ MembersFetched

ReplaySpec == ReplayInit /\ [][ReplayNext]_replay

-----------------------------------------------------------------------------
\* Types; and of the two panels at most one is open.
ReplayTypeOK ==
    /\ ~(replayPanelOpen = "yes" /\ filterPanelOpen = "yes")
    /\ replayActive \in {"yes", "no"} /\ replayScope \in Scope /\ replayRange \in 0..MaxRange
    /\ \A s \in Scope : track[s].users \subseteq Person /\ track[s].range \in 0..MaxRange
    /\ \A s \in Scope : trackLoading[s] \in {"yes", "no"}
    /\ \A f \in Find : find[f].phase \in {"none", "sent", "ok"}
    /\ selectedGroup \in {"yes", "no"} /\ selectedUsers \subseteq Person
    /\ members \in {"none", "known"} /\ asking \in {"yes", "no"}

\* The tracks a replay shows are those of its range: the page offers no button that
\* closes a replay while its history is being fetched, so no answer is late.
TracksAreOfTheRange ==
    replayActive = "yes" /\ activeHistory.users # {} => activeHistory.range = replayRange

\* A replay can be closed, unless its history is being fetched or a filter lets
\* none of it through.
ReplayCanBeClosed ==
    replayActive = "yes" =>
        \/ ControlsShown \/ NoDataShown
        \/ \E f \in Find : find[f].scope = replayScope
        \/ activeHistory.users # {} /\ (selectedGroup = "yes" \/ selectedUsers # {})

\* "Ignore -- group filter just won't narrow": a group whose members could not be
\* fetched does not narrow what is shown.
UnknownMembersDoNotNarrow ==
    selectedGroup = "yes" /\ selectedUsers = {} /\ unfetched = "yes" /\ asking = "no"
        /\ members = "none"
    => filteredHistory = activeHistory.users
=============================================================================

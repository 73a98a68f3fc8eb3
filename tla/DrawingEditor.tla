---------------------------- MODULE DrawingEditor ----------------------------
(***************************************************************************)
(* The draw panel of the map page (app/(app)/map/page.tsx, lib/hooks/      *)
(* use-drawings.ts): a drawing is begun, saved, saved again, closed; saved *)
(* ones are listed, shared and deleted beside it.                          *)
(*                                                                         *)
(* A work is what the user draws from the moment the panel is empty until  *)
(* he closes it.  Of a drawing on the server only the work it holds is     *)
(* kept, of its shares whose they are.                                     *)
(***************************************************************************)
EXTENDS Naturals, FiniteSets

CONSTANTS Call,        \* requests under way (a bound on how many at a time)
          MaxDrawing,  \* bound: drawings created
          MaxWork,     \* bound: works begun
          MaxMetDraw   \* bound: what a run meets that excuses a mishap

ASSUME DrawBoundsAssumption ==
    MaxDrawing \in Nat \ {0} /\ MaxWork \in Nat \ {0} /\ MaxMetDraw \in Nat

VARIABLES
    drawn, origin,  \* the server's drawings: the work they hold (0: none), and held first
    created,         \* drawings created so far
    work,            \* the work on the screen
    drawActive, shapes,   \* the panel is open; whether there are shapes in it
    savedDrawingId,  \* the drawing the next save updates (0: none)
    ownDrawings,     \* the list of the panel
    managing,        \* managingDrawingId: whose shares are shown in a popover (0: none)
    shares, sharesLoading,  \* the shares there: whose they are (0: none); isLoading
    isSharing,       \* isLoading of the hook that shares
    call,            \* requests under way
    metDraw,         \* history: what the page has met
    crossed          \* history: what was done to another drawing than the one meant

draw == <<drawn, origin, created, work, drawActive, shapes, savedDrawingId, ownDrawings,
          managing, shares, sharesLoading, isSharing, call, metDraw, crossed>>

DrawingId == 1..MaxDrawing
Existing == {d \in DrawingId : drawn[d] # 0}

NoCall == [kind |-> "none", phase |-> "none", id |-> 0, about |-> 0, ids |-> {}]
Calling(kinds) == {c \in Call : call[c].kind \in kinds}
DrawQuiet == Calling({"create", "update", "delete", "list", "shares", "share", "unshare", "shareWork"}) = {}

DrawInit ==
    /\ drawn = [d \in DrawingId |-> 0] /\ origin = drawn /\ created = 0
    /\ work = 1 /\ drawActive = "no" /\ shapes = "none" /\ savedDrawingId = 0
    /\ ownDrawings = {} /\ managing = 0 /\ shares = 0 /\ sharesLoading = "no"
    /\ isSharing = "no"
    /\ call = [c \in Call |-> NoCall]       \* the first list has been answered
    /\ metDraw = {} /\ crossed = {}

\* A request; about: the work a save sends, or whose a revoked share is.
Begin(calls, kind, id, about) ==
    \E c \in Call :
        /\ calls[c] = NoCall
        /\ call' = [calls EXCEPT ![c] =
             [NoCall EXCEPT !.kind = kind, !.phase = "sent", !.id = id, !.about = about]]

EndedCall(c) == [call EXCEPT ![c] = NoCall]

\* Two lists at a time may be answered in the other order.
MetTwoLists == IF Calling({"list"}) # {} THEN {"lists"} ELSE {}
\* Shares asked for under another popover than the one that is open then.
MetOtherShares == IF Calling({"shares", "share", "unshare"}) # {} THEN {"shares"} ELSE {}

-----------------------------------------------------------------------------
(* The user                                                                *)

onDrawClick ==
    /\ drawActive' = IF drawActive = "yes" THEN "no" ELSE "yes"
    /\ UNCHANGED <<drawn, origin, created, work, shapes, savedDrawingId, ownDrawings,
                   managing, shares, sharesLoading, call, metDraw, crossed,
                   isSharing>>

\* handleShapeComplete; and onClearShapes, onRemoveShape.
ChangeShapes ==
    /\ drawActive = "yes"
    /\ shapes' = IF shapes = "none" THEN "some" ELSE "none"
    /\ UNCHANGED <<drawn, origin, created, work, drawActive, savedDrawingId,
                   ownDrawings, managing, shares, sharesLoading, call, metDraw,
                   crossed, isSharing>>

\* Mutant: Save is not disabled while a save is under way.
handleDrawSaveAgain ==
    /\ drawActive = "yes" /\ shapes = "some"
    /\ IF savedDrawingId # 0 THEN Begin(call, "update", savedDrawingId, work)
                             ELSE Begin(call, "create", 0, work)
    /\ UNCHANGED <<drawn, origin, created, work, drawActive, shapes, savedDrawingId,
                   ownDrawings, managing, shares, sharesLoading, metDraw, crossed,
                   isSharing>>

\* Save is disabled while a save is under way.
handleDrawSave ==
    /\ drawActive = "yes" /\ shapes = "some"
    /\ Calling({"create", "update"}) = {}
    /\ IF savedDrawingId # 0 THEN Begin(call, "update", savedDrawingId, work)
                             ELSE Begin(call, "create", 0, work)
    /\ UNCHANGED <<drawn, origin, created, work, drawActive, shapes, savedDrawingId,
                   ownDrawings, managing, shares, sharesLoading, metDraw, crossed,
                   isSharing>>

\* Mutant: the next work goes on with the drawing of the last.
CloseKeepingId ==
    /\ drawActive = "yes" /\ work < MaxWork
    /\ work' = work + 1 /\ drawActive' = "no" /\ shapes' = "none"
    /\ metDraw' = metDraw \cup IF Calling({"create"}) # {} THEN {"closed"} ELSE {}
    /\ UNCHANGED <<drawn, origin, created, savedDrawingId, ownDrawings, managing,
                   shares, sharesLoading, call, crossed, isSharing>>

\* A request of the work that is closed goes on.
handleDrawClose ==
    /\ drawActive = "yes" /\ work < MaxWork
    /\ work' = work + 1 /\ drawActive' = "no" /\ shapes' = "none" /\ savedDrawingId' = 0
    /\ metDraw' = metDraw \cup IF Calling({"create"}) # {} THEN {"closed"} ELSE {}
    /\ UNCHANGED <<drawn, origin, created, ownDrawings, managing, shares,
                   sharesLoading, call, crossed, isSharing>>

\* Delete, and Share beside the name, are not disabled while one is under way.
handleDrawingDelete(d) ==
    /\ drawActive = "yes" /\ d \in ownDrawings
    /\ Begin(call, "delete", d, managing)
    /\ UNCHANGED <<drawn, origin, created, work, drawActive, shapes, savedDrawingId,
                   ownDrawings, managing, shares, sharesLoading, metDraw, crossed,
                   isSharing>>

\* Mutant: the shares are not loaded when another popover opens.
ManageUnloaded(d) ==
    /\ drawActive = "yes" /\ d # managing /\ d \in ownDrawings \cup {0}
    /\ managing' = d
    /\ metDraw' = metDraw \cup MetOtherShares
    /\ UNCHANGED <<drawn, origin, created, work, drawActive, shapes, savedDrawingId,
                   ownDrawings, shares, sharesLoading, call, crossed, isSharing>>

\* setManagingDrawingId, and the effect of useDrawingShares.
Manage(d) ==
    /\ drawActive = "yes" /\ d # managing /\ d \in ownDrawings \cup {0}
    /\ managing' = d
    /\ metDraw' = metDraw \cup MetOtherShares
    /\ IF d = 0 THEN shares' = 0 /\ UNCHANGED <<call, sharesLoading>>
                ELSE Begin(call, "shares", d, 0) /\ sharesLoading' = "yes" /\ UNCHANGED shares
    /\ UNCHANGED <<drawn, origin, created, work, drawActive, shapes, savedDrawingId,
                   ownDrawings, crossed, isSharing>>

\* Of the work on the screen, by the id it is thought to have.  Disabled from the start
\* of a share to the end of whichever ends first.
handleDrawShare ==
    /\ drawActive = "yes" /\ savedDrawingId # 0 /\ isSharing = "no"
    /\ Begin(call, "shareWork", savedDrawingId, work) /\ isSharing' = "yes"
    /\ UNCHANGED <<drawn, origin, created, work, drawActive, shapes, savedDrawingId,
                   ownDrawings, managing, shares, sharesLoading, metDraw, crossed>>

handleFilterPanelShare ==
    /\ drawActive = "yes" /\ managing # 0
    /\ Begin(call, "share", managing, 0) /\ isSharing' = "yes"
    /\ UNCHANGED <<drawn, origin, created, work, drawActive, shapes, savedDrawingId,
                   ownDrawings, managing, shares, sharesLoading, metDraw, crossed>>

\* The id of the drawing whose popover it is, with the message of the share shown.
handleDrawingUnshare ==
    /\ drawActive = "yes" /\ managing # 0 /\ sharesLoading = "no" /\ shares # 0
    /\ Begin(call, "unshare", managing, shares)
    /\ UNCHANGED <<drawn, origin, created, work, drawActive, shapes, savedDrawingId,
                   ownDrawings, managing, shares, sharesLoading, metDraw, crossed,
                   isSharing>>

-----------------------------------------------------------------------------
(* The server                                                              *)

Done(c, answer) == call' = [call EXCEPT ![c] = [answer EXCEPT !.phase = "ok"]]

ServeDrawingCreate(c) ==
    /\ call[c].kind = "create" /\ call[c].phase = "sent" /\ created < MaxDrawing
    /\ created' = created + 1
    /\ drawn' = [drawn EXCEPT ![created + 1] = call[c].about]
    /\ origin' = [origin EXCEPT ![created + 1] = call[c].about]
    /\ Done(c, [call[c] EXCEPT !.id = created + 1])
    /\ UNCHANGED <<work, drawActive, shapes, savedDrawingId, ownDrawings, managing,
                   shares, sharesLoading, metDraw, crossed, isSharing>>

ServeDrawingUpdate(c) ==
    /\ call[c].kind = "update" /\ call[c].phase = "sent" /\ call[c].id \in Existing
    /\ drawn' = [drawn EXCEPT ![call[c].id] = call[c].about]
    /\ Done(c, call[c])
    /\ UNCHANGED <<origin, created, work, drawActive, shapes, savedDrawingId,
                   ownDrawings, managing, shares, sharesLoading, metDraw, crossed,
                   isSharing>>

ServeDrawingDelete(c) ==
    /\ call[c].kind = "delete" /\ call[c].phase = "sent" /\ call[c].id \in Existing
    /\ drawn' = [drawn EXCEPT ![call[c].id] = 0]
    /\ Done(c, call[c])
    /\ UNCHANGED <<origin, created, work, drawActive, shapes, savedDrawingId,
                   ownDrawings, managing, shares, sharesLoading, metDraw, crossed,
                   isSharing>>

\* List, shares, share, unshare.  A share is found by its message alone.
ServeSharing(c) ==
    /\ call[c].kind \in {"list", "shares", "share", "unshare", "shareWork"}
    /\ call[c].phase = "sent"
    /\ call[c].kind # "list" => call[c].id \in Existing
    /\ crossed' = crossed \cup
         (IF call[c].kind = "unshare" /\ call[c].about # call[c].id THEN {"revoked"} ELSE {})
         \cup (IF call[c].kind = "shareWork" /\ call[c].about # origin[call[c].id]
                THEN {"shared"} ELSE {})
    /\ Done(c, [call[c] EXCEPT !.ids = IF call[c].kind = "list" THEN Existing ELSE {}])
    /\ UNCHANGED <<drawn, origin, created, work, drawActive, shapes, savedDrawingId,
                   ownDrawings, managing, shares, sharesLoading, metDraw, isSharing>>

-----------------------------------------------------------------------------
(* The answers                                                             *)

\* Mutant: the panel does not note which drawing it has created.
CreatedUnnoted(c) ==
    /\ call[c].kind \in {"create", "update"} /\ call[c].phase = "ok"
    /\ Begin(EndedCall(c), "list", 0, 0) /\ metDraw' = metDraw \cup MetTwoLists
    /\ UNCHANGED <<drawn, origin, created, work, drawActive, shapes, savedDrawingId,
                   ownDrawings, managing, shares, sharesLoading, crossed, isSharing>>

\* The rest of handleDrawSave: also when the panel has been closed since.
DrawingSaved(c) ==
    /\ call[c].kind \in {"create", "update"} /\ call[c].phase = "ok"
    /\ savedDrawingId' = IF call[c].kind = "create" THEN call[c].id ELSE savedDrawingId
    /\ Begin(EndedCall(c), "list", 0, 0) /\ metDraw' = metDraw \cup MetTwoLists
    /\ UNCHANGED <<drawn, origin, created, work, drawActive, shapes, ownDrawings,
                   managing, shares, sharesLoading, crossed, isSharing>>

\* Mutant: the list is not loaded again.
DrawingDeletedQuietly(c) ==
    /\ call[c].kind = "delete" /\ call[c].phase = "ok"
    /\ call' = EndedCall(c)
    /\ UNCHANGED <<drawn, origin, created, work, drawActive, shapes, savedDrawingId,
                   ownDrawings, managing, shares, sharesLoading, metDraw, crossed,
                   isSharing>>

\* The popover is closed when it was of this drawing at the click.
DrawingDeleted(c) ==
    LET closes == call[c].about = call[c].id IN
    /\ call[c].kind = "delete" /\ call[c].phase = "ok"
    /\ Begin(EndedCall(c), "list", 0, 0)
    /\ managing' = IF closes THEN 0 ELSE managing
    /\ shares' = IF closes /\ managing # 0 THEN 0 ELSE shares
    /\ metDraw' = metDraw \cup MetTwoLists \cup (IF closes THEN MetOtherShares ELSE {})
    /\ UNCHANGED <<drawn, origin, created, work, drawActive, shapes, savedDrawingId,
                   ownDrawings, sharesLoading, crossed, isSharing>>

\* Nothing is loaded again.
WorkShared(c) ==
    /\ call[c].kind = "shareWork" /\ call[c].phase = "ok"
    /\ call' = EndedCall(c) /\ isSharing' = "no"
    /\ UNCHANGED <<drawn, origin, created, work, drawActive, shapes, savedDrawingId,
                   ownDrawings, managing, shares, sharesLoading, metDraw, crossed>>

\* refetchShares, of the drawing managed at the click.
Shared(c) ==
    /\ call[c].kind = "share" /\ call[c].phase = "ok"
    /\ Begin(EndedCall(c), "shares", call[c].id, 0)
    /\ sharesLoading' = "yes" /\ isSharing' = "no"
    /\ UNCHANGED <<drawn, origin, created, work, drawActive, shapes, savedDrawingId,
                   ownDrawings, managing, shares, metDraw, crossed>>

\* refetchShares, and refetchDrawings.
Unshared(c) ==
    /\ call[c].kind = "unshare" /\ call[c].phase = "ok"
    /\ \E d \in Call \ {c} :
         /\ call[d] = NoCall
         /\ call' = [call EXCEPT
              ![c] = [NoCall EXCEPT !.kind = "shares", !.phase = "sent", !.id = call[c].id],
              ![d] = [NoCall EXCEPT !.kind = "list", !.phase = "sent"]]
    /\ sharesLoading' = "yes"
    /\ metDraw' = metDraw \cup MetTwoLists
    /\ UNCHANGED <<drawn, origin, created, work, drawActive, shapes, savedDrawingId,
                   ownDrawings, managing, shares, crossed, isSharing>>

SharesLoaded(c) ==
    /\ call[c].kind = "shares" /\ call[c].phase = "ok"
    /\ call' = EndedCall(c) /\ shares' = call[c].id /\ sharesLoading' = "no"
    /\ UNCHANGED <<drawn, origin, created, work, drawActive, shapes, savedDrawingId,
                   ownDrawings, managing, metDraw, crossed, isSharing>>

DrawingsListed(c) ==
    /\ call[c].kind = "list" /\ call[c].phase = "ok"
    /\ call' = EndedCall(c) /\ ownDrawings' = call[c].ids
    /\ UNCHANGED <<drawn, origin, created, work, drawActive, shapes, savedDrawingId,
                   managing, shares, sharesLoading, metDraw, crossed, isSharing>>

\* Refused, or served and the answer lost.
CallFailed(c) ==
    /\ call[c] # NoCall
    /\ call' = EndedCall(c)
    /\ shares' = IF call[c].kind = "shares" THEN 0 ELSE shares
    /\ sharesLoading' = IF call[c].kind = "shares" THEN "no" ELSE sharesLoading
    /\ isSharing' = IF call[c].kind \in {"share", "shareWork"} THEN "no" ELSE isSharing
    /\ metDraw' = metDraw \cup IF call[c].phase = "sent" /\ call[c].kind # "list"
                               THEN {} ELSE {"missed"}
    /\ UNCHANGED <<drawn, origin, created, work, drawActive, shapes, savedDrawingId,
                   ownDrawings, managing, crossed>>

-----------------------------------------------------------------------------
DrawNext ==
    /\ \/ onDrawClick \/ ChangeShapes \/ handleDrawSave \/ handleDrawClose
       \/ \E d \in DrawingId : handleDrawingDelete(d)
       \/ \E d \in DrawingId \cup {0} : Manage(d)
       \/ handleDrawShare \/ handleFilterPanelShare \/ handleDrawingUnshare
       \/ \E c \in Call : \/ ServeDrawingCreate(c) \/ ServeDrawingUpdate(c) \/ ServeDrawingDelete(c) \/ ServeSharing(c)
                          \/ DrawingSaved(c) \/ DrawingDeleted(c) \/ WorkShared(c)
                          \/ Shared(c) \/ Unshared(c)
                          \/ SharesLoaded(c) \/ DrawingsListed(c) \/ CallFailed(c)
    /\ Cardinality(metDraw') <= MaxMetDraw

DrawSpec == DrawInit /\ [][DrawNext]_draw

-----------------------------------------------------------------------------
\* Types; and one save at a time.
DrawTypeOK ==
    /\ Cardinality(Calling({"create", "update"})) <= 1
    /\ drawn \in [DrawingId -> 0..MaxWork] /\ origin \in [DrawingId -> 0..MaxWork]
    /\ created \in 0..MaxDrawing /\ work \in 1..MaxWork
    /\ drawActive \in {"yes", "no"} /\ shapes \in {"none", "some"}
    /\ savedDrawingId \in 0..created /\ ownDrawings \subseteq 1..created
    /\ managing \in 0..created /\ shares \in 0..created /\ sharesLoading \in {"yes", "no"}
    /\ isSharing \in {"yes", "no"}
    /\ \A c \in Call : call[c].phase \in {"none", "sent", "ok"}

\* A saved drawing is not replaced by another work, nor shared for it, unless the
\* panel was closed while it was being created: its id then comes to the work begun
\* since.
DrawingsKeepTheirWork ==
    \/ "closed" \in metDraw
    \/ (\A d \in Existing : drawn[d] = origin[d]) /\ "shared" \notin crossed

\* A work is created as one drawing, unless an answer was missed and it was saved
\* again.
WorksAreCreatedOnce ==
    "missed" \in metDraw
        \/ \A d, e \in DrawingId : origin[d] # 0 /\ origin[d] = origin[e] => d = e

\* Unshare revokes a share of the drawing in whose popover it is, unless the popover
\* was changed while shares of the other were being loaded, or loaded again.
UnshareIsOfItsDrawing == "revoked" \in crossed => "shares" \in metDraw

\* With nothing under way the list has the drawings there are, unless an answer was
\* missed, or two lists were under way at a time.
DrawingsAreListed ==
    DrawQuiet /\ metDraw \cap {"missed", "lists"} = {} => ownDrawings = Existing
=============================================================================

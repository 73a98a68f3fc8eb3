--------------------------- MODULE WebPagesProofs ---------------------------
(***************************************************************************)
(* Proofs about WebPages.  The pages share no state, so that a step of     *)
(* another page leaves a page as it is: each page has an invariant of its  *)
(* own, kept by its own steps, and the theorems at the end put them        *)
(* together.  Every part of an invariant relates what is shown to the      *)
(* requests under way, until the history has what excuses the promise.     *)
(***************************************************************************)
EXTENDS WebPages, FiniteSetTheorems, SequenceTheorems, WellFoundedInduction, TLAPS

-----------------------------------------------------------------------------
(* The draw panel: the panel, the requests under way and the server        *)

Kinds == {"none", "create", "update", "delete", "list", "shares", "share", "unshare",
          "shareWork"}
CallType == [kind : Kinds, phase : {"none", "sent", "ok"}, id : Nat, about : Nat,
             ids : SUBSET DrawingId]

DrawTypes ==
    /\ drawn \in [DrawingId -> Nat] /\ origin \in [DrawingId -> Nat]
    /\ created \in 0..MaxDrawing /\ work \in Nat \ {0} /\ savedDrawingId \in 0..created
    /\ ownDrawings \subseteq DrawingId /\ managing \in Nat /\ shares \in Nat
    /\ call \in [Call -> CallType]

\* Drawings are numbered as they are created, and created of a work.
NumberedInOrder ==
    \A d \in DrawingId : IF d > created THEN drawn[d] = 0 /\ origin[d] = 0
                                        ELSE origin[d] # 0

\* One save at a time, of a work begun; the drawings that requests are about exist.
OneSave ==
    /\ \A c, d \in Call : call[c].kind \in {"create", "update"}
                             /\ call[d].kind \in {"create", "update"} => c = d
    /\ \A c \in Call :
         /\ call[c].kind \in {"create", "update"} => call[c].about \in 1..work
         /\ call[c].kind \in {"update", "shareWork"} => call[c].id \in 1..created
         /\ call[c].kind = "create" /\ call[c].phase = "ok" => call[c].id \in 1..created

\* Unless the panel was closed during a create: the id it holds, and the requests
\* made with it, are those of the drawing created of the work they send.
IdIsOfTheWork ==
    "closed" \notin metDraw =>
        /\ savedDrawingId # 0 => origin[savedDrawingId] = work
        /\ \A c \in Call :
             /\ call[c].kind = "create" => call[c].about = work
             /\ call[c].kind \in {"update", "shareWork"} => origin[call[c].id] = call[c].about
             /\ call[c].kind = "create" /\ call[c].phase = "ok"
                  => origin[call[c].id] = call[c].about
        /\ \A d \in DrawingId : drawn[d] # 0 => drawn[d] = origin[d]
        /\ "shared" \notin crossed

\* Unless an answer was missed: a work that has been created is not being created,
\* and the panel knows that it has, or is about to.
CreatedIsKnown ==
    "missed" \notin metDraw =>
        /\ \A d, e \in DrawingId : origin[d] # 0 /\ origin[d] = origin[e] => d = e
        /\ \A d \in DrawingId : origin[d] <= work
        /\ (\E d \in DrawingId : origin[d] = work) =>
              savedDrawingId # 0
                \/ \E c \in Call : call[c].kind = "create" /\ call[c].phase = "ok"
        /\ \A c \in Call : call[c].kind = "create" /\ call[c].phase = "sent"
              => \A d \in DrawingId : origin[d] # call[c].about

\* Unless the popover was changed during a request about shares: these are about its
\* drawing, and so are the shares it shows.
SharesAreOfThePopover ==
    "shares" \notin metDraw =>
        /\ sharesLoading = "no" => shares \in {0, managing}
        /\ \A c \in Call :
             /\ call[c].kind \in {"shares", "share", "unshare"} => call[c].id = managing
             /\ call[c].kind = "unshare" => call[c].about = call[c].id
        /\ "revoked" \notin crossed

Changing == \E c \in Call : call[c].kind \in {"create", "delete"} /\ call[c].phase = "ok"

\* Unless an answer was missed or two lists were under way: the list is the drawings
\* there are, or is about to be, or a change is about to ask for it.
ListFollows ==
    metDraw \cap {"missed", "lists"} = {} =>
        /\ \A c, d \in Call : call[c].kind = "list" /\ call[d].kind = "list" => c = d
        /\ \/ Changing
           \/ /\ (\A c \in Call : call[c].kind # "list") => ownDrawings = Existing
              /\ \A c \in Call : call[c].kind = "list" /\ call[c].phase = "ok"
                                   => call[c].ids = Existing

DrawInv == /\ DrawTypes /\ NumberedInOrder /\ OneSave /\ IdIsOfTheWork /\ CreatedIsKnown
           /\ SharesAreOfThePopover /\ ListFollows

-----------------------------------------------------------------------------
(* Lemmas about requests                                                   *)

LEMMA NoCallType == NoCall \in CallType /\ NoCall.kind = "none" /\ NoCall.phase = "none"
BY DEF NoCall, CallType, Kinds

\* Begin makes one request of one that was idle.
LEMMA BeginFacts ==
    ASSUME NEW calls \in [Call -> CallType], NEW kind \in Kinds, NEW id \in Nat,
           NEW about \in Nat, Begin(calls, kind, id, about)
    PROVE  /\ call' \in [Call -> CallType]
           /\ \E b \in Call :
                /\ calls[b] = NoCall
                /\ call'[b].kind = kind /\ call'[b].phase = "sent"
                /\ call'[b].id = id /\ call'[b].about = about
                /\ \A x \in Call : x # b => call'[x] = calls[x]
<1> DEFINE new == [NoCall EXCEPT !.kind = kind, !.phase = "sent", !.id = id, !.about = about]
<1>1. PICK b \in Call : calls[b] = NoCall /\ call' = [calls EXCEPT ![b] = new]
  BY DEF Begin
<1>2. /\ new \in CallType /\ new.kind = kind /\ new.phase = "sent" /\ new.id = id
      /\ new.about = about
  BY DEF NoCall, CallType
<1> HIDE DEF new
<1> QED
  BY <1>1, <1>2

LEMMA EndedFacts ==
    ASSUME call \in [Call -> CallType], NEW c \in Call
    PROVE  /\ EndedCall(c) \in [Call -> CallType]
           /\ EndedCall(c)[c] = NoCall
           /\ \A x \in Call : x # c => EndedCall(c)[x] = call[x]
BY NoCallType DEF EndedCall

LEMMA NotCalling ==
    ASSUME NEW kinds, Calling(kinds) = {}
    PROVE  \A c \in Call : call[c].kind \notin kinds
BY DEF Calling

-----------------------------------------------------------------------------
(* The first state                                                         *)

LEMMA DrawStarts == DrawInit => DrawInv
<1> SUFFICES ASSUME DrawInit
             PROVE  DrawInv
  OBVIOUS
<1>1. DrawTypes
  BY NoCallType, DrawBoundsAssumption DEF DrawInit, DrawTypes
<1>2. NumberedInOrder /\ IdIsOfTheWork /\ CreatedIsKnown
  BY NoCallType, DrawBoundsAssumption
  DEF DrawInit, NumberedInOrder, IdIsOfTheWork, CreatedIsKnown, DrawingId
<1>3. OneSave /\ SharesAreOfThePopover
  BY NoCallType DEF DrawInit, OneSave, SharesAreOfThePopover
<1>4. ListFollows
  BY NoCallType DEF DrawInit, ListFollows, Existing
<1> QED
  BY <1>1, <1>2, <1>3, <1>4 DEF DrawInv

-----------------------------------------------------------------------------
(* The user's steps                                                        *)

\* The panel, and whether there are shapes in it, are in no part of the invariant.
LEMMA PanelKeepsDrawInv ==
    ASSUME DrawInv,
           UNCHANGED <<drawn, origin, created, work, savedDrawingId, ownDrawings, managing,
                       shares, sharesLoading, call, metDraw, crossed>>
    PROVE  DrawInv'
BY DEF DrawInv, DrawTypes, NumberedInOrder, OneSave, IdIsOfTheWork, CreatedIsKnown,
       SharesAreOfThePopover, ListFollows, Changing, Existing

\* Save: a drawing of this work that exists is known by its id, since no create is
\* under way.
LEMMA SaveKeepsDrawInv ==
    ASSUME DrawInv, handleDrawSave
    PROVE  DrawInv'
<1> DEFINE kind == IF savedDrawingId # 0 THEN "update" ELSE "create"
<1>1. /\ work \in Nat /\ savedDrawingId \in Nat /\ savedDrawingId <= created /\ created \in Nat
      /\ work # 0 /\ call \in [Call -> CallType] /\ kind \in Kinds
  BY DrawBoundsAssumption DEF DrawInv, DrawTypes, Kinds
<1>2. Begin(call, kind, savedDrawingId, work)
  BY DEF handleDrawSave
<1>3. PICK b \in Call :
        /\ call' \in [Call -> CallType] /\ call[b] = NoCall
        /\ call'[b].kind = kind /\ call'[b].phase = "sent"
        /\ call'[b].id = savedDrawingId /\ call'[b].about = work
        /\ \A x \in Call : x # b => call'[x] = call[x]
  BY <1>1, <1>2, BeginFacts
<1>4. \A x \in Call : call[x].kind \notin {"create", "update"}
  BY NotCalling DEF handleDrawSave
<1>5. UNCHANGED <<drawn, origin, created, work, savedDrawingId, ownDrawings, managing,
                  shares, sharesLoading, metDraw, crossed>>
  BY DEF handleDrawSave
<1>6. DrawTypes' /\ NumberedInOrder'
  BY <1>3, <1>5 DEF DrawInv, DrawTypes, NumberedInOrder
<1>7. OneSave'
  BY <1>1, <1>3, <1>4, <1>5 DEF DrawInv, OneSave
<1>8. IdIsOfTheWork'
  BY <1>1, <1>3, <1>4, <1>5 DEF DrawInv, IdIsOfTheWork
<1>9. CreatedIsKnown'
  BY <1>1, <1>3, <1>4, <1>5 DEF DrawInv, CreatedIsKnown
<1>10. SharesAreOfThePopover'
  BY <1>3, <1>5 DEF DrawInv, SharesAreOfThePopover
<1>11. ListFollows'
  BY <1>3, <1>5, NoCallType DEF DrawInv, ListFollows, Changing, Existing
<1> QED
  BY <1>6, <1>7, <1>8, <1>9, <1>10, <1>11 DEF DrawInv

LEMMA CloseKeepsDrawInv ==
    ASSUME DrawInv, handleDrawClose
    PROVE  DrawInv'
<1>1. /\ work' = work + 1 /\ savedDrawingId' = 0 /\ metDraw \subseteq metDraw'
      /\ metDraw' \subseteq metDraw \cup {"closed"}
      /\ UNCHANGED <<drawn, origin, created, ownDrawings, managing, shares, sharesLoading,
                     call, crossed>>
  BY DEF handleDrawClose
<1>2. "closed" \notin metDraw' => \A x \in Call : call[x].kind # "create"
  <2>1. "closed" \notin metDraw' => Calling({"create"}) = {}
    BY DEF handleDrawClose
  <2> QED
    BY <2>1, NotCalling
<1>3. work \in Nat /\ created \in Nat
  BY DrawBoundsAssumption DEF DrawInv, DrawTypes
<1>4. DrawTypes' /\ NumberedInOrder'
  BY <1>1, <1>3 DEF DrawInv, DrawTypes, NumberedInOrder
<1>5. OneSave'
  BY <1>1, <1>3 DEF DrawInv, OneSave
<1>6. IdIsOfTheWork'
  BY <1>1, <1>2 DEF DrawInv, IdIsOfTheWork
<1>7. CreatedIsKnown'
  BY <1>1, <1>3 DEF DrawInv, CreatedIsKnown, DrawTypes
<1>8. SharesAreOfThePopover'
  BY <1>1 DEF DrawInv, SharesAreOfThePopover
<1>9. ListFollows'
  BY <1>1 DEF DrawInv, ListFollows, Changing, Existing
<1> QED
  BY <1>4, <1>5, <1>6, <1>7, <1>8, <1>9 DEF DrawInv

\* A request that saves nothing, and is not about shares unless about the popover's.
LEMMA BeginKeepsDrawInv ==
    ASSUME DrawInv, NEW kind \in {"delete", "shareWork", "share", "unshare"},
           NEW id \in Nat, NEW about \in Nat, Begin(call, kind, id, about),
           kind = "shareWork" => id \in 1..created
                                   /\ ("closed" \notin metDraw => origin[id] = about),
           kind \in {"share", "unshare"} => id = managing,
           kind = "unshare" /\ "shares" \notin metDraw => about = id,
           UNCHANGED <<drawn, origin, created, work, savedDrawingId, ownDrawings, managing,
                       shares, sharesLoading, metDraw, crossed>>
    PROVE  DrawInv'
<1>1. call \in [Call -> CallType] /\ kind \in Kinds
  BY DEF DrawInv, DrawTypes, Kinds
<1>2. PICK b \in Call :
        /\ call' \in [Call -> CallType] /\ call[b] = NoCall
        /\ call'[b].kind = kind /\ call'[b].phase = "sent"
        /\ call'[b].id = id /\ call'[b].about = about
        /\ \A x \in Call : x # b => call'[x] = call[x]
  BY <1>1, BeginFacts
<1>3. DrawTypes' /\ NumberedInOrder'
  BY <1>2 DEF DrawInv, DrawTypes, NumberedInOrder
<1>4. OneSave'
  BY <1>2 DEF DrawInv, OneSave
<1>5. IdIsOfTheWork'
  BY <1>2 DEF DrawInv, IdIsOfTheWork
<1>6. CreatedIsKnown'
  BY <1>2, NoCallType DEF DrawInv, CreatedIsKnown
<1>7. SharesAreOfThePopover'
  BY <1>2 DEF DrawInv, SharesAreOfThePopover
<1>8. ListFollows'
  BY <1>2, NoCallType DEF DrawInv, ListFollows, Changing, Existing
<1> QED
  BY <1>3, <1>4, <1>5, <1>6, <1>7, <1>8 DEF DrawInv

LEMMA ButtonsKeepDrawInv ==
    ASSUME DrawInv,
           \/ \E d \in DrawingId : handleDrawingDelete(d)
           \/ handleDrawShare \/ handleFilterPanelShare \/ handleDrawingUnshare
    PROVE  DrawInv'
<1>1. /\ savedDrawingId \in 0..created /\ created \in Nat /\ managing \in Nat /\ work \in Nat
      /\ shares \in Nat
  BY DrawBoundsAssumption DEF DrawInv, DrawTypes
<1>2. ASSUME NEW d \in DrawingId, handleDrawingDelete(d)
      PROVE  DrawInv'
  <2>1. d \in Nat
    BY DrawBoundsAssumption DEF DrawingId
  <2> QED
    BY <1>1, <1>2, <2>1, BeginKeepsDrawInv DEF handleDrawingDelete
<1>3. CASE handleDrawShare
  <2>1. "closed" \notin metDraw => origin[savedDrawingId] = work
    BY <1>3 DEF handleDrawShare, DrawInv, IdIsOfTheWork
  <2>2. savedDrawingId \in 1..created
    BY <1>1, <1>3 DEF handleDrawShare
  <2> QED
    BY <1>1, <1>3, <2>1, <2>2, BeginKeepsDrawInv DEF handleDrawShare
<1>4. CASE handleFilterPanelShare
  BY <1>1, <1>4, BeginKeepsDrawInv DEF handleFilterPanelShare
<1>5. CASE handleDrawingUnshare
  <2>1. "shares" \notin metDraw => shares = managing
    BY <1>5 DEF handleDrawingUnshare, DrawInv, SharesAreOfThePopover
  <2> QED
    BY <1>1, <1>5, <2>1, BeginKeepsDrawInv DEF handleDrawingUnshare
<1> QED
  BY <1>2, <1>3, <1>4, <1>5

\* With a request about shares under way the other popover is excused.
LEMMA NothingAboutShares ==
    ASSUME MetOtherShares \subseteq metDraw', "shares" \notin metDraw'
    PROVE  \A c \in Call : call[c].kind \notin {"shares", "share", "unshare"}
<1>1. Calling({"shares", "share", "unshare"}) = {}
  BY DEF MetOtherShares
<1> QED
  BY <1>1, NotCalling

LEMMA ManageKeepsDrawInv ==
    ASSUME DrawInv, NEW d \in DrawingId \cup {0}, Manage(d)
    PROVE  DrawInv'
<1>1. /\ managing' = d /\ metDraw' = metDraw \cup MetOtherShares
      /\ metDraw' \subseteq metDraw \cup {"shares"} /\ d \in Nat
      /\ UNCHANGED <<drawn, origin, created, work, savedDrawingId, ownDrawings, crossed>>
  BY DrawBoundsAssumption DEF Manage, MetOtherShares, DrawingId
<1>2. "shares" \notin metDraw' =>
        \A c \in Call : call[c].kind \notin {"shares", "share", "unshare"}
  BY <1>1, NothingAboutShares
<1>3. CASE d = 0
  <2>1. shares' = 0 /\ UNCHANGED <<call, sharesLoading>>
    BY <1>3 DEF Manage
  <2>2. DrawTypes' /\ NumberedInOrder' /\ OneSave'
    BY <1>1, <2>1 DEF DrawInv, DrawTypes, NumberedInOrder, OneSave
  <2>3. IdIsOfTheWork' /\ CreatedIsKnown'
    BY <1>1, <2>1 DEF DrawInv, IdIsOfTheWork, CreatedIsKnown
  <2>4. SharesAreOfThePopover'
    BY <1>1, <1>2, <2>1 DEF DrawInv, SharesAreOfThePopover
  <2>5. ListFollows'
    BY <1>1, <2>1 DEF DrawInv, ListFollows, Changing, Existing
  <2> QED
    BY <2>2, <2>3, <2>4, <2>5 DEF DrawInv
<1>4. CASE d # 0
  <2>1. Begin(call, "shares", d, 0) /\ sharesLoading' = "yes" /\ shares' = shares
    BY <1>4 DEF Manage
  <2>2. call \in [Call -> CallType] /\ "shares" \in Kinds
    BY DEF DrawInv, DrawTypes, Kinds
  <2>3. PICK b \in Call :
          /\ call' \in [Call -> CallType] /\ call[b] = NoCall
          /\ call'[b].kind = "shares" /\ call'[b].phase = "sent"
          /\ call'[b].id = d
          /\ \A x \in Call : x # b => call'[x] = call[x]
    BY <1>1, <2>1, <2>2, BeginFacts
  <2>4. DrawTypes' /\ NumberedInOrder' /\ OneSave'
    BY <1>1, <2>1, <2>3 DEF DrawInv, DrawTypes, NumberedInOrder, OneSave
  <2>5. IdIsOfTheWork' /\ CreatedIsKnown'
    BY <1>1, <2>3, NoCallType DEF DrawInv, IdIsOfTheWork, CreatedIsKnown
  <2>6. SharesAreOfThePopover'
    BY <1>1, <1>2, <2>1, <2>3 DEF DrawInv, SharesAreOfThePopover
  <2>7. ListFollows'
    BY <1>1, <2>3, NoCallType DEF DrawInv, ListFollows, Changing, Existing
  <2> QED
    BY <2>4, <2>5, <2>6, <2>7 DEF DrawInv
<1> QED
  BY <1>3, <1>4

-----------------------------------------------------------------------------
(* The server's steps                                                      *)

LEMMA DoneFacts ==
    ASSUME call \in [Call -> CallType], NEW c \in Call, NEW answer \in CallType,
           Done(c, answer)
    PROVE  /\ call' \in [Call -> CallType]
           /\ call'[c].kind = answer.kind /\ call'[c].phase = "ok"
           /\ call'[c].id = answer.id /\ call'[c].about = answer.about
           /\ call'[c].ids = answer.ids
           /\ \A x \in Call : x # c => call'[x] = call[x]
<1> DEFINE new == [answer EXCEPT !.phase = "ok"]
<1>1. /\ new \in CallType /\ new.kind = answer.kind /\ new.phase = "ok"
      /\ new.id = answer.id /\ new.about = answer.about /\ new.ids = answer.ids
  BY DEF CallType
<1>2. call' = [call EXCEPT ![c] = new]
  BY DEF Done
<1> HIDE DEF new
<1> QED
  BY <1>1, <1>2

\* The drawing that is created is the only one of its work.
LEMMA CreateKeepsDrawInv ==
    ASSUME DrawInv, NEW c \in Call, ServeDrawingCreate(c)
    PROVE  DrawInv'
<1> DEFINE d == created + 1  w == call[c].about  answer == [call[c] EXCEPT !.id = created + 1]
<1>1. /\ call \in [Call -> CallType] /\ call[c] \in CallType /\ created \in Nat
      /\ created < MaxDrawing /\ MaxDrawing \in Nat /\ work \in Nat
  BY DrawBoundsAssumption DEF DrawInv, DrawTypes, ServeDrawingCreate
<1>2. /\ answer \in CallType /\ answer.kind = "create" /\ answer.id = d /\ answer.about = w
  BY <1>1 DEF CallType, ServeDrawingCreate
<1>3. d \in DrawingId /\ w \in 1..work /\ w \in Nat
  BY <1>1 DEF DrawingId, DrawInv, OneSave, ServeDrawingCreate
<1>4. /\ created' = d /\ drawn' = [drawn EXCEPT ![d] = w]
      /\ origin' = [origin EXCEPT ![d] = w] /\ Done(c, answer)
      /\ call[c].kind = "create" /\ call[c].phase = "sent"
      /\ UNCHANGED <<work, savedDrawingId, ownDrawings, managing, shares, sharesLoading,
                     metDraw, crossed>>
  BY DEF ServeDrawingCreate
<1> HIDE DEF answer
<1>5. /\ call' \in [Call -> CallType]
      /\ call'[c].kind = "create" /\ call'[c].phase = "ok" /\ call'[c].id = d
      /\ call'[c].about = w
      /\ \A x \in Call : x # c => call'[x] = call[x]
  BY <1>1, <1>2, <1>4, DoneFacts
<1>6. /\ \A e \in DrawingId : origin'[e] = IF e = d THEN w ELSE origin[e]
      /\ \A e \in DrawingId : drawn'[e] = IF e = d THEN w ELSE drawn[e]
      /\ origin' \in [DrawingId -> Nat] /\ drawn' \in [DrawingId -> Nat]
      /\ \A e \in 1..created : e \in DrawingId /\ e # d /\ e \in 1..d
  BY <1>1, <1>3, <1>4 DEF DrawInv, DrawTypes, DrawingId
<1>7. DrawTypes'
  BY <1>1, <1>4, <1>5, <1>6 DEF DrawInv, DrawTypes
<1>8. NumberedInOrder'
  BY <1>1, <1>3, <1>4, <1>6 DEF DrawInv, NumberedInOrder, DrawingId
<1> HIDE DEF w
<1>9. OneSave'
  <2>1. d \in 1..created' /\ \A i \in 1..created : i \in 1..created'
    BY <1>1, <1>4
  <2> HIDE DEF d
  <2> QED
    BY <1>3, <1>4, <1>5, <2>1 DEF DrawInv, OneSave
<1>10. IdIsOfTheWork'
  <2>1. savedDrawingId # 0 => savedDrawingId \in 1..created
    BY <1>1 DEF DrawInv, DrawTypes
  <2>2. \A x \in Call : call[x].kind \in {"update", "shareWork"} => call[x].id \in 1..created
    BY DEF DrawInv, OneSave
  <2>3. \A x \in Call : call[x].kind = "create" => x = c
    BY <1>4 DEF DrawInv, OneSave
  <2>4. \A i \in 1..created : origin'[i] = origin[i]
    BY <1>6
  <2> HIDE DEF d
  <2>5. origin'[d] = w
    BY <1>3, <1>6
  <2>6. "closed" \notin metDraw => w = work
    BY <1>4 DEF w, DrawInv, IdIsOfTheWork
  <2> QED
    BY <1>4, <1>5, <1>6, <2>1, <2>2, <2>3, <2>4, <2>5, <2>6 DEF DrawInv, IdIsOfTheWork
<1>11. CreatedIsKnown'
  <2>1. "missed" \notin metDraw => \A e \in DrawingId : origin[e] # w
    BY <1>4 DEF w, DrawInv, CreatedIsKnown
  <2>2. \A x \in Call : call[x].kind = "create" => x = c
    BY <1>4 DEF DrawInv, OneSave
  <2>3. w <= work
    BY <1>1, <1>3
  <2> HIDE DEF d
  <2> QED
    BY <1>4, <1>5, <1>6, <2>1, <2>2, <2>3 DEF DrawInv, CreatedIsKnown
<1>12. SharesAreOfThePopover'
  BY <1>4, <1>5 DEF DrawInv, SharesAreOfThePopover
<1>13. ListFollows'
  BY <1>4, <1>5 DEF DrawInv, ListFollows, Changing
<1> QED
  BY <1>7, <1>8, <1>9, <1>10, <1>11, <1>12, <1>13 DEF DrawInv

\* An update writes the work of the drawing it is of.
LEMMA UpdateKeepsDrawInv ==
    ASSUME DrawInv, NEW c \in Call, ServeDrawingUpdate(c)
    PROVE  DrawInv'
<1> DEFINE d == call[c].id  w == call[c].about
<1>1. /\ call \in [Call -> CallType] /\ call[c] \in CallType /\ created \in Nat
      /\ created <= MaxDrawing /\ work \in Nat
  BY DrawBoundsAssumption DEF DrawInv, DrawTypes
<1>2. /\ call[c].kind = "update" /\ d \in DrawingId /\ drawn[d] # 0
      /\ drawn' = [drawn EXCEPT ![d] = w] /\ Done(c, call[c])
      /\ UNCHANGED <<origin, created, work, savedDrawingId, ownDrawings, managing, shares,
                     sharesLoading, metDraw, crossed>>
  BY DEF ServeDrawingUpdate, Existing
<1>3. /\ call' \in [Call -> CallType]
      /\ call'[c].kind = "update" /\ call'[c].phase = "ok" /\ call'[c].id = d
      /\ call'[c].about = w
      /\ \A x \in Call : x # c => call'[x] = call[x]
  BY <1>1, <1>2, DoneFacts
<1>4. w \in Nat /\ w # 0 /\ ("closed" \notin metDraw => origin[d] = w)
  BY <1>1, <1>2 DEF DrawInv, OneSave, IdIsOfTheWork
<1> HIDE DEF w, d
<1>5. /\ drawn' \in [DrawingId -> Nat]
      /\ \A e \in DrawingId : drawn'[e] = IF e = d THEN w ELSE drawn[e]
  BY <1>2, <1>4 DEF DrawInv, DrawTypes
<1>6. Existing' = Existing
  BY <1>2, <1>4, <1>5 DEF Existing
<1>7. DrawTypes'
  BY <1>2, <1>3, <1>5 DEF DrawInv, DrawTypes
<1>8. NumberedInOrder'
  BY <1>2, <1>4, <1>5 DEF DrawInv, NumberedInOrder
<1>9. OneSave'
  BY <1>2, <1>3 DEF DrawInv, OneSave, d, w
<1>10. IdIsOfTheWork'
  BY <1>2, <1>3, <1>4, <1>5 DEF DrawInv, IdIsOfTheWork
<1>11. CreatedIsKnown'
  BY <1>2, <1>3 DEF DrawInv, CreatedIsKnown
<1>12. SharesAreOfThePopover'
  BY <1>2, <1>3 DEF DrawInv, SharesAreOfThePopover
<1>13. ListFollows'
  <2>1. Changing => Changing'
    BY <1>2, <1>3 DEF Changing
  <2> QED
    BY <1>2, <1>3, <1>6, <2>1 DEF DrawInv, ListFollows
<1> QED
  BY <1>7, <1>8, <1>9, <1>10, <1>11, <1>12, <1>13 DEF DrawInv

LEMMA DeleteKeepsDrawInv ==
    ASSUME DrawInv, NEW c \in Call, ServeDrawingDelete(c)
    PROVE  DrawInv'
<1> DEFINE d == call[c].id
<1>1. /\ call \in [Call -> CallType] /\ call[c] \in CallType
  BY DEF DrawInv, DrawTypes
<1>2. /\ call[c].kind = "delete" /\ d \in DrawingId /\ drawn[d] # 0
      /\ drawn' = [drawn EXCEPT ![d] = 0] /\ Done(c, call[c])
      /\ UNCHANGED <<origin, created, work, savedDrawingId, ownDrawings, managing, shares,
                     sharesLoading, metDraw, crossed>>
  BY DEF ServeDrawingDelete, Existing
<1>3. /\ call' \in [Call -> CallType]
      /\ call'[c].kind = "delete" /\ call'[c].phase = "ok"
      /\ \A x \in Call : x # c => call'[x] = call[x]
  BY <1>1, <1>2, DoneFacts
<1> HIDE DEF d
<1>4. /\ drawn' \in [DrawingId -> Nat]
      /\ \A e \in DrawingId : drawn'[e] = IF e = d THEN 0 ELSE drawn[e]
  BY <1>2 DEF DrawInv, DrawTypes
<1>5. DrawTypes'
  BY <1>2, <1>3, <1>4 DEF DrawInv, DrawTypes
<1>6. NumberedInOrder' /\ OneSave'
  BY <1>2, <1>3, <1>4 DEF DrawInv, NumberedInOrder, OneSave
<1>7. IdIsOfTheWork'
  BY <1>2, <1>3, <1>4 DEF DrawInv, IdIsOfTheWork
<1>8. CreatedIsKnown'
  BY <1>2, <1>3 DEF DrawInv, CreatedIsKnown
<1>9. SharesAreOfThePopover'
  BY <1>2, <1>3 DEF DrawInv, SharesAreOfThePopover
<1>10. ListFollows'
  BY <1>2, <1>3 DEF DrawInv, ListFollows, Changing
<1> QED
  BY <1>5, <1>6, <1>7, <1>8, <1>9, <1>10 DEF DrawInv

\* What is crossed: an unshare of another drawing's share, a share for another work.
LEMMA SharingKeepsDrawInv ==
    ASSUME DrawInv, NEW c \in Call, ServeSharing(c)
    PROVE  DrawInv'
<1> DEFINE answer == [call[c] EXCEPT !.ids = IF call[c].kind = "list" THEN Existing ELSE {}]
<1>1. /\ call \in [Call -> CallType] /\ call[c] \in CallType /\ Existing \subseteq DrawingId
  BY DEF DrawInv, DrawTypes, Existing
<1>2. /\ answer \in CallType /\ answer.kind = call[c].kind /\ answer.id = call[c].id
      /\ answer.about = call[c].about /\ (call[c].kind = "list" => answer.ids = Existing)
  BY <1>1 DEF CallType
<1>3. /\ call[c].kind \in {"list", "shares", "share", "unshare", "shareWork"}
      /\ Done(c, answer)
      /\ UNCHANGED <<drawn, origin, created, work, savedDrawingId, ownDrawings, managing,
                     shares, sharesLoading, metDraw>>
  BY DEF ServeSharing
<1>4. /\ call' \in [Call -> CallType]
      /\ call'[c].kind = call[c].kind /\ call'[c].phase = "ok" /\ call'[c].id = call[c].id
      /\ call'[c].about = call[c].about /\ (call[c].kind = "list" => call'[c].ids = Existing)
      /\ \A x \in Call : x # c => call'[x] = call[x]
  BY <1>1, <1>2, <1>3, DoneFacts
<1>5. /\ "revoked" \notin crossed /\ ~(call[c].kind = "unshare" /\ call[c].about # call[c].id)
           => "revoked" \notin crossed'
      /\ "shared" \notin crossed
            /\ ~(call[c].kind = "shareWork" /\ call[c].about # origin[call[c].id])
           => "shared" \notin crossed'
  BY DEF ServeSharing
<1> HIDE DEF answer
<1>6. DrawTypes' /\ NumberedInOrder'
  BY <1>3, <1>4 DEF DrawInv, DrawTypes, NumberedInOrder
<1>7. OneSave'
  BY <1>3, <1>4 DEF DrawInv, OneSave
<1>8. IdIsOfTheWork'
  BY <1>3, <1>4, <1>5 DEF DrawInv, IdIsOfTheWork
<1>9. CreatedIsKnown'
  BY <1>3, <1>4 DEF DrawInv, CreatedIsKnown
<1>10. SharesAreOfThePopover'
  BY <1>3, <1>4, <1>5 DEF DrawInv, SharesAreOfThePopover
<1>11. ListFollows'
  <2>1. Changing => Changing'
    BY <1>3, <1>4 DEF Changing
  <2>2. Existing' = Existing
    BY <1>3 DEF Existing
  <2> QED
    BY <1>3, <1>4, <2>1, <2>2 DEF DrawInv, ListFollows
<1> QED
  BY <1>6, <1>7, <1>8, <1>9, <1>10, <1>11 DEF DrawInv

-----------------------------------------------------------------------------
(* The answers                                                             *)

\* A request is answered and the next one made, of it or of one that was idle.
LEMMA NextRequest ==
    ASSUME call \in [Call -> CallType], NEW c \in Call, NEW kind \in Kinds, NEW id \in Nat,
           Begin(EndedCall(c), kind, id, 0)
    PROVE  /\ call' \in [Call -> CallType]
           /\ \E b \in Call :
                /\ call'[b].kind = kind /\ call'[b].phase = "sent" /\ call'[b].id = id
                /\ \A x \in Call : x # b => call'[x] = IF x = c THEN NoCall ELSE call[x]
                /\ b # c => call[b] = NoCall
<1>1. /\ EndedCall(c) \in [Call -> CallType] /\ EndedCall(c)[c] = NoCall
      /\ \A x \in Call : x # c => EndedCall(c)[x] = call[x]
  BY EndedFacts
<1> DEFINE calls == EndedCall(c)
<1> HIDE DEF calls
<1>2. /\ call' \in [Call -> CallType]
      /\ \E b \in Call :
           /\ calls[b] = NoCall
           /\ call'[b].kind = kind /\ call'[b].phase = "sent"
           /\ call'[b].id = id /\ call'[b].about = 0
           /\ \A x \in Call : x # b => call'[x] = calls[x]
  BY <1>1, BeginFacts DEF calls
<1> QED
  BY <1>1, <1>2 DEF calls

\* Two lists at a time are excused.
LEMMA NoOtherList ==
    ASSUME MetTwoLists \subseteq metDraw', metDraw' \cap {"missed", "lists"} = {}
    PROVE  \A c \in Call : call[c].kind # "list"
<1>1. Calling({"list"}) = {}
  BY DEF MetTwoLists
<1> QED
  BY <1>1, NotCalling

LEMMA SavedKeepsDrawInv ==
    ASSUME DrawInv, NEW c \in Call, DrawingSaved(c)
    PROVE  DrawInv'
<1>1. /\ call \in [Call -> CallType] /\ call[c] \in CallType /\ created \in Nat
      /\ "list" \in Kinds /\ savedDrawingId \in 0..created
  BY DrawBoundsAssumption DEF DrawInv, DrawTypes, Kinds
<1>2. /\ call[c].kind \in {"create", "update"} /\ call[c].phase = "ok"
      /\ savedDrawingId' = IF call[c].kind = "create" THEN call[c].id ELSE savedDrawingId
      /\ Begin(EndedCall(c), "list", 0, 0)
      /\ MetTwoLists \subseteq metDraw' /\ metDraw \subseteq metDraw'
      /\ metDraw' \subseteq metDraw \cup {"lists"}
      /\ UNCHANGED <<drawn, origin, created, work, ownDrawings, managing, shares,
                     sharesLoading, crossed>>
  BY DEF DrawingSaved, MetTwoLists
<1>3. PICK b \in Call :
        /\ call' \in [Call -> CallType]
        /\ call'[b].kind = "list" /\ call'[b].phase = "sent"
        /\ \A x \in Call : x # b => call'[x] = IF x = c THEN NoCall ELSE call[x]
        /\ b # c => call[b] = NoCall
  BY <1>1, <1>2, NextRequest
<1>4. call[c].kind = "create" => call[c].id \in 1..created /\ call[c].id # 0
  BY <1>1, <1>2 DEF DrawInv, OneSave
<1>5. DrawTypes'
  BY <1>1, <1>2, <1>3, <1>4 DEF DrawInv, DrawTypes
<1>6. NumberedInOrder' /\ OneSave'
  BY <1>2, <1>3, NoCallType DEF DrawInv, NumberedInOrder, OneSave
<1>7. IdIsOfTheWork'
  BY <1>2, <1>3, <1>4, NoCallType DEF DrawInv, IdIsOfTheWork
<1>8. CreatedIsKnown'
  BY <1>2, <1>3, <1>4, NoCallType DEF DrawInv, CreatedIsKnown
<1>9. SharesAreOfThePopover'
  BY <1>2, <1>3, NoCallType DEF DrawInv, SharesAreOfThePopover
<1>10. ListFollows'
  BY <1>2, <1>3, NoCallType, NoOtherList DEF ListFollows
<1> QED
  BY <1>5, <1>6, <1>7, <1>8, <1>9, <1>10 DEF DrawInv

LEMMA DeletedKeepsDrawInv ==
    ASSUME DrawInv, NEW c \in Call, DrawingDeleted(c)
    PROVE  DrawInv'
<1> DEFINE closes == call[c].about = call[c].id
<1>1. /\ call \in [Call -> CallType] /\ call[c] \in CallType /\ "list" \in Kinds
  BY DEF DrawInv, DrawTypes, Kinds
<1>2. /\ call[c].kind = "delete" /\ call[c].phase = "ok"
      /\ Begin(EndedCall(c), "list", 0, 0)
      /\ managing' = IF closes THEN 0 ELSE managing
      /\ shares' = IF closes /\ managing # 0 THEN 0 ELSE shares
      /\ MetTwoLists \subseteq metDraw' /\ metDraw \subseteq metDraw'
      /\ closes => MetOtherShares \subseteq metDraw'
      /\ metDraw' \subseteq metDraw \cup {"lists", "shares"}
      /\ UNCHANGED <<drawn, origin, created, work, savedDrawingId, ownDrawings,
                     sharesLoading, crossed>>
  BY DEF DrawingDeleted, MetTwoLists, MetOtherShares
<1> HIDE DEF closes
<1>3. PICK b \in Call :
        /\ call' \in [Call -> CallType]
        /\ call'[b].kind = "list" /\ call'[b].phase = "sent"
        /\ \A x \in Call : x # b => call'[x] = IF x = c THEN NoCall ELSE call[x]
        /\ b # c => call[b] = NoCall
  BY <1>1, <1>2, NextRequest
<1>4. DrawTypes'
  BY <1>2, <1>3 DEF DrawInv, DrawTypes
<1>5. NumberedInOrder' /\ OneSave'
  BY <1>2, <1>3, NoCallType DEF DrawInv, NumberedInOrder, OneSave
<1>6. IdIsOfTheWork'
  BY <1>2, <1>3, NoCallType DEF DrawInv, IdIsOfTheWork
<1>7. CreatedIsKnown'
  BY <1>2, <1>3, NoCallType DEF DrawInv, CreatedIsKnown
<1>8. SharesAreOfThePopover'
  <2>1. closes /\ "shares" \notin metDraw' =>
          \A x \in Call : call[x].kind \notin {"shares", "share", "unshare"}
    BY <1>2, NothingAboutShares
  <2> QED
    BY <1>2, <1>3, <2>1, NoCallType DEF DrawInv, SharesAreOfThePopover
<1>9. ListFollows'
  BY <1>2, <1>3, NoCallType, NoOtherList DEF ListFollows
<1> QED
  BY <1>4, <1>5, <1>6, <1>7, <1>8, <1>9 DEF DrawInv

\* refetchShares, of the drawing whose popover it is unless it was changed since.
LEMMA SharedKeepsDrawInv ==
    ASSUME DrawInv, NEW c \in Call, Shared(c)
    PROVE  DrawInv'
<1>1. /\ call \in [Call -> CallType] /\ call[c] \in CallType /\ "shares" \in Kinds
      /\ call[c].id \in Nat
  BY DEF DrawInv, DrawTypes, Kinds, CallType
<1>2. /\ call[c].kind = "share" /\ call[c].phase = "ok"
      /\ Begin(EndedCall(c), "shares", call[c].id, 0) /\ sharesLoading' = "yes"
      /\ UNCHANGED <<drawn, origin, created, work, savedDrawingId, ownDrawings, managing,
                     shares, metDraw, crossed>>
  BY DEF Shared
<1>3. PICK b \in Call :
        /\ call' \in [Call -> CallType]
        /\ call'[b].kind = "shares" /\ call'[b].phase = "sent" /\ call'[b].id = call[c].id
        /\ \A x \in Call : x # b => call'[x] = IF x = c THEN NoCall ELSE call[x]
        /\ b # c => call[b] = NoCall
  BY <1>1, <1>2, NextRequest
<1>4. DrawTypes' /\ NumberedInOrder' /\ OneSave'
  BY <1>2, <1>3, NoCallType DEF DrawInv, DrawTypes, NumberedInOrder, OneSave
<1>5. IdIsOfTheWork'
  BY <1>2, <1>3, NoCallType DEF DrawInv, IdIsOfTheWork
<1>6. CreatedIsKnown'
  BY <1>2, <1>3, NoCallType DEF DrawInv, CreatedIsKnown
<1>7. SharesAreOfThePopover'
  BY <1>2, <1>3, NoCallType DEF DrawInv, SharesAreOfThePopover
<1>8. ListFollows'
  BY <1>2, <1>3, NoCallType DEF DrawInv, ListFollows, Changing, Existing
<1> QED
  BY <1>4, <1>5, <1>6, <1>7, <1>8 DEF DrawInv

LEMMA UnsharedKeepsDrawInv ==
    ASSUME DrawInv, NEW c \in Call, Unshared(c)
    PROVE  DrawInv'
<1> DEFINE again == [NoCall EXCEPT !.kind = "shares", !.phase = "sent", !.id = call[c].id]
           relist == [NoCall EXCEPT !.kind = "list", !.phase = "sent"]
<1>1. call \in [Call -> CallType] /\ call[c] \in CallType /\ call[c].id \in Nat
  BY DEF DrawInv, DrawTypes, CallType
<1>2. /\ again \in CallType /\ again.kind = "shares" /\ again.phase = "sent"
      /\ again.id = call[c].id
      /\ relist \in CallType /\ relist.kind = "list" /\ relist.phase = "sent"
  BY <1>1 DEF CallType, Kinds, NoCall
<1>3. /\ call[c].kind = "unshare" /\ call[c].phase = "ok" /\ sharesLoading' = "yes"
      /\ MetTwoLists \subseteq metDraw' /\ metDraw \subseteq metDraw'
      /\ metDraw' \subseteq metDraw \cup {"lists"}
      /\ UNCHANGED <<drawn, origin, created, work, savedDrawingId, ownDrawings, managing,
                     shares, crossed>>
  BY DEF Unshared, MetTwoLists
<1>4. PICK d \in Call \ {c} :
        call[d] = NoCall /\ call' = [call EXCEPT ![c] = again, ![d] = relist]
  BY DEF Unshared
<1> HIDE DEF again, relist
<1>5. /\ call' \in [Call -> CallType] /\ call'[c] = again /\ call'[d] = relist
      /\ \A x \in Call : x # c /\ x # d => call'[x] = call[x]
  BY <1>1, <1>2, <1>4
<1>6. DrawTypes' /\ NumberedInOrder' /\ OneSave'
  BY <1>2, <1>3, <1>5 DEF DrawInv, DrawTypes, NumberedInOrder, OneSave
<1>7. IdIsOfTheWork'
  BY <1>2, <1>3, <1>5 DEF DrawInv, IdIsOfTheWork
<1>8. CreatedIsKnown'
  BY <1>2, <1>3, <1>4, <1>5, NoCallType DEF DrawInv, CreatedIsKnown
<1>9. SharesAreOfThePopover'
  BY <1>2, <1>3, <1>5 DEF DrawInv, SharesAreOfThePopover
<1>10. ListFollows'
  BY <1>2, <1>3, <1>5, NoOtherList DEF ListFollows
<1> QED
  BY <1>6, <1>7, <1>8, <1>9, <1>10 DEF DrawInv

\* A request that ends without another.
Ends(c) ==
    /\ call' = EndedCall(c)
    /\ shares' \in Nat /\ ownDrawings' \subseteq DrawingId
    /\ call[c].kind = "create" /\ call[c].phase = "ok" => "missed" \in metDraw'
    /\ metDraw \subseteq metDraw' /\ metDraw' \subseteq metDraw \cup {"missed"}
    /\ UNCHANGED <<drawn, origin, created, work, savedDrawingId, managing, crossed>>
    /\ \/ sharesLoading' = sharesLoading /\ shares' = shares
       \/ call[c].kind = "shares" /\ shares' \in {0, call[c].id}

LEMMA EndKeepsDrawInv ==
    ASSUME DrawInv, NEW c \in Call, Ends(c), ListFollows'
    PROVE  DrawInv'
<1>1. call \in [Call -> CallType]
  BY DEF DrawInv, DrawTypes
<1>2. /\ call' \in [Call -> CallType] /\ call'[c] = NoCall
      /\ \A x \in Call : x # c => call'[x] = call[x]
  BY <1>1, EndedFacts DEF Ends
<1>3. DrawTypes' /\ NumberedInOrder' /\ OneSave'
  BY <1>2, NoCallType DEF Ends, DrawInv, DrawTypes, NumberedInOrder, OneSave
<1>4. IdIsOfTheWork'
  BY <1>2, NoCallType DEF Ends, DrawInv, IdIsOfTheWork
<1>5. CreatedIsKnown'
  BY <1>2, NoCallType DEF Ends, DrawInv, CreatedIsKnown
<1>6. SharesAreOfThePopover'
  BY <1>2, NoCallType DEF Ends, DrawInv, SharesAreOfThePopover
<1> QED
  BY <1>3, <1>4, <1>5, <1>6 DEF DrawInv

LEMMA LoadedKeepsDrawInv ==
    ASSUME DrawInv, NEW c \in Call, WorkShared(c) \/ SharesLoaded(c)
    PROVE  DrawInv'
<1>1. /\ call \in [Call -> CallType] /\ call[c].id \in Nat /\ shares \in Nat
      /\ ownDrawings \subseteq DrawingId
  BY DEF DrawInv, DrawTypes, CallType
<1>2. /\ call' = EndedCall(c) /\ call[c].kind \in {"shareWork", "shares"}
      /\ UNCHANGED <<drawn, origin, created, work, savedDrawingId, managing, crossed,
                     ownDrawings, metDraw>>
      /\ \/ sharesLoading' = sharesLoading /\ shares' = shares
         \/ call[c].kind = "shares" /\ shares' = call[c].id
  BY DEF WorkShared, SharesLoaded
<1>3. /\ call'[c] = NoCall
      /\ \A x \in Call : x # c => call'[x] = call[x]
  BY <1>1, <1>2, EndedFacts
<1>4. ListFollows'
  BY <1>2, <1>3, NoCallType DEF DrawInv, ListFollows, Changing, Existing
<1>5. Ends(c)
  BY <1>1, <1>2 DEF Ends
<1> QED
  BY <1>4, <1>5, EndKeepsDrawInv

LEMMA ListedKeepsDrawInv ==
    ASSUME DrawInv, NEW c \in Call, DrawingsListed(c)
    PROVE  DrawInv'
<1>1. /\ call \in [Call -> CallType] /\ call[c] \in CallType /\ shares \in Nat
      /\ call[c].ids \subseteq DrawingId
  BY DEF DrawInv, DrawTypes, CallType
<1>2. /\ call' = EndedCall(c) /\ call[c].kind = "list" /\ call[c].phase = "ok"
      /\ ownDrawings' = call[c].ids
      /\ UNCHANGED <<drawn, origin, created, work, savedDrawingId, managing, crossed,
                     shares, sharesLoading, metDraw>>
  BY DEF DrawingsListed
<1>3. /\ call'[c] = NoCall
      /\ \A x \in Call : x # c => call'[x] = call[x]
  BY <1>1, <1>2, EndedFacts
<1>4. ListFollows'
  <2>1. Changing => Changing'
    BY <1>2, <1>3 DEF Changing
  <2>2. Existing' = Existing
    BY <1>2 DEF Existing
  <2> QED
    BY <1>2, <1>3, <2>1, <2>2, NoCallType DEF DrawInv, ListFollows
<1>5. Ends(c)
  BY <1>1, <1>2 DEF Ends
<1> QED
  BY <1>4, <1>5, EndKeepsDrawInv

LEMMA FailedKeepsDrawInv ==
    ASSUME DrawInv, NEW c \in Call, CallFailed(c)
    PROVE  DrawInv'
<1>1. /\ call \in [Call -> CallType] /\ call[c] \in CallType /\ shares \in Nat
      /\ ownDrawings \subseteq DrawingId
  BY DEF DrawInv, DrawTypes
<1>2. /\ call' = EndedCall(c)
      /\ metDraw \subseteq metDraw' /\ metDraw' \subseteq metDraw \cup {"missed"}
      /\ call[c].phase # "sent" \/ call[c].kind = "list" => "missed" \in metDraw'
      /\ UNCHANGED <<drawn, origin, created, work, savedDrawingId, managing, crossed,
                     ownDrawings>>
      /\ \/ sharesLoading' = sharesLoading /\ shares' = shares
         \/ call[c].kind = "shares" /\ shares' = 0
  BY DEF CallFailed
<1>3. /\ call'[c] = NoCall
      /\ \A x \in Call : x # c => call'[x] = call[x]
  BY <1>1, <1>2, EndedFacts
<1>4. ListFollows'
  <2>1. "missed" \notin metDraw' => call[c].phase = "sent" /\ call[c].kind # "list"
    BY <1>2
  <2> QED
    BY <1>2, <1>3, <2>1, NoCallType DEF DrawInv, ListFollows, Changing, Existing
<1>5. Ends(c)
  BY <1>1, <1>2 DEF Ends
<1> QED
  BY <1>4, <1>5, EndKeepsDrawInv

-----------------------------------------------------------------------------
(* Every step                                                              *)

LEMMA DrawStep ==
    ASSUME DrawInv, [DrawNext]_draw
    PROVE  DrawInv'
<1>1. CASE onDrawClick \/ ChangeShapes \/ UNCHANGED draw
  BY <1>1, PanelKeepsDrawInv DEF onDrawClick, ChangeShapes, draw
<1>2. CASE handleDrawSave
  BY <1>2, SaveKeepsDrawInv
<1>3. CASE handleDrawClose
  BY <1>3, CloseKeepsDrawInv
<1>4. CASE \/ \E d \in DrawingId : handleDrawingDelete(d)
           \/ handleDrawShare \/ handleFilterPanelShare \/ handleDrawingUnshare
  BY <1>4, ButtonsKeepDrawInv
<1>5. CASE \E d \in DrawingId \cup {0} : Manage(d)
  BY <1>5, ManageKeepsDrawInv
<1>6. CASE \E c \in Call : \/ ServeDrawingCreate(c) \/ ServeDrawingUpdate(c)
                           \/ ServeDrawingDelete(c) \/ ServeSharing(c)
  BY <1>6, CreateKeepsDrawInv, UpdateKeepsDrawInv, DeleteKeepsDrawInv, SharingKeepsDrawInv
<1>7. CASE \E c \in Call : DrawingSaved(c) \/ DrawingDeleted(c) \/ Shared(c) \/ Unshared(c)
  BY <1>7, SavedKeepsDrawInv, DeletedKeepsDrawInv, SharedKeepsDrawInv, UnsharedKeepsDrawInv
<1>8. CASE \E c \in Call : \/ WorkShared(c) \/ SharesLoaded(c) \/ DrawingsListed(c)
                           \/ CallFailed(c)
  BY <1>8, LoadedKeepsDrawInv, ListedKeepsDrawInv, FailedKeepsDrawInv
<1> QED
  BY <1>1, <1>2, <1>3, <1>4, <1>5, <1>6, <1>7, <1>8 DEF DrawNext

-----------------------------------------------------------------------------
(* What the panel promises                                                 *)

LEMMA DrawInvImplies ==
    ASSUME DrawInv
    PROVE  /\ DrawingsKeepTheirWork /\ WorksAreCreatedOnce /\ UnshareIsOfItsDrawing
           /\ DrawingsAreListed
<1>1. DrawingsKeepTheirWork
  BY DEF DrawInv, IdIsOfTheWork, DrawingsKeepTheirWork, Existing
<1>2. WorksAreCreatedOnce
  BY DEF DrawInv, CreatedIsKnown, WorksAreCreatedOnce
<1>3. UnshareIsOfItsDrawing
  BY DEF DrawInv, SharesAreOfThePopover, UnshareIsOfItsDrawing
<1>4. DrawingsAreListed
  <2>1. DrawQuiet => \A c \in Call : call[c].kind \notin {"create", "delete", "list"}
    BY NotCalling DEF DrawQuiet
  <2> QED
    BY <2>1 DEF DrawInv, ListFollows, Changing, DrawingsAreListed
<1> QED
  BY <1>1, <1>2, <1>3, <1>4

-----------------------------------------------------------------------------
(* The replay: types                                                       *)

TrackType == [range : Nat, users : SUBSET Person]
FindType == [scope : Scope \cup {"none"}, phase : {"none", "sent", "ok"}, track : TrackType]

ReplayTypes ==
    /\ replayActive \in {"yes", "no"} /\ replayScope \in Scope /\ replayRange \in Nat
    /\ track \in [Scope -> TrackType] /\ trackLoading \in [Scope -> {"yes", "no"}]
    /\ find \in [Find -> FindType]
    /\ selectedUsers \subseteq Person

\* A request is the one the replay that is open has started, and nothing is shown
\* until its answer is there.
RequestIsOfTheReplay ==
    \A f \in Find : find[f] # NoFind =>
        /\ find[f].scope = replayScope /\ find[f].phase # "none"
        /\ find[f].track.range = replayRange
        /\ replayActive = "yes" /\ trackLoading[replayScope] = "yes"
        /\ \A s \in Scope : track[s].users = {}

OneRequest == \A f, g \in Find : find[f] # NoFind /\ find[g] # NoFind => f = g

\* A hook that loads has a request under way.
LoadingHasARequest ==
    \A s \in Scope : trackLoading[s] = "yes" => \E f \in Find : find[f].scope = s

\* What a hook holds is of the range that was chosen last.
DataIsOfTheRange ==
    \A s \in Scope : track[s].users # {} => track[s].range = replayRange

OpenReplayHasARange == replayActive = "yes" => replayRange # 0

ReplayInv == /\ ReplayTypes /\ RequestIsOfTheReplay /\ OneRequest /\ LoadingHasARequest
             /\ DataIsOfTheRange /\ OpenReplayHasARange

-----------------------------------------------------------------------------
(* Lemmas                                                                  *)

LEMMA NoTrackType == NoTrack \in TrackType
BY DEF NoTrack, TrackType

LEMMA NoFindType == NoFind \in FindType
BY NoTrackType DEF NoFind, FindType

\* The filters' scope is one of the three hooks'.
LEMMA FilterScope == ScopeOfFilters \in Scope
BY DEF ScopeOfFilters, Scope

\* While a request is under way nothing closes the replay.
LEMMA OpenWhileAsking ==
    ASSUME ReplayInv, NEW f \in Find, find[f] # NoFind
    PROVE  ~ControlsShown /\ ~NoDataShown
<1>1. track[replayScope].users = {} /\ trackLoading[replayScope] = "yes"
  BY DEF ReplayInv, RequestIsOfTheReplay, ReplayTypes
<1>2. filteredHistory = {}
  BY <1>1 DEF filteredHistory, activeHistory
<1> QED
  BY <1>1, <1>2 DEF ControlsShown, NoDataShown

\* A step that leaves the request and what is shown alone keeps the invariant.
LEMMA FiltersKeepReplayInv ==
    ASSUME ReplayInv, selectedUsers' \subseteq Person,
           UNCHANGED <<replayActive, replayScope, replayRange, track, trackLoading, find>>
    PROVE  ReplayInv'
BY DEF ReplayInv, ReplayTypes, RequestIsOfTheReplay, OneRequest, LoadingHasARequest,
       DataIsOfTheRange, OpenReplayHasARange

-----------------------------------------------------------------------------
(* The replay: the first state and every step                              *)

LEMMA ReplayStarts == ReplayInit => ReplayInv
<1> SUFFICES ASSUME ReplayInit
             PROVE  ReplayInv
  OBVIOUS
<1>1. ReplayTypes
  BY NoTrackType, NoFindType DEF ReplayInit, ReplayTypes, Scope
<1>2. RequestIsOfTheReplay /\ OneRequest
  BY DEF ReplayInit, RequestIsOfTheReplay, OneRequest
<1>3. LoadingHasARequest /\ DataIsOfTheRange /\ OpenReplayHasARange
  BY DEF ReplayInit, LoadingHasARequest, DataIsOfTheRange, OpenReplayHasARange, NoTrack
<1> QED
  BY <1>1, <1>2, <1>3 DEF ReplayInv

\* Start: no hook loads, so that the request it makes is the only one.
LEMMA StartKeepsReplayInv ==
    ASSUME ReplayInv, handleReplayStart
    PROVE  ReplayInv'
<1> DEFINE now == ScopeOfFilters
           new == [scope |-> now, phase |-> "sent",
                   track |-> [range |-> replayRange + 1, users |-> {}]]
<1>1. PICK f \in Find : find[f] = NoFind /\ find' = [find EXCEPT ![f] = new]
  BY DEF handleReplayStart
<1>2. \A g \in Find : find[g] = NoFind
  BY DEF handleReplayStart, ReplayInv, RequestIsOfTheReplay
<1>3. now \in Scope /\ replayRange + 1 \in Nat
  BY FilterScope DEF ReplayInv, ReplayTypes
<1>4. new \in FindType
  BY <1>3 DEF FindType, TrackType
<1>5. new # NoFind /\ new.scope = now /\ new.phase = "sent" /\ new.track.range = replayRange + 1
  BY DEF NoFind
<1>6. \A g \in Find : trackLoading[now] \in {"yes", "no"} /\ NoFind.scope = "none"
  BY <1>3 DEF ReplayInv, ReplayTypes, NoFind
<1> HIDE DEF now, new
<1>7. /\ replayRange' = replayRange + 1 /\ replayScope' = now /\ replayActive' = "yes"
      /\ track' = [s \in Scope |-> NoTrack]
      /\ trackLoading' = [trackLoading EXCEPT ![now] = "yes"]
      /\ selectedUsers' = selectedUsers
  BY DEF handleReplayStart, now
<1>8. ReplayTypes'
  BY <1>1, <1>3, <1>4, <1>7, NoTrackType DEF ReplayInv, ReplayTypes
<1>9. \A g \in Find : find'[g] = IF g = f THEN new ELSE NoFind
  BY <1>1, <1>2 DEF ReplayInv, ReplayTypes
<1>10. RequestIsOfTheReplay' /\ OneRequest'
  <2>1. trackLoading'[now] = "yes" /\ \A s \in Scope : track'[s].users = {}
    BY <1>3, <1>7 DEF ReplayInv, ReplayTypes, NoTrack
  <2> QED
    BY <2>1, <1>5, <1>7, <1>9 DEF RequestIsOfTheReplay, OneRequest
<1>11. LoadingHasARequest'
  <2>1. \A s \in Scope : trackLoading[s] # "yes"
    <3>1. \A g \in Find : find[g].scope \notin Scope
      BY <1>2 DEF NoFind, Scope
    <3> QED
      BY <3>1 DEF ReplayInv, LoadingHasARequest
  <2>2. \A s \in Scope : trackLoading'[s] = "yes" => s = now
    BY <2>1, <1>7 DEF ReplayInv, ReplayTypes
  <2> QED
    BY <2>2, <1>5, <1>9 DEF LoadingHasARequest
<1>12. DataIsOfTheRange' /\ OpenReplayHasARange'
  BY <1>7 DEF DataIsOfTheRange, OpenReplayHasARange, NoTrack, ReplayInv, ReplayTypes
<1> QED
  BY <1>8, <1>10, <1>11, <1>12 DEF ReplayInv

\* Stop: the bar and the message it is pressed in are not shown during a request.
LEMMA StopKeepsReplayInv ==
    ASSUME ReplayInv, stopReplay
    PROVE  ReplayInv'
<1>1. \A f \in Find : find[f] = NoFind
  BY OpenWhileAsking DEF stopReplay
<1>2. /\ replayActive' = "no" /\ replayScope' = "all" /\ track' = [s \in Scope |-> NoTrack]
      /\ UNCHANGED <<replayRange, trackLoading, find, selectedUsers>>
  BY DEF stopReplay
<1>3. ReplayTypes'
  BY <1>2, NoTrackType DEF ReplayInv, ReplayTypes, Scope
<1>4. RequestIsOfTheReplay' /\ OneRequest'
  BY <1>1, <1>2 DEF RequestIsOfTheReplay, OneRequest
<1>5. LoadingHasARequest'
  BY <1>2 DEF ReplayInv, LoadingHasARequest
<1>6. DataIsOfTheRange' /\ OpenReplayHasARange'
  BY <1>2 DEF DataIsOfTheRange, OpenReplayHasARange, NoTrack
<1> QED
  BY <1>3, <1>4, <1>5, <1>6 DEF ReplayInv

LEMMA ServeKeepsReplayInv ==
    ASSUME ReplayInv, NEW f \in Find, ServeHistory(f)
    PROVE  ReplayInv'
<1>1. PICK users \in SUBSET Person :
         find' = [find EXCEPT ![f] = [find[f] EXCEPT !.phase = "ok", !.track.users = users]]
  BY DEF ServeHistory, Person
<1> DEFINE served == [find[f] EXCEPT !.phase = "ok", !.track.users = users]
<1>2. find[f] \in FindType /\ find[f] # NoFind
  BY DEF ServeHistory, NoFind, ReplayInv, ReplayTypes
<1>3. /\ served \in FindType /\ served.scope = find[f].scope /\ served.phase = "ok"
      /\ served.track.range = find[f].track.range
  BY <1>2 DEF FindType, TrackType
<1>4. served # NoFind
  BY <1>3 DEF NoFind
<1> HIDE DEF served
<1>5. \A g \in Find : find'[g] = IF g = f THEN served ELSE find[g]
  BY <1>1 DEF ReplayInv, ReplayTypes, served
<1>6. find' \in [Find -> FindType]
  BY <1>1, <1>3 DEF ReplayInv, ReplayTypes, served
<1>7. /\ UNCHANGED <<replayActive, replayScope, replayRange, track, trackLoading>>
      /\ UNCHANGED selectedUsers
  BY DEF ServeHistory
<1>8. ReplayTypes'
  BY <1>6, <1>7 DEF ReplayInv, ReplayTypes
<1>9. RequestIsOfTheReplay'
  BY <1>2, <1>3, <1>5, <1>7 DEF ReplayInv, RequestIsOfTheReplay
<1>10. OneRequest'
  BY <1>2, <1>4, <1>5 DEF ReplayInv, OneRequest
<1>11. LoadingHasARequest'
  BY <1>3, <1>5, <1>7 DEF ReplayInv, LoadingHasARequest
<1>12. DataIsOfTheRange' /\ OpenReplayHasARange'
  BY <1>7 DEF ReplayInv, DataIsOfTheRange, OpenReplayHasARange
<1> QED
  BY <1>8, <1>9, <1>10, <1>11, <1>12 DEF ReplayInv

\* The answer: of the range that was chosen last, in the hook that shows it.
LEMMA FetchedKeepsReplayInv ==
    ASSUME ReplayInv, NEW f \in Find, HistoryFetched(f)
    PROVE  ReplayInv'
<1> DEFINE brought == IF find[f].phase = "ok" THEN find[f].track ELSE NoTrack
<1>1. find[f] \in FindType /\ find[f] # NoFind
  BY DEF HistoryFetched, NoFind, ReplayInv, ReplayTypes
<1>2. find[f].scope = replayScope /\ replayScope \in Scope
  BY <1>1 DEF ReplayInv, RequestIsOfTheReplay, ReplayTypes
<1>3. brought \in TrackType /\ (brought.users # {} => brought.range = replayRange)
  BY <1>1, NoTrackType DEF FindType, ReplayInv, RequestIsOfTheReplay, NoTrack
<1> HIDE DEF brought
<1>4. /\ find' = [find EXCEPT ![f] = NoFind]
      /\ track' = [track EXCEPT ![replayScope] = brought]
      /\ trackLoading' = [trackLoading EXCEPT ![replayScope] = "no"]
      /\ UNCHANGED <<replayActive, replayScope, replayRange>> /\ UNCHANGED selectedUsers
  BY <1>2 DEF HistoryFetched, brought
<1>5. ReplayTypes'
  BY <1>2, <1>3, <1>4, NoFindType DEF ReplayInv, ReplayTypes
<1>6. \A g \in Find : find'[g] = NoFind
  BY <1>1, <1>4 DEF ReplayInv, OneRequest, ReplayTypes
<1>7. RequestIsOfTheReplay' /\ OneRequest'
  BY <1>6 DEF RequestIsOfTheReplay, OneRequest
<1>8. LoadingHasARequest'
  <2>1. \A s \in Scope : trackLoading[s] = "yes" => s = replayScope
    <3>1. \A g \in Find : find[g].scope \in Scope => g = f
      BY <1>1 DEF ReplayInv, OneRequest, NoFind, Scope
    <3> QED
      BY <3>1, <1>2 DEF ReplayInv, LoadingHasARequest
  <2>2. \A s \in Scope : trackLoading'[s] # "yes"
    BY <2>1, <1>2, <1>4 DEF ReplayInv, ReplayTypes
  <2> QED
    BY <2>2 DEF LoadingHasARequest
<1>9. DataIsOfTheRange' /\ OpenReplayHasARange'
  BY <1>2, <1>3, <1>4 DEF ReplayInv, ReplayTypes, DataIsOfTheRange, OpenReplayHasARange
<1> QED
  BY <1>5, <1>7, <1>8, <1>9 DEF ReplayInv


LEMMA ReplayStep ==
    ASSUME ReplayInv, [ReplayNext]_replay
    PROVE  ReplayInv'
<1>1. CASE onReplayClick
  BY <1>1, FiltersKeepReplayInv DEF onReplayClick, ReplayInv, ReplayTypes
<1>2. CASE onFilterClick
  BY <1>2, FiltersKeepReplayInv DEF onFilterClick, ReplayInv, ReplayTypes
<1>3. CASE handleReplayStart
  BY <1>3, StartKeepsReplayInv
<1>4. CASE stopReplay
  BY <1>4, StopKeepsReplayInv
<1>5. CASE onGroupToggle
  BY <1>5, FiltersKeepReplayInv DEF onGroupToggle, ReplayInv, ReplayTypes
<1>6. CASE \E u \in Person : onUserToggle(u)
  BY <1>6, FiltersKeepReplayInv DEF onUserToggle, ReplayInv, ReplayTypes
<1>7. CASE \E f \in Find : ServeHistory(f) \/ HistoryFetched(f)
  BY <1>7, ServeKeepsReplayInv, FetchedKeepsReplayInv
<1>8. CASE MembersFetched
  BY <1>8, FiltersKeepReplayInv DEF MembersFetched, ReplayInv, ReplayTypes
<1>9. CASE UNCHANGED replay
  BY <1>9, FiltersKeepReplayInv DEF replay, ReplayInv, ReplayTypes
<1> QED
  BY <1>1, <1>2, <1>3, <1>4, <1>5, <1>6, <1>7, <1>8, <1>9 DEF ReplayNext

\* What is promised follows: with no request under way no hook loads, and a replay
\* shows its controls, or that there is no data.
LEMMA ReplayInvImplies == ReplayInv => ReplaysCanBeLeft
<1> SUFFICES ASSUME ReplayInv
             PROVE  ReplaysCanBeLeft
  OBVIOUS
<1>1. replayScope \in Scope /\ trackLoading[replayScope] \in {"yes", "no"}
  BY DEF ReplayInv, ReplayTypes
<1>2. TracksAreOfTheRange
  BY <1>1 DEF ReplayInv, DataIsOfTheRange, TracksAreOfTheRange, activeHistory
<1>3. ReplayCanBeClosed
  <2> SUFFICES ASSUME replayActive = "yes",
                      ~\E f \in Find : find[f].scope = replayScope,
                      activeHistory.users # {} => selectedGroup # "yes" /\ selectedUsers = {}
               PROVE  ControlsShown \/ NoDataShown
    BY DEF ReplayCanBeClosed
  <2>1. trackLoading[replayScope] = "no"
    BY <1>1 DEF ReplayInv, LoadingHasARequest
  <2>2. CASE activeHistory.users = {}
    BY <2>1, <2>2 DEF NoDataShown
  <2>3. CASE activeHistory.users # {}
    <3>1. filteredHistory = activeHistory.users
      BY <2>3 DEF filteredHistory
    <3> QED
      BY <2>3, <3>1 DEF ControlsShown, ReplayInv, OpenReplayHasARange
  <2> QED
    BY <2>2, <2>3
<1> QED
  BY <1>2, <1>3 DEF ReplaysCanBeLeft

-----------------------------------------------------------------------------
(* The settings forms: the form, the requests under way and the record      *)

Edits == 0..MaxEdit
Bodies == UNION {[S -> Edits] : S \in SUBSET Field}
PutType == [kind : {"none", "save", "load", "beside"}, phase : {"none", "sent", "ok"},
            body : Bodies, own : SUBSET Field, answer : [Field -> Edits],
            card : Card \cup {"none"}]

FormTypes ==
    /\ page \in FormPages /\ edit \in Edits /\ typed \subseteq Field
    /\ dirty \in {"yes", "no"} /\ busy \in {"yes", "no"} /\ skeleton \in {"yes", "no"}
    /\ record \in [Field -> Edits] /\ form \in [Field -> Edits]
    /\ snap \in [Field -> Edits] \cup {Without}
    /\ page = MarkerSettingsSection => snap # Without
    /\ put \in [FormCall -> PutType]

\* What a request holds off: a save the button, and, but for the profile, any request
\* the inputs.  The marker's inputs are hidden during its load only.
PutsAreOfThePage ==
    \A r \in FormCall :
        /\ put[r].kind = "none" <=> put[r].phase = "none"
        /\ put[r].kind # "save" => put[r].body = NoBody
        /\ put[r].kind = "beside" => page = GeneralSettingsPage
        /\ put[r].kind = "save" => busy = "yes" \/ page = GeneralSettingsPage
        /\ put[r].kind = "load" /\ page.then = "end" => dirty = "no"
        /\ page # GeneralSettingsPage
             /\ (put[r].kind = "load" \/ (put[r].kind = "save" /\ page # MarkerSettingsSection))
           => skeleton = "yes"

\* One save at a time, unless two of the profile overlapped; and one request, but for
\* the profile.
OnePut ==
    \A r, q \in FormCall :
        \/ put[r].kind = "save" /\ put[q].kind = "save" /\ "saves" \notin metForm
        \/ page # GeneralSettingsPage /\ put[r].kind # "none" /\ put[q].kind # "none"
        => r = q

\* Inputs are hidden while something is under way, the switch has none, and only
\* the profile saves or loads twice at a time.
FormFollowsThePage ==
    /\ skeleton = "yes" => page # GeneralSettingsPage /\ ~FormQuiet
    /\ page = ServerSecuritySettingsPage => typed = {}
    /\ "loads" \in metForm \/ "saves" \in metForm => page = GeneralSettingsPage

\* A save carries what is shown, but for what was typed since.
SavesCarryTheForm ==
    \A r \in FormCall : put[r].kind = "save" /\ page # ServerSecuritySettingsPage =>
        /\ "saves" \notin metForm
             => \A f \in DOMAIN put[r].body \ typed : put[r].body[f] = form[f]
        /\ page # GeneralSettingsPage /\ (page = MarkerSettingsSection => "typing" \notin metForm)
             => put[r].body = form

RecordIsOurs == metForm \cap {"other", "missed", "saves"} = {}

\* Unless another has changed the record, an answer was missed, or saves overlapped: what the user has
\* not typed is as in the record, in the form and in the saves that are sent.
UntypedIsTheRecord ==
    RecordIsOurs =>
        /\ skeleton = "no" /\ page # ServerSecuritySettingsPage
             /\ (page = ServerPermissionsPage => dirty = "yes")
           => \A f \in Field \ typed : form[f] = record[f]
        /\ \A r \in FormCall : put[r].kind = "save" =>
             /\ put[r].phase = "sent" =>
                  \A f \in DOMAIN put[r].body \ put[r].own : put[r].body[f] = record[f]
             /\ put[r].phase = "ok" =>
                  /\ put[r].answer = record
                  /\ \A f \in DOMAIN put[r].body : put[r].body[f] = record[f]

SaveServed == \E r \in FormCall : put[r].kind = "save" /\ put[r].phase = "ok"

\* And unless two loads were under way: the page knows the record, or is about to.
PageIsInformed ==
    RecordIsOurs /\ "loads" \notin metForm =>
        /\ \A r, q \in FormCall : put[r].kind = "load" /\ put[q].kind = "load" => r = q
        /\ ~SaveServed =>
             /\ \A r \in FormCall : put[r].kind = "load" /\ put[r].phase = "ok"
                                      => put[r].answer = record
             /\ (\A r \in FormCall : put[r].kind # "load") => snap = record

FormInv == /\ FormTypes /\ PutsAreOfThePage /\ OnePut /\ FormFollowsThePage
           /\ SavesCarryTheForm /\ UntypedIsTheRecord /\ PageIsInformed
           /\ UntouchedFieldsAreKept /\ TypedIsKept

\* What tells the pages from one another.
LEMMA PageFacts ==
    /\ page \in FormPages =>
         /\ page.then = "end" <=> page \notin {GeneralSettingsPage, MarkerSettingsSection}
         /\ page.hides = IF page.then = "end" THEN "yes" ELSE "no"
         /\ page.fills = "yes" <=> page \in {ApiKeysSection, MarkerSettingsSection}
         /\ page.sends = "filled" <=> page = GeneralSettingsPage
    /\ GeneralSettingsPage \notin {ServerPermissionsPage, ApiKeysSection,
                                   ServerSecuritySettingsPage, MarkerSettingsSection}
    /\ MarkerSettingsSection \notin {ServerPermissionsPage, ApiKeysSection,
                                     ServerSecuritySettingsPage}
    /\ ServerPermissionsPage \notin {ApiKeysSection, ServerSecuritySettingsPage}
    /\ ApiKeysSection # ServerSecuritySettingsPage
<1> USE DEF ServerPermissionsPage, ApiKeysSection, ServerSecuritySettingsPage,
            GeneralSettingsPage, MarkerSettingsSection
<1>1. /\ GeneralSettingsPage \notin {ServerPermissionsPage, ApiKeysSection,
                                     ServerSecuritySettingsPage, MarkerSettingsSection}
      /\ MarkerSettingsSection \notin {ServerPermissionsPage, ApiKeysSection,
                                       ServerSecuritySettingsPage}
      /\ ServerPermissionsPage \notin {ApiKeysSection, ServerSecuritySettingsPage}
      /\ ApiKeysSection # ServerSecuritySettingsPage
  OBVIOUS
<1>2. ASSUME page \in FormPages
      PROVE  /\ page.then = "end" <=> page \notin {GeneralSettingsPage, MarkerSettingsSection}
             /\ page.hides = IF page.then = "end" THEN "yes" ELSE "no"
             /\ page.fills = "yes" <=> page \in {ApiKeysSection, MarkerSettingsSection}
             /\ page.sends = "filled" <=> page = GeneralSettingsPage
  BY <1>2 DEF FormPages
<1> QED BY <1>1, <1>2

LEMMA BodyFacts ==
    /\ NoBody \in Bodies /\ DOMAIN NoBody = {}
    /\ \A S \in SUBSET Field : \A b \in [S -> Edits] : b \in Bodies
    /\ \A b \in Bodies : /\ DOMAIN b \subseteq Field /\ b \in [DOMAIN b -> Edits]
                         /\ \A f \in DOMAIN b : b[f] \in Edits
<1>1. \A S \in SUBSET Field : \A b \in [S -> Edits] : b \in Bodies BY DEF Bodies
<1>2. NoBody \in [{} -> Edits] /\ DOMAIN NoBody = {} BY DEF NoBody
<1>3. ASSUME NEW b \in Bodies
      PROVE  /\ DOMAIN b \subseteq Field /\ b \in [DOMAIN b -> Edits]
             /\ \A f \in DOMAIN b : b[f] \in Edits
  <2>1. PICK S \in SUBSET Field : b \in [S -> Edits] BY <1>3 DEF Bodies
  <2> QED BY <2>1
<1> QED BY <1>1, <1>2, <1>3

LEMMA EmptyForms ==
    /\ Blank \in [Field -> Edits] /\ Empty \in Edits /\ Without \notin [Field -> Edits]
    /\ NoPut \in PutType /\ NoPut.kind = "none" /\ NoPut.phase = "none" /\ NoPut.body = NoBody
<1>1. Empty \in Edits BY FormBoundsAssumption DEF Empty, Edits
<1>2. Blank \in [Field -> Edits] BY <1>1 DEF Blank
<1>3. Without \notin [Field -> Edits]
  <2>1. "x" \in Field /\ Without["x"] = -1 BY DEF Field, Without
  <2>2. -1 \notin Edits BY FormBoundsAssumption DEF Edits
  <2> QED BY <2>1, <2>2
<1> QED BY <1>1, <1>2, <1>3, BodyFacts DEF NoPut, PutType

\* One request changes.
LEMMA PutFacts ==
    ASSUME FormTypes, NEW r \in FormCall, NEW n \in PutType, put' = [put EXCEPT ![r] = n]
    PROVE  /\ put' \in [FormCall -> PutType] /\ put'[r] = n
           /\ \A q \in FormCall : q # r => put'[q] = put[q]
BY DEF FormTypes

LEMMA PutFields ==
    ASSUME FormTypes, NEW r \in FormCall
    PROVE  /\ put[r].kind \in {"none", "save", "load", "beside"}
           /\ put[r].phase \in {"none", "sent", "ok"} /\ put[r].body \in Bodies
           /\ put[r].own \subseteq Field /\ put[r].answer \in [Field -> Edits]
           /\ DOMAIN put[r].body \subseteq Field
           /\ \A f \in DOMAIN put[r].body : put[r].body[f] \in Edits
<1>1. put[r] \in PutType BY DEF FormTypes
<1> QED BY <1>1, BodyFacts DEF PutType

\* A request is sent where none was.
Sends(kind, body, own) ==
    \E r \in FormCall : \E n \in PutType :
        /\ put[r].kind = "none" /\ put' \in [FormCall -> PutType] /\ put'[r] = n
        /\ \A q \in FormCall : q # r => put'[q] = put[q]
        /\ n.kind = kind /\ n.phase = "sent" /\ n.body = body /\ n.own = own

LEMMA SendFacts ==
    ASSUME FormTypes, NEW kind \in {"save", "load", "beside"}, NEW body \in Bodies,
           NEW own \in SUBSET Field, NEW card \in Card \cup {"none"},
           SendForm(kind, body, own, card)
    PROVE  Sends(kind, body, own)
<1> DEFINE n == [NoPut EXCEPT !.kind = kind, !.phase = "sent", !.body = body, !.own = own,
                              !.card = card]
<1>1. PICK r \in FormCall : put[r].kind = "none" /\ put' = [put EXCEPT ![r] = n]
  BY DEF SendForm
<1>2. n \in PutType /\ n.kind = kind /\ n.phase = "sent" /\ n.body = body /\ n.own = own
  BY EmptyForms DEF PutType
<1> HIDE DEF n
<1>3. /\ put' \in [FormCall -> PutType] /\ put'[r] = n
      /\ \A q \in FormCall : q # r => put'[q] = put[q]
  BY <1>1, <1>2, PutFacts
<1> QED BY <1>1, <1>2, <1>3 DEF Sends

\* But for the profile, a page whose inputs are shown waits for nothing but a
\* marker's save; and for no save when its button can be pressed.
LEMMA ShownIsQuiet ==
    ASSUME FormTypes, PutsAreOfThePage, skeleton = "no", page # GeneralSettingsPage,
           NEW r \in FormCall
    PROVE  /\ put[r].kind \in {"none", "save"}
           /\ page # MarkerSettingsSection \/ busy = "no" => put[r].kind = "none"
BY PutFields DEF PutsAreOfThePage

LEMMA FormStarts == FormInit => FormInv
<1> SUFFICES ASSUME FormInit PROVE FormInv OBVIOUS
<1> DEFINE first == [NoPut EXCEPT !.kind = "load", !.phase = "sent"]
<1>1. /\ first \in PutType /\ first.kind = "load" /\ first.phase = "sent"
      /\ first.body = NoBody
  BY EmptyForms DEF PutType
<1> HIDE DEF first
<1>2. /\ put \in [FormCall -> PutType]
      /\ \A q \in FormCall : put[q] = NoPut \/ (page.then = "end" /\ put[q] = first)
      /\ \A q, s \in FormCall : put[q] = first /\ put[s] = first => q = s
      /\ page.then = "end" => \E q \in FormCall : put[q] = first
  <2>1. CASE page.then = "end"
    <3>1. PICK r \in FormCall : put = [q \in FormCall |-> IF q = r THEN first ELSE NoPut]
      BY <2>1 DEF FormInit, first
    <3> QED BY <2>1, <3>1, <1>1, EmptyForms
  <2>2. CASE page.then # "end"
    <3>1. put = [q \in FormCall |-> NoPut] BY <2>2 DEF FormInit
    <3>2. NoPut # first BY <1>1, EmptyForms
    <3> QED BY <2>2, <3>1, <3>2, EmptyForms
  <2> QED BY <2>1, <2>2
<1>3. /\ page \in FormPages /\ record = Blank /\ edit = 0 /\ dirty = "no" /\ busy = "no"
      /\ form = Blank /\ typed = {} /\ metForm = {} /\ wrong = {}
      /\ page.then = "end" => snap = Without /\ skeleton = "yes"
      /\ page.then # "end" => snap = record /\ skeleton = "no"
  BY DEF FormInit
<1>4. FormTypes
  <2>1. 0 \in Edits BY FormBoundsAssumption DEF Edits
  <2>2. snap \in [Field -> Edits] \cup {Without} /\ skeleton \in {"yes", "no"}
        /\ (page = MarkerSettingsSection => snap # Without)
    BY <1>3, EmptyForms, PageFacts
  <2> QED BY <1>2, <1>3, <2>1, <2>2, EmptyForms DEF FormTypes
<1>5. PutsAreOfThePage BY <1>1, <1>2, <1>3, EmptyForms, PageFacts DEF PutsAreOfThePage
<1>6. OnePut BY <1>1, <1>2, <1>3, EmptyForms DEF OnePut
<1>7. FormFollowsThePage
  BY <1>1, <1>2, <1>3, PageFacts DEF FormFollowsThePage, FormQuiet, Putting
<1>8. \A q \in FormCall : put[q].kind # "save" /\ put[q].phase # "ok"
  BY <1>1, <1>2, EmptyForms
<1>9. SavesCarryTheForm BY <1>8 DEF SavesCarryTheForm
<1>10. UntypedIsTheRecord BY <1>8, <1>3 DEF UntypedIsTheRecord
<1>11. PageIsInformed BY <1>1, <1>2, <1>3, <1>8, EmptyForms, PageFacts DEF PageIsInformed
<1> QED BY <1>3, <1>4, <1>5, <1>6, <1>7, <1>9, <1>10, <1>11
        DEF FormInv, UntouchedFieldsAreKept, TypedIsKept

-----------------------------------------------------------------------------
(* The user                                                                 *)

\* What holds of the history goes on holding as it grows.
LEMMA ExcusesStay ==
    ASSUME UntouchedFieldsAreKept, TypedIsKept, wrong' = wrong, page' = page,
           metForm \subseteq metForm'
    PROVE  UntouchedFieldsAreKept' /\ TypedIsKept'
BY DEF UntouchedFieldsAreKept, TypedIsKept

\* A change of an input, from what it shows, that is the form or the policy.
LEMMA InputKeepsFormInv ==
    ASSUME FormInv, NEW f \in Field, NEW v \in Edits, skeleton = "no",
           page # ServerSecuritySettingsPage,
           page = ServerPermissionsPage => snap # Without /\ dirty' = "yes",
           form' = [Effective EXCEPT ![f] = v], typed' = typed \cup {f},
           dirty' \in {dirty, "yes"}, edit' \in Edits,
           metForm' = metForm \cup WhileSaving,
           UNCHANGED <<page, record, snap, skeleton, busy, put, wrong>>
    PROVE  FormInv'
<1>1. FormTypes /\ PutsAreOfThePage /\ OnePut /\ FormFollowsThePage /\ SavesCarryTheForm
      /\ UntypedIsTheRecord /\ PageIsInformed /\ UntouchedFieldsAreKept /\ TypedIsKept
  BY DEF FormInv
<1>2. /\ record \in [Field -> Edits] /\ form \in [Field -> Edits] /\ typed \subseteq Field
      /\ snap \in [Field -> Edits] \cup {Without} /\ page \in FormPages
  BY <1>1 DEF FormTypes
<1>3. Effective \in [Field -> Edits] BY <1>2 DEF Effective
<1>4. form' \in [Field -> Edits] /\ \A g \in Field \ {f} : form'[g] = Effective[g]
  BY <1>3
<1>5. /\ metForm \subseteq metForm' /\ metForm' \subseteq metForm \cup {"typing"}
      /\ page = MarkerSettingsSection /\ (\E r \in FormCall : put[r].kind = "save")
           => "typing" \in metForm'
      /\ page' = page /\ record' = record /\ snap' = snap /\ skeleton' = skeleton
      /\ busy' = busy /\ put' = put /\ wrong' = wrong
  BY DEF Putting, WhileSaving
<1>6. RecordIsOurs' <=> RecordIsOurs BY <1>5 DEF RecordIsOurs
<1>7. FormTypes' BY <1>1, <1>4, <1>5 DEF FormTypes
<1>8. PutsAreOfThePage'
  BY <1>1, <1>2, <1>5, ShownIsQuiet, PageFacts, PutFields DEF PutsAreOfThePage
<1>9. OnePut' BY <1>1, <1>5 DEF OnePut
<1>10. FormFollowsThePage' BY <1>1, <1>5 DEF FormFollowsThePage, FormQuiet, Putting
<1>11. ASSUME page \in {GeneralSettingsPage, MarkerSettingsSection} PROVE Effective = form
  BY <1>11, PageFacts DEF Effective
<1>12. SavesCarryTheForm'
  <2> SUFFICES ASSUME NEW r \in FormCall, put[r].kind = "save"
               PROVE /\ "saves" \notin metForm
                          => \A g \in DOMAIN put[r].body \ typed' : put[r].body[g] = form'[g]
                     /\ ~(page # GeneralSettingsPage
                            /\ (page = MarkerSettingsSection => "typing" \notin metForm'))
    BY <1>5 DEF SavesCarryTheForm
  <2>1. page \in {GeneralSettingsPage, MarkerSettingsSection} BY <1>1, ShownIsQuiet
  <2>2. page = MarkerSettingsSection => "typing" \in metForm' BY <1>5
  <2>3. "saves" \notin metForm
          => \A g \in DOMAIN put[r].body \ typed : put[r].body[g] = form[g]
    BY <1>1 DEF SavesCarryTheForm
  <2>4. DOMAIN put[r].body \subseteq Field BY <1>1, PutFields
  <2> QED BY <2>1, <2>2, <2>3, <2>4, <1>4, <1>11
<1>13. ASSUME RecordIsOurs PROVE \A g \in Field \ typed' : form'[g] = record[g]
  <2>1. CASE page = ServerPermissionsPage /\ dirty = "no"
    <3>1. \A r \in FormCall : put[r].kind = "none" BY <2>1, <1>1, ShownIsQuiet, PageFacts
    <3>2. "loads" \notin metForm BY <2>1, <1>1, PageFacts DEF FormFollowsThePage
    <3>3. snap = record BY <1>13, <3>1, <3>2, <1>1 DEF PageIsInformed, SaveServed
    <3> QED BY <2>1, <3>3, <1>4 DEF Effective
  <2>2. CASE ~(page = ServerPermissionsPage /\ dirty = "no")
    <3>1. dirty \in {"yes", "no"} BY <1>1 DEF FormTypes
    <3>2. \A g \in Field \ typed : form[g] = record[g]
      BY <2>2, <3>1, <1>1, <1>13 DEF UntypedIsTheRecord
    <3> QED BY <2>2, <3>2, <1>4 DEF Effective
  <2> QED BY <2>1, <2>2
<1>14. UntypedIsTheRecord' BY <1>1, <1>5, <1>6, <1>13 DEF UntypedIsTheRecord
<1>15. PageIsInformed' BY <1>1, <1>5, <1>6 DEF PageIsInformed, SaveServed
<1> QED BY <1>1, <1>5, <1>7, <1>8, <1>9, <1>10, <1>12, <1>14, <1>15, ExcusesStay DEF FormInv

LEMMA EditKeepsFormInv == ASSUME FormInv, NEW f \in Field, Edit(f) PROVE FormInv'
<1>1. edit + 1 \in Edits BY FormBoundsAssumption DEF FormInv, FormTypes, Edit, Edits
<1> QED BY <1>1, InputKeepsFormInv DEF Edit

LEMMA ClearKeepsFormInv == ASSUME FormInv, NEW f \in Field, Clear(f) PROVE FormInv'
<1>1. /\ page \in {ApiKeysSection, GeneralSettingsPage} /\ skeleton = "no"
      /\ form' = [form EXCEPT ![f] = Empty] /\ typed' = typed \cup {f}
      /\ metForm' = metForm \cup WhileSaving
      /\ UNCHANGED <<page, record, edit, snap, dirty, skeleton, busy, put, wrong>>
  BY DEF Clear
<1>2. page \notin {ServerPermissionsPage, ServerSecuritySettingsPage} BY <1>1, PageFacts
<1>3. Effective = form BY <1>2 DEF Effective
<1>4. edit \in Edits BY DEF FormInv, FormTypes
<1> QED BY <1>1, <1>2, <1>3, <1>4, EmptyForms, InputKeepsFormInv

LEMMA DiscardKeepsFormInv == ASSUME FormInv, Discard PROVE FormInv'
<1>1. FormTypes /\ PutsAreOfThePage /\ OnePut /\ FormFollowsThePage /\ SavesCarryTheForm
      /\ UntypedIsTheRecord /\ PageIsInformed /\ UntouchedFieldsAreKept /\ TypedIsKept
  BY DEF FormInv
<1>2. /\ page = ServerPermissionsPage /\ dirty' = "no" /\ typed' = {} /\ page' = page
      /\ record' = record /\ edit' = edit /\ snap' = snap /\ form' = form
      /\ skeleton' = skeleton /\ busy' = busy /\ put' = put /\ metForm' = metForm
      /\ wrong' = wrong
  BY DEF Discard
<1>3. page \notin {GeneralSettingsPage, MarkerSettingsSection, ServerSecuritySettingsPage}
  BY <1>2, PageFacts
<1>4. FormTypes' BY <1>1, <1>2 DEF FormTypes
<1>5. PutsAreOfThePage' /\ OnePut' BY <1>1, <1>2 DEF PutsAreOfThePage, OnePut
<1>6. FormFollowsThePage' BY <1>1, <1>2 DEF FormFollowsThePage, FormQuiet, Putting
<1>7. \A r \in FormCall : put[r].kind = "save" => put[r].body = form
  BY <1>1, <1>3 DEF SavesCarryTheForm
<1>8. SavesCarryTheForm' BY <1>2, <1>7 DEF SavesCarryTheForm
<1>9. UntypedIsTheRecord' BY <1>1, <1>2 DEF UntypedIsTheRecord, RecordIsOurs
<1>10. PageIsInformed' BY <1>1, <1>2 DEF PageIsInformed, RecordIsOurs, SaveServed
<1> QED BY <1>1, <1>2, <1>4, <1>5, <1>6, <1>8, <1>9, <1>10, ExcusesStay DEF FormInv

\* A request is sent that is no load: a save of the form, of the switch, or of
\* another card.
LEMMA SendKeepsFormInv ==
    ASSUME FormInv, NEW kind \in {"save", "beside"}, NEW body \in Bodies,
           NEW own \in SUBSET Field, NEW card \in Card \cup {"none"},
           SendForm(kind, body, own, card), skeleton = "no",
           \* The button of a save is there.
           kind = "save" =>
             /\ page = ServerSecuritySettingsPage \/ busy = "no"
             /\ busy' = "yes" /\ skeleton' = page.hides
             /\ page # ServerSecuritySettingsPage =>
                  /\ \A f \in DOMAIN body : body[f] = form[f]
                  /\ page # GeneralSettingsPage => body = form
                  /\ own = typed /\ (page = ServerPermissionsPage => dirty = "yes")
             /\ page = ServerSecuritySettingsPage => DOMAIN body \subseteq own,
           kind = "beside" => page = GeneralSettingsPage /\ body = NoBody
                                /\ busy' \in {busy, "yes"} /\ skeleton' = skeleton,
           metForm \subseteq metForm', metForm' \subseteq metForm \cup {"saves"},
           "saves" \in metForm' \ metForm => kind = "save" /\ Putting({"save"}),
           kind = "save" /\ Putting({"save"}) => "saves" \in metForm',
           edit' \in Edits, UNCHANGED <<page, record, snap, form, dirty, typed, wrong>>
    PROVE  FormInv'
<1>1. FormTypes /\ PutsAreOfThePage /\ OnePut /\ FormFollowsThePage /\ SavesCarryTheForm
      /\ UntypedIsTheRecord /\ PageIsInformed /\ UntouchedFieldsAreKept /\ TypedIsKept
  BY DEF FormInv
<1>2. PICK r \in FormCall, n \in PutType :
             /\ put[r].kind = "none" /\ put' \in [FormCall -> PutType] /\ put'[r] = n
             /\ \A q \in FormCall : q # r => put'[q] = put[q]
             /\ n.kind = kind /\ n.phase = "sent" /\ n.body = body /\ n.own = own
  <2>1. Sends(kind, body, own) BY <1>1, SendFacts
  <2> QED BY <2>1 DEF Sends
<1>3. /\ page' = page /\ record' = record /\ snap' = snap /\ form' = form /\ dirty' = dirty
      /\ typed' = typed /\ wrong' = wrong /\ page \in FormPages
      /\ metForm \subseteq metForm' /\ metForm' \subseteq metForm \cup {"saves"}
  BY <1>1 DEF FormTypes
<1>4. ASSUME kind = "save", page # GeneralSettingsPage \/ "saves" \notin metForm'
      PROVE  \A q \in FormCall : put[q].kind # "save"
  <2>1. CASE page = GeneralSettingsPage
    <3>1. ~Putting({"save"}) BY <1>4, <2>1
    <3> QED BY <2>1, <3>1 DEF Putting
  <2>2. CASE page = MarkerSettingsSection
    BY <1>4, <2>2, <1>1, PageFacts DEF PutsAreOfThePage
  <2>3. CASE page \notin {GeneralSettingsPage, MarkerSettingsSection}
    BY <2>3, <1>1, ShownIsQuiet
  <2> QED BY <2>1, <2>2, <2>3
<1>5. page # GeneralSettingsPage =>
        (\A q \in FormCall : put[q].kind = "none") /\ metForm' = metForm
  <2> SUFFICES ASSUME page # GeneralSettingsPage
               PROVE  (\A q \in FormCall : put[q].kind = "none") /\ metForm' = metForm
    OBVIOUS
  <2>1. \A q \in FormCall : put[q].kind = "none" BY <1>1, <1>4, ShownIsQuiet, PutFields
  <2>2. ~Putting({"save"}) BY <2>1 DEF Putting
  <2> QED BY <2>1, <2>2, <1>3
<1>6. /\ busy' \in {"yes", "no"} /\ skeleton' \in {"yes", "no"}
      /\ kind = "save" => busy' = "yes"
      /\ busy = "yes" => busy' = "yes"
      /\ page = GeneralSettingsPage => skeleton' = "no"
      /\ page \notin {GeneralSettingsPage, MarkerSettingsSection} => skeleton' = "yes"
  BY <1>1, <1>3, PageFacts DEF FormTypes
<1>7. FormTypes' BY <1>1, <1>2, <1>3, <1>6 DEF FormTypes
<1>8. PutsAreOfThePage'
  <2> SUFFICES ASSUME NEW q \in FormCall
               PROVE  /\ put'[q].kind = "none" <=> put'[q].phase = "none"
                      /\ put'[q].kind # "save" => put'[q].body = NoBody
                      /\ put'[q].kind = "beside" => page = GeneralSettingsPage
                      /\ put'[q].kind = "save" => busy' = "yes" \/ page = GeneralSettingsPage
                      /\ put'[q].kind = "load" /\ page.then = "end" => dirty = "no"
                      /\ page # GeneralSettingsPage
                           /\ (put'[q].kind = "load"
                                 \/ (put'[q].kind = "save" /\ page # MarkerSettingsSection))
                         => skeleton' = "yes"
    BY <1>3 DEF PutsAreOfThePage
  <2>1. CASE q = r BY <2>1, <1>2, <1>6
  <2>2. CASE q # r BY <2>2, <1>1, <1>2, <1>5, <1>6 DEF PutsAreOfThePage
  <2> QED BY <2>1, <2>2
<1>9. OnePut' BY <1>1, <1>2, <1>3, <1>4, <1>5 DEF OnePut
<1>10. FormFollowsThePage'
  <2>1. ~FormQuiet' BY <1>2 DEF FormQuiet, Putting
  <2> QED BY <2>1, <1>1, <1>3, <1>5, <1>6 DEF FormFollowsThePage
<1>11. SavesCarryTheForm' BY <1>1, <1>2, <1>3 DEF SavesCarryTheForm
<1>12. UntypedIsTheRecord'
  <2> SUFFICES ASSUME RecordIsOurs
               PROVE  /\ skeleton' = "no" /\ page # ServerSecuritySettingsPage
                           /\ (page = ServerPermissionsPage => dirty = "yes")
                         => \A f \in Field \ typed : form[f] = record[f]
                      /\ \A q \in FormCall : put'[q].kind = "save" =>
                           /\ put'[q].phase = "sent" =>
                                \A f \in DOMAIN put'[q].body \ put'[q].own :
                                    put'[q].body[f] = record[f]
                           /\ put'[q].phase = "ok" =>
                                /\ put'[q].answer = record
                                /\ \A f \in DOMAIN put'[q].body : put'[q].body[f] = record[f]
    BY <1>3 DEF UntypedIsTheRecord, RecordIsOurs
  <2>1. page # ServerSecuritySettingsPage /\ (page = ServerPermissionsPage => dirty = "yes")
          => \A f \in Field \ typed : form[f] = record[f]
    BY <1>1 DEF UntypedIsTheRecord
  <2>2. ASSUME kind = "save" PROVE \A f \in DOMAIN body \ own : body[f] = record[f]
    <3>1. DOMAIN body \subseteq Field BY BodyFacts
    <3> QED BY <2>1, <2>2, <3>1
  <2>3. \A q \in FormCall \ {r} : put'[q] = put[q] BY <1>2
  <2> QED BY <2>1, <2>2, <2>3, <1>1, <1>2 DEF UntypedIsTheRecord
<1>13. PageIsInformed'
  <2>1. SaveServed' <=> SaveServed BY <1>2 DEF SaveServed
  <2>2. \A q \in FormCall : put'[q].kind = "load" \/ put[q].kind = "load" => put'[q] = put[q]
    BY <1>2
  <2>3. \A q \in FormCall : put'[q].kind = "load" <=> put[q].kind = "load" BY <1>2
  <2> QED BY <2>1, <2>2, <2>3, <1>1, <1>3 DEF PageIsInformed, RecordIsOurs
<1> QED BY <1>1, <1>3, <1>7, <1>8, <1>9, <1>10, <1>11, <1>12, <1>13, ExcusesStay DEF FormInv

LEMMA BodyIsTheForm ==
    ASSUME FormTypes
    PROVE  /\ Body \in Bodies /\ \A f \in DOMAIN Body : Body[f] = form[f]
           /\ page # GeneralSettingsPage => Body = form
<1>1. form \in [Field -> Edits] /\ page \in FormPages BY DEF FormTypes
<1>2. CASE page = GeneralSettingsPage
  <2> DEFINE S == {f \in Field : form[f] # Empty}
  <2>1. Body = [f \in S |-> form[f]] BY <1>1, <1>2, PageFacts DEF Body, Restrict
  <2>2. S \subseteq Field OBVIOUS
  <2> HIDE DEF S
  <2>3. Body \in [S -> Edits] BY <1>1, <2>1, <2>2
  <2> QED BY <1>2, <2>1, <2>2, <2>3, BodyFacts
<1>3. CASE page # GeneralSettingsPage
  <2>1. Body = form BY <1>1, <1>3, PageFacts DEF Body
  <2> QED BY <1>1, <2>1, BodyFacts
<1> QED BY <1>2, <1>3

LEMMA handleSaveKeepsFormInv == ASSUME FormInv, handleSave PROVE FormInv'
<1>1. FormTypes /\ FormFollowsThePage BY DEF FormInv
<1>2. typed \in SUBSET Field /\ edit \in Edits BY <1>1 DEF FormTypes
<1>3. /\ page # ServerSecuritySettingsPage /\ busy = "no" /\ skeleton = "no"
      /\ page \in {ServerPermissionsPage, MarkerSettingsSection} => dirty = "yes"
      /\ SendForm("save", Body, typed, "none") /\ busy' = "yes" /\ skeleton' = page.hides
      /\ metForm' = metForm \cup IF Putting({"save"}) THEN {"saves"} ELSE {}
      /\ UNCHANGED <<page, record, edit, snap, form, dirty, typed, wrong>>
  BY DEF handleSave
<1>4. /\ metForm \subseteq metForm' /\ metForm' \subseteq metForm \cup {"saves"}
      /\ "saves" \in metForm' \ metForm => Putting({"save"})
      /\ Putting({"save"}) => "saves" \in metForm'
  BY <1>3
<1> QED BY <1>1, <1>2, <1>3, <1>4, BodyIsTheForm, SendKeepsFormInv

LEMMA handleToggleMFAKeepsFormInv == ASSUME FormInv, handleToggleMFA PROVE FormInv'
<1>1. edit + 1 \in Edits
  BY FormBoundsAssumption DEF FormInv, FormTypes, handleToggleMFA, Edits
<1> DEFINE body == [f \in {"x"} |-> edit + 1]
<1>2. {"x"} \in SUBSET Field BY DEF Field
<1>3. body \in Bodies /\ DOMAIN body = {"x"}
  <2>1. body \in [{"x"} -> Edits] BY <1>1
  <2> QED BY <2>1, <1>2, BodyFacts
<1>4. /\ page = ServerSecuritySettingsPage /\ skeleton = "no" /\ edit' = edit + 1
      /\ SendForm("save", body, {"x"}, "none") /\ busy' = "yes" /\ skeleton' = "yes"
      /\ UNCHANGED <<page, record, snap, form, dirty, typed, metForm, wrong>>
  BY DEF handleToggleMFA
<1>5. page.hides = "yes" /\ page \notin {GeneralSettingsPage, MarkerSettingsSection}
  BY <1>4, PageFacts DEF FormPages
<1>6. ~Putting({"save"}) BY <1>4, <1>5, ShownIsQuiet DEF FormInv, Putting
<1> HIDE DEF body
<1> QED BY <1>1, <1>2, <1>3, <1>4, <1>5, <1>6, SendKeepsFormInv

LEMMA SaveOtherCardKeepsFormInv ==
    ASSUME FormInv, NEW c \in Card, SaveOtherCard(c) PROVE FormInv'
<1>1. /\ page = GeneralSettingsPage /\ SendForm("beside", NoBody, {}, c)
      /\ busy' \in {busy, "yes"}
      /\ UNCHANGED <<page, record, edit, snap, form, dirty, skeleton, typed, metForm, wrong>>
  BY DEF SaveOtherCard
<1>2. skeleton = "no" /\ edit \in Edits
  BY <1>1 DEF FormInv, FormTypes, FormFollowsThePage
<1>3. NoBody \in Bodies BY BodyFacts
<1> QED BY <1>1, <1>2, <1>3, SendKeepsFormInv

-----------------------------------------------------------------------------
(* The server and the answers                                               *)

LEMMA ChangeKeepsFormInv ==
    ASSUME FormInv, NEW f \in Field, ChangeByAnother(f) PROVE FormInv'
<1>1. FormTypes /\ PutsAreOfThePage /\ OnePut /\ FormFollowsThePage /\ SavesCarryTheForm
      /\ UntouchedFieldsAreKept /\ TypedIsKept
  BY DEF FormInv
<1>2. /\ edit < MaxEdit /\ edit' = edit + 1 /\ record' = [record EXCEPT ![f] = edit + 1]
      /\ metForm' = metForm \cup {"other"} /\ page' = page /\ snap' = snap /\ form' = form
      /\ dirty' = dirty /\ skeleton' = skeleton /\ busy' = busy /\ put' = put
      /\ typed' = typed /\ wrong' = wrong
  BY DEF ChangeByAnother
<1>3. edit + 1 \in Edits BY <1>1, <1>2, FormBoundsAssumption DEF FormTypes, Edits
<1>4. record' \in [Field -> Edits] BY <1>1, <1>2, <1>3 DEF FormTypes
<1>5. FormTypes' BY <1>1, <1>2, <1>3, <1>4 DEF FormTypes
<1>6. PutsAreOfThePage' /\ OnePut' BY <1>1, <1>2 DEF PutsAreOfThePage, OnePut
<1>7. FormFollowsThePage' BY <1>1, <1>2 DEF FormFollowsThePage, FormQuiet, Putting
<1>8. SavesCarryTheForm' BY <1>1, <1>2 DEF SavesCarryTheForm
<1>9. ~RecordIsOurs' BY <1>2 DEF RecordIsOurs
<1> QED BY <1>1, <1>2, <1>5, <1>6, <1>7, <1>8, <1>9, ExcusesStay
        DEF FormInv, UntypedIsTheRecord, PageIsInformed

LEMMA ServeKeepsFormInv == ASSUME FormInv, NEW r \in FormCall, Serve(r) PROVE FormInv'
<1>1. FormTypes /\ PutsAreOfThePage /\ OnePut /\ FormFollowsThePage /\ SavesCarryTheForm
      /\ UntypedIsTheRecord /\ PageIsInformed /\ UntouchedFieldsAreKept /\ TypedIsKept
  BY DEF FormInv
<1> DEFINE body == put[r].body
           after == [f \in Field |-> IF f \in DOMAIN body THEN body[f] ELSE record[f]]
           blind == \E f \in DOMAIN body \ put[r].own : body[f] # record[f]
           n == [put[r] EXCEPT !.phase = "ok", !.answer = after]
<1>2. /\ put[r].phase = "sent" /\ record' = after
      /\ wrong' = wrong \cup (IF blind THEN {"blind"} ELSE {})
      /\ put' = [put EXCEPT ![r] = n] /\ page' = page /\ edit' = edit /\ snap' = snap
      /\ form' = form /\ dirty' = dirty /\ skeleton' = skeleton /\ busy' = busy
      /\ typed' = typed /\ metForm' = metForm
  BY DEF Serve
<1>3. record \in [Field -> Edits] /\ typed \subseteq Field BY <1>1 DEF FormTypes
<1>4. DOMAIN body \subseteq Field /\ \A f \in DOMAIN body : body[f] \in Edits
  BY <1>1, PutFields
<1>5. /\ after \in [Field -> Edits]
      /\ \A f \in Field : after[f] = IF f \in DOMAIN body THEN body[f] ELSE record[f]
  BY <1>3, <1>4
<1> HIDE DEF after
<1>6. n \in PutType /\ n.kind = put[r].kind /\ n.phase = "ok" /\ n.body = body
      /\ n.own = put[r].own /\ n.answer = after
  <2>1. put[r] \in PutType BY <1>1 DEF FormTypes
  <2> QED BY <2>1, <1>5 DEF PutType
<1> HIDE DEF n, blind
<1>7. /\ put' \in [FormCall -> PutType] /\ put'[r] = n
      /\ \A q \in FormCall : q # r => put'[q] = put[q]
  BY <1>1, <1>2, <1>6, PutFacts
<1>8. \A q \in FormCall : put'[q].kind = put[q].kind /\ put'[q].body = put[q].body
                          /\ put'[q].own = put[q].own
  BY <1>6, <1>7
<1>9. put[r].kind # "none" BY <1>1, <1>2 DEF PutsAreOfThePage
<1>10. ASSUME put[r].kind # "save" PROVE record' = record /\ ~blind
  <2>1. DOMAIN body = {} BY <1>1, <1>10, BodyFacts DEF PutsAreOfThePage
  <2> QED BY <2>1, <1>2, <1>3, <1>5 DEF blind
<1>11. ASSUME RecordIsOurs PROVE ~blind
  <2>1. put[r].kind = "save" => \A f \in DOMAIN body \ put[r].own : body[f] = record[f]
    BY <1>1, <1>2, <1>11 DEF UntypedIsTheRecord
  <2> QED BY <2>1, <1>10 DEF blind
<1>12. FormTypes' BY <1>1, <1>2, <1>5, <1>7 DEF FormTypes
<1>13. PutsAreOfThePage'
  <2>1. \A q \in FormCall : put'[q].kind = "none" <=> put'[q].phase = "none"
    BY <1>1, <1>6, <1>7, <1>9 DEF PutsAreOfThePage
  <2> QED BY <2>1, <1>1, <1>2, <1>8 DEF PutsAreOfThePage
<1>14. OnePut' BY <1>1, <1>2, <1>8 DEF OnePut
<1>15. FormFollowsThePage' BY <1>1, <1>2, <1>8 DEF FormFollowsThePage, FormQuiet, Putting
<1>16. SavesCarryTheForm' BY <1>1, <1>2, <1>8 DEF SavesCarryTheForm
<1>17. RecordIsOurs' <=> RecordIsOurs BY <1>2 DEF RecordIsOurs
<1>18. UntypedIsTheRecord'
  <2> SUFFICES ASSUME RecordIsOurs
               PROVE  /\ skeleton = "no" /\ page # ServerSecuritySettingsPage
                           /\ (page = ServerPermissionsPage => dirty = "yes")
                         => \A f \in Field \ typed : form[f] = record'[f]
                      /\ \A q \in FormCall : put'[q].kind = "save" =>
                           /\ put'[q].phase = "sent" =>
                                \A f \in DOMAIN put'[q].body \ put'[q].own :
                                    put'[q].body[f] = record'[f]
                           /\ put'[q].phase = "ok" =>
                                /\ put'[q].answer = record'
                                /\ \A f \in DOMAIN put'[q].body : put'[q].body[f] = record'[f]
    BY <1>2, <1>17 DEF UntypedIsTheRecord
  <2>1. CASE put[r].kind = "save"
    <3>0. "saves" \notin metForm BY DEF RecordIsOurs
    <3>1. \A q \in FormCall : put'[q].kind = "save" => q = r
      BY <2>1, <3>0, <1>1, <1>8 DEF OnePut
    <3>2. page # ServerSecuritySettingsPage =>
            \A f \in DOMAIN body \ typed : body[f] = form[f]
      BY <2>1, <3>0, <1>1 DEF SavesCarryTheForm
    <3>3. ASSUME skeleton = "no", page # ServerSecuritySettingsPage,
                 page = ServerPermissionsPage => dirty = "yes", NEW f \in Field \ typed
          PROVE  form[f] = record'[f]
      <4>1. form[f] = record[f] BY <3>3, <1>1 DEF UntypedIsTheRecord
      <4> QED BY <4>1, <3>2, <3>3, <1>2, <1>5
    <3>4. \A f \in DOMAIN body : body[f] = record'[f] BY <1>2, <1>4, <1>5
    <3>5. put'[r].phase = "ok" /\ put'[r].answer = record' /\ put'[r].body = body
      BY <1>2, <1>6, <1>7
    <3> HIDE DEF body
    <3> QED BY <3>1, <3>3, <3>4, <3>5
  <2>2. CASE put[r].kind # "save"
    <3>1. record' = record BY <2>2, <1>10
    <3>2. \A q \in FormCall : put'[q].kind = "save" => put'[q] = put[q]
      BY <2>2, <1>7, <1>8
    <3> QED BY <3>1, <3>2, <1>1, <1>8 DEF UntypedIsTheRecord
  <2> QED BY <2>1, <2>2
<1>19. PageIsInformed'
  <2> SUFFICES ASSUME RecordIsOurs, "loads" \notin metForm
               PROVE  /\ \A q, s \in FormCall : put'[q].kind = "load" /\ put'[s].kind = "load"
                                                  => q = s
                      /\ ~SaveServed' =>
                           /\ \A q \in FormCall :
                                put'[q].kind = "load" /\ put'[q].phase = "ok"
                                  => put'[q].answer = record'
                           /\ (\A q \in FormCall : put'[q].kind # "load") => snap = record'
    BY <1>2, <1>17 DEF PageIsInformed
  <2>1. \A q, s \in FormCall : put'[q].kind = "load" /\ put'[s].kind = "load" => q = s
    BY <1>1, <1>8 DEF PageIsInformed
  <2>2. ASSUME ~SaveServed'
        PROVE  /\ \A q \in FormCall : put'[q].kind = "load" /\ put'[q].phase = "ok"
                                        => put'[q].answer = record'
               /\ (\A q \in FormCall : put'[q].kind # "load") => snap = record'
    <3>1. put[r].kind # "save" BY <2>2, <1>6, <1>7 DEF SaveServed
    <3>2. record' = record BY <3>1, <1>10
    <3>3. ~SaveServed BY <2>2, <3>1, <1>7 DEF SaveServed
    <3>4. /\ \A q \in FormCall : put[q].kind = "load" /\ put[q].phase = "ok"
                                   => put[q].answer = record
          /\ (\A q \in FormCall : put[q].kind # "load") => snap = record
      BY <3>3, <1>1 DEF PageIsInformed
    <3>5. put'[r].answer = record' BY <1>2, <1>6, <1>7
    <3> QED BY <3>2, <3>4, <3>5, <1>7, <1>8
  <2> QED BY <2>1, <2>2
<1>20. UntouchedFieldsAreKept'
  <2>1. "blind" \in wrong' => "blind" \in wrong \/ blind BY <1>2
  <2> QED BY <2>1, <1>1, <1>2, <1>11 DEF UntouchedFieldsAreKept, RecordIsOurs
<1>21. TypedIsKept' BY <1>1, <1>2 DEF TypedIsKept
<1> QED BY <1>12, <1>13, <1>14, <1>15, <1>16, <1>18, <1>19, <1>20, <1>21 DEF FormInv

\* A request ends, and is the page's only one but for the profile's.
LEMMA SettledFacts ==
    ASSUME FormTypes, OnePut, NEW r \in FormCall, Settled(r)
    PROVE  /\ put' \in [FormCall -> PutType] /\ put'[r] = NoPut
           /\ \A q \in FormCall : q # r => put'[q] = put[q]
           /\ page # GeneralSettingsPage /\ put[r].kind # "none"
                => \A q \in FormCall : put'[q] = NoPut \/ put'[q].kind = "none"
<1>1. put' = [put EXCEPT ![r] = NoPut] BY DEF Settled
<1> QED BY <1>1, EmptyForms, PutFacts DEF OnePut

LEMMA ReloadFacts ==
    ASSUME FormTypes, NEW r \in FormCall, Reload(r)
    PROVE  /\ put' \in [FormCall -> PutType]
           /\ put'[r].kind = "load" /\ put'[r].phase = "sent" /\ put'[r].body = NoBody
           /\ \A q \in FormCall : q # r => put'[q] = put[q]
<1> DEFINE n == [NoPut EXCEPT !.kind = "load", !.phase = "sent", !.card = put[r].card]
<1>1. put' = [put EXCEPT ![r] = n] BY DEF Reload
<1>2. n \in PutType /\ n.kind = "load" /\ n.phase = "sent" /\ n.body = NoBody
  <2>1. put[r].card \in Card \cup {"none"} BY DEF FormTypes, PutType
  <2> QED BY <2>1, EmptyForms DEF PutType
<1> HIDE DEF n
<1> QED BY <1>1, <1>2, PutFacts

LEMMA SavedKeepsFormInv == ASSUME FormInv, NEW r \in FormCall, Saved(r) PROVE FormInv'
<1>1. FormTypes /\ PutsAreOfThePage /\ OnePut /\ FormFollowsThePage /\ SavesCarryTheForm
      /\ UntypedIsTheRecord /\ PageIsInformed /\ UntouchedFieldsAreKept /\ TypedIsKept
  BY DEF FormInv
<1> DEFINE lost == IF dirty = "yes" THEN StillTyped(r) ELSE {}
<1>2. /\ put[r].kind = "save" /\ put[r].phase = "ok" /\ page.then = "end" /\ Settled(r)
      /\ snap' = put[r].answer
      /\ form' = IF page.fills = "yes" THEN put[r].answer ELSE form
      /\ dirty' = "no" /\ skeleton' = "no" /\ busy' = "no" /\ typed' = {} /\ LostIf(lost)
      /\ page' = page /\ record' = record /\ edit' = edit /\ metForm' = metForm
  BY DEF Saved
<1>3. /\ page \in FormPages /\ form \in [Field -> Edits] /\ typed \subseteq Field
  BY <1>1 DEF FormTypes
<1>4. page \notin {GeneralSettingsPage, MarkerSettingsSection} BY <1>2, <1>3, PageFacts
<1>5. /\ put' \in [FormCall -> PutType] /\ put'[r] = NoPut
      /\ \A q \in FormCall : q # r => put'[q] = put[q]
      /\ \A q \in FormCall : put'[q] = NoPut \/ put'[q].kind = "none"
  BY <1>1, <1>2, <1>4, SettledFacts
<1>6. \A q \in FormCall : put'[q].kind = "none" BY <1>5, EmptyForms
<1>7. put[r].answer \in [Field -> Edits] BY <1>1, PutFields
<1>8. StillTyped(r) = {}
  <2>1. CASE page = ServerSecuritySettingsPage
    BY <2>1, <1>1 DEF FormFollowsThePage, StillTyped
  <2>2. CASE page # ServerSecuritySettingsPage
    <3>1. put[r].body = form BY <2>2, <1>1, <1>2, <1>4 DEF SavesCarryTheForm
    <3> QED BY <3>1, <1>3 DEF StillTyped
  <2> QED BY <2>1, <2>2
<1>9. wrong' = wrong BY <1>2, <1>8 DEF LostIf
<1>10. FormTypes' BY <1>1, <1>2, <1>5, <1>7, EmptyForms DEF FormTypes
<1>11. PutsAreOfThePage'
  <2>1. \A q \in FormCall : put'[q].phase = "none" /\ put'[q].body = NoBody
    BY <1>1, <1>5, <1>6, EmptyForms DEF PutsAreOfThePage
  <2> QED BY <2>1, <1>6 DEF PutsAreOfThePage
<1>12. OnePut' BY <1>6 DEF OnePut
<1>13. FormFollowsThePage' BY <1>1, <1>2 DEF FormFollowsThePage
<1>14. SavesCarryTheForm' BY <1>6 DEF SavesCarryTheForm
<1>15. RecordIsOurs => put[r].answer = record BY <1>1, <1>2 DEF UntypedIsTheRecord
<1>16. UntypedIsTheRecord'
  <2> SUFFICES ASSUME RecordIsOurs, page # ServerSecuritySettingsPage,
                      page # ServerPermissionsPage
               PROVE  form' = record
    BY <1>2, <1>6 DEF UntypedIsTheRecord, RecordIsOurs
  <2>1. page.fills = "yes" BY <1>3, <1>4, PageFacts DEF FormPages
  <2> QED BY <2>1, <1>2, <1>15
<1>17. PageIsInformed' BY <1>2, <1>6, <1>15 DEF PageIsInformed, RecordIsOurs
<1> QED BY <1>1, <1>2, <1>9, <1>10, <1>11, <1>12, <1>13, <1>14, <1>16, <1>17, ExcusesStay
        DEF FormInv

LEMMA ProfileSavedKeepsFormInv ==
    ASSUME FormInv, NEW r \in FormCall, ProfileSaved(r) PROVE FormInv'
<1>1. FormTypes /\ PutsAreOfThePage /\ OnePut /\ FormFollowsThePage /\ SavesCarryTheForm
      /\ UntypedIsTheRecord /\ PageIsInformed /\ UntouchedFieldsAreKept /\ TypedIsKept
  BY DEF FormInv
<1>2. /\ page = GeneralSettingsPage /\ put[r].kind \in {"save", "beside"}
      /\ put[r].phase = "ok" /\ Reload(r)
      /\ busy' = IF Updating(r) THEN "no" ELSE busy
      /\ typed' = StillTyped(r)
      /\ metForm' = metForm \cup IF Putting({"load"}) THEN {"loads"} ELSE {}
      /\ page' = page /\ record' = record /\ edit' = edit /\ snap' = snap /\ form' = form
      /\ dirty' = dirty /\ skeleton' = skeleton /\ wrong' = wrong
  BY DEF ProfileSaved
<1>3. /\ put' \in [FormCall -> PutType]
      /\ put'[r].kind = "load" /\ put'[r].phase = "sent" /\ put'[r].body = NoBody
      /\ \A q \in FormCall : q # r => put'[q] = put[q]
  BY <1>1, <1>2, ReloadFacts
<1>4. /\ page.then # "end" /\ skeleton = "no" /\ typed \subseteq Field
      /\ page \notin {ServerPermissionsPage, ServerSecuritySettingsPage, MarkerSettingsSection}
  BY <1>1, <1>2, PageFacts DEF FormTypes, FormFollowsThePage
<1>5. typed' \subseteq typed BY <1>2 DEF StillTyped
<1>6. put[r].kind = "beside" => typed' = typed
  <2> SUFFICES ASSUME put[r].kind = "beside" PROVE StillTyped(r) = typed BY <1>2
  <2>1. put[r].body = NoBody BY <1>1 DEF PutsAreOfThePage
  <2> QED BY <2>1, BodyFacts DEF StillTyped
<1>7. \A q \in FormCall : put'[q].kind = "save" =>
          /\ put'[q] = put[q] /\ q # r
          /\ "saves" \notin metForm => put[r].kind = "beside"
  BY <1>1, <1>2, <1>3 DEF OnePut
<1>8. /\ RecordIsOurs' <=> RecordIsOurs
      /\ metForm \subseteq metForm' /\ "loads" \in metForm => "loads" \in metForm'
      /\ (\E q \in FormCall : put[q].kind = "load") => "loads" \in metForm'
  BY <1>2 DEF RecordIsOurs, Putting
<1>9. FormTypes' BY <1>1, <1>2, <1>3, <1>5 DEF FormTypes
<1>10. PutsAreOfThePage'
  <2>1. \A q \in FormCall :
          /\ put'[q].kind = "none" <=> put'[q].phase = "none"
          /\ put'[q].kind # "save" => put'[q].body = NoBody
    BY <1>1, <1>3 DEF PutsAreOfThePage
  <2> QED BY <2>1, <1>2, <1>4 DEF PutsAreOfThePage
<1>11. OnePut' BY <1>1, <1>2, <1>3, <1>7, <1>8 DEF OnePut
<1>12. FormFollowsThePage' BY <1>2, <1>4 DEF FormFollowsThePage
<1>13. SavesCarryTheForm' BY <1>1, <1>2, <1>6, <1>7, <1>8 DEF SavesCarryTheForm
<1>14. ASSUME RecordIsOurs, NEW f \in Field \ typed' PROVE form[f] = record[f]
  <2>1. CASE f \notin typed BY <2>1, <1>1, <1>4, <1>14 DEF UntypedIsTheRecord
  <2>2. CASE f \in typed
    <3>1. f \in DOMAIN put[r].body /\ form[f] = put[r].body[f]
      BY <2>2, <1>2, <1>14 DEF StillTyped
    <3>2. put[r].kind = "save" BY <3>1, <1>1, BodyFacts DEF PutsAreOfThePage
    <3>3. put[r].body[f] = record[f] BY <3>1, <3>2, <1>1, <1>2, <1>14 DEF UntypedIsTheRecord
    <3> QED BY <3>1, <3>3
  <2> QED BY <2>1, <2>2
<1>15. UntypedIsTheRecord' BY <1>1, <1>2, <1>7, <1>8, <1>14 DEF UntypedIsTheRecord
<1>16. PageIsInformed' BY <1>2, <1>3, <1>8 DEF PageIsInformed
<1> QED BY <1>1, <1>2, <1>8, <1>9, <1>10, <1>11, <1>12, <1>13, <1>15, <1>16, ExcusesStay
        DEF FormInv

LEMMA MarkerSavedKeepsFormInv ==
    ASSUME FormInv, NEW r \in FormCall, MarkerSaved(r) PROVE FormInv'
<1>1. FormTypes /\ PutsAreOfThePage /\ OnePut /\ FormFollowsThePage /\ SavesCarryTheForm
      /\ UntypedIsTheRecord /\ PageIsInformed /\ UntouchedFieldsAreKept /\ TypedIsKept
  BY DEF FormInv
<1>2. /\ page = MarkerSettingsSection /\ put[r].kind = "save" /\ put[r].phase = "ok"
      /\ Reload(r) /\ busy' = "no" /\ dirty' = "no" /\ skeleton' = "yes" /\ typed' = {}
      /\ LostIf(StillTyped(r)) /\ page' = page /\ record' = record /\ edit' = edit
      /\ snap' = snap /\ form' = form /\ metForm' = metForm
  BY DEF MarkerSaved
<1>3. /\ put' \in [FormCall -> PutType]
      /\ put'[r].kind = "load" /\ put'[r].phase = "sent" /\ put'[r].body = NoBody
      /\ \A q \in FormCall : q # r => put'[q] = put[q]
  BY <1>1, <1>2, ReloadFacts
<1>4. page \notin {ServerSecuritySettingsPage, GeneralSettingsPage} BY <1>2, PageFacts
<1>5. \A q \in FormCall : q # r => put'[q].kind = "none" BY <1>1, <1>2, <1>3, <1>4 DEF OnePut
<1>6. FormTypes' BY <1>1, <1>2, <1>3 DEF FormTypes
<1>7. PutsAreOfThePage'
  <2>1. \A q \in FormCall : q # r => put'[q].phase = "none" /\ put'[q].body = NoBody
    BY <1>1, <1>3, <1>5 DEF PutsAreOfThePage
  <2> QED BY <2>1, <1>2, <1>3, <1>5 DEF PutsAreOfThePage
<1>8. OnePut' BY <1>3, <1>5 DEF OnePut
<1>9. FormFollowsThePage'
  <2>1. ~FormQuiet' BY <1>3 DEF FormQuiet, Putting
  <2> QED BY <2>1, <1>1, <1>2, <1>4 DEF FormFollowsThePage
<1>10. \A q \in FormCall : put'[q].kind # "save" BY <1>3, <1>5
<1>11. SavesCarryTheForm' BY <1>10 DEF SavesCarryTheForm
<1>12. UntypedIsTheRecord' BY <1>2, <1>10 DEF UntypedIsTheRecord
<1>13. PageIsInformed' BY <1>3, <1>5 DEF PageIsInformed
<1>14. "typing" \notin metForm => StillTyped(r) = {}
  <2> SUFFICES ASSUME "typing" \notin metForm PROVE StillTyped(r) = {} OBVIOUS
  <2>1. put[r].body = form BY <1>1, <1>2, <1>4 DEF SavesCarryTheForm
  <2>2. form \in [Field -> Edits] /\ typed \subseteq Field BY <1>1 DEF FormTypes
  <2> QED BY <2>1, <2>2 DEF StillTyped
<1>15. TypedIsKept' BY <1>1, <1>2, <1>14 DEF TypedIsKept, LostIf
<1>16. UntouchedFieldsAreKept' BY <1>1, <1>2 DEF UntouchedFieldsAreKept, LostIf
<1> QED BY <1>6, <1>7, <1>8, <1>9, <1>11, <1>12, <1>13, <1>15, <1>16 DEF FormInv

LEMMA LoadedKeepsFormInv == ASSUME FormInv, NEW r \in FormCall, Loaded(r) PROVE FormInv'
<1>1. FormTypes /\ PutsAreOfThePage /\ OnePut /\ FormFollowsThePage /\ SavesCarryTheForm
      /\ UntypedIsTheRecord /\ PageIsInformed /\ UntouchedFieldsAreKept /\ TypedIsKept
  BY DEF FormInv
<1>2. /\ put[r].kind = "load" /\ put[r].phase = "ok" /\ Settled(r)
      /\ snap' = put[r].answer /\ skeleton' = "no"
      /\ form' = IF page.fills = "yes" THEN put[r].answer ELSE form
      /\ page' = page /\ record' = record /\ edit' = edit /\ dirty' = dirty /\ busy' = busy
      /\ typed' = typed /\ metForm' = metForm /\ wrong' = wrong
  BY DEF Loaded
<1>3. /\ put' \in [FormCall -> PutType] /\ put'[r] = NoPut
      /\ \A q \in FormCall : q # r => put'[q] = put[q]
      /\ page # GeneralSettingsPage
           => \A q \in FormCall : put'[q] = NoPut \/ put'[q].kind = "none"
  BY <1>1, <1>2, SettledFacts
<1>4. page # GeneralSettingsPage => \A q \in FormCall : put'[q].kind = "none"
  BY <1>3, EmptyForms
<1>5. put[r].answer \in [Field -> Edits] /\ page \in FormPages BY <1>1, PutFields DEF FormTypes
<1>6. page = GeneralSettingsPage => form' = form /\ skeleton = "no"
  BY <1>1, <1>2, <1>5, PageFacts DEF FormFollowsThePage, FormTypes
<1>7. /\ put'[r].kind = "none" /\ put'[r].phase = "none" /\ put'[r].body = NoBody
      /\ \A q \in FormCall : put'[q].kind # "none" => put'[q] = put[q] /\ q # r
  BY <1>3, EmptyForms
<1>8. FormTypes' BY <1>1, <1>2, <1>3, <1>5, EmptyForms DEF FormTypes
<1>9. PutsAreOfThePage'
  <2>1. \A q \in FormCall :
          /\ put'[q].kind = "none" <=> put'[q].phase = "none"
          /\ put'[q].kind # "save" => put'[q].body = NoBody
    BY <1>1, <1>3, <1>7 DEF PutsAreOfThePage
  <2> QED BY <2>1, <1>1, <1>2, <1>4, <1>7 DEF PutsAreOfThePage
<1>10. OnePut' BY <1>1, <1>2, <1>7 DEF OnePut
<1>11. FormFollowsThePage' BY <1>1, <1>2 DEF FormFollowsThePage
<1>12. SavesCarryTheForm' BY <1>1, <1>2, <1>4, <1>6, <1>7 DEF SavesCarryTheForm
<1>13. RecordIsOurs' <=> RecordIsOurs BY <1>2 DEF RecordIsOurs
<1>14. ASSUME RecordIsOurs, "loads" \notin metForm, ~SaveServed PROVE put[r].answer = record
  BY <1>14, <1>1, <1>2 DEF PageIsInformed
<1>15. ASSUME RecordIsOurs, page \in {ApiKeysSection, MarkerSettingsSection}
       PROVE  form' = record
  <2>1. page # GeneralSettingsPage /\ page.fills = "yes" BY <1>5, <1>15, PageFacts
  <2>2. "loads" \notin metForm BY <2>1, <1>1 DEF FormFollowsThePage
  <2>3. ~SaveServed BY <2>1, <1>1, <1>2 DEF OnePut, SaveServed
  <2> QED BY <2>1, <2>2, <2>3, <1>2, <1>14, <1>15
<1>16. page = ServerPermissionsPage => dirty # "yes"
  BY <1>1, <1>2, <1>5, PageFacts DEF PutsAreOfThePage
<1>17. UntypedIsTheRecord'
  <2>1. CASE page = GeneralSettingsPage
    BY <2>1, <1>1, <1>2, <1>6, <1>7, <1>13, PageFacts DEF UntypedIsTheRecord
  <2>2. CASE page # GeneralSettingsPage
    <3>1. page \in {ApiKeysSection, MarkerSettingsSection, ServerPermissionsPage,
                    ServerSecuritySettingsPage}
      BY <2>2, <1>5 DEF FormPages
    <3>2. \A q \in FormCall : put'[q].kind # "save" BY <2>2, <1>4
    <3> QED BY <3>1, <3>2, <1>2, <1>13, <1>15, <1>16 DEF UntypedIsTheRecord
  <2> QED BY <2>1, <2>2
<1>18. PageIsInformed'
  <2>1. SaveServed => SaveServed' BY <1>2, <1>3 DEF SaveServed
  <2>2. RecordIsOurs /\ "loads" \notin metForm => \A q \in FormCall : put'[q].kind # "load"
    BY <1>1, <1>2, <1>7 DEF PageIsInformed
  <2> QED BY <2>1, <2>2, <1>2, <1>13, <1>14 DEF PageIsInformed
<1> QED BY <1>1, <1>2, <1>8, <1>9, <1>10, <1>11, <1>12, <1>17, <1>18, ExcusesStay DEF FormInv

LEMMA MissedKeepsFormInv == ASSUME FormInv, NEW r \in FormCall, Missed(r) PROVE FormInv'
<1>1. FormTypes /\ PutsAreOfThePage /\ OnePut /\ FormFollowsThePage /\ SavesCarryTheForm
      /\ UntouchedFieldsAreKept /\ TypedIsKept
  BY DEF FormInv
<1>2. /\ put[r].kind # "none" /\ Settled(r) /\ skeleton' = "no"
      /\ busy' = IF Updating(r) THEN "no" ELSE busy
      /\ form' = IF page = MarkerSettingsSection /\ put[r].kind = "load" THEN snap ELSE form
      /\ metForm' = metForm \cup {"missed"} /\ page' = page /\ record' = record
      /\ edit' = edit /\ snap' = snap /\ dirty' = dirty /\ typed' = typed /\ wrong' = wrong
  BY DEF Missed
<1>3. /\ put' \in [FormCall -> PutType] /\ put'[r] = NoPut
      /\ \A q \in FormCall : q # r => put'[q] = put[q]
      /\ page # GeneralSettingsPage
           => \A q \in FormCall : put'[q] = NoPut \/ put'[q].kind = "none"
  BY <1>1, <1>2, SettledFacts
<1>4. page # GeneralSettingsPage => \A q \in FormCall : put'[q].kind = "none"
  BY <1>3, EmptyForms
<1>5. /\ put'[r].kind = "none" /\ put'[r].phase = "none" /\ put'[r].body = NoBody
      /\ \A q \in FormCall : put'[q].kind # "none" => put'[q] = put[q] /\ q # r
  BY <1>3, EmptyForms
<1>6. form' \in [Field -> Edits] /\ (page = GeneralSettingsPage => form' = form)
  BY <1>1, <1>2, PageFacts DEF FormTypes
<1>7. FormTypes' BY <1>1, <1>2, <1>3, <1>6 DEF FormTypes
<1>8. PutsAreOfThePage'
  <2>1. \A q \in FormCall :
          /\ put'[q].kind = "none" <=> put'[q].phase = "none"
          /\ put'[q].kind # "save" => put'[q].body = NoBody
    BY <1>1, <1>3, <1>5 DEF PutsAreOfThePage
  <2> QED BY <2>1, <1>1, <1>2, <1>4, <1>5 DEF PutsAreOfThePage
<1>9. OnePut' BY <1>1, <1>2, <1>5 DEF OnePut
<1>10. FormFollowsThePage' BY <1>1, <1>2 DEF FormFollowsThePage
<1>11. SavesCarryTheForm' BY <1>1, <1>2, <1>4, <1>5, <1>6 DEF SavesCarryTheForm
<1>12. ~RecordIsOurs' BY <1>2 DEF RecordIsOurs
<1> QED BY <1>1, <1>2, <1>7, <1>8, <1>9, <1>10, <1>11, <1>12, ExcusesStay
        DEF FormInv, UntypedIsTheRecord, PageIsInformed

LEMMA FormStep == FormInv /\ [FormNext]_forms => FormInv'
<1> SUFFICES ASSUME FormInv, [FormNext]_forms PROVE FormInv' OBVIOUS
<1>1. CASE UNCHANGED forms
  BY <1>1 DEF forms, FormInv, FormTypes, PutsAreOfThePage, OnePut, FormFollowsThePage,
     FormQuiet, Putting, SavesCarryTheForm, UntypedIsTheRecord, RecordIsOurs, PageIsInformed,
     SaveServed, UntouchedFieldsAreKept, TypedIsKept
<1>2. ASSUME NEW f \in Field, Edit(f) PROVE FormInv' BY <1>2, EditKeepsFormInv
<1>3. ASSUME NEW f \in Field, Clear(f) PROVE FormInv' BY <1>3, ClearKeepsFormInv
<1>4. ASSUME NEW f \in Field, ChangeByAnother(f) PROVE FormInv' BY <1>4, ChangeKeepsFormInv
<1>5. CASE Discard BY <1>5, DiscardKeepsFormInv
<1>6. CASE handleSave BY <1>6, handleSaveKeepsFormInv
<1>7. CASE handleToggleMFA BY <1>7, handleToggleMFAKeepsFormInv
<1>8. ASSUME NEW c \in Card, SaveOtherCard(c) PROVE FormInv' BY <1>8, SaveOtherCardKeepsFormInv
<1>9. ASSUME NEW r \in FormCall, Serve(r) PROVE FormInv' BY <1>9, ServeKeepsFormInv
<1>10. ASSUME NEW r \in FormCall, Saved(r) PROVE FormInv' BY <1>10, SavedKeepsFormInv
<1>11. ASSUME NEW r \in FormCall, ProfileSaved(r) PROVE FormInv'
  BY <1>11, ProfileSavedKeepsFormInv
<1>12. ASSUME NEW r \in FormCall, MarkerSaved(r) PROVE FormInv'
  BY <1>12, MarkerSavedKeepsFormInv
<1>13. ASSUME NEW r \in FormCall, Loaded(r) PROVE FormInv' BY <1>13, LoadedKeepsFormInv
<1>14. ASSUME NEW r \in FormCall, Missed(r) PROVE FormInv' BY <1>14, MissedKeepsFormInv
<1> QED BY <1>1, <1>2, <1>3, <1>4, <1>5, <1>6, <1>7, <1>8, <1>9, <1>10, <1>11, <1>12, <1>13,
           <1>14 DEF FormNext

\* With nothing under way the inputs are shown, and the page is informed.
LEMMA FormInvImplies == FormInv => UntouchedFieldsAreKept /\ TypedIsKept /\ FormsShowTheRecord
<1> SUFFICES ASSUME FormInv, FormQuiet, typed = {},
                    metForm \cap {"other", "missed", "saves", "loads"} = {}
             PROVE  /\ snap = record
                    /\ page \notin {ServerPermissionsPage, ServerSecuritySettingsPage}
                         => form = record
  BY DEF FormInv, FormsShowTheRecord
<1>1. FormTypes /\ FormFollowsThePage /\ UntypedIsTheRecord /\ PageIsInformed
  BY DEF FormInv
<1>2. RecordIsOurs /\ "loads" \notin metForm BY DEF RecordIsOurs
<1>3. skeleton = "no" BY <1>1 DEF FormTypes, FormFollowsThePage
<1>4. \A r \in FormCall : put[r].kind \notin {"save", "load"} BY DEF FormQuiet, Putting
<1>5. snap = record BY <1>1, <1>2, <1>4 DEF PageIsInformed, SaveServed
<1>6. ASSUME page \notin {ServerPermissionsPage, ServerSecuritySettingsPage}
      PROVE  form = record
  <2>1. \A f \in Field : form[f] = record[f] BY <1>1, <1>2, <1>3, <1>6 DEF UntypedIsTheRecord
  <2>2. form \in [Field -> Edits] /\ record \in [Field -> Edits] BY <1>1 DEF FormTypes
  <2> QED BY <2>1, <2>2
<1> QED BY <1>5, <1>6

-----------------------------------------------------------------------------
(* The second factors: the dialogs, the requests under way and the server  *)

AskKinds == {"none", "list", "begin", "verify", "register", "prompt", "finish", "regenerate",
             "delete", "toggle"}
AskType == [kind : AskKinds, phase : {"none", "sent", "ok", "shown"}, gen : Nat,
            about : SUBSET Method]
StepType(steps) == [step : steps, codes : Nat]
Registration == {"register", "prompt", "finish"}

MfaTypes ==
    /\ methods \in SUBSET Method /\ listed \in SUBSET Method
    /\ gen \in Nat /\ made \in Nat
    /\ open \in {"none", "totp", "webauthn", "regenerate"}
    /\ totp \in StepType({"name", "scan", "verify", "recovery"})
    /\ webauthn \in StepType({"name", "waiting", "recovery"})
    /\ codes \in Nat /\ stale \in {"yes", "no"}
    /\ ask \in [Ask -> AskType]

\* Codes come with the answers that show them; the buttons of a dialog are off while
\* its request is under way, and its codes come last.
AsksInOrder ==
    /\ \A a \in Ask :
         /\ ask[a].kind = "none" => ask[a] = NoAsk
         /\ ask[a].phase = "shown" <=> ask[a].kind = "prompt"
         /\ ask[a].gen # 0 => ask[a].phase = "ok"
                                /\ ask[a].kind \in {"verify", "finish", "regenerate"}
         /\ ask[a].kind \in {"begin", "verify"} => totp.step # "recovery"
         /\ ask[a].kind = "regenerate" => codes = 0
    /\ \A a, b \in Ask :
         \/ ask[a].kind \in {"begin", "verify"} /\ ask[b].kind \in {"begin", "verify"}
         \/ ask[a].kind = "regenerate" /\ ask[b].kind = "regenerate"
         => a = b
    /\ totp.step = "recovery" => totp.codes # 0
    /\ webauthn.step = "recovery" => webauthn.codes # 0

\* Unless a second registration was begun: there is one, and no codes of another.
OneRegistration ==
    "runs" \notin metMfa =>
        /\ \A a, b \in Ask : ask[a].kind \in Registration /\ ask[b].kind \in Registration
                               => a = b
        /\ \A a \in Ask : ask[a].kind \in Registration => webauthn.step # "recovery"

\* Unless a dialog was closed with its request under way: what asks, and what shows
\* codes, is open.
DialogsStayOpen ==
    "left" \notin metMfa =>
        /\ "runs" \notin metMfa
        /\ \A a \in Ask :
             /\ ask[a].kind \in {"begin", "verify"} => open = "totp"
             /\ ask[a].kind \in Registration => open = "webauthn" /\ webauthn.step = "waiting"
             /\ ask[a].kind = "regenerate" => open = "regenerate"
        /\ totp.step = "recovery" => open = "totp"
        /\ webauthn.step = "recovery" => open = "webauthn"
        /\ codes # 0 => open = "regenerate"

\* The codes in force are confirmed, shown, or in an answer.
CodesAreHeld ==
    \/ gen \in kept \/ gen = codes
    \/ totp.step = "recovery" /\ totp.codes = gen
    \/ webauthn.step = "recovery" /\ webauthn.codes = gen
    \/ \E a \in Ask : ask[a].gen = gen

CodesStayInHand ==
    metMfa \cap {"discarded", "failed", "runs"} = {} /\ gen # 0 => CodesAreHeld

\* And unless a method was being removed as a dialog was opened: what is shown, or
\* about to be, is in force.
ShownCodesAreInForce ==
    metMfa \cap {"left", "delete"} = {} =>
        /\ stale = "no"
        /\ open # "none" => \A a \in Ask : ask[a].kind # "delete"
        /\ \A a \in Ask : ask[a].gen \in {0, gen}
        /\ totp.step = "recovery" => totp.codes = gen
        /\ webauthn.step = "recovery" => webauthn.codes = gen
        /\ codes \in {0, gen}

\* A change whose answer, or whose codes, will be followed by a fetch of the list.
ToBeListed ==
    \/ \E a \in Ask : ask[a].kind \in {"verify", "finish", "delete"} /\ ask[a].phase = "ok"
    \/ totp.step = "recovery" \/ webauthn.step = "recovery"

ListFollowsMethods ==
    metMfa \cap {"discarded", "failed", "lists", "left", "runs"} = {} =>
        /\ \A a, b \in Ask : ask[a].kind = "list" /\ ask[b].kind = "list" => a = b
        /\ ~ToBeListed =>
             /\ \A a \in Ask : ask[a].kind = "list" /\ ask[a].phase = "ok"
                                 => ask[a].about = methods
             /\ (\A a \in Ask : ask[a].kind # "list") => listed = methods

MfaInv == /\ MfaTypes /\ AsksInOrder /\ OneRegistration /\ DialogsStayOpen
          /\ CodesStayInHand /\ ShownCodesAreInForce /\ ListFollowsMethods

LEMMA NoAskFacts ==
    /\ NoAsk \in AskType /\ NoAsk.kind = "none" /\ NoAsk.phase = "none" /\ NoAsk.gen = 0
    /\ AtName \in StepType({"name", "scan", "verify", "recovery"})
    /\ AtName \in StepType({"name", "waiting", "recovery"}) /\ AtName.step = "name"
BY DEF NoAsk, AskType, AskKinds, AtName, StepType

LEMMA AskFields ==
    ASSUME MfaTypes, NEW a \in Ask
    PROVE  /\ ask[a] \in AskType /\ ask[a].kind \in AskKinds
           /\ ask[a].phase \in {"none", "sent", "ok", "shown"}
           /\ ask[a].gen \in Nat /\ ask[a].about \in SUBSET Method
BY DEF MfaTypes, AskType

\* One request changes.
LEMMA AskOne ==
    ASSUME MfaTypes, NEW a \in Ask, NEW n \in AskType, ask' = [ask EXCEPT ![a] = n]
    PROVE  /\ ask' \in [Ask -> AskType] /\ ask'[a] = n
           /\ \A q \in Ask : q # a => ask'[q] = ask[q]
BY DEF MfaTypes

LEMMA AskEnds ==
    ASSUME MfaTypes, NEW a \in Ask, ask' = Ended(a)
    PROVE  /\ ask' \in [Ask -> AskType] /\ ask'[a] = NoAsk
           /\ ask'[a].kind = "none" /\ ask'[a].phase = "none" /\ ask'[a].gen = 0
           /\ \A q \in Ask : q # a => ask'[q] = ask[q]
<1>1. ask' = [ask EXCEPT ![a] = NoAsk] BY DEF Ended
<1> QED BY <1>1, NoAskFacts, AskOne

LEMMA AskAnswers ==
    ASSUME MfaTypes, NEW a \in Ask, NEW g \in Nat, AnswerMfa(a, g)
    PROVE  /\ ask' \in [Ask -> AskType] /\ ask'[a].kind = ask[a].kind
           /\ ask'[a].phase = "ok" /\ ask'[a].gen = g
           /\ ask[a].kind = "list" => ask'[a].about = methods
           /\ \A q \in Ask : q # a => ask'[q] = ask[q]
<1> DEFINE there == IF ask[a].kind = "list" THEN methods ELSE ask[a].about
           n == [ask[a] EXCEPT !.phase = "ok", !.gen = g, !.about = there]
<1>1. ask' = [ask EXCEPT ![a] = n] BY DEF AnswerMfa
<1>2. there \in SUBSET Method BY AskFields DEF MfaTypes
<1> HIDE DEF there
<1>3. n \in AskType /\ n.kind = ask[a].kind /\ n.phase = "ok" /\ n.gen = g /\ n.about = there
  BY <1>2, AskFields DEF AskType
<1> HIDE DEF n
<1> QED BY <1>1, <1>3, AskOne DEF there

\* A request is sent: the one that is free is new.
LEMMA AskSent ==
    ASSUME NEW requests \in [Ask -> AskType], NEW kind \in AskKinds,
           NEW about \in SUBSET Method, AskAbout(requests, kind, about)
    PROVE  \E b \in Ask :
             /\ requests[b] = NoAsk /\ ask' \in [Ask -> AskType]
             /\ ask'[b].kind = kind /\ ask'[b].phase = "sent" /\ ask'[b].gen = 0
             /\ \A q \in Ask : q # b => ask'[q] = requests[q]
<1> DEFINE n == [NoAsk EXCEPT !.kind = kind, !.phase = "sent", !.about = about]
<1>1. PICK b \in Ask : requests[b] = NoAsk /\ ask' = [requests EXCEPT ![b] = n]
  BY DEF AskAbout
<1>2. n \in AskType /\ n.kind = kind /\ n.phase = "sent" /\ n.gen = 0
  BY NoAskFacts DEF AskType, NoAsk
<1> HIDE DEF n
<1>3. /\ ask' \in [Ask -> AskType] /\ ask'[b] = n
      /\ \A q \in Ask : q # b => ask'[q] = requests[q]
  BY <1>1, <1>2
<1> QED BY <1>1, <1>2, <1>3

\* What stays of the requests when the list is fetched again, and some of them end.
Refetched(ended) ==
    /\ ask' \in [Ask -> AskType]
    /\ \E q \in Ask : ask'[q].kind = "list"
    /\ \A q \in Ask : \/ ask'[q].kind = "none" /\ ask'[q] = NoAsk
                      \/ ask'[q].kind = "list" /\ ask'[q].phase = "sent" /\ ask'[q].gen = 0
                      \/ ask'[q] = ask[q] /\ q \notin ended
    /\ \A q \in Ask : q \notin ended /\ ask[q].kind # "none" => ask'[q] = ask[q]
    /\ (\A q \in Ask : ask[q].kind # "list") =>
          \A q, p \in Ask : ask'[q].kind = "list" /\ ask'[p].kind = "list"
                              => q = p /\ ask'[q].phase = "sent"

LEMMA RefetchedAlone ==
    ASSUME MfaTypes, Refetch(ask)
    PROVE  Refetched({})
<1>1. ask \in [Ask -> AskType] /\ AskAbout(ask, "list", {})
  BY DEF MfaTypes, Refetch, AskServer
<1>2. "list" \in AskKinds BY DEF AskKinds
<1>3. PICK b \in Ask :
             /\ ask[b] = NoAsk /\ ask' \in [Ask -> AskType]
             /\ ask'[b].kind = "list" /\ ask'[b].phase = "sent" /\ ask'[b].gen = 0
             /\ \A q \in Ask : q # b => ask'[q] = ask[q]
  BY <1>1, <1>2, AskSent
<1> QED BY <1>3, NoAskFacts DEF Refetched

LEMMA RefetchedAfter ==
    ASSUME MfaTypes, NEW a \in Ask, ask[a].kind # "list", Refetch(Ended(a))
    PROVE  Refetched({a})
<1> DEFINE requests == Ended(a)
<1>1. /\ requests \in [Ask -> AskType] /\ requests[a] = NoAsk
      /\ \A q \in Ask : q # a => requests[q] = ask[q]
  BY NoAskFacts DEF MfaTypes, Ended
<1>2. AskAbout(requests, "list", {}) BY DEF Refetch, AskServer
<1> HIDE DEF requests
<1>3. "list" \in AskKinds BY DEF AskKinds
<1>4. PICK b \in Ask :
             /\ requests[b] = NoAsk /\ ask' \in [Ask -> AskType]
             /\ ask'[b].kind = "list" /\ ask'[b].phase = "sent" /\ ask'[b].gen = 0
             /\ \A q \in Ask : q # b => ask'[q] = requests[q]
  BY <1>1, <1>2, <1>3, AskSent
<1>5. \A q \in Ask : q # b => ask'[q] = IF q = a THEN NoAsk ELSE ask[q] BY <1>1, <1>4
<1>6. b = a \/ ask[b] = NoAsk BY <1>1, <1>4
<1> QED BY <1>4, <1>5, <1>6, NoAskFacts DEF Refetched

LEMMA MetListsFacts ==
    ASSUME metMfa' = metMfa \cup MetLists
    PROVE  /\ metMfa \subseteq metMfa' /\ metMfa' \subseteq metMfa \cup {"lists"}
           /\ "lists" \notin metMfa' => \A q \in Ask : ask[q].kind # "list"
BY DEF MetLists, Asking

LEMMA ListFollowsRefetch ==
    ASSUME NEW ended, Refetched(ended), metMfa' = metMfa \cup MetLists
    PROVE  ListFollowsMethods'
BY MetListsFacts DEF ListFollowsMethods, Refetched

LEMMA MfaStarts == MfaInit => MfaInv
<1> SUFFICES ASSUME MfaInit PROVE MfaInv OBVIOUS
<1> DEFINE first == [NoAsk EXCEPT !.kind = "list", !.phase = "sent"]
<1>1. first \in AskType /\ first.kind = "list" /\ first.phase = "sent" /\ first.gen = 0
  BY NoAskFacts DEF AskType, AskKinds, NoAsk
<1>2. PICK b \in Ask : ask = [x \in Ask |-> IF x = b THEN first ELSE NoAsk]
  BY DEF MfaInit
<1> HIDE DEF first
<1>3. /\ ask \in [Ask -> AskType] /\ ask[b] = first
      /\ \A q \in Ask : q # b => ask[q] = NoAsk
  BY <1>1, <1>2, NoAskFacts
<1>4. /\ methods \in SUBSET Method /\ made = 0 /\ gen = 0 /\ listed = {} /\ open = "none"
      /\ totp = AtName /\ webauthn = AtName /\ codes = 0 /\ metMfa = {} /\ stale = "no"
  BY DEF MfaInit
<1>5. MfaTypes BY <1>3, <1>4, NoAskFacts DEF MfaTypes
<1>6. \A q \in Ask : /\ ask[q].kind \in {"list", "none"} /\ ask[q].phase \in {"sent", "none"}
                     /\ ask[q].gen = 0 /\ (ask[q].kind = "none" => ask[q] = NoAsk)
                     /\ (ask[q].kind = "list" => q = b)
  BY <1>1, <1>3, NoAskFacts
<1>7. AsksInOrder BY <1>4, <1>6, NoAskFacts DEF AsksInOrder
<1>8. OneRegistration BY <1>6 DEF OneRegistration, Registration
<1>9. DialogsStayOpen BY <1>4, <1>6, NoAskFacts DEF DialogsStayOpen, Registration
<1>10. CodesStayInHand BY <1>4 DEF CodesStayInHand
<1>11. ShownCodesAreInForce BY <1>4, <1>6, NoAskFacts DEF ShownCodesAreInForce
<1>12. ListFollowsMethods BY <1>1, <1>3, <1>6 DEF ListFollowsMethods
<1> QED BY <1>5, <1>7, <1>8, <1>9, <1>10, <1>11, <1>12 DEF MfaInv

-----------------------------------------------------------------------------
(* The user of the dialogs                                                  *)

LEMMA OpenKeepsMfaInv == ASSUME MfaInv, NEW d \in {"totp", "webauthn", "regenerate"},
                                OpenDialog(d) PROVE MfaInv'
<1>1. MfaTypes /\ AsksInOrder /\ OneRegistration /\ DialogsStayOpen
      /\ CodesStayInHand /\ ShownCodesAreInForce /\ ListFollowsMethods
  BY DEF MfaInv
<1>2. /\ open = "none" /\ open' = d
      /\ metMfa' = metMfa \cup IF Asking({"delete"}) THEN {"delete"} ELSE {}
      /\ methods' = methods /\ gen' = gen /\ made' = made /\ listed' = listed
      /\ totp' = totp /\ webauthn' = webauthn /\ codes' = codes /\ ask' = ask
      /\ kept' = kept /\ stale' = stale
  BY DEF OpenDialog
<1>3. /\ metMfa \subseteq metMfa' /\ metMfa' \subseteq metMfa \cup {"delete"}
      /\ "delete" \notin metMfa' => \A q \in Ask : ask[q].kind # "delete"
  BY <1>2 DEF Asking
<1>4. MfaTypes' BY <1>1, <1>2 DEF MfaTypes
<1>5. AsksInOrder' BY <1>1, <1>2 DEF AsksInOrder
<1>6. OneRegistration' BY <1>1, <1>2, <1>3 DEF OneRegistration
<1>7. DialogsStayOpen' BY <1>1, <1>2, <1>3 DEF DialogsStayOpen
<1>8. CodesStayInHand' BY <1>1, <1>2, <1>3 DEF CodesStayInHand, CodesAreHeld
<1>9. ShownCodesAreInForce' BY <1>1, <1>2, <1>3 DEF ShownCodesAreInForce
<1>10. ListFollowsMethods' BY <1>1, <1>2, <1>3 DEF ListFollowsMethods, ToBeListed
<1> QED BY <1>4, <1>5, <1>6, <1>7, <1>8, <1>9, <1>10 DEF MfaInv

\* A button of a dialog, or of a row.
LEMMA ButtonKeepsMfaInv ==
    ASSUME MfaInv, NEW kind \in {"begin", "verify", "regenerate", "delete", "toggle"},
           NEW about \in SUBSET Method, AskAbout(ask, kind, about),
           kind \in {"begin", "verify"} =>
             open = "totp" /\ totp.step # "recovery" /\ ~Asking({"begin", "verify"}),
           kind = "regenerate" => open = "regenerate" /\ codes = 0 /\ ~Asking({"regenerate"}),
           kind = "delete" => open = "none",
           UNCHANGED <<methods, gen, made, listed, listLoading, open, totp, webauthn, codes,
                       keyLoading, kept, metMfa, stale>>
    PROVE  MfaInv'
<1>1. MfaTypes /\ AsksInOrder /\ OneRegistration /\ DialogsStayOpen
      /\ CodesStayInHand /\ ShownCodesAreInForce /\ ListFollowsMethods
  BY DEF MfaInv
<1>2. /\ methods' = methods /\ gen' = gen /\ made' = made /\ listed' = listed /\ open' = open
      /\ totp' = totp /\ webauthn' = webauthn /\ codes' = codes /\ kept' = kept
      /\ metMfa' = metMfa /\ stale' = stale
  OBVIOUS
<1>3. ask \in [Ask -> AskType] /\ kind \in AskKinds BY <1>1 DEF MfaTypes, AskKinds
<1>4. PICK b \in Ask :
             /\ ask[b] = NoAsk /\ ask' \in [Ask -> AskType]
             /\ ask'[b].kind = kind /\ ask'[b].phase = "sent" /\ ask'[b].gen = 0
             /\ \A q \in Ask : q # b => ask'[q] = ask[q]
  BY <1>3, AskSent
<1>5. /\ kind \in {"begin", "verify"} => \A q \in Ask : ask[q].kind \notin {"begin", "verify"}
      /\ kind = "regenerate" => \A q \in Ask : ask[q].kind # "regenerate"
  BY DEF Asking
<1>6. MfaTypes' BY <1>1, <1>2, <1>4 DEF MfaTypes
<1>7. AsksInOrder' BY <1>1, <1>2, <1>4, <1>5 DEF AsksInOrder
<1>8. OneRegistration' BY <1>1, <1>2, <1>4 DEF OneRegistration, Registration
<1>9. DialogsStayOpen' BY <1>1, <1>2, <1>4 DEF DialogsStayOpen, Registration
<1>10. CodesStayInHand' BY <1>1, <1>2, <1>4, NoAskFacts DEF CodesStayInHand, CodesAreHeld
<1>11. ShownCodesAreInForce' BY <1>1, <1>2, <1>4 DEF ShownCodesAreInForce
<1>12. ListFollowsMethods' BY <1>1, <1>2, <1>4, NoAskFacts DEF ListFollowsMethods, ToBeListed
<1> QED BY <1>6, <1>7, <1>8, <1>9, <1>10, <1>11, <1>12 DEF MfaInv

LEMMA RegisterKeepsMfaInv == ASSUME MfaInv, handleRegister PROVE MfaInv'
<1>1. MfaTypes /\ AsksInOrder /\ OneRegistration /\ DialogsStayOpen
      /\ CodesStayInHand /\ ShownCodesAreInForce /\ ListFollowsMethods
  BY DEF MfaInv
<1>2. /\ open = "webauthn" /\ webauthn.step = "name"
      /\ webauthn' = [webauthn EXCEPT !.step = "waiting"] /\ AskAbout(ask, "register", {})
      /\ metMfa' = metMfa \cup IF Asking({"register", "prompt", "finish"}) THEN {"runs"} ELSE {}
      /\ methods' = methods /\ gen' = gen /\ made' = made /\ listed' = listed /\ open' = open
      /\ totp' = totp /\ codes' = codes /\ kept' = kept /\ stale' = stale
  BY DEF handleRegister, AskServer
<1>3. /\ metMfa \subseteq metMfa' /\ metMfa' \subseteq metMfa \cup {"runs"}
      /\ "runs" \notin metMfa' => \A q \in Ask : ask[q].kind \notin Registration
      /\ (\A q \in Ask : ask[q].kind \notin Registration) => metMfa' = metMfa
  BY <1>2 DEF Asking, Registration
<1>4. ask \in [Ask -> AskType] /\ "register" \in AskKinds BY <1>1 DEF MfaTypes, AskKinds
<1>5. PICK b \in Ask :
             /\ ask[b] = NoAsk /\ ask' \in [Ask -> AskType]
             /\ ask'[b].kind = "register" /\ ask'[b].phase = "sent" /\ ask'[b].gen = 0
             /\ \A q \in Ask : q # b => ask'[q] = ask[q]
  BY <1>2, <1>4, AskSent
<1>6. webauthn' \in StepType({"name", "waiting", "recovery"}) /\ webauthn'.step = "waiting"
  BY <1>1, <1>2 DEF MfaTypes, StepType
<1>7. MfaTypes' BY <1>1, <1>2, <1>5, <1>6 DEF MfaTypes
<1>8. AsksInOrder' BY <1>1, <1>2, <1>5, <1>6 DEF AsksInOrder
<1>9. OneRegistration' BY <1>1, <1>2, <1>3, <1>5, <1>6 DEF OneRegistration, Registration
<1>10. DialogsStayOpen'
  <2>1. "left" \notin metMfa' => \A q \in Ask : ask[q].kind \notin Registration
    BY <1>1, <1>2, <1>3 DEF DialogsStayOpen
  <2> QED BY <2>1, <1>1, <1>2, <1>3, <1>5, <1>6 DEF DialogsStayOpen, Registration
<1>11. CodesStayInHand'
  BY <1>1, <1>2, <1>3, <1>5, NoAskFacts DEF CodesStayInHand, CodesAreHeld
<1>12. ShownCodesAreInForce' BY <1>1, <1>2, <1>3, <1>5, <1>6 DEF ShownCodesAreInForce
<1>13. ListFollowsMethods'
  BY <1>1, <1>2, <1>3, <1>5, <1>6, NoAskFacts DEF ListFollowsMethods, ToBeListed
<1> QED BY <1>7, <1>8, <1>9, <1>10, <1>11, <1>12, <1>13 DEF MfaInv

LEMMA TurnKeepsMfaInv == ASSUME MfaInv, TurnStep PROVE MfaInv'
<1>1. MfaTypes /\ AsksInOrder /\ OneRegistration /\ DialogsStayOpen
      /\ CodesStayInHand /\ ShownCodesAreInForce /\ ListFollowsMethods
  BY DEF MfaInv
<1>2. /\ totp.step \in {"scan", "verify"}
      /\ \E to \in {"name", "scan", "verify"} : totp' = [totp EXCEPT !.step = to]
      /\ methods' = methods /\ gen' = gen /\ made' = made /\ listed' = listed /\ open' = open
      /\ webauthn' = webauthn /\ codes' = codes /\ ask' = ask /\ kept' = kept
      /\ metMfa' = metMfa /\ stale' = stale
  BY DEF TurnStep
<1>3. totp' \in StepType({"name", "scan", "verify", "recovery"}) /\ totp'.step # "recovery"
  BY <1>1, <1>2 DEF MfaTypes, StepType
<1>4. MfaTypes' BY <1>1, <1>2, <1>3 DEF MfaTypes
<1>5. AsksInOrder' BY <1>1, <1>2, <1>3 DEF AsksInOrder
<1>6. OneRegistration' BY <1>1, <1>2 DEF OneRegistration
<1>7. DialogsStayOpen' BY <1>1, <1>2, <1>3 DEF DialogsStayOpen
<1>8. CodesStayInHand' BY <1>1, <1>2 DEF CodesStayInHand, CodesAreHeld
<1>9. ShownCodesAreInForce' BY <1>1, <1>2, <1>3 DEF ShownCodesAreInForce
<1>10. ListFollowsMethods' BY <1>1, <1>2, <1>3 DEF ListFollowsMethods, ToBeListed
<1> QED BY <1>4, <1>5, <1>6, <1>7, <1>8, <1>9, <1>10 DEF MfaInv

\* A dialog that is closed holds nothing; the others hold what they held.
LEMMA ResetFacts ==
    ASSUME MfaTypes, NEW d, Reset(d)
    PROVE  /\ totp' \in StepType({"name", "scan", "verify", "recovery"})
           /\ webauthn' \in StepType({"name", "waiting", "recovery"}) /\ codes' \in Nat
           /\ totp' = totp \/ (totp'.step = "name" /\ d = "totp")
           /\ webauthn' = webauthn \/ (webauthn'.step = "name" /\ d = "webauthn")
           /\ codes' = codes \/ (codes' = 0 /\ d = "regenerate")
           /\ d = "totp" => totp'.step # "recovery"
           /\ d = "webauthn" => webauthn'.step # "recovery"
           /\ d = "regenerate" => codes' = 0
BY NoAskFacts DEF MfaTypes, Reset

LEMMA CloseKeepsMfaInv == ASSUME MfaInv, Close PROVE MfaInv'
<1>1. MfaTypes /\ AsksInOrder /\ OneRegistration /\ DialogsStayOpen
      /\ CodesStayInHand /\ ShownCodesAreInForce /\ ListFollowsMethods
  BY DEF MfaInv
<1>2. /\ open # "none" /\ open' = "none" /\ Reset(open)
      /\ metMfa' = metMfa \cup (IF ShownCodes # 0 THEN {"discarded"} ELSE {})
                          \cup (IF Asking(KindsOf(open)) THEN {"left"} ELSE {})
      /\ methods' = methods /\ gen' = gen /\ made' = made /\ listed' = listed /\ ask' = ask
      /\ kept' = kept /\ stale' = stale
  BY DEF Close
<1>3. /\ metMfa \subseteq metMfa' /\ metMfa' \subseteq metMfa \cup {"discarded", "left"}
      /\ "discarded" \notin metMfa' => ShownCodes = 0
      /\ "left" \notin metMfa' => \A q \in Ask : ask[q].kind \notin KindsOf(open)
  BY <1>2 DEF Asking
<1>4. /\ totp' \in StepType({"name", "scan", "verify", "recovery"})
      /\ webauthn' \in StepType({"name", "waiting", "recovery"}) /\ codes' \in Nat
      /\ totp' = totp \/ (totp'.step = "name" /\ open = "totp")
      /\ webauthn' = webauthn \/ (webauthn'.step = "name" /\ open = "webauthn")
      /\ codes' = codes \/ (codes' = 0 /\ open = "regenerate")
      /\ open = "totp" => totp'.step # "recovery"
      /\ open = "webauthn" => webauthn'.step # "recovery"
      /\ open = "regenerate" => codes' = 0
  BY <1>1, <1>2, ResetFacts
<1>5. /\ open = "totp" /\ totp.step = "recovery" => ShownCodes = totp.codes
      /\ open = "webauthn" /\ webauthn.step = "recovery" => ShownCodes = webauthn.codes
      /\ open = "regenerate" => ShownCodes = codes
  BY DEF ShownCodes
<1>6. /\ open = "totp" => KindsOf(open) = {"begin", "verify"}
      /\ open = "webauthn" => KindsOf(open) = Registration
      /\ open = "regenerate" => KindsOf(open) = {"regenerate"}
  BY DEF KindsOf, Registration
<1>7. MfaTypes' BY <1>1, <1>2, <1>4 DEF MfaTypes
<1>8. AsksInOrder' BY <1>1, <1>2, <1>4 DEF AsksInOrder
<1>9. OneRegistration' BY <1>1, <1>2, <1>3, <1>4 DEF OneRegistration
<1>10. DialogsStayOpen' BY <1>1, <1>2, <1>3, <1>4, <1>6 DEF DialogsStayOpen
<1>11. CodesStayInHand' BY <1>1, <1>2, <1>3, <1>4, <1>5 DEF CodesStayInHand, CodesAreHeld
<1>12. ShownCodesAreInForce' BY <1>1, <1>2, <1>3, <1>4 DEF ShownCodesAreInForce
<1>13. ListFollowsMethods'
  <2>1. "discarded" \notin metMfa' /\ ToBeListed => ToBeListed'
    BY <1>1, <1>2, <1>3, <1>4, <1>5 DEF AsksInOrder, ToBeListed
  <2> QED BY <2>1, <1>1, <1>2, <1>3 DEF ListFollowsMethods
<1> QED BY <1>7, <1>8, <1>9, <1>10, <1>11, <1>12, <1>13 DEF MfaInv

LEMMA DoneKeepsMfaInv == ASSUME MfaInv, handleRecoveryDone PROVE MfaInv'
<1>1. MfaTypes /\ AsksInOrder /\ OneRegistration /\ DialogsStayOpen
      /\ CodesStayInHand /\ ShownCodesAreInForce /\ ListFollowsMethods
  BY DEF MfaInv
<1>2. /\ ShownCodes # 0 /\ kept' = kept \cup {ShownCodes}
      /\ stale' = (IF ShownCodes # gen THEN "yes" ELSE stale)
      /\ open' = "none" /\ Reset(open)
      /\ IF open = "regenerate"
         THEN ask' = ask /\ metMfa' = metMfa
         ELSE Refetch(ask) /\ metMfa' = metMfa \cup MetLists
      /\ methods' = methods /\ gen' = gen /\ made' = made /\ listed' = listed
  BY DEF handleRecoveryDone
<1>3. /\ totp' \in StepType({"name", "scan", "verify", "recovery"})
      /\ webauthn' \in StepType({"name", "waiting", "recovery"}) /\ codes' \in Nat
      /\ totp' = totp \/ (totp'.step = "name" /\ open = "totp")
      /\ webauthn' = webauthn \/ (webauthn'.step = "name" /\ open = "webauthn")
      /\ codes' = codes \/ (codes' = 0 /\ open = "regenerate")
      /\ open = "totp" => totp'.step # "recovery"
      /\ open = "webauthn" => webauthn'.step # "recovery"
      /\ open = "regenerate" => codes' = 0
  BY <1>1, <1>2, ResetFacts
<1>4. \/ open = "totp" /\ totp.step = "recovery" /\ ShownCodes = totp.codes
      \/ open = "webauthn" /\ webauthn.step = "recovery" /\ ShownCodes = webauthn.codes
      \/ open = "regenerate" /\ ShownCodes = codes /\ codes # 0
  BY <1>2 DEF ShownCodes
<1>6. open # "regenerate" => Refetched({})
  BY <1>1, <1>2, RefetchedAlone
<1>7. /\ ask' \in [Ask -> AskType]
      /\ \A q \in Ask : \/ ask'[q].kind = "none" /\ ask'[q] = NoAsk
                        \/ ask'[q].kind = "list" /\ ask'[q].phase = "sent" /\ ask'[q].gen = 0
                        \/ ask'[q] = ask[q]
      /\ \A q \in Ask : ask[q].kind # "none" => ask'[q] = ask[q]
  BY <1>1, <1>2, <1>6 DEF MfaTypes, Refetched
<1>8. metMfa \subseteq metMfa' /\ metMfa' \subseteq metMfa \cup {"lists"}
  BY <1>2, MetListsFacts
<1>9. MfaTypes' BY <1>1, <1>2, <1>3, <1>7 DEF MfaTypes
<1>10. AsksInOrder' BY <1>1, <1>2, <1>3, <1>7, NoAskFacts DEF AsksInOrder
<1>11. OneRegistration' BY <1>1, <1>3, <1>7, <1>8 DEF OneRegistration, Registration
<1>12. DialogsStayOpen'
  <2> SUFFICES ASSUME "left" \notin metMfa
               PROVE  /\ "runs" \notin metMfa'
                      /\ \A q \in Ask :
                           ask'[q].kind \notin {"begin", "verify", "regenerate"} \cup Registration
                      /\ totp'.step # "recovery" /\ webauthn'.step # "recovery" /\ codes' = 0
    BY <1>8 DEF DialogsStayOpen
  <2>1. \A q \in Ask : ask[q].kind \notin {"begin", "verify", "regenerate"} \cup Registration
    BY <1>1, <1>4 DEF AsksInOrder, DialogsStayOpen
  <2>2. totp'.step # "recovery" /\ webauthn'.step # "recovery" /\ codes' = 0
    BY <1>1, <1>3 DEF DialogsStayOpen
  <2> QED BY <2>1, <2>2, <1>1, <1>7, <1>8 DEF DialogsStayOpen, Registration
<1>13. CodesStayInHand'
  <2> SUFFICES ASSUME metMfa \cap {"discarded", "failed", "runs"} = {}, gen # 0
               PROVE  CodesAreHeld'
    BY <1>2, <1>8 DEF CodesStayInHand
  <2>1. CodesAreHeld BY <1>1 DEF CodesStayInHand
  <2>2. \A q \in Ask : ask[q].gen = gen => ask'[q].gen = gen
    BY <1>1, <1>7, NoAskFacts DEF AsksInOrder
  <2> QED BY <2>1, <2>2, <1>2, <1>3, <1>4 DEF CodesAreHeld
<1>14. ShownCodesAreInForce'
  <2> SUFFICES ASSUME metMfa \cap {"left", "delete"} = {}
               PROVE  /\ stale' = "no" /\ \A q \in Ask : ask'[q].gen \in {0, gen}
                      /\ totp'.step = "recovery" => totp'.codes = gen
                      /\ webauthn'.step = "recovery" => webauthn'.codes = gen
                      /\ codes' \in {0, gen}
    BY <1>2, <1>8 DEF ShownCodesAreInForce
  <2>1. ShownCodes = gen BY <1>1, <1>4 DEF ShownCodesAreInForce
  <2> QED BY <2>1, <1>1, <1>2, <1>3, <1>7, NoAskFacts DEF ShownCodesAreInForce
<1>15. ListFollowsMethods'
  <2>1. CASE open = "regenerate"
    <3>1. ToBeListed => ToBeListed' BY <2>1, <1>2, <1>3 DEF ToBeListed
    <3> QED BY <2>1, <3>1, <1>1, <1>2 DEF ListFollowsMethods
  <2>2. CASE open # "regenerate" BY <2>2, <1>2, <1>6, ListFollowsRefetch
  <2> QED BY <2>1, <2>2
<1> QED BY <1>9, <1>10, <1>11, <1>12, <1>13, <1>14, <1>15 DEF MfaInv

-----------------------------------------------------------------------------
(* The server of the methods, and its answers                               *)

LEMMA ServeMethodKeepsMfaInv ==
    ASSUME MfaInv, NEW a \in Ask, ServeMethod(a) PROVE MfaInv'
<1>1. MfaTypes /\ AsksInOrder /\ OneRegistration /\ DialogsStayOpen
      /\ CodesStayInHand /\ ShownCodesAreInForce /\ ListFollowsMethods
  BY DEF MfaInv
<1>2. /\ ask[a].kind \in {"verify", "finish"} /\ ask[a].phase = "sent"
      /\ \E m \in Method : methods' = methods \cup {m}
      /\ IF methods = {}
         THEN made' = made + 1 /\ gen' = made + 1 /\ AnswerMfa(a, made + 1)
         ELSE made' = made /\ gen' = gen /\ AnswerMfa(a, 0)
      /\ listed' = listed /\ open' = open /\ totp' = totp /\ webauthn' = webauthn
      /\ codes' = codes /\ kept' = kept /\ metMfa' = metMfa /\ stale' = stale
  BY DEF ServeMethod
<1>3. methods' \in SUBSET Method /\ made \in Nat /\ made + 1 \in Nat \ {0} /\ gen \in Nat
  BY <1>1, <1>2 DEF MfaTypes
<1>4. PICK g \in Nat : /\ AnswerMfa(a, g)
                       /\ methods = {} => g = gen' /\ g # 0 /\ gen' \in Nat /\ made' \in Nat
                       /\ methods # {} => g = 0 /\ gen' = gen /\ made' = made
  BY <1>2, <1>3
<1>5. /\ ask' \in [Ask -> AskType] /\ ask'[a].kind = ask[a].kind
      /\ ask'[a].phase = "ok" /\ ask'[a].gen = g
      /\ \A q \in Ask : q # a => ask'[q] = ask[q]
  BY <1>1, <1>4, AskAnswers
<1>6. \A q \in Ask : ask'[q].kind = ask[q].kind BY <1>5
<1>7. ask[a].gen = 0 BY <1>1, <1>2 DEF AsksInOrder
<1>8. MfaTypes' BY <1>1, <1>2, <1>3, <1>4, <1>5 DEF MfaTypes
<1>9. AsksInOrder' BY <1>1, <1>2, <1>5, <1>6 DEF AsksInOrder
<1>10. OneRegistration' BY <1>1, <1>2, <1>6 DEF OneRegistration
<1>11. DialogsStayOpen' BY <1>1, <1>2, <1>6 DEF DialogsStayOpen
<1>12. CodesStayInHand'
  BY <1>1, <1>2, <1>4, <1>5, <1>7 DEF CodesStayInHand, CodesAreHeld
<1>13. ShownCodesAreInForce'
  <2> SUFFICES ASSUME metMfa \cap {"left", "delete"} = {}
               PROVE  /\ stale = "no"
                      /\ open # "none" => \A q \in Ask : ask[q].kind # "delete"
                      /\ \A q \in Ask : ask'[q].gen \in {0, gen'}
                      /\ totp.step = "recovery" => totp.codes = gen'
                      /\ webauthn.step = "recovery" => webauthn.codes = gen'
                      /\ codes \in {0, gen'}
    BY <1>2, <1>6 DEF ShownCodesAreInForce
  <2>1. CASE methods = {}
    <3>1. \A q \in Ask : q # a => ask[q].gen = 0
      BY <1>1, <1>2 DEF AsksInOrder, OneRegistration, DialogsStayOpen, Registration
    <3>2. totp.step # "recovery" /\ webauthn.step # "recovery" /\ codes = 0
      BY <1>1, <1>2 DEF AsksInOrder, DialogsStayOpen, Registration
    <3> QED BY <2>1, <3>1, <3>2, <1>1, <1>4, <1>5 DEF ShownCodesAreInForce
  <2>2. CASE methods # {} BY <2>2, <1>1, <1>4, <1>5 DEF ShownCodesAreInForce
  <2> QED BY <2>1, <2>2
<1>14. ListFollowsMethods'
  <2>1. ToBeListed' BY <1>2, <1>5 DEF ToBeListed
  <2> QED BY <2>1, <1>1, <1>2, <1>6 DEF ListFollowsMethods
<1> QED BY <1>8, <1>9, <1>10, <1>11, <1>12, <1>13, <1>14 DEF MfaInv

LEMMA ServeRegenerateKeepsMfaInv ==
    ASSUME MfaInv, NEW a \in Ask, ServeRegenerate(a) PROVE MfaInv'
<1>1. MfaTypes /\ AsksInOrder /\ OneRegistration /\ DialogsStayOpen
      /\ CodesStayInHand /\ ShownCodesAreInForce /\ ListFollowsMethods
  BY DEF MfaInv
<1>2. /\ ask[a].kind = "regenerate" /\ ask[a].phase = "sent"
      /\ made' = made + 1 /\ gen' = made + 1 /\ AnswerMfa(a, made + 1)
      /\ methods' = methods /\ listed' = listed /\ open' = open /\ totp' = totp
      /\ webauthn' = webauthn /\ codes' = codes /\ kept' = kept /\ metMfa' = metMfa
      /\ stale' = stale
  BY DEF ServeRegenerate
<1>3. made + 1 \in Nat \ {0} BY <1>1 DEF MfaTypes
<1>4. /\ ask' \in [Ask -> AskType] /\ ask'[a].kind = ask[a].kind
      /\ ask'[a].phase = "ok" /\ ask'[a].gen = made + 1
      /\ \A q \in Ask : q # a => ask'[q] = ask[q]
  BY <1>1, <1>2, <1>3, AskAnswers
<1>5. \A q \in Ask : ask'[q].kind = ask[q].kind BY <1>4
<1>6. MfaTypes' BY <1>1, <1>2, <1>3, <1>4 DEF MfaTypes
<1>7. AsksInOrder' BY <1>1, <1>2, <1>4, <1>5 DEF AsksInOrder
<1>8. OneRegistration' BY <1>1, <1>2, <1>5 DEF OneRegistration
<1>9. DialogsStayOpen' BY <1>1, <1>2, <1>5 DEF DialogsStayOpen
<1>10. CodesStayInHand' BY <1>2, <1>4 DEF CodesStayInHand, CodesAreHeld
<1>11. ShownCodesAreInForce'
  <2> SUFFICES ASSUME metMfa \cap {"left", "delete"} = {}
               PROVE  /\ stale = "no"
                      /\ open # "none" => \A q \in Ask : ask[q].kind # "delete"
                      /\ \A q \in Ask : ask'[q].gen \in {0, gen'}
                      /\ totp.step # "recovery" /\ webauthn.step # "recovery" /\ codes = 0
    BY <1>2, <1>5 DEF ShownCodesAreInForce
  <2>1. \A q \in Ask : q # a => ask[q].gen = 0
    BY <1>1, <1>2 DEF AsksInOrder, DialogsStayOpen, Registration
  <2>2. totp.step # "recovery" /\ webauthn.step # "recovery" /\ codes = 0
    BY <1>1, <1>2 DEF AsksInOrder, DialogsStayOpen
  <2> QED BY <2>1, <2>2, <1>1, <1>2, <1>4 DEF ShownCodesAreInForce
<1>12. ListFollowsMethods'
  <2>1. ToBeListed => ToBeListed' BY <1>2, <1>4 DEF ToBeListed
  <2> QED BY <2>1, <1>1, <1>2, <1>4, <1>5 DEF ListFollowsMethods
<1> QED BY <1>6, <1>7, <1>8, <1>9, <1>10, <1>11, <1>12 DEF MfaInv

LEMMA ServeDeleteKeepsMfaInv ==
    ASSUME MfaInv, NEW a \in Ask, ServeDelete(a) PROVE MfaInv'
<1>1. MfaTypes /\ AsksInOrder /\ OneRegistration /\ DialogsStayOpen
      /\ CodesStayInHand /\ ShownCodesAreInForce /\ ListFollowsMethods
  BY DEF MfaInv
<1>2. /\ ask[a].kind = "delete" /\ ask[a].phase = "sent"
      /\ methods' = methods \ ask[a].about /\ gen' = (IF methods' = {} THEN 0 ELSE gen)
      /\ AnswerMfa(a, 0)
      /\ made' = made /\ listed' = listed /\ open' = open /\ totp' = totp
      /\ webauthn' = webauthn /\ codes' = codes /\ kept' = kept /\ metMfa' = metMfa
      /\ stale' = stale
  BY DEF ServeDelete
<1>3. methods' \in SUBSET Method /\ gen' \in Nat BY <1>1, <1>2 DEF MfaTypes
<1>4. /\ ask' \in [Ask -> AskType] /\ ask'[a].kind = ask[a].kind
      /\ ask'[a].phase = "ok" /\ ask'[a].gen = 0
      /\ \A q \in Ask : q # a => ask'[q] = ask[q]
  BY <1>1, <1>2, AskAnswers
<1>5. /\ \A q \in Ask : ask'[q].kind = ask[q].kind /\ ask'[q].gen = ask[q].gen
  BY <1>1, <1>2, <1>4 DEF AsksInOrder
<1>6. MfaTypes' BY <1>1, <1>2, <1>3, <1>4 DEF MfaTypes
<1>7. AsksInOrder' BY <1>1, <1>2, <1>4, <1>5 DEF AsksInOrder
<1>8. OneRegistration' BY <1>1, <1>2, <1>5 DEF OneRegistration
<1>9. DialogsStayOpen' BY <1>1, <1>2, <1>5 DEF DialogsStayOpen
<1>10. CodesStayInHand' BY <1>1, <1>2, <1>5 DEF CodesStayInHand, CodesAreHeld
<1>11. ShownCodesAreInForce'
  <2> SUFFICES ASSUME metMfa \cap {"left", "delete"} = {}
               PROVE  /\ stale = "no" /\ open = "none"
                      /\ \A q \in Ask : ask[q].gen = 0
                      /\ totp.step # "recovery" /\ webauthn.step # "recovery" /\ codes = 0
    BY <1>2, <1>5 DEF ShownCodesAreInForce
  <2>1. stale = "no" /\ open = "none" BY <1>1, <1>2 DEF ShownCodesAreInForce
  <2> QED BY <2>1, <1>1 DEF AsksInOrder, DialogsStayOpen, Registration
<1>12. ListFollowsMethods'
  <2>1. ToBeListed' BY <1>2, <1>4 DEF ToBeListed
  <2> QED BY <2>1, <1>1, <1>2, <1>5 DEF ListFollowsMethods
<1> QED BY <1>6, <1>7, <1>8, <1>9, <1>10, <1>11, <1>12 DEF MfaInv

LEMMA ServeOtherKeepsMfaInv ==
    ASSUME MfaInv, NEW a \in Ask, ServeOther(a) PROVE MfaInv'
<1>1. MfaTypes /\ AsksInOrder /\ OneRegistration /\ DialogsStayOpen
      /\ CodesStayInHand /\ ShownCodesAreInForce /\ ListFollowsMethods
  BY DEF MfaInv
<1>2. /\ ask[a].kind \in {"list", "begin", "register", "toggle"} /\ ask[a].phase = "sent"
      /\ AnswerMfa(a, 0)
      /\ methods' = methods /\ gen' = gen /\ made' = made /\ listed' = listed /\ open' = open
      /\ totp' = totp /\ webauthn' = webauthn /\ codes' = codes /\ kept' = kept
      /\ metMfa' = metMfa /\ stale' = stale
  BY DEF ServeOther
<1>3. /\ ask' \in [Ask -> AskType] /\ ask'[a].kind = ask[a].kind
      /\ ask'[a].phase = "ok" /\ ask'[a].gen = 0
      /\ ask[a].kind = "list" => ask'[a].about = methods
      /\ \A q \in Ask : q # a => ask'[q] = ask[q]
  BY <1>1, <1>2, AskAnswers
<1>4. /\ \A q \in Ask : ask'[q].kind = ask[q].kind /\ ask'[q].gen = ask[q].gen
  BY <1>1, <1>2, <1>3 DEF AsksInOrder
<1>5. MfaTypes' BY <1>1, <1>2, <1>3 DEF MfaTypes
<1>6. AsksInOrder' BY <1>1, <1>2, <1>3, <1>4 DEF AsksInOrder
<1>7. OneRegistration' BY <1>1, <1>2, <1>4 DEF OneRegistration
<1>8. DialogsStayOpen' BY <1>1, <1>2, <1>4 DEF DialogsStayOpen
<1>9. CodesStayInHand' BY <1>1, <1>2, <1>4 DEF CodesStayInHand, CodesAreHeld
<1>10. ShownCodesAreInForce' BY <1>1, <1>2, <1>4 DEF ShownCodesAreInForce
<1>11. ListFollowsMethods'
  <2>1. ToBeListed => ToBeListed' BY <1>2, <1>3 DEF ToBeListed
  <2> QED BY <2>1, <1>1, <1>2, <1>3, <1>4 DEF ListFollowsMethods
<1> QED BY <1>5, <1>6, <1>7, <1>8, <1>9, <1>10, <1>11 DEF MfaInv

\* The browser's prompt, and the credential it gives.
LEMMA PromptKeepsMfaInv ==
    ASSUME MfaInv, NEW a \in Ask, Prompting(a) \/ Credential(a) PROVE MfaInv'
<1>1. MfaTypes /\ AsksInOrder /\ OneRegistration /\ DialogsStayOpen
      /\ CodesStayInHand /\ ShownCodesAreInForce /\ ListFollowsMethods
  BY DEF MfaInv
<1>2. /\ methods' = methods /\ gen' = gen /\ made' = made /\ listed' = listed /\ open' = open
      /\ totp' = totp /\ webauthn' = webauthn /\ codes' = codes /\ kept' = kept
      /\ metMfa' = metMfa /\ stale' = stale
  BY DEF Prompting, Credential
<1>3. /\ ask' \in [Ask -> AskType] /\ ask[a].kind \in {"register", "prompt"}
      /\ ask'[a].kind \in {"prompt", "finish"} /\ ask'[a].phase \in {"shown", "sent"}
      /\ ask'[a].kind = "prompt" <=> ask'[a].phase = "shown"
      /\ ask'[a].gen = 0 /\ ask[a].gen = 0
      /\ \A q \in Ask : q # a => ask'[q] = ask[q]
  <2>1. CASE Prompting(a)
    <3> DEFINE n == [NoAsk EXCEPT !.kind = "prompt", !.phase = "shown"]
    <3>1. ask[a].kind = "register" /\ ask' = [ask EXCEPT ![a] = n] BY <2>1 DEF Prompting
    <3>2. n \in AskType /\ n.kind = "prompt" /\ n.phase = "shown" /\ n.gen = 0
      BY NoAskFacts DEF AskType, AskKinds, NoAsk
    <3> HIDE DEF n
    <3> QED BY <3>1, <3>2, <1>1, AskOne DEF AsksInOrder
  <2>2. CASE Credential(a)
    <3> DEFINE n == [ask[a] EXCEPT !.kind = "finish", !.phase = "sent"]
    <3>1. ask[a].kind = "prompt" /\ ask' = [ask EXCEPT ![a] = n] BY <2>2 DEF Credential
    <3>2. ask[a] \in AskType /\ ask[a].gen = 0 BY <3>1, <1>1, AskFields DEF AsksInOrder
    <3>3. n \in AskType /\ n.kind = "finish" /\ n.phase = "sent" /\ n.gen = 0
      BY <3>2 DEF AskType, AskKinds
    <3> HIDE DEF n
    <3> QED BY <3>1, <3>2, <3>3, <1>1, AskOne
  <2> QED BY <2>1, <2>2
<1>4. \A q \in Ask : /\ ask'[q].gen = ask[q].gen
                     /\ ask'[q].kind \in Registration <=> ask[q].kind \in Registration
                     /\ ask'[q].kind \notin Registration => ask'[q] = ask[q]
  BY <1>3 DEF Registration
<1>5. MfaTypes' BY <1>1, <1>2, <1>3 DEF MfaTypes
<1>6. AsksInOrder' BY <1>1, <1>2, <1>3 DEF AsksInOrder
<1>7. OneRegistration' BY <1>1, <1>2, <1>4 DEF OneRegistration
<1>8. DialogsStayOpen' BY <1>1, <1>2, <1>3, <1>4 DEF DialogsStayOpen
<1>9. CodesStayInHand' BY <1>1, <1>2, <1>4 DEF CodesStayInHand, CodesAreHeld
<1>10. ShownCodesAreInForce' BY <1>1, <1>2, <1>3, <1>4 DEF ShownCodesAreInForce
<1>11. ListFollowsMethods'
  <2>1. ToBeListed => ToBeListed' BY <1>2, <1>3 DEF ToBeListed
  <2> QED BY <2>1, <1>1, <1>2, <1>3 DEF ListFollowsMethods
<1> QED BY <1>5, <1>6, <1>7, <1>8, <1>9, <1>10, <1>11 DEF MfaInv

LEMMA DeletedKeepsMfaInv == ASSUME MfaInv, NEW a \in Ask, Deleted(a) PROVE MfaInv'
<1>1. MfaTypes /\ AsksInOrder /\ OneRegistration /\ DialogsStayOpen
      /\ CodesStayInHand /\ ShownCodesAreInForce /\ ListFollowsMethods
  BY DEF MfaInv
<1>2. /\ ask[a].kind \in {"delete", "toggle"} /\ Refetch(Ended(a))
      /\ metMfa' = metMfa \cup MetLists
      /\ methods' = methods /\ gen' = gen /\ made' = made /\ listed' = listed /\ open' = open
      /\ totp' = totp /\ webauthn' = webauthn /\ codes' = codes /\ kept' = kept
      /\ stale' = stale
  BY DEF Deleted
<1>3. Refetched({a}) BY <1>1, <1>2, RefetchedAfter
<1>4. metMfa \subseteq metMfa' /\ metMfa' \subseteq metMfa \cup {"lists"}
  BY <1>2, MetListsFacts
<1>5. MfaTypes' BY <1>1, <1>2, <1>3 DEF MfaTypes, Refetched
<1>6. AsksInOrder' BY <1>1, <1>2, <1>3, NoAskFacts DEF AsksInOrder, Refetched
<1>7. OneRegistration' BY <1>1, <1>2, <1>3, <1>4 DEF OneRegistration, Registration, Refetched
<1>8. DialogsStayOpen' BY <1>1, <1>2, <1>3, <1>4 DEF DialogsStayOpen, Registration, Refetched
<1>9. CodesStayInHand'
  <2>1. ask[a].gen = 0 BY <1>1, <1>2 DEF AsksInOrder
  <2>2. gen # 0 => \A q \in Ask : ask[q].gen = gen => ask'[q].gen = gen
    BY <2>1, <1>1, <1>3, NoAskFacts DEF AsksInOrder, Refetched
  <2> QED BY <2>2, <1>1, <1>2, <1>4 DEF CodesStayInHand, CodesAreHeld
<1>10. ShownCodesAreInForce'
  BY <1>1, <1>2, <1>3, <1>4, NoAskFacts DEF ShownCodesAreInForce, Refetched
<1>11. ListFollowsMethods' BY <1>2, <1>3, ListFollowsRefetch
<1> QED BY <1>5, <1>6, <1>7, <1>8, <1>9, <1>10, <1>11 DEF MfaInv

LEMMA ListedKeepsMfaInv == ASSUME MfaInv, NEW a \in Ask, MethodsListed(a) PROVE MfaInv'
<1>1. MfaTypes /\ AsksInOrder /\ OneRegistration /\ DialogsStayOpen
      /\ CodesStayInHand /\ ShownCodesAreInForce /\ ListFollowsMethods
  BY DEF MfaInv
<1>2. /\ ask[a].kind = "list" /\ ask[a].phase = "ok" /\ ask' = Ended(a)
      /\ listed' = ask[a].about
      /\ methods' = methods /\ gen' = gen /\ made' = made /\ open' = open /\ totp' = totp
      /\ webauthn' = webauthn /\ codes' = codes /\ kept' = kept /\ metMfa' = metMfa
      /\ stale' = stale
  BY DEF MethodsListed
<1>3. /\ ask' \in [Ask -> AskType] /\ ask'[a] = NoAsk
      /\ ask'[a].kind = "none" /\ ask'[a].phase = "none" /\ ask'[a].gen = 0
      /\ \A q \in Ask : q # a => ask'[q] = ask[q]
  BY <1>1, <1>2, AskEnds
<1>4. ask[a].gen = 0 /\ ask[a].about \in SUBSET Method BY <1>1, <1>2, AskFields DEF AsksInOrder
<1>5. MfaTypes' BY <1>1, <1>2, <1>3, <1>4 DEF MfaTypes
<1>6. AsksInOrder' BY <1>1, <1>2, <1>3 DEF AsksInOrder
<1>7. OneRegistration' BY <1>1, <1>2, <1>3 DEF OneRegistration, Registration
<1>8. DialogsStayOpen' BY <1>1, <1>2, <1>3 DEF DialogsStayOpen, Registration
<1>9. CodesStayInHand' BY <1>1, <1>2, <1>3, <1>4 DEF CodesStayInHand, CodesAreHeld
<1>10. ShownCodesAreInForce' BY <1>1, <1>2, <1>3 DEF ShownCodesAreInForce
<1>11. ListFollowsMethods'
  <2>1. ToBeListed => ToBeListed' BY <1>2, <1>3 DEF ToBeListed
  <2> QED BY <2>1, <1>1, <1>2, <1>3 DEF ListFollowsMethods
<1> QED BY <1>5, <1>6, <1>7, <1>8, <1>9, <1>10, <1>11 DEF MfaInv

LEMMA BegunKeepsMfaInv == ASSUME MfaInv, NEW a \in Ask, Begun(a) PROVE MfaInv'
<1>1. MfaTypes /\ AsksInOrder /\ OneRegistration /\ DialogsStayOpen
      /\ CodesStayInHand /\ ShownCodesAreInForce /\ ListFollowsMethods
  BY DEF MfaInv
<1>2. /\ ask[a].kind = "begin" /\ ask' = Ended(a) /\ totp' = [totp EXCEPT !.step = "scan"]
      /\ methods' = methods /\ gen' = gen /\ made' = made /\ listed' = listed /\ open' = open
      /\ webauthn' = webauthn /\ codes' = codes /\ kept' = kept /\ metMfa' = metMfa
      /\ stale' = stale
  BY DEF Begun
<1>3. /\ ask' \in [Ask -> AskType] /\ ask'[a] = NoAsk
      /\ ask'[a].kind = "none" /\ ask'[a].phase = "none" /\ ask'[a].gen = 0
      /\ \A q \in Ask : q # a => ask'[q] = ask[q]
  BY <1>1, <1>2, AskEnds
<1>4. ask[a].gen = 0 /\ totp.step # "recovery" BY <1>1, <1>2 DEF AsksInOrder
<1>5. totp' \in StepType({"name", "scan", "verify", "recovery"}) /\ totp'.step = "scan"
  BY <1>1, <1>2 DEF MfaTypes, StepType
<1>6. MfaTypes' BY <1>1, <1>2, <1>3, <1>5 DEF MfaTypes
<1>7. AsksInOrder' BY <1>1, <1>2, <1>3, <1>5 DEF AsksInOrder
<1>8. OneRegistration' BY <1>1, <1>2, <1>3 DEF OneRegistration, Registration
<1>9. DialogsStayOpen' BY <1>1, <1>2, <1>3, <1>5 DEF DialogsStayOpen, Registration
<1>10. CodesStayInHand' BY <1>1, <1>2, <1>3, <1>4 DEF CodesStayInHand, CodesAreHeld
<1>11. ShownCodesAreInForce' BY <1>1, <1>2, <1>3, <1>5 DEF ShownCodesAreInForce
<1>12. ListFollowsMethods'
  <2>1. ToBeListed => ToBeListed' BY <1>2, <1>3, <1>4 DEF ToBeListed
  <2> QED BY <2>1, <1>1, <1>2, <1>3 DEF ListFollowsMethods
<1> QED BY <1>6, <1>7, <1>8, <1>9, <1>10, <1>11, <1>12 DEF MfaInv

\* A method is verified, and its codes are shown.
LEMMA CodesComeAndKeepMfaInv ==
    ASSUME MfaInv, NEW a \in Ask, Verified(a), ask[a].gen # 0 PROVE MfaInv'
<1>1. MfaTypes /\ AsksInOrder /\ OneRegistration /\ DialogsStayOpen
      /\ CodesStayInHand /\ ShownCodesAreInForce /\ ListFollowsMethods
  BY DEF MfaInv
<1> DEFINE shown == [step |-> "recovery", codes |-> ask[a].gen]
<1>2. /\ ask[a].kind \in {"verify", "finish"} /\ ask[a].phase = "ok" /\ ask' = Ended(a)
      /\ totp' = (IF ask[a].kind = "verify" THEN shown ELSE totp)
      /\ webauthn' = (IF ask[a].kind = "finish" THEN shown ELSE webauthn)
      /\ methods' = methods /\ gen' = gen /\ made' = made /\ listed' = listed /\ open' = open
      /\ codes' = codes /\ kept' = kept /\ metMfa' = metMfa /\ stale' = stale
  BY DEF Verified
<1>3. /\ ask' \in [Ask -> AskType] /\ ask'[a] = NoAsk
      /\ ask'[a].kind = "none" /\ ask'[a].phase = "none" /\ ask'[a].gen = 0
      /\ \A q \in Ask : q # a => ask'[q] = ask[q]
  BY <1>1, <1>2, AskEnds
<1>4. /\ shown \in StepType({"name", "scan", "verify", "recovery"})
      /\ shown \in StepType({"name", "waiting", "recovery"})
      /\ shown.step = "recovery" /\ shown.codes = ask[a].gen
  BY <1>1, AskFields DEF StepType
<1> HIDE DEF shown
<1>5. MfaTypes' BY <1>1, <1>2, <1>3, <1>4 DEF MfaTypes
<1>6. AsksInOrder' BY <1>1, <1>2, <1>3, <1>4 DEF AsksInOrder
<1>7. OneRegistration' BY <1>1, <1>2, <1>3 DEF OneRegistration, Registration
<1>8. DialogsStayOpen'
  BY <1>1, <1>2, <1>3 DEF DialogsStayOpen, OneRegistration, Registration
<1>9. CodesStayInHand'
  <2> SUFFICES ASSUME metMfa \cap {"discarded", "failed", "runs"} = {}, gen # 0
               PROVE  CodesAreHeld'
    BY <1>2 DEF CodesStayInHand
  <2>1. CodesAreHeld BY <1>1 DEF CodesStayInHand
  <2>2. /\ ask[a].kind = "verify" => totp.step # "recovery"
        /\ ask[a].kind = "finish" => webauthn.step # "recovery"
    BY <1>1 DEF AsksInOrder, OneRegistration, Registration
  <2>3. CASE ask[a].gen = gen BY <2>3, <1>2, <1>4 DEF CodesAreHeld
  <2>4. CASE ask[a].gen # gen
    BY <2>1, <2>2, <2>4, <1>2, <1>3 DEF CodesAreHeld
  <2> QED BY <2>3, <2>4
<1>10. ShownCodesAreInForce' BY <1>1, <1>2, <1>3, <1>4 DEF ShownCodesAreInForce
<1>11. ListFollowsMethods'
  <2>1. ToBeListed' BY <1>2, <1>4 DEF ToBeListed
  <2> QED BY <2>1, <1>1, <1>2, <1>3 DEF ListFollowsMethods
<1> QED BY <1>5, <1>6, <1>7, <1>8, <1>9, <1>10, <1>11 DEF MfaInv

\* A method is verified that is not the first: its dialog is closed.
LEMMA VerifiedKeepsMfaInv ==
    ASSUME MfaInv, NEW a \in Ask, Verified(a), ask[a].gen = 0 PROVE MfaInv'
<1>1. MfaTypes /\ AsksInOrder /\ OneRegistration /\ DialogsStayOpen
      /\ CodesStayInHand /\ ShownCodesAreInForce /\ ListFollowsMethods
  BY DEF MfaInv
<1> DEFINE d == IF ask[a].kind = "verify" THEN "totp" ELSE "webauthn"
<1>2. /\ ask[a].kind \in {"verify", "finish"} /\ ask[a].phase = "ok"
      /\ Reset(d) /\ open' = (IF open = d THEN "none" ELSE open)
      /\ Refetch(Ended(a)) /\ metMfa' = metMfa \cup MetLists
      /\ methods' = methods /\ gen' = gen /\ made' = made /\ listed' = listed
      /\ kept' = kept /\ stale' = stale
  BY DEF Verified
<1>3. (ask[a].kind = "verify" /\ d = "totp") \/ (ask[a].kind = "finish" /\ d = "webauthn")
  BY <1>2
<1> HIDE DEF d
<1>4. /\ totp' \in StepType({"name", "scan", "verify", "recovery"})
      /\ webauthn' \in StepType({"name", "waiting", "recovery"}) /\ codes' \in Nat
      /\ totp' = totp \/ (totp'.step = "name" /\ d = "totp")
      /\ webauthn' = webauthn \/ (webauthn'.step = "name" /\ d = "webauthn")
      /\ codes' = codes
      /\ d = "totp" => totp'.step # "recovery"
      /\ d = "webauthn" => webauthn'.step # "recovery"
  <2>1. d # "regenerate" BY <1>3
  <2> QED BY <2>1, <1>1, <1>2, ResetFacts
<1>5. Refetched({a}) BY <1>1, <1>2, RefetchedAfter
<1>6. metMfa \subseteq metMfa' /\ metMfa' \subseteq metMfa \cup {"lists"}
  BY <1>2, MetListsFacts
<1>7. MfaTypes' BY <1>1, <1>2, <1>4, <1>5 DEF MfaTypes, Refetched
<1>8. AsksInOrder' BY <1>1, <1>2, <1>4, <1>5, NoAskFacts DEF AsksInOrder, Refetched
<1>9. OneRegistration'
  BY <1>1, <1>2, <1>4, <1>5, <1>6 DEF OneRegistration, Registration, Refetched
<1>10. DialogsStayOpen'
  <2> SUFFICES ASSUME "left" \notin metMfa
               PROVE  /\ "runs" \notin metMfa'
                      /\ \A q \in Ask : ask'[q].kind \notin
                           {"begin", "verify", "regenerate"} \cup Registration
                      /\ totp'.step # "recovery" /\ webauthn'.step # "recovery" /\ codes' = 0
    BY <1>6 DEF DialogsStayOpen
  <2>1. open = d BY <1>1, <1>3 DEF DialogsStayOpen, Registration
  <2>2. \A q \in Ask : q # a =>
          ask[q].kind \notin {"begin", "verify", "regenerate"} \cup Registration
    BY <2>1, <1>1, <1>3 DEF DialogsStayOpen, AsksInOrder, OneRegistration, Registration
  <2>3. \A q \in Ask : ask'[q].kind \notin {"begin", "verify", "regenerate"} \cup Registration
    BY <2>2, <1>5, NoAskFacts DEF Refetched, Registration
  <2>4. totp'.step # "recovery" /\ webauthn'.step # "recovery" /\ codes' = 0
    BY <2>1, <1>1, <1>3, <1>4 DEF DialogsStayOpen
  <2> QED BY <2>3, <2>4, <1>1, <1>6 DEF DialogsStayOpen
<1>11. CodesStayInHand'
  <2> SUFFICES ASSUME metMfa \cap {"discarded", "failed", "runs"} = {}, gen # 0
               PROVE  CodesAreHeld'
    BY <1>2, <1>6 DEF CodesStayInHand
  <2>1. CodesAreHeld BY <1>1 DEF CodesStayInHand
  <2>2. /\ ask[a].kind = "verify" => totp.step # "recovery"
        /\ ask[a].kind = "finish" => webauthn.step # "recovery"
    BY <1>1 DEF AsksInOrder, OneRegistration, Registration
  <2>3. \A q \in Ask : ask[q].gen = gen => ask'[q].gen = gen
    BY <1>1, <1>5, NoAskFacts DEF AsksInOrder, Refetched
  <2> QED BY <2>1, <2>2, <2>3, <1>2, <1>3, <1>4 DEF CodesAreHeld
<1>12. ShownCodesAreInForce'
  BY <1>1, <1>2, <1>4, <1>5, <1>6, NoAskFacts DEF ShownCodesAreInForce, Refetched
<1>13. ListFollowsMethods' BY <1>2, <1>5, ListFollowsRefetch
<1> QED BY <1>7, <1>8, <1>9, <1>10, <1>11, <1>12, <1>13 DEF MfaInv

LEMMA RegeneratedKeepsMfaInv ==
    ASSUME MfaInv, NEW a \in Ask, Regenerated(a) PROVE MfaInv'
<1>1. MfaTypes /\ AsksInOrder /\ OneRegistration /\ DialogsStayOpen
      /\ CodesStayInHand /\ ShownCodesAreInForce /\ ListFollowsMethods
  BY DEF MfaInv
<1>2. /\ ask[a].kind = "regenerate" /\ ask[a].phase = "ok" /\ ask' = Ended(a)
      /\ codes' = ask[a].gen
      /\ methods' = methods /\ gen' = gen /\ made' = made /\ listed' = listed /\ open' = open
      /\ totp' = totp /\ webauthn' = webauthn /\ kept' = kept /\ metMfa' = metMfa
      /\ stale' = stale
  BY DEF Regenerated
<1>3. /\ ask' \in [Ask -> AskType] /\ ask'[a] = NoAsk
      /\ ask'[a].kind = "none" /\ ask'[a].phase = "none" /\ ask'[a].gen = 0
      /\ \A q \in Ask : q # a => ask'[q] = ask[q]
  BY <1>1, <1>2, AskEnds
<1>4. ask[a].gen \in Nat /\ codes = 0 BY <1>1, <1>2, AskFields DEF AsksInOrder
<1>5. MfaTypes' BY <1>1, <1>2, <1>3, <1>4 DEF MfaTypes
<1>6. AsksInOrder' BY <1>1, <1>2, <1>3 DEF AsksInOrder
<1>7. OneRegistration' BY <1>1, <1>2, <1>3 DEF OneRegistration, Registration
<1>8. DialogsStayOpen' BY <1>1, <1>2, <1>3 DEF DialogsStayOpen, Registration
<1>9. CodesStayInHand' BY <1>1, <1>2, <1>3, <1>4 DEF CodesStayInHand, CodesAreHeld
<1>10. ShownCodesAreInForce' BY <1>1, <1>2, <1>3 DEF ShownCodesAreInForce
<1>11. ListFollowsMethods'
  <2>1. ToBeListed => ToBeListed' BY <1>2, <1>3 DEF ToBeListed
  <2> QED BY <2>1, <1>1, <1>2, <1>3 DEF ListFollowsMethods
<1> QED BY <1>5, <1>6, <1>7, <1>8, <1>9, <1>10, <1>11 DEF MfaInv

LEMMA AskFailsAndKeepsMfaInv == ASSUME MfaInv, NEW a \in Ask, Failed(a) PROVE MfaInv'
<1>1. MfaTypes /\ AsksInOrder /\ OneRegistration /\ DialogsStayOpen
      /\ CodesStayInHand /\ ShownCodesAreInForce /\ ListFollowsMethods
  BY DEF MfaInv
<1>2. /\ ask[a] # NoAsk /\ ask' = Ended(a)
      /\ metMfa' = metMfa \cup IF ask[a].phase = "shown" THEN {} ELSE {"failed"}
      /\ webauthn' = IF ask[a].kind \in Registration
                     THEN [webauthn EXCEPT !.step = "name"] ELSE webauthn
      /\ listed' = (IF ask[a].kind = "list" THEN {} ELSE listed)
      /\ methods' = methods /\ gen' = gen /\ made' = made /\ open' = open
      /\ totp' = totp /\ codes' = codes /\ kept' = kept /\ stale' = stale
  BY DEF Failed, KindsOf, Registration
<1>3. /\ ask' \in [Ask -> AskType] /\ ask'[a] = NoAsk
      /\ ask'[a].kind = "none" /\ ask'[a].phase = "none" /\ ask'[a].gen = 0
      /\ \A q \in Ask : q # a => ask'[q] = ask[q]
  BY <1>1, <1>2, AskEnds
<1>4. /\ webauthn' \in StepType({"name", "waiting", "recovery"})
      /\ ask[a].kind \in Registration => webauthn'.step = "name"
      /\ ask[a].kind \notin Registration => webauthn' = webauthn
  BY <1>1, <1>2 DEF MfaTypes, StepType
<1>5. /\ metMfa \subseteq metMfa' /\ metMfa' \subseteq metMfa \cup {"failed"}
      /\ "failed" \notin metMfa' => ask[a].kind = "prompt" /\ ask[a].gen = 0
  BY <1>1, <1>2 DEF AsksInOrder
<1>6. MfaTypes' BY <1>1, <1>2, <1>3, <1>4 DEF MfaTypes
<1>7. AsksInOrder' BY <1>1, <1>2, <1>3, <1>4 DEF AsksInOrder
<1>8. OneRegistration' BY <1>1, <1>2, <1>3, <1>4, <1>5 DEF OneRegistration, Registration
<1>9. DialogsStayOpen'
  BY <1>1, <1>2, <1>3, <1>4, <1>5 DEF DialogsStayOpen, OneRegistration, Registration
<1>10. CodesStayInHand'
  <2> SUFFICES ASSUME metMfa \cap {"discarded", "failed", "runs"} = {}, gen # 0,
                      ask[a].kind = "prompt", ask[a].gen = 0
               PROVE  CodesAreHeld'
    BY <1>2, <1>5 DEF CodesStayInHand
  <2>1. CodesAreHeld BY <1>1 DEF CodesStayInHand
  <2>2. webauthn.step # "recovery" BY <1>1 DEF OneRegistration, Registration
  <2> QED BY <2>1, <2>2, <1>2, <1>3 DEF CodesAreHeld
<1>11. ShownCodesAreInForce' BY <1>1, <1>2, <1>3, <1>4, <1>5 DEF ShownCodesAreInForce
<1>12. ListFollowsMethods'
  <2> SUFFICES ASSUME metMfa \cap {"discarded", "failed", "lists", "left", "runs"} = {},
                      ask[a].kind = "prompt"
               PROVE  ListFollowsMethods'
    BY <1>5 DEF ListFollowsMethods
  <2>1. webauthn.step # "recovery" BY <1>1 DEF OneRegistration, Registration
  <2>2. ToBeListed => ToBeListed' BY <2>1, <1>2, <1>3 DEF ToBeListed
  <2> QED BY <2>2, <1>1, <1>2, <1>3 DEF ListFollowsMethods
<1> QED BY <1>6, <1>7, <1>8, <1>9, <1>10, <1>11, <1>12 DEF MfaInv

LEMMA MfaStep == MfaInv /\ [MfaNext]_mfa => MfaInv'
<1> SUFFICES ASSUME MfaInv, [MfaNext]_mfa PROVE MfaInv' OBVIOUS
<1>1. CASE UNCHANGED mfa
  BY <1>1 DEF mfa, MfaInv, MfaTypes, AsksInOrder, OneRegistration, DialogsStayOpen,
     CodesStayInHand, CodesAreHeld, ShownCodesAreInForce, ListFollowsMethods, ToBeListed
<1>2. ASSUME NEW d \in {"totp", "webauthn", "regenerate"}, OpenDialog(d) PROVE MfaInv'
  BY <1>2, OpenKeepsMfaInv
<1>3. CASE handleBeginSetup BY <1>3, ButtonKeepsMfaInv DEF handleBeginSetup, AskServer
<1>4. CASE handleVerify BY <1>4, ButtonKeepsMfaInv DEF handleVerify, AskServer
<1>5. CASE handleRegenerate BY <1>5, ButtonKeepsMfaInv DEF handleRegenerate, AskServer
<1>6. ASSUME NEW m \in Method, handleDelete(m) PROVE MfaInv'
  <2>1. {m} \in SUBSET Method OBVIOUS
  <2> QED BY <1>6, <2>1, ButtonKeepsMfaInv DEF handleDelete
<1>7. ASSUME NEW m \in Method, handleTogglePasswordless(m) PROVE MfaInv'
  <2>1. {m} \in SUBSET Method OBVIOUS
  <2> QED BY <1>7, <2>1, ButtonKeepsMfaInv DEF handleTogglePasswordless
<1>8. CASE handleRegister BY <1>8, RegisterKeepsMfaInv
<1>9. CASE TurnStep BY <1>9, TurnKeepsMfaInv
<1>10. CASE Close BY <1>10, CloseKeepsMfaInv
<1>11. CASE handleRecoveryDone BY <1>11, DoneKeepsMfaInv
<1>12. ASSUME NEW a \in Ask, ServeMethod(a) PROVE MfaInv' BY <1>12, ServeMethodKeepsMfaInv
<1>13. ASSUME NEW a \in Ask, ServeRegenerate(a) PROVE MfaInv'
  BY <1>13, ServeRegenerateKeepsMfaInv
<1>14. ASSUME NEW a \in Ask, ServeDelete(a) PROVE MfaInv' BY <1>14, ServeDeleteKeepsMfaInv
<1>15. ASSUME NEW a \in Ask, ServeOther(a) PROVE MfaInv' BY <1>15, ServeOtherKeepsMfaInv
<1>16. ASSUME NEW a \in Ask, Prompting(a) \/ Credential(a) PROVE MfaInv'
  BY <1>16, PromptKeepsMfaInv
<1>17. ASSUME NEW a \in Ask, Deleted(a) PROVE MfaInv' BY <1>17, DeletedKeepsMfaInv
<1>18. ASSUME NEW a \in Ask, MethodsListed(a) PROVE MfaInv' BY <1>18, ListedKeepsMfaInv
<1>19. ASSUME NEW a \in Ask, Begun(a) PROVE MfaInv' BY <1>19, BegunKeepsMfaInv
<1>20. ASSUME NEW a \in Ask, Verified(a) PROVE MfaInv'
  BY <1>20, CodesComeAndKeepMfaInv, VerifiedKeepsMfaInv
<1>21. ASSUME NEW a \in Ask, Regenerated(a) PROVE MfaInv' BY <1>21, RegeneratedKeepsMfaInv
<1>22. ASSUME NEW a \in Ask, Failed(a) PROVE MfaInv' BY <1>22, AskFailsAndKeepsMfaInv
<1> QED
  BY <1>1, <1>2, <1>3, <1>4, <1>5, <1>6, <1>7, <1>8, <1>9, <1>10, <1>11, <1>12, <1>13, <1>14,
     <1>15, <1>16, <1>17, <1>18, <1>19, <1>20, <1>21, <1>22 DEF MfaNext

LEMMA MfaInvImplies ==
    MfaInv => CodesAreInHand /\ ConfirmedCodesAreInForce /\ MethodListIsCurrent
<1> SUFFICES ASSUME MfaInv
             PROVE  CodesAreInHand /\ ConfirmedCodesAreInForce /\ MethodListIsCurrent
  OBVIOUS
<1>1. MfaTypes /\ AsksInOrder /\ OneRegistration /\ DialogsStayOpen
      /\ CodesStayInHand /\ ShownCodesAreInForce /\ ListFollowsMethods
  BY DEF MfaInv
<1>2. CodesAreHeld => gen \in InHand BY DEF CodesAreHeld, InHand
<1>3. CodesAreInHand BY <1>1, <1>2 DEF CodesStayInHand, CodesAreInHand
<1>4. ConfirmedCodesAreInForce BY <1>1 DEF ShownCodesAreInForce, ConfirmedCodesAreInForce
<1>5. MethodListIsCurrent
  <2> SUFFICES ASSUME MfaQuiet, open = "none",
                      metMfa \cap {"discarded", "failed", "lists", "left", "runs"} = {}
               PROVE  listed = methods
    BY DEF MethodListIsCurrent
  <2>1. \A a \in Ask : ask[a].kind = "none" BY NoAskFacts DEF MfaQuiet
  <2>2. ~ToBeListed BY <2>1, <1>1 DEF ToBeListed, DialogsStayOpen
  <2> QED BY <2>1, <2>2, <1>1 DEF ListFollowsMethods
<1> QED BY <1>3, <1>4, <1>5

-----------------------------------------------------------------------------
(* The lists: the list, its dialogs, the requests under way and the rows   *)

RowMap == UNION {[S -> Nat] : S \in SUBSET Row}
TableType == [of : Nat, at : Nat, rows : RowMap, total : Nat]
QueryType == [phase : {"none", "sent", "ok"}, key : Nat, answer : TableType]
DialogType == [open : {"none", "create", "edit"}, row : Nat, copy : Nat]
SaveOps == {"none", "create", "edit", "delete", "default", "toggle", "marker"}
SaveType == [phase : {"none", "sent", "ok", "done"}, op : SaveOps, row : Nat, flag : Nat,
             key : Nat, dialog : {"mine", "gone"}, at : Nat]

RowTypes ==
    /\ console \in Console /\ remote \in RowMap /\ changes \in Nat /\ key \in Row
    /\ table \in TableType /\ isLoading \in {"no", "yes"} /\ query \in [Query -> QueryType]
    /\ dialog \in DialogType /\ createBusy \in {"no", "yes"} /\ editBusy \in {"no", "yes"}
    /\ save \in [Save -> SaveType] /\ reveal \in Nat /\ answered \in Nat

Fetching(q) == query[q].phase \in {"sent", "ok"}
UnderWay(s) == save[s].phase \in {"sent", "ok"}

\* What has been answered has happened; and only the page with a marker saves one.
AnswersInOrder ==
    /\ answered <= changes /\ table.at <= changes
    /\ \A q \in Query : /\ query[q].phase = "none" => query[q] = NoQuery
                        /\ query[q].phase = "ok" => /\ query[q].answer.of = query[q].key
                                                    /\ query[q].answer.at <= changes
    /\ \A s \in Save : /\ save[s].phase = "ok" => save[s].at <= changes
                       /\ ~UnderWay(s) => save[s].op = "none"
                       /\ save[s].op = "marker" => console.beside # "nothing"
    /\ dialog.open = "none" => dialog = NoneOpen

\* Unless a request failed or answers came in another order: the list has what the
\* page has been told of, or is about to.
OwnChangesAreComing ==
    met \cap {"failed", "overtaken"} = {} =>
        \/ table.at >= answered
        \/ \E q \in Query : \/ query[q].phase = "sent"
                            \/ query[q].phase = "ok" /\ query[q].answer.at >= answered

\* Unless the key was changed while a request was under way: all is of that key.
RequestsAreOfTheKey ==
    met \cap {"failed", "turned"} = {} =>
        /\ \A q \in Query : Fetching(q) => query[q].key = key
        /\ \A s \in Save : UnderWay(s) => save[s].key = key
        /\ table.of = key \/ \E q \in Query : Fetching(q)

\* There is a page one, and one for every row.
IsAPage(k) == k = 1 \/ k \in 1..Cardinality(DOMAIN remote)

\* Of as many rows as there are or fewer, some are on the page that was asked for.
PageHasRows(t) == /\ t.total <= Cardinality(DOMAIN remote)
                  /\ t.total > 0 => DOMAIN t.rows # {}

\* Unless rows were deleted: no page beyond the last is chosen or asked for.
PagesAreThere ==
    "deleted" \notin met /\ console.pages = "pages" =>
        /\ IsAPage(key) /\ PageHasRows(table)
        /\ \A q \in Query : /\ Fetching(q) => IsAPage(query[q].key)
                            /\ query[q].phase = "ok" => PageHasRows(query[q].answer)
        /\ \A s \in Save : UnderWay(s) => IsAPage(save[s].key)

\* Unless a dialog was cancelled with its request under way, opened during the save of
\* the marker, or sent twice: what it has sent is its own, and it waits for it.
DialogsWaitForTheirs ==
    met \cap {"left", "beside", "enter"} = {} =>
        /\ "taken" \notin mishap
        /\ \A s \in Save : UnderWay(s) =>
             /\ save[s].op \in {"create", "edit"} =>
                  dialog.open = save[s].op /\ save[s].dialog = "mine"
             /\ save[s].op = "create" => createBusy = "yes"
             /\ save[s].op = "edit" => editBusy = "yes"
             /\ save[s].op = "marker" => dialog = NoneOpen
        /\ \A s, t \in Save : UnderWay(s) /\ UnderWay(t) /\ save[s].op = save[t].op
                                /\ save[s].op \in {"create", "edit"} => s = t

\* The rows of an answer are those there are.
Fresh(t) == \A r \in DOMAIN t.rows \cap DOMAIN remote : t.rows[r] = remote[r]

\* An answer that has all this page has changed.
HasOwnChanges(t) ==
    /\ t.at >= answered
    /\ \A s \in Save : save[s].phase = "ok" /\ save[s].op # "marker" => save[s].at <= t.at

\* Unless others changed rows, requests overlapped, failed or overtook one another: what
\* is listed is there, what a form has copied too, and a save that has yet to be served
\* sends what there is.
CopiesAreFresh ==
    met \cap {"others", "busy", "loading", "two", "failed", "overtaken"} = {} =>
        /\ "undone" \notin mishap
        /\ HasOwnChanges(table) => Fresh(table)
        /\ \A q \in Query : query[q].phase = "ok" /\ HasOwnChanges(query[q].answer)
                              => Fresh(query[q].answer)
        /\ dialog.open # "none" => \A s \in Save : UnderWay(s) => save[s].op = dialog.open
        /\ console.edit.copies = "yes" =>
             /\ \A s, t \in Save : UnderWay(s) /\ UnderWay(t) /\ save[s].op = "edit" /\ s # t
                                     => save[t].op = "marker"
             /\ dialog.open = "edit" =>
                  IF \E s \in Save : UnderWay(s) THEN editBusy = "yes"
                  ELSE dialog.row \in DOMAIN remote => dialog.copy = remote[dialog.row]
             /\ \A s \in Save : save[s].phase = "sent" /\ save[s].op = "edit"
                                  /\ save[s].row \in DOMAIN remote
                                  => save[s].flag \in {remote[save[s].row], MaxChange + 1}

\* Unless a key was pressed twice: a token is created once its like has been shown.
SecretsComeOnce ==
    "enter" \notin met =>
        /\ "secret" \notin mishap
        /\ console.create.reveals = "yes" =>
             /\ \A s \in Save : UnderWay(s) /\ save[s].op = "create"
                                  => createBusy = "yes" /\ reveal = 0
             /\ \A s, t \in Save : UnderWay(s) /\ UnderWay(t) /\ save[s].op = "create"
                                     /\ save[t].op = "create" => s = t

RowsInv == /\ RowTypes /\ AnswersInOrder /\ OwnChangesAreComing /\ RequestsAreOfTheKey
           /\ PagesAreThere /\ DialogsWaitForTheirs /\ CopiesAreFresh /\ SecretsComeOnce


-----------------------------------------------------------------------------
(* Consoles, rows, requests                                                *)

\* A dialog that copies its row has no Enter of its own, and the page whose dialog
\* reveals a secret has nothing beside its list.
ConsoleInOrder(c) ==
    /\ c.edit.copies \in {"no", "yes"}
    /\ c.edit.copies = "yes" => c.edit.enter = "no"
    /\ c.create.reveals = "yes" => c.beside = "nothing"

LEMMA ConsoleFacts == \A c \in Console : ConsoleInOrder(c)
<1>1. ConsoleInOrder(UsersSettingsPage) /\ ConsoleInOrder(GroupsSettingsPage)
  BY DEF ConsoleInOrder, UsersSettingsPage, GroupsSettingsPage, CreateUserDialog,
         EditUserDialog, CreateGroupDialog, EditGroupDialog, PlainDialog, FormDialog, NoList
<1>2. ConsoleInOrder(GroupDetailPage) /\ ConsoleInOrder(AccountGroupsPage)
  BY DEF ConsoleInOrder, GroupDetailPage, AccountGroupsPage, AddMemberDialog, EditMemberDialog,
         MarkerEditorDialog, PlainDialog, FormDialog, NoDialog, NoList
<1>3. ConsoleInOrder(TileConfigs) /\ ConsoleInOrder(TerrainConfigs)
  BY DEF ConsoleInOrder, TileConfigs, TerrainConfigs, CreateTileConfigDialog,
         EditTileConfigDialog, CreateTerrainConfigDialog, EditTerrainConfigDialog,
         PlainDialog, FormDialog, NoList
<1>4. ConsoleInOrder(DevicesSettingsPage) /\ ConsoleInOrder(ApiTokenList)
  BY DEF ConsoleInOrder, DevicesSettingsPage, ApiTokenList, RenameDialog, CreateTokenDialog,
         PlainDialog, NoDialog, NoList
<1>5. /\ ConsoleInOrder(ActivityPage) /\ ConsoleInOrder(AuditLogsSettingsPage)
      /\ ConsoleInOrder(GroupAuditSection)
  BY DEF ConsoleInOrder, ActivityPage, AuditLogsSettingsPage, GroupAuditSection,
         PlainDialog, NoDialog, NoList
<1> QED BY <1>1, <1>2, <1>3, <1>4, <1>5, Zenon DEF Console

LEMMA RowMapFacts ==
    ASSUME NEW f
    PROVE  f \in RowMap <=> /\ DOMAIN f \subseteq Row /\ f \in [DOMAIN f -> Nat]
BY DEF RowMap

LEMMA RowsAreFinite ==
    ASSUME NEW S \in SUBSET Row
    PROVE  IsFiniteSet(S) /\ Cardinality(S) \in Nat
<1>1. IsFiniteSet(Row) BY BoundsAssumption, FS_Interval DEF Row
<1>2. IsFiniteSet(S) BY <1>1, FS_Subset
<1> QED BY <1>2, FS_CardinalityType

LEMMA MoreRows ==
    ASSUME NEW S \in SUBSET Row, NEW T \in SUBSET S
    PROVE  /\ Cardinality(S) \in Nat /\ Cardinality(T) \in Nat
           /\ Cardinality(T) <= Cardinality(S)
BY RowsAreFinite, FS_Subset

\* As many rows as there are, each is the so many-th.
LEMMA RankLemma ==
    ASSUME NEW S \in SUBSET Row, NEW k \in 1..Cardinality(S)
    PROVE  \E r \in S : Cardinality({x \in S : x <= r}) = k
<1> DEFINE Upto(r) == {x \in S : x <= r}
           Far == {r \in Nat : Cardinality(Upto(r)) >= k}
<1>1. MaxRow \in Nat /\ \A x \in S : x \in Nat /\ x >= 1 /\ x <= MaxRow
  BY BoundsAssumption DEF Row
<1>2. Upto(MaxRow) = S BY <1>1
<1>3. Cardinality(S) \in Nat /\ k \in Nat /\ k >= 1 /\ k <= Cardinality(S)
  BY RowsAreFinite
<1>4. MaxRow \in Far BY <1>1, <1>2, <1>3
<1>5. PICK r \in Far : \A y \in Far : ~(<<y, r>> \in OpToRel(<, Nat))
  BY <1>4, NatLessThanWellFounded, WFMin
<1>6. \A y \in Nat : y < r => y \notin Far BY <1>5 DEF OpToRel
<1>7. r \in Nat /\ Cardinality(Upto(r)) >= k BY <1>5
<1>8. r # 0
  <2>1. Upto(0) = {} BY <1>1
  <2>2. Cardinality(Upto(0)) = 0 BY <2>1, FS_EmptySet
  <2> QED BY <1>3, <1>7, <2>2
<1>9. r - 1 \in Nat /\ r - 1 < r BY <1>7, <1>8
<1>10. ~(Cardinality(Upto(r - 1)) >= k) BY <1>6, <1>9
<1>11. IsFiniteSet(Upto(r - 1)) /\ Cardinality(Upto(r - 1)) \in Nat
  <2>1. Upto(r - 1) \in SUBSET Row OBVIOUS
  <2> QED BY <2>1, RowsAreFinite
<1>12. Upto(r) = IF r \in S THEN Upto(r - 1) \cup {r} ELSE Upto(r - 1)
  BY <1>1, <1>7, <1>9
<1>13. r \in S
  <2> HIDE DEF Upto
  <2> QED BY <1>3, <1>7, <1>10, <1>11, <1>12
<1>14. Cardinality(Upto(r)) = Cardinality(Upto(r - 1)) + 1
  <2>1. r \notin Upto(r - 1) BY <1>7
  <2>2. Upto(r) = Upto(r - 1) \cup {r} BY <1>12, <1>13
  <2> HIDE DEF Upto
  <2> QED BY <2>1, <2>2, <1>11, FS_AddElement
<1>15. Cardinality(Upto(r)) = k
  <2> HIDE DEF Upto
  <2> QED BY <1>3, <1>7, <1>10, <1>11, <1>14
<1> QED BY <1>13, <1>15

\* A page there is has a row, if there is a row.
LEMMA PagesHaveRows ==
    ASSUME remote \in RowMap, NEW k, IsAPage(k), console.pages = "pages",
           Cardinality(DOMAIN remote) > 0
    PROVE  OnPage(k) # {}
<1>1. DOMAIN remote \in SUBSET Row BY RowMapFacts
<1>2. Cardinality(DOMAIN remote) \in Nat BY <1>1, RowsAreFinite
<1>3. k \in 1..Cardinality(DOMAIN remote) BY <1>2 DEF IsAPage
<1>4. PICK r \in DOMAIN remote : Cardinality({x \in DOMAIN remote : x <= r}) = k
  BY <1>1, <1>3, RankLemma
<1> QED BY <1>4 DEF OnPage

LEMMA PutRowFacts ==
    ASSUME NEW f \in RowMap, NEW S \in SUBSET Row, NEW v \in Nat
    PROVE  /\ Put(f, S, v) \in RowMap /\ DOMAIN Put(f, S, v) = DOMAIN f \cup S
           /\ \A r \in DOMAIN f \ S : Put(f, S, v)[r] = f[r]
<1> DEFINE g == Put(f, S, v)
<1>1. DOMAIN f \subseteq Row /\ \A r \in DOMAIN f : f[r] \in Nat BY RowMapFacts
<1>2. /\ DOMAIN g = DOMAIN f \cup S
      /\ \A r \in DOMAIN f \cup S : g[r] = IF r \in S THEN v ELSE f[r]
      /\ g = [r \in DOMAIN f \cup S |-> IF r \in S THEN v ELSE f[r]]
  BY DEF Put
<1>3. g \in [DOMAIN f \cup S -> Nat] BY <1>1, <1>2
<1> HIDE DEF g
<1>4. g \in RowMap BY <1>1, <1>2, <1>3, RowMapFacts
<1> QED BY <1>2, <1>4 DEF g

LEMMA LessRows ==
    ASSUME NEW f \in RowMap, NEW r, NEW g, g = [x \in DOMAIN f \ {r} |-> f[x]]
    PROVE  g \in RowMap /\ DOMAIN g = DOMAIN f \ {r}
<1>1. DOMAIN f \subseteq Row /\ \A x \in DOMAIN f : f[x] \in Nat BY RowMapFacts
<1>2. DOMAIN g = DOMAIN f \ {r} /\ g \in [DOMAIN f \ {r} -> Nat] BY <1>1
<1>3. g \in RowMap BY <1>1, <1>2, RowMapFacts
<1> QED BY <1>2, <1>3

LEMMA NoneFacts ==
    /\ NoTable \in TableType /\ NoTable.of = 0 /\ NoTable.at = 0 /\ NoTable.total = 0
    /\ DOMAIN NoTable.rows = {}
    /\ NoQuery \in QueryType /\ NoQuery.phase = "none"
    /\ NoSave \in SaveType /\ NoSave.phase = "none" /\ NoSave.op = "none"
    /\ DoneSave \in SaveType /\ DoneSave.phase = "done" /\ DoneSave.op = "none"
    /\ NoneOpen \in DialogType /\ NoneOpen.open = "none"
<1>1. [r \in {} |-> 0] \in [{} -> Nat] OBVIOUS
<1>2. [r \in {} |-> 0] \in RowMap BY <1>1 DEF RowMap
<1>3. NoTable \in TableType /\ NoTable.of = 0 /\ NoTable.at = 0 /\ NoTable.total = 0
      /\ DOMAIN NoTable.rows = {}
  BY <1>2 DEF NoTable, TableType
<1>4. NoQuery \in QueryType /\ NoQuery.phase = "none"
  BY <1>3 DEF NoQuery, QueryType
<1>5. /\ NoSave \in SaveType /\ NoSave.phase = "none" /\ NoSave.op = "none"
      /\ DoneSave \in SaveType /\ DoneSave.phase = "done" /\ DoneSave.op = "none"
  BY DEF NoSave, DoneSave, SaveType, SaveOps
<1>6. NoneOpen \in DialogType /\ NoneOpen.open = "none" BY DEF NoneOpen, DialogType
<1> QED BY <1>3, <1>4, <1>5, <1>6

LEMMA SaveFields ==
    ASSUME RowTypes, NEW s \in Save
    PROVE  /\ save[s] \in SaveType /\ save[s].op \in SaveOps /\ save[s].row \in Nat
           /\ save[s].flag \in Nat /\ save[s].key \in Nat /\ save[s].at \in Nat
           /\ save[s].phase \in {"none", "sent", "ok", "done"}
BY DEF RowTypes, SaveType

LEMMA QueryFields ==
    ASSUME RowTypes, NEW q \in Query
    PROVE  /\ query[q] \in QueryType /\ query[q].key \in Nat /\ query[q].answer \in TableType
           /\ query[q].phase \in {"none", "sent", "ok"}
           /\ query[q].answer.at \in Nat /\ query[q].answer.of \in Nat
           /\ query[q].answer.total \in Nat
BY DEF RowTypes, QueryType, TableType

\* A fetch of the list is sent.
LEMMA QuerySent ==
    ASSUME RowTypes, NEW k \in Nat, fetchRows(k)
    PROVE  \E q \in Query :
             /\ query[q] = NoQuery /\ query' \in [Query -> QueryType]
             /\ query'[q].phase = "sent" /\ query'[q].key = k
             /\ \A p \in Query : p # q => query'[p] = query[p]
<1> DEFINE n == [NoQuery EXCEPT !.phase = "sent", !.key = k]
<1>1. PICK q \in Query : query[q] = NoQuery /\ query' = [query EXCEPT ![q] = n]
  BY DEF fetchRows
<1>2. n \in QueryType /\ n.phase = "sent" /\ n.key = k
  BY NoneFacts DEF QueryType, NoQuery
<1> HIDE DEF n
<1>3. /\ query' \in [Query -> QueryType] /\ query'[q] = n
      /\ \A p \in Query : p # q => query'[p] = query[p]
  BY <1>1, <1>2 DEF RowTypes
<1> QED BY <1>1, <1>2, <1>3

\* The page sends a request.
LEMMA SaveSent ==
    ASSUME RowTypes, NEW op \in SaveOps, NEW r \in Nat, NEW flag \in Nat, Request(op, r, flag)
    PROVE  \E s \in Save :
             /\ save[s] = NoSave /\ save' \in [Save -> SaveType]
             /\ save'[s].phase = "sent" /\ save'[s].op = op /\ save'[s].row = r
             /\ save'[s].flag = flag /\ save'[s].key = key
             /\ op \in {"create", "edit"} => save'[s].dialog = "mine"
             /\ \A t \in Save : t # s => save'[t] = save[t]
<1> DEFINE d == IF op \in {"create", "edit"} THEN "mine" ELSE "gone"
           n == [NoSave EXCEPT !.phase = "sent", !.op = op, !.row = r, !.flag = flag,
                               !.key = key, !.dialog = d]
<1>1. PICK s \in Save : save[s] = NoSave /\ save' = [save EXCEPT ![s] = n]
  BY DEF Request
<1>2. d \in {"mine", "gone"} /\ (op \in {"create", "edit"} => d = "mine") OBVIOUS
<1> HIDE DEF d
<1>3. key \in Nat BY BoundsAssumption DEF RowTypes, Row
<1>4. /\ n \in SaveType /\ n.phase = "sent" /\ n.op = op /\ n.row = r /\ n.flag = flag
      /\ n.key = key /\ n.dialog = d
  BY <1>2, <1>3, NoneFacts DEF SaveType, NoSave
<1> HIDE DEF n
<1>5. /\ save' \in [Save -> SaveType] /\ save'[s] = n
      /\ \A t \in Save : t # s => save'[t] = save[t]
  BY <1>1, <1>4 DEF RowTypes
<1> QED BY <1>1, <1>2, <1>4, <1>5

\* Two requests are alike but for the dialog they belong to.
Alike(n, p) == /\ n.phase = p.phase /\ n.op = p.op /\ n.row = p.row /\ n.flag = p.flag
               /\ n.key = p.key /\ n.at = p.at

\* The request is over; the others go on.
SaveEnds(s) == /\ save' \in [Save -> SaveType]
               /\ save'[s].phase = "done" /\ save'[s].op = "none"
               /\ \A t \in Save : t # s => Alike(save'[t], save[t])

LEMMA SaveEndsAlone ==
    ASSUME RowTypes, NEW s \in Save, save' = [save EXCEPT ![s] = DoneSave]
    PROVE  SaveEnds(s) /\ \A t \in Save : t # s => save'[t] = save[t]
<1>1. /\ save' \in [Save -> SaveType] /\ save'[s] = DoneSave
      /\ \A t \in Save : t # s => save'[t] = save[t]
  BY NoneFacts DEF RowTypes
<1> QED BY <1>1, NoneFacts DEF SaveEnds, Alike

LEMMA OrphanedFacts ==
    ASSUME RowTypes, NEW op
    PROVE  /\ Orphaned(op) \in [Save -> SaveType]
           /\ \A s \in Save : /\ Alike(Orphaned(op)[s], save[s])
                              /\ save[s].op = op => Orphaned(op)[s].dialog = "gone"
                              /\ save[s].op # op => Orphaned(op)[s] = save[s]
<1>1. \A s \in Save : Orphaned(op)[s] = IF save[s].op = op THEN [save[s] EXCEPT !.dialog = "gone"]
                                        ELSE save[s]
  BY DEF Orphaned
<1>2. ASSUME NEW s \in Save
      PROVE  /\ [save[s] EXCEPT !.dialog = "gone"] \in SaveType
             /\ [save[s] EXCEPT !.dialog = "gone"].dialog = "gone"
             /\ Alike([save[s] EXCEPT !.dialog = "gone"], save[s])
  BY SaveFields DEF SaveType, Alike
<1>3. \A s \in Save : Alike(save[s], save[s]) BY DEF Alike
<1>4. \A s \in Save : save[s] \in SaveType BY SaveFields
<1> QED BY <1>1, <1>2, <1>3, <1>4 DEF Orphaned

\* What the pages are counted by grows, and nothing new is asked.
LEMMA MorePages ==
    ASSUME RowTypes, PagesAreThere, remote' \in RowMap,
           "deleted" \notin met' => "deleted" \notin met /\ DOMAIN remote \subseteq DOMAIN remote',
           console' = console, key' = key, table' = table, query' = query,
           \A s \in Save : UnderWay(s)' => UnderWay(s) /\ save'[s].key = save[s].key
    PROVE  PagesAreThere'
<1> SUFFICES ASSUME "deleted" \notin met', console'.pages = "pages"
             PROVE  /\ IsAPage(key)' /\ PageHasRows(table)'
                    /\ \A p \in Query : /\ Fetching(p)' => IsAPage(query[p].key)'
                                        /\ query'[p].phase = "ok" => PageHasRows(query[p].answer)'
                    /\ \A s \in Save : UnderWay(s)' => IsAPage(save[s].key)'
  BY DEF PagesAreThere
<1>1. /\ IsAPage(key) /\ PageHasRows(table)
      /\ \A p \in Query : /\ Fetching(p) => IsAPage(query[p].key)
                          /\ query[p].phase = "ok" => PageHasRows(query[p].answer)
      /\ \A s \in Save : UnderWay(s) => IsAPage(save[s].key)
  BY DEF PagesAreThere
<1>2. DOMAIN remote' \in SUBSET Row /\ DOMAIN remote \in SUBSET (DOMAIN remote')
  BY RowMapFacts DEF RowTypes
<1>3. /\ Cardinality(DOMAIN remote') \in Nat /\ Cardinality(DOMAIN remote) \in Nat
      /\ Cardinality(DOMAIN remote) <= Cardinality(DOMAIN remote')
  BY <1>2, MoreRows
<1>4. \A k : IsAPage(k) => k = 1 \/ k \in 1..Cardinality(DOMAIN remote')
  BY <1>3 DEF IsAPage
<1>5. IsAPage(key)' BY <1>1, <1>4 DEF IsAPage
<1>6. PageHasRows(table)'
  <2>1. table.total \in Nat BY DEF RowTypes, TableType
  <2> QED BY <1>1, <1>3, <2>1 DEF PageHasRows
<1>7. ASSUME NEW p \in Query
      PROVE  /\ Fetching(p)' => IsAPage(query[p].key)'
             /\ query'[p].phase = "ok" => PageHasRows(query[p].answer)'
  <2>1. Fetching(p)' => IsAPage(query[p].key)' BY <1>1, <1>4 DEF IsAPage, Fetching
  <2>2. ASSUME query'[p].phase = "ok" PROVE PageHasRows(query[p].answer)'
    <3>1. PageHasRows(query[p].answer) BY <1>1, <2>2
    <3>2. query[p].answer.total \in Nat BY QueryFields
    <3> QED BY <1>3, <3>1, <3>2 DEF PageHasRows
  <2> QED BY <2>1, <2>2
<1>8. ASSUME NEW s \in Save, UnderWay(s)' PROVE IsAPage(save[s].key)'
  <2>1. IsAPage(save[s].key) BY <1>1, <1>8
  <2> QED BY <1>4, <1>8, <2>1 DEF IsAPage
<1> QED BY <1>5, <1>6, <1>7, <1>8


LEMMA RowsStart == ListPageInit => RowsInv
<1> SUFFICES ASSUME ListPageInit PROVE RowsInv OBVIOUS
<1> DEFINE first == [NoQuery EXCEPT !.phase = "sent", !.key = 1]
<1>1. PICK q \in Query : query = [x \in Query |-> IF x = q THEN first ELSE NoQuery]
  BY DEF ListPageInit
<1>2. first \in QueryType /\ first.phase = "sent" /\ first.key = 1
  BY NoneFacts DEF QueryType, NoQuery
<1> HIDE DEF first
<1>3. /\ query \in [Query -> QueryType] /\ query[q].phase = "sent" /\ query[q].key = 1
      /\ \A p \in Query : p # q => query[p] = NoQuery
  BY <1>1, <1>2, NoneFacts
<1>4. PICK n \in 0..MaxRow : remote = [r \in 1..n |-> 0] BY DEF ListPageInit
<1>5. remote \in RowMap
  <2>1. remote \in [1..n -> Nat] /\ 1..n \in SUBSET Row
    BY <1>4, BoundsAssumption DEF Row
  <2> QED BY <2>1 DEF RowMap
<1>6. /\ console \in Console /\ changes = 0 /\ key = 1 /\ table = NoTable /\ isLoading = "yes"
      /\ dialog = NoneOpen /\ createBusy = "no" /\ editBusy = "no" /\ reveal = 0
      /\ save = [s \in Save |-> NoSave] /\ answered = 0 /\ met = {} /\ mishap = {}
  BY DEF ListPageInit
<1>7. key \in Row BY <1>6, BoundsAssumption DEF Row
<1>8. save \in [Save -> SaveType] /\ \A s \in Save : save[s] = NoSave BY <1>6, NoneFacts
<1>9. RowTypes BY <1>3, <1>5, <1>6, <1>7, <1>8, NoneFacts DEF RowTypes
<1>10. \A s \in Save : ~UnderWay(s) /\ save[s].op = "none" /\ save[s].phase = "none"
  BY <1>8, NoneFacts DEF UnderWay
<1>11. AnswersInOrder BY <1>3, <1>6, <1>8, <1>10, NoneFacts DEF AnswersInOrder
<1>12. OwnChangesAreComing BY <1>6, NoneFacts DEF OwnChangesAreComing
<1>13. RequestsAreOfTheKey
  BY <1>3, <1>6, <1>10, NoneFacts DEF RequestsAreOfTheKey, Fetching
<1>14. DOMAIN remote \in SUBSET Row /\ Cardinality(DOMAIN remote) \in Nat
  BY <1>5, RowMapFacts, RowsAreFinite
<1>15. PagesAreThere
  BY <1>3, <1>6, <1>10, <1>14, NoneFacts DEF PagesAreThere, Fetching, IsAPage, PageHasRows
<1>16. DialogsWaitForTheirs BY <1>6, <1>10 DEF DialogsWaitForTheirs
<1>17. CopiesAreFresh BY <1>3, <1>6, <1>10, NoneFacts DEF CopiesAreFresh, Fresh
<1>18. SecretsComeOnce BY <1>6, <1>10 DEF SecretsComeOnce
<1> QED BY <1>9, <1>11, <1>12, <1>13, <1>15, <1>16, <1>17, <1>18 DEF RowsInv

-----------------------------------------------------------------------------
(* The list is fetched and shown                                           *)

LEMMA ServeListKeepsRows == ASSUME RowsInv, NEW q \in Query, ServeList(q) PROVE RowsInv'
<1>1. /\ RowTypes /\ AnswersInOrder /\ OwnChangesAreComing /\ RequestsAreOfTheKey
      /\ PagesAreThere /\ DialogsWaitForTheirs /\ CopiesAreFresh /\ SecretsComeOnce
  BY DEF RowsInv
<1> DEFINE a == [of |-> query[q].key, at |-> changes,
                 rows |-> [r \in OnPage(query[q].key) |-> remote[r]],
                 total |-> Cardinality(DOMAIN remote)]
           n == [query[q] EXCEPT !.phase = "ok", !.answer = a]
<1>2. /\ query[q].phase = "sent" /\ query' = [query EXCEPT ![q] = n]
      /\ console' = console /\ remote' = remote /\ changes' = changes /\ key' = key
      /\ table' = table /\ isLoading' = isLoading /\ dialog' = dialog
      /\ createBusy' = createBusy /\ editBusy' = editBusy /\ save' = save
      /\ reveal' = reveal /\ answered' = answered /\ met' = met /\ mishap' = mishap
  BY DEF ServeList
<1>3. /\ DOMAIN remote \in SUBSET Row /\ remote \in [DOMAIN remote -> Nat]
      /\ Cardinality(DOMAIN remote) \in Nat
  BY <1>1, RowMapFacts, RowsAreFinite DEF RowTypes
<1>4. OnPage(query[q].key) \subseteq DOMAIN remote BY DEF OnPage
<1>5. /\ a.of = query[q].key /\ a.at = changes /\ a.total = Cardinality(DOMAIN remote)
      /\ DOMAIN a.rows = OnPage(query[q].key) /\ a \in TableType /\ Fresh(a)
  <2>1. [r \in OnPage(query[q].key) |-> remote[r]] \in RowMap
    BY <1>3, <1>4 DEF RowMap
  <2> QED BY <1>1, <1>3, <1>4, <2>1, QueryFields DEF TableType, RowTypes, Fresh
<1> HIDE DEF a
<1>6. n \in QueryType /\ n.phase = "ok" /\ n.answer = a /\ n.key = query[q].key
  BY <1>1, <1>5, QueryFields DEF QueryType
<1> HIDE DEF n
<1>7. /\ query' \in [Query -> QueryType] /\ query'[q] = n
      /\ \A p \in Query : p # q => query'[p] = query[p]
  BY <1>1, <1>2, <1>6 DEF RowTypes
<1>8. RowTypes' BY <1>1, <1>2, <1>7 DEF RowTypes
<1>9. AnswersInOrder'
  BY <1>1, <1>2, <1>5, <1>6, <1>7 DEF AnswersInOrder, UnderWay, RowTypes
<1>10. OwnChangesAreComing'
  BY <1>1, <1>2, <1>5, <1>6, <1>7 DEF OwnChangesAreComing, AnswersInOrder
<1>11. RequestsAreOfTheKey'
  BY <1>1, <1>2, <1>6, <1>7 DEF RequestsAreOfTheKey, Fetching, UnderWay
<1>12. PagesAreThere'
  <2>1. ASSUME IsAPage(query[q].key), console.pages = "pages", a.total > 0
        PROVE  DOMAIN a.rows # {}
    BY <1>1, <1>5, <2>1, PagesHaveRows DEF RowTypes
  <2>2. IsAPage(query[q].key) /\ console.pages = "pages" => PageHasRows(a)
    BY <1>3, <1>5, <2>1 DEF PageHasRows
  <2>3. \A p \in Query : query'[p].key = query[p].key /\ (Fetching(p)' <=> Fetching(p))
    BY <1>2, <1>6, <1>7 DEF Fetching
  <2>4. "deleted" \notin met /\ console.pages = "pages" => PageHasRows(a)
    BY <1>1, <1>2, <2>2 DEF PagesAreThere, Fetching
  <2> QED BY <1>1, <1>2, <1>6, <1>7, <2>3, <2>4
          DEF PagesAreThere, UnderWay, IsAPage, PageHasRows
<1>13. DialogsWaitForTheirs' BY <1>1, <1>2 DEF DialogsWaitForTheirs, UnderWay
<1>14. CopiesAreFresh'
  BY <1>1, <1>2, <1>5, <1>6, <1>7 DEF CopiesAreFresh, UnderWay, HasOwnChanges, Fresh
<1>15. SecretsComeOnce' BY <1>1, <1>2 DEF SecretsComeOnce, UnderWay
<1> QED BY <1>8, <1>9, <1>10, <1>11, <1>12, <1>13, <1>14, <1>15 DEF RowsInv

LEMMA ListAnsweredKeepsRows == ASSUME RowsInv, NEW q \in Query, ListAnswered(q) PROVE RowsInv'
<1>1. /\ RowTypes /\ AnswersInOrder /\ OwnChangesAreComing /\ RequestsAreOfTheKey
      /\ PagesAreThere /\ DialogsWaitForTheirs /\ CopiesAreFresh /\ SecretsComeOnce
  BY DEF RowsInv
<1>2. /\ \/ /\ query[q].phase = "ok" /\ table' = query[q].answer
            /\ met' = IF query[q].answer.at < table.at THEN met \cup {"overtaken"} ELSE met
         \/ /\ query[q].phase = "sent" /\ table' \in {NoTable, table}
            /\ met' = met \cup {"failed"}
      /\ isLoading' = "no" /\ query' = [query EXCEPT ![q] = NoQuery]
      /\ console' = console /\ remote' = remote /\ changes' = changes /\ key' = key
      /\ dialog' = dialog /\ createBusy' = createBusy /\ editBusy' = editBusy /\ save' = save
      /\ reveal' = reveal /\ answered' = answered /\ mishap' = mishap
  BY DEF ListAnswered
<1>3. /\ query' \in [Query -> QueryType] /\ query'[q] = NoQuery
      /\ \A p \in Query : p # q => query'[p] = query[p]
  BY <1>1, <1>2, NoneFacts DEF RowTypes
<1>4. met \subseteq met' /\ met' \subseteq met \cup {"overtaken", "failed"} BY <1>2
<1>5. /\ DOMAIN remote \in SUBSET Row /\ Cardinality(DOMAIN remote) \in Nat
  BY <1>1, RowMapFacts, RowsAreFinite DEF RowTypes
<1>6. /\ table.at \in Nat /\ answered \in Nat /\ changes \in Nat BY <1>1 DEF RowTypes, TableType
<1>7. /\ query[q].answer \in TableType /\ query[q].answer.at \in Nat
  BY <1>1, QueryFields
<1>8. RowTypes' BY <1>1, <1>2, <1>3, <1>7, NoneFacts DEF RowTypes
<1>9. AnswersInOrder'
  BY <1>1, <1>2, <1>3, <1>6, NoneFacts DEF AnswersInOrder, UnderWay
<1>10. OwnChangesAreComing'
  BY <1>1, <1>2, <1>3, <1>6, <1>7, NoneFacts DEF OwnChangesAreComing
<1>11. RequestsAreOfTheKey'
  BY <1>1, <1>2, <1>3, NoneFacts DEF RequestsAreOfTheKey, Fetching, UnderWay, AnswersInOrder
<1>12. PagesAreThere'
  BY <1>1, <1>2, <1>3, <1>5, NoneFacts
     DEF PagesAreThere, Fetching, UnderWay, IsAPage, PageHasRows
<1>13. DialogsWaitForTheirs' BY <1>1, <1>2, <1>4 DEF DialogsWaitForTheirs, UnderWay
<1>14. CopiesAreFresh'
  <2>1. CASE query[q].phase = "ok" /\ table' = query[q].answer
    BY <1>1, <1>2, <1>3, <1>4, <2>1, NoneFacts
       DEF CopiesAreFresh, UnderWay, HasOwnChanges, Fresh
  <2>2. CASE met' = met \cup {"failed"}
    BY <2>2 DEF CopiesAreFresh
  <2> QED BY <1>2, <2>1, <2>2
<1>15. SecretsComeOnce' BY <1>1, <1>2, <1>4 DEF SecretsComeOnce, UnderWay
<1> QED BY <1>8, <1>9, <1>10, <1>11, <1>12, <1>13, <1>14, <1>15 DEF RowsInv

LEMMA TurnPageKeepsRows == ASSUME RowsInv, NEW k \in Row, TurnPage(k) PROVE RowsInv'
<1>1. /\ RowTypes /\ AnswersInOrder /\ OwnChangesAreComing /\ RequestsAreOfTheKey
      /\ PagesAreThere /\ DialogsWaitForTheirs /\ CopiesAreFresh /\ SecretsComeOnce
  BY DEF RowsInv
<1>2. /\ console.pages = "pages" => k \in {key - 1, key + 1} /\ (k > key => key < table.total)
      /\ key' = k /\ fetchRows(k) /\ isLoading' = "yes"
      /\ met' = IF Quiet THEN met ELSE met \cup {"turned"}
      /\ console' = console /\ remote' = remote /\ changes' = changes /\ table' = table
      /\ dialog' = dialog /\ createBusy' = createBusy /\ editBusy' = editBusy /\ save' = save
      /\ reveal' = reveal /\ answered' = answered /\ mishap' = mishap
  BY DEF TurnPage, fetchRows
<1>3. k \in Nat /\ key \in Nat /\ k >= 1 /\ key >= 1
  BY <1>1, BoundsAssumption DEF RowTypes, Row
<1>4. PICK q \in Query : /\ query[q] = NoQuery /\ query' \in [Query -> QueryType]
                         /\ query'[q].phase = "sent" /\ query'[q].key = k
                         /\ \A p \in Query : p # q => query'[p] = query[p]
  BY <1>1, <1>2, <1>3, QuerySent
<1>5. /\ met \subseteq met' /\ met' \subseteq met \cup {"turned"}
      /\ "turned" \notin met' => /\ \A p \in Query : query[p] = NoQuery
                                 /\ \A s \in Save : ~UnderWay(s)
  BY <1>2 DEF Quiet, Querying, Saving, UnderWay
<1>6. /\ DOMAIN remote \in SUBSET Row /\ Cardinality(DOMAIN remote) \in Nat /\ table.total \in Nat
  BY <1>1, RowMapFacts, RowsAreFinite DEF RowTypes, TableType
<1>7. RowTypes' BY <1>1, <1>2, <1>4 DEF RowTypes
<1>8. AnswersInOrder' BY <1>1, <1>2, <1>4 DEF AnswersInOrder, UnderWay
<1>9. OwnChangesAreComing' BY <1>1, <1>4 DEF OwnChangesAreComing
<1>10. RequestsAreOfTheKey'
  BY <1>2, <1>4, <1>5, NoneFacts DEF RequestsAreOfTheKey, Fetching, UnderWay
<1>11. PagesAreThere'
  <2> SUFFICES ASSUME "deleted" \notin met', console'.pages = "pages"
               PROVE  /\ IsAPage(key)' /\ PageHasRows(table)'
                      /\ \A p \in Query : /\ Fetching(p)' => IsAPage(query[p].key)'
                                          /\ query'[p].phase = "ok" => PageHasRows(query[p].answer)'
                      /\ \A s \in Save : UnderWay(s)' => IsAPage(save[s].key)'
    BY DEF PagesAreThere
  <2>1. /\ IsAPage(key) /\ PageHasRows(table)
        /\ \A p \in Query : /\ Fetching(p) => IsAPage(query[p].key)
                            /\ query[p].phase = "ok" => PageHasRows(query[p].answer)
        /\ \A s \in Save : UnderWay(s) => IsAPage(save[s].key)
    BY <1>1, <1>2, <1>5 DEF PagesAreThere
  <2>2. k = 1 \/ k \in 1..Cardinality(DOMAIN remote)
    BY <1>2, <1>3, <1>6, <2>1 DEF IsAPage, PageHasRows
  <2> QED BY <1>2, <1>4, <2>1, <2>2 DEF IsAPage, PageHasRows, Fetching, UnderWay
<1>12. DialogsWaitForTheirs' BY <1>1, <1>2, <1>5 DEF DialogsWaitForTheirs, UnderWay
<1>13. CopiesAreFresh'
  BY <1>1, <1>2, <1>4, <1>5 DEF CopiesAreFresh, UnderWay, HasOwnChanges, Fresh
<1>14. SecretsComeOnce' BY <1>1, <1>2, <1>5 DEF SecretsComeOnce, UnderWay
<1> QED BY <1>7, <1>8, <1>9, <1>10, <1>11, <1>12, <1>13, <1>14 DEF RowsInv


-----------------------------------------------------------------------------
(* The user of the list                                                    *)

LEMMA MetAtOpeningFacts ==
    ASSUME AnswersInOrder, met' = MetAtOpening
    PROVE  /\ met \subseteq met' /\ met' \subseteq met \cup {"busy", "loading", "beside"}
           /\ "busy" \notin met' => \A s \in Save : ~UnderWay(s)
           /\ "loading" \notin met' => \A q \in Query : query[q] = NoQuery
           /\ "beside" \notin met' => \A s \in Save : save[s].op # "marker"
BY DEF MetAtOpening, Saving, Querying, UnderWay

\* A dialog is opened, for the row that is listed.
LEMMA OpeningKeepsRows ==
    ASSUME RowsInv, dialog = NoneOpen, met' = MetAtOpening,
           dialog' \in DialogType, dialog'.open \in {"create", "edit"},
           dialog'.open = "edit" => /\ dialog'.row \in DOMAIN table.rows
                                    /\ dialog'.copy = table.rows[dialog'.row],
           editBusy' \in {"no", editBusy},
           UNCHANGED <<console, remote, changes, key, table, isLoading, query, createBusy,
                       save, reveal, answered, mishap>>
    PROVE  RowsInv'
<1>1. /\ RowTypes /\ AnswersInOrder /\ OwnChangesAreComing /\ RequestsAreOfTheKey
      /\ PagesAreThere /\ DialogsWaitForTheirs /\ CopiesAreFresh /\ SecretsComeOnce
  BY DEF RowsInv
<1>2. /\ console' = console /\ remote' = remote /\ changes' = changes /\ key' = key
      /\ table' = table /\ isLoading' = isLoading /\ query' = query
      /\ createBusy' = createBusy /\ save' = save
      /\ reveal' = reveal /\ answered' = answered /\ mishap' = mishap
  OBVIOUS
<1>3. /\ met \subseteq met' /\ met' \subseteq met \cup {"busy", "loading", "beside"}
      /\ "busy" \notin met' => \A s \in Save : ~UnderWay(s)
      /\ "loading" \notin met' => \A q \in Query : query[q] = NoQuery
      /\ "beside" \notin met' => \A s \in Save : save[s].op # "marker"
  BY <1>1, MetAtOpeningFacts
<1>4. RowTypes' BY <1>1, <1>2 DEF RowTypes
<1>5. AnswersInOrder' BY <1>1, <1>2 DEF AnswersInOrder, UnderWay
<1>6. OwnChangesAreComing' BY <1>1, <1>2, <1>3 DEF OwnChangesAreComing
<1>7. RequestsAreOfTheKey' BY <1>1, <1>2, <1>3 DEF RequestsAreOfTheKey, Fetching, UnderWay
<1>8. PagesAreThere'
  BY <1>1, <1>2, <1>3 DEF PagesAreThere, Fetching, UnderWay, IsAPage, PageHasRows
<1>9. DialogsWaitForTheirs'
  BY <1>1, <1>2, <1>3, NoneFacts DEF DialogsWaitForTheirs, UnderWay
<1>10. CopiesAreFresh'
  <2> SUFFICES ASSUME met' \cap {"others", "busy", "loading", "two", "failed", "overtaken"} = {}
               PROVE  CopiesAreFresh'
    BY DEF CopiesAreFresh
  <2>1. \A s \in Save : ~UnderWay(s) BY <1>3
  <2>2. table.at >= answered BY <1>1, <1>3, NoneFacts DEF OwnChangesAreComing
  <2>3. Fresh(table)
    BY <1>1, <1>3, <2>1, <2>2 DEF CopiesAreFresh, HasOwnChanges, UnderWay
  <2>4. dialog'.open = "edit" /\ dialog'.row \in DOMAIN remote
          => dialog'.copy = remote[dialog'.row]
    BY <2>3 DEF Fresh
  <2> QED BY <1>1, <1>2, <1>3, <2>1, <2>4 DEF CopiesAreFresh, UnderWay, HasOwnChanges, Fresh
<1>11. SecretsComeOnce' BY <1>1, <1>2, <1>3 DEF SecretsComeOnce, UnderWay
<1> QED BY <1>4, <1>5, <1>6, <1>7, <1>8, <1>9, <1>10, <1>11 DEF RowsInv

LEMMA OpenCreateKeepsRows == ASSUME RowsInv, OpenCreate PROVE RowsInv'
<1>1. /\ dialog = NoneOpen /\ dialog' = [NoneOpen EXCEPT !.open = "create"]
      /\ met' = MetAtOpening
      /\ UNCHANGED <<console, remote, changes, key, table, isLoading, query, createBusy,
                     editBusy, save, reveal, answered, mishap>>
  BY DEF OpenCreate, AtRest
<1>2. dialog' \in DialogType /\ dialog'.open = "create" BY <1>1 DEF NoneOpen, DialogType
<1> QED BY <1>1, <1>2, OpeningKeepsRows

LEMMA OpenEditKeepsRows == ASSUME RowsInv, NEW r \in Row, OpenEdit(r) PROVE RowsInv'
<1>1. /\ dialog = NoneOpen /\ r \in DOMAIN table.rows
      /\ dialog' = [open |-> "edit", row |-> r, copy |-> table.rows[r]]
      /\ editBusy' \in {"no", editBusy} /\ met' = MetAtOpening
      /\ UNCHANGED <<console, remote, changes, key, table, isLoading, query, createBusy,
                     save, reveal, answered, mishap>>
  BY DEF OpenEdit, Listed, AtRest
<1>2. table.rows \in RowMap BY DEF RowsInv, RowTypes, TableType
<1>3. table.rows[r] \in Nat /\ r \in Nat BY <1>1, <1>2, RowMapFacts, BoundsAssumption DEF Row
<1>4. /\ dialog' \in DialogType /\ dialog'.open = "edit" /\ dialog'.row = r
      /\ dialog'.copy = table.rows[r]
  BY <1>1, <1>3 DEF DialogType
<1> QED BY <1>1, <1>4, OpeningKeepsRows

LEMMA CancelKeepsRows == ASSUME RowsInv, Cancel PROVE RowsInv'
<1>1. /\ RowTypes /\ AnswersInOrder /\ OwnChangesAreComing /\ RequestsAreOfTheKey
      /\ PagesAreThere /\ DialogsWaitForTheirs /\ CopiesAreFresh /\ SecretsComeOnce
  BY DEF RowsInv
<1>2. /\ dialog.open # "none" /\ dialog' = NoneOpen /\ save' = Orphaned(dialog.open)
      /\ met' = IF save' = save THEN met ELSE met \cup {"left"}
      /\ console' = console /\ remote' = remote /\ changes' = changes /\ key' = key
      /\ table' = table /\ isLoading' = isLoading /\ query' = query
      /\ createBusy' = createBusy /\ editBusy' = editBusy
      /\ reveal' = reveal /\ answered' = answered /\ mishap' = mishap
  BY DEF Cancel
<1>3. /\ save' \in [Save -> SaveType]
      /\ \A s \in Save : /\ Alike(save'[s], save[s])
                         /\ save[s].op = dialog.open => save'[s].dialog = "gone"
                         /\ save[s].op # dialog.open => save'[s] = save[s]
  BY <1>1, <1>2, OrphanedFacts
<1>4. \A s \in Save : /\ save'[s].phase = save[s].phase /\ save'[s].op = save[s].op
                      /\ save'[s].row = save[s].row /\ save'[s].flag = save[s].flag
                      /\ save'[s].key = save[s].key /\ save'[s].at = save[s].at
                      /\ UnderWay(s)' <=> UnderWay(s)
  BY <1>3 DEF Alike, UnderWay
<1>5. met \subseteq met' /\ met' \subseteq met \cup {"left"} /\ ("left" \notin met' => save' = save)
  BY <1>2
<1>6. RowTypes' BY <1>1, <1>2, <1>3, NoneFacts DEF RowTypes
<1>7. AnswersInOrder' BY <1>1, <1>2, <1>4, NoneFacts DEF AnswersInOrder
<1>8. OwnChangesAreComing' BY <1>1, <1>2, <1>5 DEF OwnChangesAreComing
<1>9. RequestsAreOfTheKey' BY <1>1, <1>2, <1>4, <1>5 DEF RequestsAreOfTheKey, Fetching
<1>10. PagesAreThere'
  BY <1>1, <1>2, <1>4, <1>5 DEF PagesAreThere, Fetching, IsAPage, PageHasRows
<1>11. DialogsWaitForTheirs'
  <2> SUFFICES ASSUME met' \cap {"left", "beside", "enter"} = {}
               PROVE  DialogsWaitForTheirs'
    BY DEF DialogsWaitForTheirs
  <2>1. \A s \in Save : UnderWay(s) => save[s].op \notin {"create", "edit"}
    BY <1>1, <1>3, <1>5 DEF DialogsWaitForTheirs
  <2> QED BY <1>1, <1>2, <1>4, <1>5, <2>1 DEF DialogsWaitForTheirs
<1>12. CopiesAreFresh'
  <2>1. dialog'.open = "none" BY <1>2, NoneFacts
  <2> QED BY <1>1, <1>2, <1>4, <1>5, <2>1 DEF CopiesAreFresh, HasOwnChanges, Fresh
<1>13. SecretsComeOnce' BY <1>1, <1>2, <1>4, <1>5 DEF SecretsComeOnce
<1> QED BY <1>6, <1>7, <1>8, <1>9, <1>10, <1>11, <1>12, <1>13 DEF RowsInv

\* A request of a row, or of the marker beside the list.
LEMMA RowRequestKeepsRows ==
    ASSUME RowsInv, dialog = NoneOpen,
           NEW op \in {"delete", "default", "toggle", "marker"}, NEW r \in Nat,
           Request(op, r, 0), op = "marker" => console.beside # "nothing",
           met' = IF op # "marker" /\ Saving THEN met \cup {"two"} ELSE met,
           UNCHANGED <<console, remote, changes, key, table, isLoading, query, dialog,
                       createBusy, editBusy, reveal, answered, mishap>>
    PROVE  RowsInv'
<1>1. /\ RowTypes /\ AnswersInOrder /\ OwnChangesAreComing /\ RequestsAreOfTheKey
      /\ PagesAreThere /\ DialogsWaitForTheirs /\ CopiesAreFresh /\ SecretsComeOnce
  BY DEF RowsInv
<1>2. /\ console' = console /\ remote' = remote /\ changes' = changes /\ key' = key
      /\ table' = table /\ isLoading' = isLoading /\ query' = query /\ dialog' = dialog
      /\ createBusy' = createBusy /\ editBusy' = editBusy
      /\ reveal' = reveal /\ answered' = answered /\ mishap' = mishap
  OBVIOUS
<1>3. op \in SaveOps BY DEF SaveOps
<1>4. PICK s \in Save : /\ save[s] = NoSave /\ save' \in [Save -> SaveType]
                        /\ save'[s].phase = "sent" /\ save'[s].op = op /\ save'[s].key = key
                        /\ \A t \in Save : t # s => save'[t] = save[t]
  BY <1>1, <1>3, SaveSent
<1>5. /\ met \subseteq met' /\ met' \subseteq met \cup {"two"}
      /\ "two" \notin met' /\ op # "marker" => \A t \in Save : ~UnderWay(t)
  BY DEF Saving, UnderWay
<1>6. /\ \A t \in Save : t # s => (UnderWay(t)' <=> UnderWay(t))
      /\ UnderWay(s)' /\ ~UnderWay(s)
  BY <1>4, NoneFacts DEF UnderWay
<1>7. RowTypes' BY <1>1, <1>2, <1>4 DEF RowTypes
<1>8. AnswersInOrder' BY <1>1, <1>2, <1>4, <1>6 DEF AnswersInOrder
<1>9. OwnChangesAreComing' BY <1>1, <1>2, <1>5 DEF OwnChangesAreComing
<1>10. RequestsAreOfTheKey'
  BY <1>1, <1>2, <1>4, <1>5, <1>6 DEF RequestsAreOfTheKey, Fetching
<1>11. PagesAreThere'
  BY <1>1, <1>2, <1>4, <1>5, <1>6 DEF PagesAreThere, Fetching, IsAPage, PageHasRows
<1>12. DialogsWaitForTheirs' BY <1>1, <1>2, <1>4, <1>5, <1>6 DEF DialogsWaitForTheirs
<1>13. CopiesAreFresh'
  <2> SUFFICES ASSUME met' \cap {"others", "busy", "loading", "two", "failed", "overtaken"} = {}
               PROVE  CopiesAreFresh'
    BY DEF CopiesAreFresh
  <2>1. met \cap {"others", "busy", "loading", "two", "failed", "overtaken"} = {} BY <1>5
  <2>2. dialog'.open = "none" BY <1>2, NoneFacts
  <2>3. \A a : HasOwnChanges(a)' => HasOwnChanges(a)
    BY <1>2, <1>4, NoneFacts DEF HasOwnChanges
  <2>4. \A a : Fresh(a)' <=> Fresh(a) BY <1>2 DEF Fresh
  <2>5. ASSUME console'.edit.copies = "yes"
        PROVE  /\ \A t, u \in Save : UnderWay(t)' /\ UnderWay(u)' /\ save'[t].op = "edit" /\ t # u
                                       => save'[u].op = "marker"
               /\ \A t \in Save : save'[t].phase = "sent" /\ save'[t].op = "edit"
                                    /\ save'[t].row \in DOMAIN remote'
                                    => save'[t].flag \in {remote'[save'[t].row], MaxChange + 1}
    <3>1. \A t, u \in Save : UnderWay(t) /\ UnderWay(u) /\ save[t].op = "edit" /\ t # u
                               => save[u].op = "marker"
      BY <1>1, <1>2, <2>1, <2>5 DEF CopiesAreFresh
    <3>2. \A t \in Save : save[t].phase = "sent" /\ save[t].op = "edit"
                            /\ save[t].row \in DOMAIN remote
                            => save[t].flag \in {remote[save[t].row], MaxChange + 1}
      BY <1>1, <1>2, <2>1, <2>5 DEF CopiesAreFresh
    <3> QED BY <1>2, <1>4, <1>5, <1>6, <3>1, <3>2
  <2> QED BY <1>1, <1>2, <2>1, <2>2, <2>3, <2>4, <2>5 DEF CopiesAreFresh
<1>14. SecretsComeOnce' BY <1>1, <1>2, <1>4, <1>5, <1>6 DEF SecretsComeOnce
<1> QED BY <1>7, <1>8, <1>9, <1>10, <1>11, <1>12, <1>13, <1>14 DEF RowsInv

LEMMA SubmitKeepsRows == ASSUME RowsInv, NEW op \in {"create", "edit"}, Submit(op) PROVE RowsInv'
<1>1. /\ RowTypes /\ AnswersInOrder /\ OwnChangesAreComing /\ RequestsAreOfTheKey
      /\ PagesAreThere /\ DialogsWaitForTheirs /\ CopiesAreFresh /\ SecretsComeOnce
  BY DEF RowsInv
<1> DEFINE stops == IF op = "create" THEN createBusy ELSE editBusy
<1>2. /\ dialog.open = op /\ reveal = 0
      /\ op = "edit" => editBusy = "no" \/ console.edit.enter = "yes"
      /\ \E flag \in Flags(op) : Request(op, dialog.row, flag)
      /\ createBusy' = IF op = "create" THEN "yes" ELSE createBusy
      /\ editBusy' = IF op = "edit" THEN "yes" ELSE editBusy
      /\ met' = IF stops = "no" THEN met ELSE met \cup {"enter"}
      /\ console' = console /\ remote' = remote /\ changes' = changes /\ key' = key
      /\ table' = table /\ isLoading' = isLoading /\ query' = query /\ dialog' = dialog
      /\ reveal' = reveal /\ answered' = answered /\ mishap' = mishap
  BY DEF Submit
<1>3. PICK flag \in Flags(op) : Request(op, dialog.row, flag) BY <1>2
<1>4. /\ op \in SaveOps /\ dialog.row \in Nat /\ flag \in Nat
      /\ op = "edit" /\ console.edit.copies = "yes" => flag \in {dialog.copy, MaxChange + 1}
  BY <1>1, BoundsAssumption DEF SaveOps, RowTypes, DialogType, Flags
<1>5. PICK s \in Save : /\ save[s] = NoSave /\ save' \in [Save -> SaveType]
                        /\ save'[s].phase = "sent" /\ save'[s].op = op
                        /\ save'[s].row = dialog.row /\ save'[s].flag = flag
                        /\ save'[s].key = key /\ save'[s].dialog = "mine"
                        /\ \A t \in Save : t # s => save'[t] = save[t]
  BY <1>1, <1>3, <1>4, SaveSent
<1>6. /\ met \subseteq met' /\ met' \subseteq met \cup {"enter"}
      /\ "enter" \notin met' => stops = "no"
  BY <1>2
<1>7. /\ \A t \in Save : t # s => (UnderWay(t)' <=> UnderWay(t))
      /\ UnderWay(s)' /\ ~UnderWay(s)
  BY <1>5, NoneFacts DEF UnderWay
<1>8. RowTypes' BY <1>1, <1>2, <1>5 DEF RowTypes
<1>9. AnswersInOrder' BY <1>1, <1>2, <1>5, <1>7 DEF AnswersInOrder
<1>10. OwnChangesAreComing' BY <1>1, <1>2, <1>6 DEF OwnChangesAreComing
<1>11. RequestsAreOfTheKey'
  BY <1>1, <1>2, <1>5, <1>6, <1>7 DEF RequestsAreOfTheKey, Fetching
<1>12. PagesAreThere'
  BY <1>1, <1>2, <1>5, <1>6, <1>7 DEF PagesAreThere, Fetching, IsAPage, PageHasRows
<1>13. DialogsWaitForTheirs'
  BY <1>1, <1>2, <1>5, <1>6, <1>7, NoneFacts DEF DialogsWaitForTheirs
<1>14. CopiesAreFresh'
  <2> SUFFICES ASSUME met' \cap {"others", "busy", "loading", "two", "failed", "overtaken"} = {}
               PROVE  CopiesAreFresh'
    BY DEF CopiesAreFresh
  <2>1. /\ "undone" \notin mishap
        /\ HasOwnChanges(table) => Fresh(table)
        /\ \A q \in Query : query[q].phase = "ok" /\ HasOwnChanges(query[q].answer)
                              => Fresh(query[q].answer)
        /\ \A t \in Save : UnderWay(t) => save[t].op = op
    BY <1>1, <1>2, <1>6 DEF CopiesAreFresh
  <2>2. ASSUME console.edit.copies = "yes", op = "edit"
        PROVE  /\ \A t \in Save : ~UnderWay(t)
               /\ dialog.row \in DOMAIN remote => dialog.copy = remote[dialog.row]
    <3>1. editBusy = "no" BY <1>1, <1>2, <2>2, ConsoleFacts DEF RowTypes, ConsoleInOrder
    <3> QED BY <1>1, <1>2, <1>6, <2>2, <3>1 DEF CopiesAreFresh
  <2>3. ASSUME console.edit.copies = "yes"
        PROVE  \A t \in Save : save[t].phase = "sent" /\ save[t].op = "edit"
                                 /\ save[t].row \in DOMAIN remote
                                 => save[t].flag \in {remote[save[t].row], MaxChange + 1}
    BY <1>1, <1>2, <1>6, <2>3 DEF CopiesAreFresh
  <2>4. \A t \in Save : UnderWay(t)' => save'[t].op = dialog'.open
    BY <1>2, <1>5, <1>7, <2>1
  <2>5. ASSUME console'.edit.copies = "yes"
        PROVE  /\ \A t, u \in Save : UnderWay(t)' /\ UnderWay(u)' /\ save'[t].op = "edit" /\ t # u
                                       => save'[u].op = "marker"
               /\ dialog'.open = "edit" => editBusy' = "yes"
               /\ \A t \in Save : save'[t].phase = "sent" /\ save'[t].op = "edit"
                                    /\ save'[t].row \in DOMAIN remote'
                                    => save'[t].flag \in {remote'[save'[t].row], MaxChange + 1}
    <3>1. CASE op = "edit"
      BY <1>2, <1>4, <1>5, <1>7, <2>2, <2>3, <2>5, <3>1
    <3>2. CASE op = "create"
      BY <1>2, <1>5, <1>7, <2>1, <2>3, <2>5, <3>2
    <3> QED BY <3>1, <3>2
  <2>6. \A a : HasOwnChanges(a)' => HasOwnChanges(a)
    BY <1>2, <1>5, NoneFacts DEF HasOwnChanges
  <2>7. \A a : Fresh(a)' <=> Fresh(a) BY <1>2 DEF Fresh
  <2> QED BY <1>2, <1>7, <2>1, <2>4, <2>5, <2>6, <2>7 DEF CopiesAreFresh
<1>15. SecretsComeOnce' BY <1>1, <1>2, <1>5, <1>6, <1>7 DEF SecretsComeOnce
<1> QED BY <1>8, <1>9, <1>10, <1>11, <1>12, <1>13, <1>14, <1>15 DEF RowsInv


-----------------------------------------------------------------------------
(* Others, and the answers                                                 *)

LEMMA OthersKeepRows == ASSUME RowsInv, NEW r \in Row, OthersChange(r) PROVE RowsInv'
<1>1. /\ RowTypes /\ AnswersInOrder /\ OwnChangesAreComing /\ RequestsAreOfTheKey
      /\ PagesAreThere /\ DialogsWaitForTheirs /\ CopiesAreFresh /\ SecretsComeOnce
  BY DEF RowsInv
<1>2. /\ changes' = changes + 1
      /\ \/ remote' = Put(remote, {r}, changes + 1) /\ met' = met \cup {"others"}
         \/ /\ remote' = [x \in DOMAIN remote \ {r} |-> remote[x]]
            /\ met' = met \cup {"others", "deleted"}
      /\ console' = console /\ key' = key
      /\ table' = table /\ isLoading' = isLoading /\ query' = query /\ dialog' = dialog
      /\ createBusy' = createBusy /\ editBusy' = editBusy /\ save' = save
      /\ reveal' = reveal /\ answered' = answered /\ mishap' = mishap
  BY DEF OthersChange
<1>3. remote \in RowMap /\ changes \in Nat /\ {r} \in SUBSET Row BY <1>1 DEF RowTypes
<1>4. changes + 1 \in Nat BY <1>3
<1>5. /\ remote' \in RowMap
      /\ "deleted" \notin met' => DOMAIN remote \subseteq DOMAIN remote'
  <2>1. CASE remote' = Put(remote, {r}, changes + 1)
    <3>1. remote' \in RowMap /\ DOMAIN remote' = DOMAIN remote \cup {r}
      BY <1>3, <1>4, <2>1, PutRowFacts
    <3> QED BY <3>1
  <2>2. CASE remote' = [x \in DOMAIN remote \ {r} |-> remote[x]] /\ "deleted" \in met'
    BY <1>3, <2>2, LessRows
  <2> QED BY <1>2, <2>1, <2>2
<1>6. met \subseteq met' /\ "others" \in met' /\ met' \subseteq met \cup {"others", "deleted"}
  BY <1>2
<1>7. /\ table.at \in Nat /\ answered \in Nat
      /\ \A q \in Query : query[q].answer.at \in Nat
      /\ \A s \in Save : save[s].at \in Nat
  BY <1>1, QueryFields, SaveFields DEF RowTypes, TableType
<1>8. RowTypes' BY <1>1, <1>2, <1>4, <1>5 DEF RowTypes
<1>9. AnswersInOrder' BY <1>1, <1>2, <1>3, <1>7 DEF AnswersInOrder, UnderWay
<1>10. OwnChangesAreComing' BY <1>1, <1>2, <1>6 DEF OwnChangesAreComing
<1>11. RequestsAreOfTheKey' BY <1>1, <1>2, <1>6 DEF RequestsAreOfTheKey, Fetching, UnderWay
<1>12. PagesAreThere'
  <2>1. \A s \in Save : UnderWay(s)' => UnderWay(s) /\ save'[s].key = save[s].key
    BY <1>2 DEF UnderWay
  <2>2. "deleted" \notin met' => "deleted" \notin met /\ DOMAIN remote \subseteq DOMAIN remote'
    BY <1>5, <1>6
  <2> QED BY <1>1, <1>2, <1>3, <1>5, <2>1, <2>2, MorePages
<1>13. DialogsWaitForTheirs' BY <1>1, <1>2, <1>6 DEF DialogsWaitForTheirs, UnderWay
<1>14. CopiesAreFresh' BY <1>6 DEF CopiesAreFresh
<1>15. SecretsComeOnce' BY <1>1, <1>2, <1>6 DEF SecretsComeOnce, UnderWay
<1> QED BY <1>8, <1>9, <1>10, <1>11, <1>12, <1>13, <1>14, <1>15 DEF RowsInv

\* What the server makes of a request.
LEMMA AppliedFacts ==
    ASSUME RowTypes, NEW s \in Save, Applied(s)
    PROVE  /\ remote' \in RowMap
           /\ save[s].op # "delete" => DOMAIN remote \subseteq DOMAIN remote'
           /\ save[s].op \in {"marker", "toggle"} => remote' = remote
           /\ mishap' = mishap \/ /\ mishap' = mishap \cup {"undone"}
                                  /\ save[s].op = "edit" /\ console.edit.copies # "no"
                                  /\ save[s].row \in DOMAIN remote
                                  /\ save[s].flag \notin {remote[save[s].row], MaxChange + 1}
<1> DEFINE v == changes + 1
           r == save[s].row
<1>1. /\ remote \in RowMap /\ changes \in Nat /\ v \in Nat /\ save[s].flag \in Nat
      /\ DOMAIN remote \subseteq Row
  BY SaveFields, RowMapFacts DEF RowTypes
<1>2. \A x \in Row : Moved(x) \in SUBSET Row BY <1>1 DEF Moved
<1>3. CASE save[s].op = "create" /\ mishap' = mishap /\
           \E x \in Row \ DOMAIN remote, moves \in {"yes", "no"} :
              remote' = Put(remote, IF moves = "yes" THEN Moved(x) ELSE {x}, v)
  <2>1. PICK S \in SUBSET Row : remote' = Put(remote, S, v) BY <1>2, <1>3
  <2>2. remote' \in RowMap /\ DOMAIN remote' = DOMAIN remote \cup S
    BY <1>1, <2>1, PutRowFacts
  <2> QED BY <1>3, <2>2
<1>4. CASE /\ save[s].op = "edit" /\ r \in DOMAIN remote
           /\ IF console.edit.copies = "no"
              THEN UNCHANGED <<remote, mishap>>
              ELSE /\ \E moves \in {"yes", "no"} : remote' = Written(r, save[s].flag, moves)
                   /\ mishap' = IF save[s].flag \in {remote[r], MaxChange + 1}
                                THEN mishap ELSE mishap \cup {"undone"}
  <2>1. CASE console.edit.copies = "no" BY <1>1, <1>4, <2>1
  <2>2. CASE console.edit.copies # "no"
    <3>1. PICK moves \in {"yes", "no"} : remote' = Written(r, save[s].flag, moves)
      BY <1>4, <2>2
    <3> DEFINE T == IF moves = "yes" /\ save[s].flag # remote[r] THEN Moved(r) ELSE {}
               u == IF save[s].flag > MaxChange THEN v ELSE save[s].flag
               taken == Put(remote, T, v)
    <3>2. remote' = Put(taken, {r}, u) BY <3>1 DEF Written
    <3>3. T \in SUBSET Row /\ u \in Nat /\ {r} \in SUBSET Row BY <1>1, <1>2, <1>4
    <3> HIDE DEF T, u
    <3>4. taken \in RowMap /\ DOMAIN taken = DOMAIN remote \cup T
      BY <1>1, <3>3, PutRowFacts
    <3> HIDE DEF taken
    <3>5. PICK f \in RowMap, S \in SUBSET Row, w \in Nat :
            remote' = Put(f, S, w) /\ DOMAIN remote \subseteq DOMAIN f
      BY <3>2, <3>3, <3>4
    <3>6. Put(f, S, w) \in RowMap /\ DOMAIN Put(f, S, w) = DOMAIN f \cup S
      BY PutRowFacts
    <3>7. remote' \in RowMap /\ DOMAIN remote \subseteq DOMAIN remote'
      BY <3>5, <3>6
    <3> QED BY <1>4, <2>2, <3>7
  <2> QED BY <2>1, <2>2
<1>5. CASE /\ save[s].op = "delete" /\ mishap' = mishap
           /\ remote' = [x \in DOMAIN remote \ {r} |-> remote[x]]
  BY <1>1, <1>5, LessRows
<1>6. CASE /\ save[s].op = "default" /\ r \in DOMAIN remote /\ mishap' = mishap
           /\ remote' = Put(remote, Moved(r), v)
  <2>1. Moved(r) \in SUBSET Row BY <1>1, <1>2, <1>6
  <2>2. remote' \in RowMap /\ DOMAIN remote' = DOMAIN remote \cup Moved(r)
    BY <1>1, <1>6, <2>1, PutRowFacts
  <2> QED BY <1>6, <2>2
<1>7. CASE save[s].op \in {"marker", "toggle"} /\ UNCHANGED <<remote, mishap>>
  BY <1>1, <1>7
<1> QED BY <1>3, <1>4, <1>5, <1>6, <1>7 DEF Applied

LEMMA ServeSaveKeepsRows == ASSUME RowsInv, NEW s \in Save, ServeSave(s) PROVE RowsInv'
<1>1. /\ RowTypes /\ AnswersInOrder /\ OwnChangesAreComing /\ RequestsAreOfTheKey
      /\ PagesAreThere /\ DialogsWaitForTheirs /\ CopiesAreFresh /\ SecretsComeOnce
  BY DEF RowsInv
<1> DEFINE n == [save[s] EXCEPT !.phase = "ok", !.at = changes + 1]
<1>2. /\ save[s].phase = "sent" /\ changes' = changes + 1 /\ Applied(s)
      /\ save' = [save EXCEPT ![s] = n]
      /\ met' = met \cup IF save[s].op = "delete" THEN {"deleted"} ELSE {}
      /\ console' = console /\ key' = key
      /\ table' = table /\ isLoading' = isLoading /\ query' = query /\ dialog' = dialog
      /\ createBusy' = createBusy /\ editBusy' = editBusy
      /\ reveal' = reveal /\ answered' = answered
  BY DEF ServeSave
<1>3. changes \in Nat /\ changes + 1 \in Nat BY <1>1 DEF RowTypes
<1>4. n \in SaveType /\ n.phase = "ok" /\ n.at = changes + 1 /\ n.op = save[s].op
      /\ n.row = save[s].row /\ n.flag = save[s].flag /\ n.key = save[s].key
      /\ n.dialog = save[s].dialog
  BY <1>1, <1>3, SaveFields DEF SaveType
<1> HIDE DEF n
<1>5. /\ save' \in [Save -> SaveType] /\ save'[s] = n
      /\ \A t \in Save : t # s => save'[t] = save[t]
  BY <1>1, <1>2, <1>4 DEF RowTypes
<1>6. \A t \in Save : /\ UnderWay(t)' <=> UnderWay(t)
                      /\ save'[t].op = save[t].op /\ save'[t].row = save[t].row
                      /\ save'[t].flag = save[t].flag /\ save'[t].key = save[t].key
                      /\ save'[t].dialog = save[t].dialog
  BY <1>2, <1>4, <1>5 DEF UnderWay
<1>7. /\ remote' \in RowMap
      /\ save[s].op # "delete" => DOMAIN remote \subseteq DOMAIN remote'
      /\ save[s].op \in {"marker", "toggle"} => remote' = remote
      /\ mishap' = mishap \/ /\ mishap' = mishap \cup {"undone"}
                             /\ save[s].op = "edit" /\ console.edit.copies # "no"
                             /\ save[s].row \in DOMAIN remote
                             /\ save[s].flag \notin {remote[save[s].row], MaxChange + 1}
  BY <1>1, <1>2, AppliedFacts
<1>8. /\ met \subseteq met' /\ met' \subseteq met \cup {"deleted"}
      /\ "deleted" \notin met' => save[s].op # "delete"
  BY <1>2
<1>9. /\ table.at \in Nat /\ answered \in Nat
      /\ \A q \in Query : query[q].answer.at \in Nat
      /\ \A t \in Save : save[t].at \in Nat
  BY <1>1, QueryFields, SaveFields DEF RowTypes, TableType
<1>10. RowTypes' BY <1>1, <1>2, <1>3, <1>5, <1>7 DEF RowTypes
<1>11. AnswersInOrder'
  BY <1>1, <1>2, <1>3, <1>4, <1>5, <1>6, <1>9 DEF AnswersInOrder
<1>12. OwnChangesAreComing' BY <1>1, <1>2, <1>8 DEF OwnChangesAreComing
<1>13. RequestsAreOfTheKey' BY <1>1, <1>2, <1>6, <1>8 DEF RequestsAreOfTheKey, Fetching
<1>14. PagesAreThere'
  <2>1. \A t \in Save : UnderWay(t)' => UnderWay(t) /\ save'[t].key = save[t].key BY <1>6
  <2>2. "deleted" \notin met' => "deleted" \notin met /\ DOMAIN remote \subseteq DOMAIN remote'
    BY <1>7, <1>8
  <2>3. remote \in RowMap BY <1>1 DEF RowTypes
  <2> QED BY <1>1, <1>2, <1>7, <2>1, <2>2, <2>3, MorePages
<1>15. DialogsWaitForTheirs'
  BY <1>1, <1>2, <1>6, <1>7, <1>8 DEF DialogsWaitForTheirs
<1>16. CopiesAreFresh'
  <2> SUFFICES ASSUME met' \cap {"others", "busy", "loading", "two", "failed", "overtaken"} = {}
               PROVE  CopiesAreFresh'
    BY DEF CopiesAreFresh
  <2>1. met \cap {"others", "busy", "loading", "two", "failed", "overtaken"} = {} BY <1>8
  <2>2. console.edit.copies \in {"no", "yes"} BY <1>1, ConsoleFacts DEF RowTypes, ConsoleInOrder
  <2>3. "undone" \notin mishap'
    BY <1>1, <1>2, <1>7, <2>1, <2>2 DEF CopiesAreFresh
  <2>4. ASSUME NEW a, a.at \in Nat, a.at <= changes, HasOwnChanges(a)'
        PROVE  HasOwnChanges(a) /\ remote' = remote
    <3>1. save[s].op = "marker"
      BY <1>3, <1>4, <1>5, <2>4 DEF HasOwnChanges
    <3> QED BY <1>2, <1>5, <1>6, <1>7, <2>4, <3>1 DEF HasOwnChanges
  <2>5. HasOwnChanges(table)' => Fresh(table)'
    <3> SUFFICES ASSUME HasOwnChanges(table)' PROVE Fresh(table)' OBVIOUS
    <3>1. HasOwnChanges(table) /\ remote' = remote
      <4>1. save[s].op = "marker"
        BY <1>1, <1>2, <1>3, <1>4, <1>5, <1>9 DEF HasOwnChanges, AnswersInOrder
      <4> QED BY <1>2, <1>5, <1>6, <1>7, <4>1 DEF HasOwnChanges
    <3> QED BY <1>1, <1>2, <2>1, <3>1 DEF CopiesAreFresh, Fresh
  <2>6. ASSUME NEW q \in Query, query'[q].phase = "ok", HasOwnChanges(query[q].answer)'
        PROVE  Fresh(query[q].answer)'
    <3>1. save[s].op = "marker"
      BY <1>1, <1>2, <1>3, <1>4, <1>5, <1>9, <2>6 DEF HasOwnChanges, AnswersInOrder
    <3>2. HasOwnChanges(query[q].answer) /\ remote' = remote
      BY <1>2, <1>5, <1>6, <1>7, <2>6, <3>1 DEF HasOwnChanges
    <3> QED BY <1>1, <1>2, <2>1, <2>6, <3>2 DEF CopiesAreFresh, Fresh
  <2>7. dialog'.open # "none" => \A t \in Save : UnderWay(t)' => save'[t].op = dialog'.open
    BY <1>1, <1>2, <1>6, <2>1 DEF CopiesAreFresh
  <2>8. ASSUME console'.edit.copies = "yes"
        PROVE  /\ \A t, u \in Save : UnderWay(t)' /\ UnderWay(u)' /\ save'[t].op = "edit" /\ t # u
                                       => save'[u].op = "marker"
               /\ dialog'.open = "edit" => editBusy' = "yes"
    BY <1>1, <1>2, <1>6, <2>1, <2>8 DEF CopiesAreFresh, UnderWay
  <2>9. UnderWay(s)' BY <1>4, <1>5 DEF UnderWay
  <2>10. ASSUME console'.edit.copies = "yes", NEW t \in Save, save'[t].phase = "sent",
                save'[t].op = "edit", save'[t].row \in DOMAIN remote'
         PROVE  save'[t].flag \in {remote'[save'[t].row], MaxChange + 1}
    <3>1. t # s /\ save'[t] = save[t] BY <1>4, <1>5, <2>10
    <3>2. save[s].op = "marker"
      BY <1>1, <1>2, <2>1, <2>10, <3>1 DEF CopiesAreFresh, UnderWay
    <3>3. remote' = remote BY <1>7, <3>2
    <3> QED BY <1>1, <1>2, <2>1, <2>10, <3>1, <3>3 DEF CopiesAreFresh
  <2> QED BY <2>3, <2>5, <2>6, <2>7, <2>8, <2>9, <2>10 DEF CopiesAreFresh
<1>17. SecretsComeOnce' BY <1>1, <1>2, <1>6, <1>7, <1>8 DEF SecretsComeOnce
<1> QED BY <1>10, <1>11, <1>12, <1>13, <1>14, <1>15, <1>16, <1>17 DEF RowsInv


LEMMA SaveFailedKeepsRows == ASSUME RowsInv, NEW s \in Save, SaveFailed(s) PROVE RowsInv'
<1>1. /\ RowTypes /\ AnswersInOrder /\ OwnChangesAreComing /\ RequestsAreOfTheKey
      /\ PagesAreThere /\ DialogsWaitForTheirs /\ CopiesAreFresh /\ SecretsComeOnce
  BY DEF RowsInv
<1>2. /\ save[s].phase \in {"sent", "ok"} /\ save' = [save EXCEPT ![s] = DoneSave]
      /\ met' = met \cup {"failed"}
      /\ createBusy' = IF save[s].op = "create" THEN "no" ELSE createBusy
      /\ editBusy' \in {"no", editBusy} /\ (save[s].op # "edit" => editBusy' = editBusy)
      /\ console' = console /\ remote' = remote /\ changes' = changes /\ key' = key
      /\ table' = table /\ isLoading' = isLoading /\ query' = query /\ dialog' = dialog
      /\ reveal' = reveal /\ answered' = answered /\ mishap' = mishap
  BY DEF SaveFailed
<1>3. SaveEnds(s) /\ \A t \in Save : t # s => save'[t] = save[t]
  BY <1>1, <1>2, SaveEndsAlone
<1>4. /\ save' \in [Save -> SaveType] /\ ~UnderWay(s)' /\ UnderWay(s)
      /\ save'[s].phase = "done" /\ save'[s].op = "none"
      /\ \A t \in Save : t # s => save'[t] = save[t]
      /\ \A t \in Save : UnderWay(t)' => UnderWay(t) /\ t # s
  BY <1>2, <1>3 DEF SaveEnds, UnderWay
<1>5. met \subseteq met' /\ met' \subseteq met \cup {"failed"} /\ "failed" \in met' BY <1>2
<1>6. RowTypes' BY <1>1, <1>2, <1>4 DEF RowTypes
<1>7. AnswersInOrder' BY <1>1, <1>2, <1>4 DEF AnswersInOrder, UnderWay
<1>8. OwnChangesAreComing' BY <1>5 DEF OwnChangesAreComing
<1>9. RequestsAreOfTheKey' BY <1>5 DEF RequestsAreOfTheKey
<1>10. PagesAreThere'
  BY <1>1, <1>2, <1>4, <1>5 DEF PagesAreThere, Fetching, IsAPage, PageHasRows
<1>11. DialogsWaitForTheirs' BY <1>1, <1>2, <1>4, <1>5 DEF DialogsWaitForTheirs
<1>12. CopiesAreFresh' BY <1>5 DEF CopiesAreFresh
<1>13. SecretsComeOnce' BY <1>1, <1>2, <1>4, <1>5 DEF SecretsComeOnce
<1> QED BY <1>6, <1>7, <1>8, <1>9, <1>10, <1>11, <1>12, <1>13 DEF RowsInv

\* A request has been answered, and the list is fetched again.
LEMMA SavedRefetches ==
    ASSUME RowsInv, NEW s \in Save, save[s].phase = "ok", SaveEnds(s), fetchRows(save[s].key),
           answered' = IF save[s].at > answered THEN save[s].at ELSE answered,
           createBusy' \in {"no", "yes"}, editBusy' \in {"no", "yes"},
           dialog' \in {dialog, NoneOpen}, reveal' \in Nat,
           UNCHANGED <<console, remote, changes, key, table, met>>
    PROVE  /\ RowTypes' /\ AnswersInOrder' /\ OwnChangesAreComing' /\ RequestsAreOfTheKey'
           /\ PagesAreThere'
           /\ save[s].op # "marker" =>
                /\ HasOwnChanges(table)' => HasOwnChanges(table)
                /\ \A q \in Query : query'[q].phase = "ok" /\ HasOwnChanges(query[q].answer)'
                      => query'[q] = query[q] /\ HasOwnChanges(query[q].answer)
<1>1. /\ RowTypes /\ AnswersInOrder /\ OwnChangesAreComing /\ RequestsAreOfTheKey
      /\ PagesAreThere
  BY DEF RowsInv
<1>2. /\ console' = console /\ remote' = remote /\ changes' = changes /\ key' = key
      /\ table' = table /\ met' = met /\ isLoading' = "yes"
  BY DEF fetchRows
<1>3. /\ save[s].key \in Nat /\ save[s].at \in Nat /\ answered \in Nat /\ table.at \in Nat
      /\ changes \in Nat
      /\ \A t \in Save : save[t].at \in Nat
      /\ \A q \in Query : query[q].answer.at \in Nat
  BY <1>1, SaveFields, QueryFields DEF RowTypes, TableType
<1>4. PICK q \in Query : /\ query[q] = NoQuery /\ query' \in [Query -> QueryType]
                         /\ query'[q].phase = "sent" /\ query'[q].key = save[s].key
                         /\ \A p \in Query : p # q => query'[p] = query[p]
  BY <1>1, <1>3, QuerySent
<1>5. /\ save' \in [Save -> SaveType] /\ ~UnderWay(s)' /\ UnderWay(s)
      /\ save'[s].phase = "done" /\ save'[s].op = "none"
      /\ \A t \in Save : t # s => /\ save'[t].phase = save[t].phase /\ save'[t].op = save[t].op
                                  /\ save'[t].key = save[t].key /\ save'[t].at = save[t].at
      /\ \A t \in Save : UnderWay(t)' => UnderWay(t) /\ t # s
  BY DEF SaveEnds, UnderWay, Alike
<1>6. answered' \in Nat /\ answered' >= answered /\ answered' >= save[s].at
      /\ answered' \in {answered, save[s].at}
  BY <1>3
<1>7. RowTypes' BY <1>1, <1>2, <1>4, <1>5, <1>6, NoneFacts DEF RowTypes
<1>8. AnswersInOrder'
  <2>1. answered' <= changes' BY <1>1, <1>2, <1>6 DEF AnswersInOrder
  <2> QED BY <1>1, <1>2, <1>4, <1>5, <2>1 DEF AnswersInOrder, UnderWay
<1>9. OwnChangesAreComing' BY <1>4 DEF OwnChangesAreComing
<1>10. RequestsAreOfTheKey' BY <1>1, <1>2, <1>4, <1>5 DEF RequestsAreOfTheKey, Fetching
<1>11. PagesAreThere'
  BY <1>1, <1>2, <1>4, <1>5 DEF PagesAreThere, Fetching, IsAPage, PageHasRows
<1>12. ASSUME save[s].op # "marker", HasOwnChanges(table)' PROVE HasOwnChanges(table)
  BY <1>2, <1>3, <1>5, <1>6, <1>12 DEF HasOwnChanges
<1>13. ASSUME save[s].op # "marker", NEW p \in Query, query'[p].phase = "ok",
              HasOwnChanges(query[p].answer)'
       PROVE  query'[p] = query[p] /\ HasOwnChanges(query[p].answer)
  <2>1. query'[p] = query[p] BY <1>4, <1>13
  <2> QED BY <1>3, <1>5, <1>6, <1>13, <2>1 DEF HasOwnChanges
<1> QED BY <1>7, <1>8, <1>9, <1>10, <1>11, <1>12, <1>13

LEMMA RowSavedKeepsRows == ASSUME RowsInv, NEW s \in Save, RowSaved(s) PROVE RowsInv'
<1>1. RowTypes /\ AnswersInOrder /\ DialogsWaitForTheirs /\ CopiesAreFresh /\ SecretsComeOnce
  BY DEF RowsInv
<1>2. /\ save[s].phase = "ok" /\ save[s].op \in {"delete", "default", "toggle"}
      /\ save' = [save EXCEPT ![s] = DoneSave] /\ fetchRows(save[s].key)
      /\ answered' = IF save[s].at > answered THEN save[s].at ELSE answered
      /\ console' = console /\ remote' = remote /\ changes' = changes /\ key' = key
      /\ table' = table /\ dialog' = dialog /\ createBusy' = createBusy
      /\ editBusy' = editBusy /\ reveal' = reveal /\ met' = met /\ mishap' = mishap
  BY DEF RowSaved
<1>3. SaveEnds(s) /\ \A t \in Save : t # s => save'[t] = save[t]
  BY <1>1, <1>2, SaveEndsAlone
<1>4. /\ createBusy \in {"no", "yes"} /\ editBusy \in {"no", "yes"} /\ reveal \in Nat
  BY <1>1 DEF RowTypes
<1>5. /\ RowTypes' /\ AnswersInOrder' /\ OwnChangesAreComing' /\ RequestsAreOfTheKey'
      /\ PagesAreThere'
      /\ HasOwnChanges(table)' => HasOwnChanges(table)
      /\ \A q \in Query : query'[q].phase = "ok" /\ HasOwnChanges(query[q].answer)'
            => query'[q] = query[q] /\ HasOwnChanges(query[q].answer)
  BY <1>2, <1>3, <1>4, SavedRefetches
<1>6. /\ UnderWay(s) /\ save'[s].op = "none" /\ save'[s].phase = "done"
      /\ \A t \in Save : UnderWay(t)' => UnderWay(t) /\ t # s
  BY <1>2, <1>3 DEF SaveEnds, UnderWay
<1>7. DialogsWaitForTheirs' BY <1>1, <1>2, <1>3, <1>6 DEF DialogsWaitForTheirs
<1>8. CopiesAreFresh'
  <2>1. \A a : Fresh(a)' <=> Fresh(a) BY <1>2 DEF Fresh
  <2>2. dialog.open \in {"none", "create", "edit"} BY <1>1 DEF RowTypes, DialogType
  <2> QED BY <1>1, <1>2, <1>3, <1>5, <1>6, <2>2 DEF CopiesAreFresh, Fresh
<1>9. SecretsComeOnce' BY <1>1, <1>2, <1>3, <1>6 DEF SecretsComeOnce
<1> QED BY <1>5, <1>7, <1>8, <1>9 DEF RowsInv

LEMMA DialogSavedKeepsRows == ASSUME RowsInv, NEW s \in Save, DialogSaved(s) PROVE RowsInv'
<1>1. RowTypes /\ AnswersInOrder /\ DialogsWaitForTheirs /\ CopiesAreFresh /\ SecretsComeOnce
  BY DEF RowsInv
<1> DEFINE op == save[s].op
<1>2. /\ save[s].phase = "ok" /\ op \in {"create", "edit"}
      /\ save' = [Orphaned(op) EXCEPT ![s] = DoneSave] /\ fetchRows(save[s].key)
      /\ dialog' = IF dialog.open = op THEN NoneOpen ELSE dialog
      /\ createBusy' = IF op = "create" THEN "no" ELSE createBusy
      /\ editBusy' = IF op = "edit" /\ (save[s].dialog = "mine" \/ console.edit.busy = "page")
                     THEN "no" ELSE editBusy
      /\ answered' = IF save[s].at > answered THEN save[s].at ELSE answered
      /\ console' = console /\ remote' = remote /\ changes' = changes /\ key' = key
      /\ table' = table /\ met' = met
  BY DEF DialogSaved
<1>3. /\ IF op = "create" /\ console.create.reveals = "yes"
         THEN reveal' = save[s].at ELSE reveal' = reveal
      /\ mishap' \subseteq mishap \cup {"secret", "taken"}
      /\ "secret" \in mishap' => \/ "secret" \in mishap
                                 \/ op = "create" /\ console.create.reveals = "yes" /\ reveal # 0
      /\ "taken" \in mishap' => "taken" \in mishap \/ save[s].dialog = "gone"
  BY DEF DialogSaved
<1>4. /\ Orphaned(op) \in [Save -> SaveType]
      /\ \A t \in Save : Alike(Orphaned(op)[t], save[t])
      /\ \A t \in Save : save[t].op # op => Orphaned(op)[t] = save[t]
  BY <1>1, OrphanedFacts
<1>5. /\ save' \in [Save -> SaveType] /\ save'[s] = DoneSave
      /\ \A t \in Save : t # s => save'[t] = Orphaned(op)[t]
  BY <1>2, <1>4, NoneFacts
<1>6. SaveEnds(s) BY <1>4, <1>5, NoneFacts DEF SaveEnds, Alike
<1>7. /\ createBusy' \in {"no", "yes"} /\ editBusy' \in {"no", "yes"} /\ reveal' \in Nat
  BY <1>1, <1>2, <1>3, SaveFields DEF RowTypes
<1>8. /\ RowTypes' /\ AnswersInOrder' /\ OwnChangesAreComing' /\ RequestsAreOfTheKey'
      /\ PagesAreThere'
      /\ HasOwnChanges(table)' => HasOwnChanges(table)
      /\ \A q \in Query : query'[q].phase = "ok" /\ HasOwnChanges(query[q].answer)'
            => query'[q] = query[q] /\ HasOwnChanges(query[q].answer)
  BY <1>2, <1>6, <1>7, SavedRefetches
<1>9. /\ UnderWay(s) /\ save'[s].op = "none" /\ save'[s].phase = "done"
      /\ \A t \in Save : UnderWay(t)' => UnderWay(t) /\ t # s
      /\ \A t \in Save : t # s => /\ save'[t].phase = save[t].phase /\ save'[t].op = save[t].op
                                  /\ save'[t].row = save[t].row /\ save'[t].flag = save[t].flag
  BY <1>2, <1>6 DEF SaveEnds, Alike, UnderWay
<1>10. dialog.open \in {"none", "create", "edit"} BY <1>1 DEF RowTypes, DialogType
<1>11. DialogsWaitForTheirs'
  <2> SUFFICES ASSUME met' \cap {"left", "beside", "enter"} = {}
               PROVE  DialogsWaitForTheirs'
    BY DEF DialogsWaitForTheirs
  <2>1. dialog.open = op /\ save[s].dialog = "mine" /\ "taken" \notin mishap
    BY <1>1, <1>2, <1>9 DEF DialogsWaitForTheirs
  <2>2. "taken" \notin mishap'
    BY <1>3, <2>1
  <2>3. \A t \in Save : UnderWay(t)' => save'[t].op \notin {"create", "edit", "marker"}
    BY <1>1, <1>2, <1>9, <2>1, NoneFacts DEF DialogsWaitForTheirs
  <2> QED BY <2>2, <2>3 DEF DialogsWaitForTheirs
<1>12. CopiesAreFresh'
  <2> SUFFICES ASSUME met' \cap {"others", "busy", "loading", "two", "failed", "overtaken"} = {}
               PROVE  CopiesAreFresh'
    BY DEF CopiesAreFresh
  <2>1. dialog'.open = "none"
    BY <1>1, <1>2, <1>9, <1>10, NoneFacts DEF CopiesAreFresh
  <2>2. "undone" \notin mishap' BY <1>1, <1>2, <1>3 DEF CopiesAreFresh
  <2> QED BY <1>1, <1>2, <1>8, <1>9, <2>1, <2>2 DEF CopiesAreFresh, Fresh
<1>13. SecretsComeOnce'
  <2> SUFFICES ASSUME "enter" \notin met' PROVE SecretsComeOnce'
    BY DEF SecretsComeOnce
  <2>1. "secret" \notin mishap' BY <1>1, <1>2, <1>3, <1>9 DEF SecretsComeOnce
  <2> QED BY <1>1, <1>2, <1>3, <1>9, <2>1 DEF SecretsComeOnce
<1> QED BY <1>8, <1>11, <1>12, <1>13 DEF RowsInv

LEMMA BesideSavedKeepsRows == ASSUME RowsInv, NEW s \in Save, BesideSaved(s) PROVE RowsInv'
<1>1. /\ RowTypes /\ AnswersInOrder /\ OwnChangesAreComing /\ RequestsAreOfTheKey
      /\ PagesAreThere /\ DialogsWaitForTheirs /\ CopiesAreFresh /\ SecretsComeOnce
  BY DEF RowsInv
<1>2. /\ save[s].phase = "ok" /\ save[s].op = "marker"
      /\ save' = [x \in Save |-> IF x = s THEN DoneSave
                                 ELSE [save[x] EXCEPT !.dialog = "gone"]]
      /\ createBusy' = "no" /\ editBusy' = "no"
      /\ mishap' = IF dialog = NoneOpen THEN mishap ELSE mishap \cup {"taken"}
      /\ console' = console /\ remote' = remote /\ changes' = changes /\ key' = key
      /\ table' = table /\ isLoading' = isLoading /\ query' = query /\ dialog' = dialog
      /\ reveal' = reveal /\ answered' = answered /\ met' = met
  BY DEF BesideSaved
<1>3. ASSUME NEW t \in Save
      PROVE  /\ [save[t] EXCEPT !.dialog = "gone"] \in SaveType
             /\ Alike([save[t] EXCEPT !.dialog = "gone"], save[t])
  BY <1>1, SaveFields DEF SaveType, Alike
<1>4. /\ save' \in [Save -> SaveType] /\ save'[s] = DoneSave
      /\ \A t \in Save : t # s => save'[t] = [save[t] EXCEPT !.dialog = "gone"]
  BY <1>2, <1>3, NoneFacts
<1>5. SaveEnds(s) BY <1>3, <1>4, NoneFacts DEF SaveEnds
<1>6. /\ UnderWay(s) /\ save'[s].op = "none" /\ save'[s].phase = "done"
      /\ \A t \in Save : UnderWay(t)' => UnderWay(t) /\ t # s
      /\ \A t \in Save : t # s => /\ save'[t].phase = save[t].phase /\ save'[t].op = save[t].op
                                  /\ save'[t].row = save[t].row /\ save'[t].flag = save[t].flag
                                  /\ save'[t].key = save[t].key /\ save'[t].at = save[t].at
  BY <1>2, <1>5 DEF SaveEnds, Alike, UnderWay
<1>7. RowTypes' BY <1>1, <1>2, <1>4 DEF RowTypes
<1>8. AnswersInOrder' BY <1>1, <1>2, <1>6 DEF AnswersInOrder, UnderWay
<1>9. OwnChangesAreComing' BY <1>1, <1>2 DEF OwnChangesAreComing
<1>10. RequestsAreOfTheKey' BY <1>1, <1>2, <1>6 DEF RequestsAreOfTheKey, Fetching
<1>11. PagesAreThere'
  BY <1>1, <1>2, <1>6 DEF PagesAreThere, Fetching, IsAPage, PageHasRows
<1>12. DialogsWaitForTheirs' BY <1>1, <1>2, <1>6, NoneFacts DEF DialogsWaitForTheirs
<1>13. CopiesAreFresh'
  <2> SUFFICES ASSUME met' \cap {"others", "busy", "loading", "two", "failed", "overtaken"} = {}
               PROVE  CopiesAreFresh'
    BY DEF CopiesAreFresh
  <2>1. dialog'.open = "none"
    <3>1. dialog.open \in {"none", "create", "edit"} BY <1>1 DEF RowTypes, DialogType
    <3> QED BY <1>1, <1>2, <1>6, <3>1 DEF CopiesAreFresh
  <2>2. "undone" \notin mishap' BY <1>1, <1>2 DEF CopiesAreFresh
  <2>3. HasOwnChanges(table)' => HasOwnChanges(table)
    BY <1>2, <1>6 DEF HasOwnChanges
  <2>4. \A q \in Query : HasOwnChanges(query[q].answer)' => HasOwnChanges(query[q].answer)
    BY <1>2, <1>6 DEF HasOwnChanges
  <2> QED BY <1>1, <1>2, <1>6, <2>1, <2>2, <2>3, <2>4 DEF CopiesAreFresh, Fresh
<1>14. SecretsComeOnce'
  <2>1. console.create.reveals # "yes"
    BY <1>1, <1>2, ConsoleFacts DEF RowTypes, ConsoleInOrder, AnswersInOrder
  <2> QED BY <1>1, <1>2, <2>1 DEF SecretsComeOnce
<1> QED BY <1>7, <1>8, <1>9, <1>10, <1>11, <1>12, <1>13, <1>14 DEF RowsInv

LEMMA RevealDoneKeepsRows == ASSUME RowsInv, RevealDone PROVE RowsInv'
<1>1. /\ RowTypes /\ AnswersInOrder /\ OwnChangesAreComing /\ RequestsAreOfTheKey
      /\ PagesAreThere /\ DialogsWaitForTheirs /\ CopiesAreFresh /\ SecretsComeOnce
  BY DEF RowsInv
<1>2. /\ reveal' = 0
      /\ console' = console /\ remote' = remote /\ changes' = changes /\ key' = key
      /\ table' = table /\ isLoading' = isLoading /\ query' = query /\ dialog' = dialog
      /\ createBusy' = createBusy /\ editBusy' = editBusy /\ save' = save
      /\ answered' = answered /\ met' = met /\ mishap' = mishap
  BY DEF RevealDone
<1>3. RowTypes' BY <1>1, <1>2 DEF RowTypes
<1>4. AnswersInOrder' /\ OwnChangesAreComing' /\ RequestsAreOfTheKey'
  BY <1>1, <1>2 DEF AnswersInOrder, OwnChangesAreComing, RequestsAreOfTheKey, Fetching, UnderWay
<1>5. PagesAreThere'
  BY <1>1, <1>2 DEF PagesAreThere, Fetching, UnderWay, IsAPage, PageHasRows
<1>6. DialogsWaitForTheirs' BY <1>1, <1>2 DEF DialogsWaitForTheirs, UnderWay
<1>7. CopiesAreFresh' BY <1>1, <1>2 DEF CopiesAreFresh, UnderWay, HasOwnChanges, Fresh
<1>8. SecretsComeOnce' BY <1>1, <1>2 DEF SecretsComeOnce, UnderWay
<1> QED BY <1>3, <1>4, <1>5, <1>6, <1>7, <1>8 DEF RowsInv

LEMMA RowsStep == ASSUME RowsInv, ListPageNext \/ UNCHANGED settings PROVE RowsInv'
<1>1. ASSUME NEW q \in Query, ServeList(q) \/ ListAnswered(q) PROVE RowsInv'
  BY <1>1, ServeListKeepsRows, ListAnsweredKeepsRows
<1>2. ASSUME NEW r \in Row, TurnPage(r) \/ OpenEdit(r) \/ OthersChange(r) PROVE RowsInv'
  BY <1>2, TurnPageKeepsRows, OpenEditKeepsRows, OthersKeepRows
<1>3. ASSUME NEW r \in Row, NEW op \in {"delete", "default", "toggle"}, RowRequest(op, r)
      PROVE  RowsInv'
  <2>1. /\ dialog = NoneOpen /\ Request(op, r, 0) /\ r \in Nat
        /\ met' = IF op # "marker" /\ Saving THEN met \cup {"two"} ELSE met
        /\ UNCHANGED <<console, remote, changes, key, table, isLoading, query, dialog,
                       createBusy, editBusy, reveal, answered, mishap>>
    BY <1>3, BoundsAssumption DEF RowRequest, Listed, AtRest, Row
  <2> QED BY <2>1, RowRequestKeepsRows
<1>4. CASE SaveBeside
  <2>1. /\ dialog = NoneOpen /\ Request("marker", 0, 0) /\ console.beside # "nothing"
        /\ met' = met
        /\ UNCHANGED <<console, remote, changes, key, table, isLoading, query, dialog,
                       createBusy, editBusy, reveal, answered, mishap>>
    BY <1>4 DEF SaveBeside, AtRest
  <2> QED BY <2>1, RowRequestKeepsRows
<1>5. ASSUME NEW op \in {"create", "edit"}, Submit(op) PROVE RowsInv'
  BY <1>5, SubmitKeepsRows
<1>6. ASSUME NEW s \in Save, \/ ServeSave(s) \/ SaveFailed(s)
                             \/ RowSaved(s) \/ DialogSaved(s) \/ BesideSaved(s)
      PROVE  RowsInv'
  BY <1>6, ServeSaveKeepsRows, SaveFailedKeepsRows, RowSavedKeepsRows, DialogSavedKeepsRows,
     BesideSavedKeepsRows
<1>7. CASE UNCHANGED settings
  <2>1. /\ console' = console /\ remote' = remote /\ changes' = changes /\ key' = key
        /\ table' = table /\ isLoading' = isLoading /\ query' = query /\ dialog' = dialog
        /\ createBusy' = createBusy /\ editBusy' = editBusy /\ save' = save
        /\ reveal' = reveal /\ answered' = answered /\ met' = met /\ mishap' = mishap
    BY <1>7 DEF settings
  <2>2. RowTypes' BY <2>1 DEF RowsInv, RowTypes
  <2>3. AnswersInOrder' /\ OwnChangesAreComing' /\ RequestsAreOfTheKey'
    BY <2>1 DEF RowsInv, AnswersInOrder, OwnChangesAreComing, RequestsAreOfTheKey,
                Fetching, UnderWay
  <2>4. PagesAreThere'
    BY <2>1 DEF RowsInv, PagesAreThere, Fetching, UnderWay, IsAPage, PageHasRows
  <2>5. DialogsWaitForTheirs' BY <2>1 DEF RowsInv, DialogsWaitForTheirs, UnderWay
  <2>6. CopiesAreFresh'
    BY <2>1 DEF RowsInv, CopiesAreFresh, UnderWay, HasOwnChanges, Fresh
  <2>7. SecretsComeOnce' BY <2>1 DEF RowsInv, SecretsComeOnce, UnderWay
  <2> QED BY <2>2, <2>3, <2>4, <2>5, <2>6, <2>7 DEF RowsInv
<1> QED BY <1>1, <1>2, <1>3, <1>4, <1>5, <1>6, <1>7, OpenCreateKeepsRows, CancelKeepsRows,
           RevealDoneKeepsRows DEF ListPageNext

\* What the page promises.
LEMMA RowsInvImplies ==
    ASSUME RowsInv
    PROVE  /\ ListsTakeOwnChanges /\ ListsAreOfTheirKey /\ EmptyPagesFollowDeletes
           /\ DialogsAreTheirUsers /\ UndoneChangesAreExcused /\ SecretsAreSeen
<1>1. /\ RowTypes /\ AnswersInOrder /\ OwnChangesAreComing /\ RequestsAreOfTheKey
      /\ PagesAreThere /\ DialogsWaitForTheirs /\ CopiesAreFresh /\ SecretsComeOnce
  BY DEF RowsInv
<1>2. Quiet => \A q \in Query : query[q].phase = "none"
  BY NoneFacts DEF Quiet, Querying
<1>3. ListsTakeOwnChanges BY <1>1, <1>2 DEF OwnChangesAreComing, ListsTakeOwnChanges
<1>4. ListsAreOfTheirKey BY <1>1, <1>2 DEF RequestsAreOfTheKey, ListsAreOfTheirKey, Fetching
<1>5. EmptyPagesFollowDeletes BY <1>1 DEF PagesAreThere, EmptyPagesFollowDeletes, PageHasRows
<1>6. DialogsAreTheirUsers BY <1>1 DEF DialogsWaitForTheirs, DialogsAreTheirUsers
<1>7. UndoneChangesAreExcused BY <1>1 DEF CopiesAreFresh, UndoneChangesAreExcused
<1>8. SecretsAreSeen BY <1>1 DEF SecretsComeOnce, SecretsAreSeen
<1> QED BY <1>3, <1>4, <1>5, <1>6, <1>7, <1>8

-----------------------------------------------------------------------------
(* The thread: the hooks' lists, the fetches under way and the messages    *)

FetchType == [phase : {"none", "sent", "ok", "failed"}, hook : Hook,
              conv : Conv \cup {NoConv}, before : 0..MaxMsg, result : Seq(Msg),
              visit : {"this", "earlier"}]
SendType == [phase : {"none", "sent", "done", "failed"}, conv : Conv \cup {NoConv},
             msg : 0..MaxMsg]

ThreadTypes ==
    /\ active \in Conv \cup {NoConv} /\ messages \in [Hook -> Seq(Msg)]
    /\ loading \in [Hook -> {"no", "yes"}] /\ hasMore \in [Hook -> {"no", "yes"}]
    /\ fetch \in [Fetch -> FetchType] /\ sending \in SendType
    /\ stored \in Seq(Conv) /\ Len(stored) <= MaxMsg /\ wire \subseteq 1..Len(stored)
    /\ late \subseteq Hook /\ raced \subseteq Msg /\ got \subseteq Msg
    /\ \A h \in Hook : loading[h] = "yes" => Under(h) # {}

\* What a request carries: a fetch is of a hook and one of its conversations, a message
\* that was sent is stored there, and the socket does not bring it, too.
RequestsAreOfTheirHook ==
    /\ \A f \in Fetch : IF fetch[f].phase = "none" THEN fetch[f] = NoFetch
                        ELSE fetch[f].conv \in Conv /\ KindOf[fetch[f].conv] = fetch[f].hook
    /\ IF sending.phase = "none" THEN sending = NoSend ELSE sending.conv \in Conv
    /\ sending.phase = "done" => /\ sending.msg \in 1..Len(stored)
                                 /\ sending.msg \notin wire
                                 /\ stored[sending.msg] = sending.conv

\* Of the messages s lists there is none without a race that is on its way, too.
NotAwaited(s) == \A i \in 1..Len(s) : s[i] \in 1..Len(stored)
                                      /\ (s[i] \in Pending => s[i] \in raced)

\* An answer has messages of what it was asked for, newest first.
AnswersAreInOrder ==
    \A f \in Fetch : fetch[f].phase = "ok" =>
        LET r == fetch[f].result IN
        /\ NotAwaited(r)
        /\ \A i \in 1..Len(r) : /\ stored[r[i]] = fetch[f].conv
                                /\ fetch[f].before # 0 => r[i] < fetch[f].before
        /\ \A i, j \in 1..Len(r) : i < j => r[j] < r[i]

\* A list the user sees without late answers: its own fetch, of which there is one at a
\* time, is for what is open.
Visited(h) == active # NoConv /\ KindOf[active] = h /\ h \notin late
Own(h) == {f \in Under(h) : fetch[f].visit = "this"}

OwnFetchIsForTheOpen ==
    \A h \in Hook : Visited(h) => \A f \in Own(h) :
        /\ fetch[f].conv = active /\ loading[h] = "yes" /\ \A g \in Own(h) : g = f

\* Such a list has messages of the open conversation, after each but those that raced
\* older ones only, and all that came.  What a fetch will replace raced, and what one
\* will add is older than what did not race.
InOrder(h) ==
    LET s == messages[h] IN
    /\ NotAwaited(s) /\ \A i \in 1..Len(s) : stored[s[i]] = active
    /\ \A i, j \in 1..Len(s) : i < j /\ s[i] \notin raced => s[j] < s[i]
    /\ \A m \in got \ raced : \E i \in 1..Len(s) : s[i] = m
    /\ \A f \in Own(h), i \in 1..Len(s) :
         s[i] \in raced \/ (fetch[f].before # 0 /\ fetch[f].before <= s[i])

ListsAreInOrder == \A h \in Hook : Visited(h) => InOrder(h)

OrderInv == /\ ThreadTypes /\ RequestsAreOfTheirHook /\ AnswersAreInOrder
            /\ OwnFetchIsForTheOpen /\ ListsAreInOrder

\* The numbers of S from m on.
NoOlder(S, m) == {x \in S : x >= m}

\* Of the numbers of a finite set, as many as one likes are the largest.
LEMMA NewestFacts ==
    ASSUME NEW n \in Nat, NEW S, S \subseteq 1..n, NEW k \in 1..Cardinality(S)
    PROVE  \E m \in S : Cardinality(NoOlder(S, m)) = k
<1> DEFINE From(r) == {x \in S : x >= r}
           Few == {r \in Nat : Cardinality(From(r)) < k}
<1>0. IsFiniteSet(S)
  <2>1. IsFiniteSet(1..n) BY FS_Interval
  <2> QED BY <2>1, FS_Subset
<1>a. n \in Nat /\ \A x \in S : x \in Nat /\ x >= 1 /\ x <= n OBVIOUS
<1>1. \A r : IsFiniteSet(From(r)) /\ Cardinality(From(r)) \in Nat
  <2> TAKE r
  <2>1. From(r) \in SUBSET S OBVIOUS
  <2> HIDE DEF From
  <2> QED BY <2>1, <1>0, FS_Subset, FS_CardinalityType
<1>2. Cardinality(S) \in Nat /\ k \in Nat /\ k >= 1 /\ k <= Cardinality(S)
  <2>1. Cardinality(S) \in Nat BY <1>0, FS_CardinalityType
  <2> QED BY <2>1
<1>3. n + 1 \in Few
  <2>1. \A x \in S : ~(x >= n + 1) BY <1>a
  <2>2. From(n + 1) = {} BY <2>1
  <2> QED BY <2>2, <1>2, <1>a, FS_EmptySet
<1>4. PICK r \in Few : \A y \in Few : ~(<<y, r>> \in OpToRel(<, Nat))
  BY <1>3, NatLessThanWellFounded, WFMin
<1>5. \A y \in Nat : y < r => y \notin Few BY <1>4 DEF OpToRel
<1>6. r \in Nat /\ Cardinality(From(r)) < k BY <1>4
<1>7. r # 0
  <2>1. \A x \in S : x >= 0 BY <1>a
  <2>2. From(0) = S BY <2>1
  <2> QED BY <1>2, <1>6, <2>2
<1>8. r - 1 \in Nat /\ r - 1 < r BY <1>6, <1>7
<1>9. ~(Cardinality(From(r - 1)) < k) BY <1>5, <1>8
<1>10. From(r - 1) = IF r - 1 \in S THEN From(r) \cup {r - 1} ELSE From(r)
  <2>1. \A x \in S : x >= r - 1 <=> x >= r \/ x = r - 1 BY <1>a, <1>6, <1>8
  <2> QED BY <2>1
<1>11. r - 1 \in S
  <2> HIDE DEF From
  <2> QED BY <1>6, <1>9, <1>10
<1>12. Cardinality(From(r - 1)) = Cardinality(From(r)) + 1
  <2>1. r - 1 \notin From(r) BY <1>6, <1>8
  <2>2. From(r - 1) = From(r) \cup {r - 1} BY <1>10, <1>11
  <2> HIDE DEF From
  <2> QED BY <2>1, <2>2, <1>1, FS_AddElement
<1>13. Cardinality(From(r - 1)) = k
  <2> HIDE DEF From
  <2> QED BY <1>1, <1>2, <1>6, <1>9, <1>12
<1> QED BY <1>11, <1>13 DEF NoOlder

\* What the server answers: messages of the conversation, newest first.
LEMMA AnswerFacts ==
    ASSUME stored \in Seq(Conv), Len(stored) <= MaxMsg, NEW c \in Conv, NEW before \in Nat
    PROVE  LET r == Answer(c, before) IN
           /\ r \in Seq(Msg)
           /\ \A k \in 1..Len(r) : /\ r[k] \in 1..Len(stored) /\ stored[r[k]] = c
                                   /\ before # 0 => r[k] < before
           /\ \A k, l \in 1..Len(r) : k < l => r[l] < r[k]
<1> DEFINE all == {i \in DOMAIN stored : stored[i] = c /\ (before = 0 \/ i < before)}
           From(m) == {i \in all : i >= m}
           nth(k) == CHOOSE m \in all : Cardinality(From(m)) = k
           size == Cardinality(all)
           most == IF size < Page THEN size ELSE Page
           r == Answer(c, before)
<1>1. Len(stored) \in Nat /\ DOMAIN stored = 1..Len(stored) BY LenProperties
<1>2. all \in SUBSET (1..Len(stored)) /\ IsFiniteSet(all) /\ size \in Nat
  <2>1. all \in SUBSET (1..Len(stored)) BY <1>1
  <2>2. IsFiniteSet(1..Len(stored)) BY <1>1, FS_Interval
  <2> HIDE DEF all
  <2> QED BY <2>1, <2>2, FS_Subset, FS_CardinalityType
<1>3. most \in Nat /\ most <= size BY <1>2, PageAssumption
<1>4. r = [k \in 1..most |-> nth(k)] BY DEF Answer
<1>5. \A i \in all : /\ i \in 1..Len(stored) /\ stored[i] = c
                     /\ before # 0 => i < before
  BY <1>1
<1>6. \A m : From(m) \in SUBSET all OBVIOUS
<1>7. \A m, o \in all : m <= o => From(o) \subseteq From(m) BY <1>1
<1> HIDE DEF all, r, most
<1>8. \A k \in 1..most : nth(k) \in all /\ Cardinality(From(nth(k))) = k
  <2> TAKE k \in 1..most
  <2>1. k \in 1..Cardinality(all) BY <1>2, <1>3
  <2>2. \E m \in all : Cardinality(From(m)) = k
    <3>1. all \subseteq 1..Len(stored) BY <1>2
    <3>2. Len(stored) \in Nat BY <1>1
    <3> HIDE DEF size
    <3>3. \E m \in all : Cardinality(NoOlder(all, m)) = k
      BY <2>1, <3>1, <3>2, NewestFacts
    <3> QED BY <3>3 DEF NoOlder
  <2> QED BY <2>2
<1>9. \A k, l \in 1..most : k < l => nth(l) < nth(k)
  <2> SUFFICES ASSUME NEW k \in 1..most, NEW l \in 1..most, k < l, ~(nth(l) < nth(k))
               PROVE  FALSE
    OBVIOUS
  <2>1. nth(k) \in all /\ nth(l) \in all BY <1>8
  <2>2. nth(k) <= nth(l) BY <1>1, <1>5, <2>1
  <2>3. From(nth(l)) \in SUBSET From(nth(k)) BY <1>7, <2>1, <2>2
  <2>4. IsFiniteSet(From(nth(k))) BY <1>2, <1>6, FS_Subset
  <2>5. Cardinality(From(nth(l))) <= Cardinality(From(nth(k))) BY <2>3, <2>4, FS_Subset
  <2>6. Cardinality(From(nth(k))) = k /\ Cardinality(From(nth(l))) = l BY <1>8
  <2> HIDE DEF From, nth
  <2> QED BY <1>3, <2>5, <2>6
<1>10. \A k \in 1..most : nth(k) \in Msg
  <2>1. MaxMsg \in Nat BY PageAssumption
  <2>2. \A m \in all : m \in Msg BY <1>1, <1>5, <2>1 DEF Msg
  <2> QED BY <1>8, <2>2
<1>11. DOMAIN r = 1..most /\ \A k \in 1..most : r[k] = nth(k) BY <1>4
<1>12. r \in [1..most -> Msg] BY <1>4, <1>10
<1>13. r \in Seq(Msg) BY <1>3, <1>12, SeqDef
<1>14. Len(r) = most BY <1>3, <1>11, <1>13, LenProperties
<1> HIDE DEF nth
<1>15. \A k \in 1..Len(r) : /\ r[k] \in 1..Len(stored) /\ stored[r[k]] = c
                            /\ before # 0 => r[k] < before
  BY <1>5, <1>8, <1>11, <1>14
<1>16. \A k, l \in 1..Len(r) : k < l => r[l] < r[k] BY <1>9, <1>11, <1>14
<1> QED BY <1>13, <1>15, <1>16 DEF r

\* A new message comes to the front.
LEMMA ToTheFront ==
    ASSUME NEW s \in Seq(Msg), NEW m \in Msg
    PROVE  /\ <<m>> \o s \in Seq(Msg) /\ Len(<<m>> \o s) = Len(s) + 1
           /\ (<<m>> \o s)[1] = m
           /\ \A i \in 1..Len(s) : (<<m>> \o s)[i + 1] = s[i]
           /\ \A i \in 1..Len(s) + 1 : (<<m>> \o s)[i] = IF i = 1 THEN m ELSE s[i - 1]
<1>1. <<m>> \in Seq(Msg) /\ Len(<<m>>) = 1 /\ <<m>>[1] = m OBVIOUS
<1>2. Len(s) \in Nat BY LenProperties
<1> HIDE DEF Msg
<1>3. /\ <<m>> \o s \in Seq(Msg) /\ Len(<<m>> \o s) = 1 + Len(s)
      /\ \A i \in 1..1 + Len(s) : (<<m>> \o s)[i] = IF i <= 1 THEN <<m>>[i] ELSE s[i - 1]
  BY <1>1, ConcatProperties
<1> DEFINE t == <<m>> \o s
<1> HIDE DEF t
<1>4. \A i \in 1..1 + Len(s) : t[i] = IF i = 1 THEN m ELSE s[i - 1]
  BY <1>1, <1>2, <1>3 DEF t
<1>5. \A i \in 1..Len(s) : t[i + 1] = s[i] BY <1>2, <1>4
<1> QED BY <1>2, <1>3, <1>4, <1>5 DEF t

LEMMA NoneSentFacts ==
    /\ NoFetch \in FetchType /\ NoFetch.phase = "none" /\ NoFetch.visit = "this"
    /\ NoSend \in SendType /\ NoSend.phase = "none"
<1>1. MaxMsg \in Nat BY PageAssumption
<1>2. <<>> \in Seq(Msg) BY EmptySeq
<1> QED BY <1>1, <1>2 DEF NoFetch, FetchType, NoSend, SendType, Hook

LEMMA FetchFields ==
    ASSUME ThreadTypes, NEW f \in Fetch
    PROVE  /\ fetch[f] \in FetchType
           /\ fetch[f].phase \in {"none", "sent", "ok", "failed"} /\ fetch[f].hook \in Hook
           /\ fetch[f].conv \in Conv \cup {NoConv} /\ fetch[f].before \in Nat
           /\ fetch[f].before \in 0..MaxMsg
           /\ fetch[f].result \in Seq(Msg) /\ fetch[f].visit \in {"this", "earlier"}
<1>1. MaxMsg \in Nat BY PageAssumption
<1> QED BY <1>1 DEF ThreadTypes, FetchType

\* The facts of lists and of what is on its way.
LEMMA ListFacts ==
    ASSUME ThreadTypes
    PROVE  /\ Len(stored) \in Nat /\ MaxMsg \in Nat /\ DOMAIN stored = 1..Len(stored)
           /\ 1..Len(stored) \subseteq Msg
           /\ \A h \in Hook : /\ messages[h] \in Seq(Msg) /\ Len(messages[h]) \in Nat
                              /\ DOMAIN messages[h] = 1..Len(messages[h])
                              /\ \A i \in 1..Len(messages[h]) : messages[h][i] \in Nat \ {0}
<1>1. MaxMsg \in Nat BY PageAssumption
<1>2. Len(stored) \in Nat /\ DOMAIN stored = 1..Len(stored) BY LenProperties DEF ThreadTypes
<1>3. ASSUME NEW h \in Hook
      PROVE  /\ messages[h] \in Seq(Msg) /\ Len(messages[h]) \in Nat
             /\ DOMAIN messages[h] = 1..Len(messages[h])
             /\ \A i \in 1..Len(messages[h]) : messages[h][i] \in Nat \ {0}
  <2>1. messages[h] \in Seq(Msg) BY DEF ThreadTypes
  <2>2. /\ Len(messages[h]) \in Nat /\ DOMAIN messages[h] = 1..Len(messages[h])
        /\ \A i \in 1..Len(messages[h]) : messages[h][i] \in Msg
    BY <2>1, LenProperties, ElementOfSeq
  <2>3. \A m \in Msg : m \in Nat \ {0} BY <1>1 DEF Msg
  <2> QED BY <2>1, <2>2, <2>3
<1>4. 1..Len(stored) \subseteq Msg BY <1>1, <1>2 DEF ThreadTypes, Msg
<1> QED BY <1>1, <1>2, <1>3, <1>4

\* A fetch is sent; the first of a visit leaves those before to an earlier one.
LEMMA FetchSent ==
    ASSUME ThreadTypes, NEW h \in Hook, NEW c \in Conv, NEW b \in 0..MaxMsg,
           fetchMessages(h, c, b)
    PROVE  /\ \E f \in Fetch :
                /\ fetch[f] = NoFetch /\ fetch' \in [Fetch -> FetchType]
                /\ fetch'[f].phase = "sent" /\ fetch'[f].hook = h /\ fetch'[f].conv = c
                /\ fetch'[f].before = b /\ fetch'[f].visit = "this"
                /\ \A g \in Fetch : g # f =>
                     /\ fetch'[g].phase = fetch[g].phase /\ fetch'[g].hook = fetch[g].hook
                     /\ fetch'[g].conv = fetch[g].conv /\ fetch'[g].before = fetch[g].before
                     /\ fetch'[g].result = fetch[g].result
                     /\ IF g \in Under(h) /\ b = 0 THEN fetch'[g].visit = "earlier"
                                                   ELSE fetch'[g] = fetch[g]
           /\ loading' \in [Hook -> {"no", "yes"}] /\ loading'[h] = "yes"
           /\ \A k \in Hook : k # h => loading'[k] = loading[k]
<1> DEFINE sent == [phase |-> "sent", hook |-> h, conv |-> c, before |-> b, result |-> <<>>,
                    visit |-> "this"]
           left(g) == [fetch[g] EXCEPT !.visit = "earlier"]
<1>1. PICK f \in Fetch :
        /\ fetch[f] = NoFetch
        /\ fetch' = [x \in Fetch |-> IF x = f THEN sent
                                     ELSE IF x \in Under(h) /\ b = 0 THEN left(x) ELSE fetch[x]]
  BY DEF fetchMessages
<1>2. sent \in FetchType
  <2>1. <<>> \in Seq(Msg) BY EmptySeq
  <2> QED BY <2>1 DEF FetchType
<1>3. \A g \in Fetch : /\ left(g) \in FetchType /\ left(g).visit = "earlier"
                       /\ left(g).phase = fetch[g].phase /\ left(g).hook = fetch[g].hook
                       /\ left(g).conv = fetch[g].conv /\ left(g).before = fetch[g].before
                       /\ left(g).result = fetch[g].result
  BY FetchFields DEF FetchType
<1>4. /\ sent.phase = "sent" /\ sent.hook = h /\ sent.conv = c /\ sent.before = b
      /\ sent.visit = "this"
  OBVIOUS
<1>5. \A g \in Fetch : fetch[g] \in FetchType BY DEF ThreadTypes
<1> HIDE DEF sent, left
<1>6. fetch' \in [Fetch -> FetchType] BY <1>1, <1>2, <1>3, <1>5
<1>7. /\ loading' \in [Hook -> {"no", "yes"}] /\ loading'[h] = "yes"
      /\ \A k \in Hook : k # h => loading'[k] = loading[k]
  BY DEF fetchMessages, ThreadTypes
<1> QED BY <1>1, <1>3, <1>4, <1>6, <1>7

\* What there was of a list is there still.
LEMMA StillNotAwaited ==
    ASSUME NEW s, NotAwaited(s), Len(stored) \in Nat, Len(stored') \in Nat,
           Len(stored) <= Len(stored'), raced \subseteq raced',
           Pending' \cap (1..Len(stored)) \subseteq Pending
    PROVE  NotAwaited(s)'
BY DEF NotAwaited

LEMMA StillInOrder ==
    ASSUME ThreadTypes, NEW h \in Hook, InOrder(h), messages'[h] = messages[h],
           active' = active, got' = got, raced \subseteq raced',
           Len(stored') \in Nat, Len(stored) <= Len(stored'),
           \A i \in 1..Len(stored) : stored'[i] = stored[i],
           Pending' \cap (1..Len(stored)) \subseteq Pending,
           \A f \in Own(h)' : f \in Own(h) /\ fetch'[f].before = fetch[f].before
    PROVE  InOrder(h)'
<1> DEFINE s == messages[h]
<1>1. Len(stored) \in Nat BY ListFacts
<1>2. NotAwaited(s) BY DEF InOrder
<1>3. NotAwaited(s)' BY <1>1, <1>2, StillNotAwaited
<1>4. \A i \in 1..Len(s) : s[i] \in 1..Len(stored) BY <1>2 DEF NotAwaited
<1>5. \A i \in 1..Len(s) : stored'[s[i]] = active' BY <1>4 DEF InOrder
<1>6. \A i, j \in 1..Len(s) : i < j /\ s[i] \notin raced' => s[j] < s[i] BY DEF InOrder
<1>7. \A m \in got' \ raced' : \E i \in 1..Len(s) : s[i] = m BY DEF InOrder
<1>8. \A f \in Own(h)', i \in 1..Len(s) :
        s[i] \in raced' \/ (fetch'[f].before # 0 /\ fetch'[f].before <= s[i])
  BY DEF InOrder
<1> QED BY <1>3, <1>5, <1>6, <1>7, <1>8 DEF InOrder

\* A message that comes to the front of the list leaves it in order.
LEMMA AddedInOrder ==
    ASSUME ThreadTypes, active \in Conv, active # NoConv, NEW h \in Hook, KindOf[active] = h,
           NEW m \in Msg, m \in Pending, m \in 1..Len(stored), stored[m] = active,
           InOrder(h), Adding(h, m), fetch' = fetch, stored' = stored, active' = active,
           Pending' \subseteq Pending \ {m}
    PROVE  InOrder(h)'
<1> DEFINE s == messages[h]
           t == <<m>> \o s
<1>1. s \in Seq(Msg) /\ Len(s) \in Nat /\ \A i \in 1..Len(s) : s[i] \in Nat \ {0}
  BY ListFacts
<1>2. Len(stored) \in Nat /\ m \in Nat BY ListFacts
<1>3. messages'[h] = t BY DEF Adding, ThreadTypes
<1>4. raced \subseteq raced'
      /\ (m \notin raced' => Under(h) = {} /\ ~\E x \in ToSet(s) : x > m)
  BY DEF Adding
<1>5. got' = got \cup {m} BY DEF Adding, Key
<1>6. /\ NotAwaited(s) /\ \A i \in 1..Len(s) : stored[s[i]] = active
      /\ \A i, j \in 1..Len(s) : i < j /\ s[i] \notin raced => s[j] < s[i]
      /\ \A x \in got \ raced : \E i \in 1..Len(s) : s[i] = x
      /\ \A f \in Own(h), i \in 1..Len(s) :
           s[i] \in raced \/ (fetch[f].before # 0 /\ fetch[f].before <= s[i])
  BY DEF InOrder
<1>7. /\ Len(t) = Len(s) + 1 /\ t[1] = m
      /\ \A i \in 1..Len(s) : t[i + 1] = s[i]
      /\ \A i \in 1..Len(s) + 1 : t[i] = IF i = 1 THEN m ELSE s[i - 1]
  BY <1>1, ToTheFront
<1>8. \A i \in 1..Len(s) : /\ s[i] \in 1..Len(stored) /\ s[i] \in ToSet(s)
                           /\ s[i] \in Pending => s[i] \in raced
  BY <1>1, <1>6, ListFacts DEF NotAwaited, ToSet
<1>9. m \notin raced' => \A i \in 1..Len(s) : s[i] < m
  <2> SUFFICES ASSUME m \notin raced', NEW i \in 1..Len(s) PROVE s[i] < m OBVIOUS
  <2>1. ~(s[i] > m) BY <1>4, <1>8
  <2>2. s[i] # m BY <1>4, <1>8
  <2> QED BY <1>1, <1>2, <2>1, <2>2
<1>10. \A i \in 1..Len(t) : i = 1 \/ (i - 1 \in 1..Len(s) /\ t[i] = s[i - 1])
  BY <1>1, <1>7
<1> HIDE DEF s, t
<1>11. ASSUME NEW i \in 1..Len(t)
       PROVE  t[i] \in 1..Len(stored) /\ (t[i] \in Pending' => t[i] \in raced')
  <2>1. CASE i = 1 BY <1>7, <2>1
  <2>2. CASE i # 1 BY <1>4, <1>8, <1>10, <2>2
  <2> QED BY <2>1, <2>2
<1>12. ASSUME NEW i \in 1..Len(t) PROVE stored[t[i]] = active
  <2>1. CASE i = 1 BY <1>7, <2>1
  <2>2. CASE i # 1 BY <1>6, <1>10, <2>2
  <2> QED BY <2>1, <2>2
<1>13. ASSUME NEW i \in 1..Len(t), NEW j \in 1..Len(t), i < j, t[i] \notin raced'
       PROVE  t[j] < t[i]
  <2>1. j # 1 /\ j - 1 \in 1..Len(s) /\ t[j] = s[j - 1] BY <1>1, <1>7, <1>10, <1>13
  <2>2. CASE i = 1 BY <1>7, <1>9, <1>13, <2>1, <2>2
  <2>3. CASE i # 1
    <3>1. i - 1 \in 1..Len(s) /\ t[i] = s[i - 1] BY <1>10, <2>3
    <3>2. i - 1 < j - 1 BY <1>1, <1>7, <1>13
    <3> QED BY <1>4, <1>6, <1>13, <2>1, <3>1, <3>2
  <2> QED BY <2>2, <2>3
<1>14. ASSUME NEW x \in got' \ raced' PROVE \E i \in 1..Len(t) : t[i] = x
  <2>1. CASE x = m
    <3>1. 1 \in 1..Len(t) BY <1>1, <1>7
    <3> QED BY <1>7, <2>1, <3>1
  <2>2. CASE x # m
    <3>1. PICK i \in 1..Len(s) : s[i] = x BY <1>4, <1>5, <1>6, <1>14, <2>2
    <3>2. i + 1 \in 1..Len(t) BY <1>1, <1>7
    <3> QED BY <1>7, <3>1, <3>2
  <2> QED BY <2>1, <2>2
<1>15. ASSUME NEW f \in Own(h), NEW i \in 1..Len(t)
       PROVE  t[i] \in raced' \/ (fetch[f].before # 0 /\ fetch[f].before <= t[i])
  <2>1. m \in raced' BY <1>4 DEF Own
  <2> QED BY <1>4, <1>6, <1>7, <1>10, <2>1
<1>16. Own(h)' = Own(h) BY DEF Own, Under
<1>17. NotAwaited(messages[h])' BY <1>3, <1>11 DEF NotAwaited
<1> QED BY <1>3, <1>12, <1>13, <1>14, <1>15, <1>16, <1>17 DEF InOrder

LEMMA StillAnswers ==
    ASSUME ThreadTypes, AnswersAreInOrder, raced \subseteq raced',
           Len(stored') \in Nat, Len(stored) <= Len(stored'),
           \A i \in 1..Len(stored) : stored'[i] = stored[i],
           Pending' \cap (1..Len(stored)) \subseteq Pending,
           \A f \in Fetch : fetch'[f].phase = "ok" =>
             /\ fetch[f].phase = "ok" /\ fetch'[f].conv = fetch[f].conv
             /\ fetch'[f].before = fetch[f].before /\ fetch'[f].result = fetch[f].result
    PROVE  AnswersAreInOrder'
<1> SUFFICES ASSUME NEW f \in Fetch, fetch'[f].phase = "ok"
             PROVE  /\ NotAwaited(fetch[f].result)'
                    /\ \A i \in 1..Len(fetch'[f].result) :
                         /\ stored'[fetch'[f].result[i]] = fetch'[f].conv
                         /\ fetch'[f].before # 0 => fetch'[f].result[i] < fetch'[f].before
                    /\ \A i, j \in 1..Len(fetch'[f].result) :
                         i < j => fetch'[f].result[j] < fetch'[f].result[i]
  BY DEF AnswersAreInOrder
<1>1. Len(stored) \in Nat BY ListFacts
<1>2. /\ NotAwaited(fetch[f].result)
      /\ \A i \in 1..Len(fetch[f].result) :
           /\ stored[fetch[f].result[i]] = fetch[f].conv
           /\ fetch[f].before # 0 => fetch[f].result[i] < fetch[f].before
      /\ \A i, j \in 1..Len(fetch[f].result) :
           i < j => fetch[f].result[j] < fetch[f].result[i]
  BY DEF AnswersAreInOrder
<1>3. /\ fetch'[f].conv = fetch[f].conv /\ fetch'[f].before = fetch[f].before
      /\ fetch'[f].result = fetch[f].result
  OBVIOUS
<1>4. NotAwaited(fetch[f].result)' BY <1>1, <1>2, <1>3 DEF NotAwaited
<1>5. \A i \in 1..Len(fetch[f].result) : fetch[f].result[i] \in 1..Len(stored)
  BY <1>2 DEF NotAwaited
<1> QED BY <1>2, <1>3, <1>4, <1>5

LEMMA SelectKeepsOrder ==
    ASSUME OrderInv, NEW c \in Conv, SelectConversation(c) PROVE OrderInv'
<1>1. /\ ThreadTypes /\ RequestsAreOfTheirHook /\ AnswersAreInOrder /\ OwnFetchIsForTheOpen
      /\ ListsAreInOrder
  BY DEF OrderInv
<1> DEFINE h == KindOf[c]
<1>2. h \in Hook BY KindAssumption DEF Hook
<1> HIDE DEF h
<1>3. /\ active' = c /\ messages' = [messages EXCEPT ![h] = <<>>]
      /\ hasMore' = [hasMore EXCEPT ![h] = "yes"] /\ fetchMessages(h, c, 0)
      /\ late' = late \ {h} /\ got' = {}
      /\ sending' = sending /\ stored' = stored /\ wire' = wire /\ raced' = raced
  BY DEF SelectConversation, h
<1>4. Len(stored) \in Nat /\ 0 \in 0..MaxMsg BY <1>1, ListFacts
<1>5. /\ \E f \in Fetch :
           /\ fetch[f] = NoFetch /\ fetch' \in [Fetch -> FetchType]
           /\ fetch'[f].phase = "sent" /\ fetch'[f].hook = h /\ fetch'[f].conv = c
           /\ fetch'[f].before = 0 /\ fetch'[f].visit = "this"
           /\ \A g \in Fetch : g # f =>
                /\ fetch'[g].phase = fetch[g].phase /\ fetch'[g].hook = fetch[g].hook
                /\ fetch'[g].conv = fetch[g].conv /\ fetch'[g].before = fetch[g].before
                /\ fetch'[g].result = fetch[g].result
                /\ IF g \in Under(h) /\ 0 = 0 THEN fetch'[g].visit = "earlier"
                                              ELSE fetch'[g] = fetch[g]
      /\ loading' \in [Hook -> {"no", "yes"}] /\ loading'[h] = "yes"
      /\ \A k \in Hook : k # h => loading'[k] = loading[k]
  BY <1>1, <1>2, <1>3, <1>4, FetchSent
<1>6. PICK f \in Fetch :
           /\ fetch[f] = NoFetch /\ fetch' \in [Fetch -> FetchType]
           /\ fetch'[f].phase = "sent" /\ fetch'[f].hook = h /\ fetch'[f].conv = c
           /\ fetch'[f].before = 0 /\ fetch'[f].visit = "this"
           /\ \A g \in Fetch : g # f =>
                /\ fetch'[g].phase = fetch[g].phase /\ fetch'[g].hook = fetch[g].hook
                /\ fetch'[g].conv = fetch[g].conv /\ fetch'[g].before = fetch[g].before
                /\ fetch'[g].result = fetch[g].result
                /\ IF g \in Under(h) THEN fetch'[g].visit = "earlier"
                                     ELSE fetch'[g] = fetch[g]
  BY <1>5
<1>7. /\ \A k \in Hook : k # h => messages'[k] = messages[k]
      /\ messages'[h] = <<>> /\ Len(messages'[h]) = 0
      /\ messages' \in [Hook -> Seq(Msg)] /\ hasMore' \in [Hook -> {"no", "yes"}]
  <2>1. <<>> \in Seq(Msg) /\ Len(<<>>) = 0 BY EmptySeq
  <2> QED BY <1>1, <1>2, <1>3, <2>1 DEF ThreadTypes
<1>8. ThreadTypes'
  <2>1. ASSUME NEW k \in Hook, loading'[k] = "yes" PROVE Under(k)' # {}
    <3>1. CASE k = h BY <1>6, <3>1 DEF Under
    <3>2. CASE k # h
      <4>1. PICK g \in Fetch : fetch[g].phase # "none" /\ fetch[g].hook = k
        BY <1>1, <1>5, <2>1, <3>2 DEF ThreadTypes, Under
      <4>2. g # f BY <1>6, <4>1, NoneSentFacts
      <4> QED BY <1>6, <4>1, <4>2 DEF Under
    <3> QED BY <3>1, <3>2
  <2> QED BY <1>1, <1>3, <1>5, <1>6, <1>7, <2>1 DEF ThreadTypes
<1>9. RequestsAreOfTheirHook'
  <2>1. ASSUME NEW g \in Fetch
        PROVE  IF fetch'[g].phase = "none" THEN fetch'[g] = NoFetch
               ELSE fetch'[g].conv \in Conv /\ KindOf[fetch'[g].conv] = fetch'[g].hook
    <3>1. CASE g = f BY <1>6, <3>1 DEF h
    <3>2. CASE g # f BY <1>1, <1>6, <3>2 DEF RequestsAreOfTheirHook, Under
    <3> QED BY <3>1, <3>2
  <2> QED BY <1>1, <1>3, <2>1 DEF RequestsAreOfTheirHook
<1>10. Pending' = Pending BY <1>3 DEF Pending
<1>11. AnswersAreInOrder'
  <2>1. \A g \in Fetch : fetch'[g].phase = "ok" => g # f BY <1>6
  <2> QED BY <1>1, <1>3, <1>4, <1>6, <1>10, <2>1, StillAnswers
<1>12. \A k \in Hook : Visited(k)' => k = h BY <1>3 DEF Visited, h
<1>13. Own(h)' = {f} BY <1>6 DEF Own, Under
<1>14. OwnFetchIsForTheOpen' BY <1>3, <1>5, <1>6, <1>12, <1>13 DEF OwnFetchIsForTheOpen
<1>15. ListsAreInOrder'
  <2>1. InOrder(h)' BY <1>3, <1>7 DEF InOrder, NotAwaited
  <2> QED BY <1>12, <2>1 DEF ListsAreInOrder
<1> QED BY <1>8, <1>9, <1>11, <1>14, <1>15 DEF OrderInv

LEMMA BackKeepsOrder == ASSUME OrderInv, handleBack PROVE OrderInv'
<1>1. /\ ThreadTypes /\ RequestsAreOfTheirHook /\ AnswersAreInOrder /\ OwnFetchIsForTheOpen
      /\ ListsAreInOrder
  BY DEF OrderInv
<1>2. /\ active' = NoConv /\ got' = {} /\ messages' = messages /\ loading' = loading
      /\ hasMore' = hasMore /\ fetch' = fetch /\ sending' = sending /\ stored' = stored
      /\ wire' = wire /\ late' = late /\ raced' = raced
  BY DEF handleBack, hooks
<1>3. ThreadTypes' BY <1>1, <1>2 DEF ThreadTypes, Under
<1>4. RequestsAreOfTheirHook' BY <1>1, <1>2 DEF RequestsAreOfTheirHook
<1>5. AnswersAreInOrder' BY <1>1, <1>2 DEF AnswersAreInOrder, NotAwaited, Pending
<1>6. \A h \in Hook : ~Visited(h)' BY <1>2 DEF Visited
<1> QED BY <1>3, <1>4, <1>5, <1>6 DEF OrderInv, OwnFetchIsForTheOpen, ListsAreInOrder

LEMMA LoadMoreKeepsOrder == ASSUME OrderInv, loadMore PROVE OrderInv'
<1>1. /\ ThreadTypes /\ RequestsAreOfTheirHook /\ AnswersAreInOrder /\ OwnFetchIsForTheOpen
      /\ ListsAreInOrder
  BY DEF OrderInv
<1>2. PICK h \in Hook : active \in Conv /\ active # NoConv /\ KindOf[active] = h
  BY <1>1, KindAssumption DEF loadMore, ThreadTypes, Hook
<1> DEFINE s == messages[h]
           b == Last(s)
<1>3. /\ s # <<>> /\ loading[h] = "no" /\ fetchMessages(h, active, b)
      /\ active' = active /\ messages' = messages /\ hasMore' = hasMore
      /\ sending' = sending /\ stored' = stored /\ wire' = wire
      /\ late' = late /\ raced' = raced /\ got' = got
  BY <1>2 DEF loadMore, history
<1>4. s \in Seq(Msg) /\ Len(s) \in Nat \ {0} /\ \A i \in 1..Len(s) : s[i] \in Nat \ {0}
  <2>1. s \in Seq(Msg) /\ \A i \in 1..Len(s) : s[i] \in Nat \ {0} BY <1>1, <1>2, ListFacts
  <2> QED BY <1>3, <2>1, EmptySeq
<1>5. Len(s) \in 1..Len(s) /\ b = s[Len(s)] /\ b \in Nat \ {0} /\ b \in 0..MaxMsg
  <2>1. Len(s) \in 1..Len(s) /\ b = s[Len(s)] BY <1>4 DEF Last
  <2>2. s[Len(s)] \in Msg BY <1>4, <2>1, ElementOfSeq
  <2>3. MaxMsg \in Nat BY PageAssumption
  <2> QED BY <1>4, <2>1, <2>2, <2>3 DEF Msg
<1> HIDE DEF s, b
<1>6. /\ \E f \in Fetch :
           /\ fetch[f] = NoFetch /\ fetch' \in [Fetch -> FetchType]
           /\ fetch'[f].phase = "sent" /\ fetch'[f].hook = h /\ fetch'[f].conv = active
           /\ fetch'[f].before = b /\ fetch'[f].visit = "this"
           /\ \A g \in Fetch : g # f =>
                /\ fetch'[g].phase = fetch[g].phase /\ fetch'[g].hook = fetch[g].hook
                /\ fetch'[g].conv = fetch[g].conv /\ fetch'[g].before = fetch[g].before
                /\ fetch'[g].result = fetch[g].result
                /\ IF g \in Under(h) /\ b = 0 THEN fetch'[g].visit = "earlier"
                                              ELSE fetch'[g] = fetch[g]
      /\ loading' \in [Hook -> {"no", "yes"}] /\ loading'[h] = "yes"
      /\ \A k \in Hook : k # h => loading'[k] = loading[k]
  BY <1>1, <1>2, <1>3, <1>5, FetchSent
<1>7. PICK f \in Fetch :
           /\ fetch[f] = NoFetch /\ fetch' \in [Fetch -> FetchType]
           /\ fetch'[f].phase = "sent" /\ fetch'[f].hook = h /\ fetch'[f].conv = active
           /\ fetch'[f].before = b /\ fetch'[f].visit = "this"
           /\ \A g \in Fetch : g # f => fetch'[g] = fetch[g]
  BY <1>5, <1>6
<1>8. fetch[f].phase = "none" BY <1>7, NoneSentFacts
<1>9. \A k \in Hook : Under(k) \subseteq Under(k)' /\ (k = h => f \in Under(k)')
  BY <1>7, <1>8 DEF Under
<1>10. ThreadTypes'
  <2>1. ASSUME NEW k \in Hook, loading'[k] = "yes" PROVE Under(k)' # {}
    <3>1. CASE k = h BY <1>9, <3>1
    <3>2. CASE k # h
      <4>1. Under(k) # {} BY <1>1, <1>6, <2>1, <3>2 DEF ThreadTypes
      <4> QED BY <1>9, <4>1
    <3> QED BY <3>1, <3>2
  <2> QED BY <1>1, <1>3, <1>6, <1>7, <2>1 DEF ThreadTypes
<1>11. RequestsAreOfTheirHook' BY <1>1, <1>2, <1>3, <1>7 DEF RequestsAreOfTheirHook
<1>12. Pending' = Pending /\ Len(stored) \in Nat BY <1>1, <1>3, ListFacts DEF Pending
<1>13. AnswersAreInOrder'
  <2>1. \A g \in Fetch : fetch'[g].phase = "ok" => g # f BY <1>7
  <2> QED BY <1>1, <1>3, <1>7, <1>12, <2>1, StillAnswers
<1>14. \A k \in Hook : (Visited(k)' <=> Visited(k)) /\ (Visited(k) => k = h)
  BY <1>2, <1>3 DEF Visited
<1>15. Visited(h) => Own(h) = {} BY <1>1, <1>2, <1>3 DEF OwnFetchIsForTheOpen
<1>16. Visited(h) => Own(h)' = {f}
  <2>1. \A g \in Fetch : g # f => (g \in Own(h)' <=> g \in Own(h))
    BY <1>7 DEF Own, Under
  <2>2. f \in Own(h)' BY <1>7 DEF Own, Under
  <2>3. Own(h)' \subseteq Fetch BY DEF Own, Under
  <2> QED BY <1>15, <2>1, <2>2, <2>3
<1>17. OwnFetchIsForTheOpen'
  BY <1>3, <1>6, <1>7, <1>14, <1>16 DEF OwnFetchIsForTheOpen
<1>18. ASSUME Visited(h) PROVE InOrder(h)'
  <2>1. InOrder(h) BY <1>1, <1>2, <1>18 DEF ListsAreInOrder
  <2>2. /\ NotAwaited(s) /\ \A i \in 1..Len(s) : stored[s[i]] = active
        /\ \A i, j \in 1..Len(s) : i < j /\ s[i] \notin raced => s[j] < s[i]
        /\ \A m \in got \ raced : \E i \in 1..Len(s) : s[i] = m
    BY <2>1 DEF InOrder, s
  <2>3. ASSUME NEW i \in 1..Len(s), s[i] \notin raced PROVE b # 0 /\ b <= s[i]
    <3>1. CASE i = Len(s) BY <1>4, <1>5, <3>1
    <3>2. CASE i # Len(s)
      <4>1. i < Len(s) BY <1>4, <3>2
      <4> QED BY <1>4, <1>5, <2>2, <2>3, <4>1
    <3> QED BY <3>1, <3>2
  <2>4. messages'[h] = s BY <1>3 DEF s
  <2>5. \A g \in Own(h)', i \in 1..Len(s) :
          s[i] \in raced \/ (fetch'[g].before # 0 /\ fetch'[g].before <= s[i])
    BY <1>7, <1>16, <1>18, <2>3
  <2>6. NotAwaited(messages[h])' BY <1>3, <1>12, <2>2, <2>4 DEF NotAwaited
  <2> QED BY <1>3, <2>2, <2>4, <2>5, <2>6 DEF InOrder
<1>19. ListsAreInOrder' BY <1>14, <1>18 DEF ListsAreInOrder
<1> QED BY <1>10, <1>11, <1>13, <1>17, <1>19 DEF OrderInv

\* What leaves the fetches and the open conversation alone, and adds to what is stored.
LEMMA OthersKeepOrder ==
    ASSUME OrderInv, active' = active, messages' = messages, loading' = loading,
           fetch' = fetch, late' = late, raced' = raced, got' = got,
           Len(stored') \in Nat, Len(stored) <= Len(stored'),
           \A i \in 1..Len(stored) : stored'[i] = stored[i],
           Pending' \cap (1..Len(stored)) \subseteq Pending
    PROVE  AnswersAreInOrder' /\ OwnFetchIsForTheOpen' /\ ListsAreInOrder'
<1>1. /\ ThreadTypes /\ AnswersAreInOrder /\ OwnFetchIsForTheOpen /\ ListsAreInOrder
  BY DEF OrderInv
<1>2. AnswersAreInOrder' BY <1>1, StillAnswers
<1>3. \A h \in Hook : Visited(h)' <=> Visited(h) BY DEF Visited
<1>4. \A h \in Hook : Own(h)' = Own(h) BY DEF Own, Under
<1>5. OwnFetchIsForTheOpen' BY <1>1, <1>3, <1>4 DEF OwnFetchIsForTheOpen
<1>6. ASSUME NEW h \in Hook, Visited(h) PROVE InOrder(h)'
  <2>1. InOrder(h) BY <1>1, <1>6 DEF ListsAreInOrder
  <2>2. \A f \in Own(h)' : f \in Own(h) /\ fetch'[f].before = fetch[f].before BY <1>4
  <2> QED BY <1>1, <2>1, <2>2, StillInOrder
<1> QED BY <1>2, <1>3, <1>5, <1>6 DEF ListsAreInOrder

LEMMA PostKeepsOrder == ASSUME OrderInv, NEW c \in Conv, Post(c) PROVE OrderInv'
<1>1. /\ ThreadTypes /\ RequestsAreOfTheirHook /\ AnswersAreInOrder /\ OwnFetchIsForTheOpen
      /\ ListsAreInOrder
  BY DEF OrderInv
<1> DEFINE n == Len(stored)
<1>2. /\ n < MaxMsg /\ stored' = Append(stored, c) /\ wire' = wire \cup {n + 1}
      /\ active' = active /\ messages' = messages /\ loading' = loading /\ hasMore' = hasMore
      /\ fetch' = fetch /\ sending' = sending /\ late' = late /\ raced' = raced /\ got' = got
  BY DEF Post, hooks, history
<1>3. n \in Nat /\ MaxMsg \in Nat /\ stored \in Seq(Conv) BY <1>1, ListFacts DEF ThreadTypes
<1>4. /\ stored' \in Seq(Conv) /\ Len(stored') = n + 1
      /\ \A i \in 1..n : stored'[i] = stored[i]
  BY <1>2, <1>3
<1> HIDE DEF n
<1>5. n + 1 <= MaxMsg /\ 1..n + 1 = 1..n \cup {n + 1} /\ n + 1 \notin 1..n BY <1>2, <1>3
<1>6. ThreadTypes' BY <1>1, <1>2, <1>4, <1>5 DEF ThreadTypes, Under, n
<1>7. RequestsAreOfTheirHook' BY <1>1, <1>2, <1>4, <1>5 DEF RequestsAreOfTheirHook, n
<1>8. Pending' \cap (1..n) \subseteq Pending BY <1>2, <1>5 DEF Pending
<1>9. AnswersAreInOrder' /\ OwnFetchIsForTheOpen' /\ ListsAreInOrder'
  <2>1. Len(stored') \in Nat /\ n <= Len(stored') BY <1>3, <1>4
  <2> QED BY <1>2, <1>4, <1>8, <2>1, OthersKeepOrder DEF n
<1> QED BY <1>6, <1>7, <1>9 DEF OrderInv

LEMMA SendKeepsOrder == ASSUME OrderInv, handleSend PROVE OrderInv'
<1>1. /\ ThreadTypes /\ RequestsAreOfTheirHook /\ AnswersAreInOrder /\ OwnFetchIsForTheOpen
      /\ ListsAreInOrder
  BY DEF OrderInv
<1>2. /\ active # NoConv /\ sending = NoSend
      /\ sending' = [phase |-> "sent", conv |-> active, msg |-> 0]
      /\ active' = active /\ messages' = messages /\ loading' = loading /\ hasMore' = hasMore
      /\ fetch' = fetch /\ stored' = stored /\ wire' = wire
      /\ late' = late /\ raced' = raced /\ got' = got
  BY DEF handleSend, hooks, history
<1>3. Len(stored) \in Nat /\ MaxMsg \in Nat BY <1>1, ListFacts
<1>4. /\ sending' \in SendType /\ sending'.phase = "sent" /\ sending'.conv \in Conv
  BY <1>1, <1>2, <1>3 DEF ThreadTypes, SendType
<1>5. ThreadTypes' BY <1>1, <1>2, <1>4 DEF ThreadTypes, Under
<1>6. RequestsAreOfTheirHook' BY <1>1, <1>2, <1>4 DEF RequestsAreOfTheirHook
<1>7. Pending' \subseteq Pending BY <1>2, <1>4 DEF Pending
<1>8. AnswersAreInOrder' /\ OwnFetchIsForTheOpen' /\ ListsAreInOrder'
  BY <1>2, <1>3, <1>7, OthersKeepOrder
<1> QED BY <1>5, <1>6, <1>8 DEF OrderInv

LEMMA ServeSendKeepsOrder == ASSUME OrderInv, ServeSend PROVE OrderInv'
<1>1. /\ ThreadTypes /\ RequestsAreOfTheirHook /\ AnswersAreInOrder /\ OwnFetchIsForTheOpen
      /\ ListsAreInOrder
  BY DEF OrderInv
<1> DEFINE n == Len(stored)
<1>2. /\ sending.phase = "sent"
      /\ \/ /\ n < MaxMsg /\ stored' = Append(stored, sending.conv)
            /\ sending' = [sending EXCEPT !.phase = "done", !.msg = n + 1]
         \/ sending' = [sending EXCEPT !.phase = "failed"] /\ stored' = stored
      /\ active' = active /\ messages' = messages /\ loading' = loading /\ hasMore' = hasMore
      /\ fetch' = fetch /\ wire' = wire /\ late' = late /\ raced' = raced /\ got' = got
  BY DEF ServeSend, hooks, history
<1>3. /\ n \in Nat /\ MaxMsg \in Nat /\ stored \in Seq(Conv) /\ wire \subseteq 1..n
      /\ sending \in SendType /\ sending.conv \in Conv
  BY <1>1, <1>2, ListFacts DEF ThreadTypes, RequestsAreOfTheirHook
<1>4. /\ Len(stored') \in Nat /\ n <= Len(stored') /\ Len(stored') <= MaxMsg
      /\ stored' \in Seq(Conv) /\ \A i \in 1..n : stored'[i] = stored[i]
      /\ wire' \subseteq 1..Len(stored')
      /\ sending' \in SendType /\ sending'.phase \in {"done", "failed"}
      /\ sending'.conv \in Conv
      /\ sending'.phase = "done" => /\ sending'.msg \in 1..Len(stored')
                                    /\ sending'.msg = n + 1
                                    /\ stored'[sending'.msg] = sending'.conv
  <2>1. CASE /\ n < MaxMsg /\ stored' = Append(stored, sending.conv)
             /\ sending' = [sending EXCEPT !.phase = "done", !.msg = n + 1]
    <3>1. /\ stored' \in Seq(Conv) /\ Len(stored') = n + 1
          /\ \A i \in 1..n : stored'[i] = stored[i]
          /\ stored'[n + 1] = sending.conv
      BY <1>3, <2>1
    <3>2. n + 1 \in 0..MaxMsg BY <1>3, <2>1
    <3>3. /\ sending' \in SendType /\ sending'.phase = "done" /\ sending'.conv = sending.conv
          /\ sending'.msg = n + 1
      BY <1>3, <2>1, <3>2 DEF SendType
    <3> HIDE DEF n
    <3> QED BY <1>2, <1>3, <2>1, <3>1, <3>3
  <2>2. CASE sending' = [sending EXCEPT !.phase = "failed"] /\ stored' = stored
    <3>1. /\ sending' \in SendType /\ sending'.phase = "failed"
          /\ sending'.conv = sending.conv
      BY <1>3, <2>2 DEF SendType
    <3>2. n <= MaxMsg BY <1>1 DEF ThreadTypes
    <3> QED BY <1>2, <1>3, <2>2, <3>1, <3>2
  <2> QED BY <1>2, <2>1, <2>2
<1> HIDE DEF n
<1>5. n + 1 \notin 1..n BY <1>3
<1>6. ThreadTypes' BY <1>1, <1>2, <1>4 DEF ThreadTypes, Under
<1>7. RequestsAreOfTheirHook'
  BY <1>1, <1>2, <1>3, <1>4, <1>5 DEF RequestsAreOfTheirHook
<1>8. Pending' \cap (1..n) \subseteq Pending BY <1>2, <1>4, <1>5 DEF Pending
<1>9. AnswersAreInOrder' /\ OwnFetchIsForTheOpen' /\ ListsAreInOrder'
  BY <1>2, <1>4, <1>8, OthersKeepOrder DEF n
<1> QED BY <1>6, <1>7, <1>9 DEF OrderInv

\* A message comes to the front of a hook's list.
LEMMA AddingKeepsOrder ==
    ASSUME OrderInv, NEW h \in Hook, NEW m \in Msg, m \in Pending, m \in 1..Len(stored),
           Adding(h, m), active' = active, loading' = loading, fetch' = fetch,
           stored' = stored, Pending' \subseteq Pending \ {m}, late \subseteq late',
           active # NoConv /\ KindOf[active] = h /\ stored[m] # active => h \in late'
    PROVE  /\ AnswersAreInOrder' /\ OwnFetchIsForTheOpen' /\ ListsAreInOrder'
           /\ messages' \in [Hook -> Seq(Msg)] /\ raced' \subseteq Msg /\ got' \subseteq Msg
<1>1. /\ ThreadTypes /\ RequestsAreOfTheirHook /\ AnswersAreInOrder /\ OwnFetchIsForTheOpen
      /\ ListsAreInOrder
  BY DEF OrderInv
<1>2. /\ messages' = [messages EXCEPT ![h] = <<m>> \o messages[h]]
      /\ raced \subseteq raced' /\ raced' \subseteq raced \cup {m}
      /\ got' = IF stored[m] = Key(h, active) THEN got \cup {m} ELSE got
  BY DEF Adding
<1>3. Len(stored) \in Nat /\ stored[m] \in Conv /\ stored[m] # NoConv
  BY <1>1, ListFacts, ElementOfSeq, NoConvAssumption DEF ThreadTypes
<1>4. /\ messages' \in [Hook -> Seq(Msg)]
      /\ \A k \in Hook : k # h => messages'[k] = messages[k]
  <2>1. messages[h] \in Seq(Msg) BY <1>1 DEF ThreadTypes
  <2>2. <<m>> \o messages[h] \in Seq(Msg) BY <2>1, ToTheFront
  <2> QED BY <1>1, <1>2, <2>2 DEF ThreadTypes
<1>5. raced' \subseteq Msg /\ got' \subseteq Msg BY <1>1, <1>2 DEF ThreadTypes
<1>6. AnswersAreInOrder' BY <1>1, <1>2, <1>3, StillAnswers
<1>7. \A k \in Hook : Visited(k)' => Visited(k) BY DEF Visited
<1>8. \A k \in Hook : Own(k)' = Own(k) BY DEF Own, Under
<1>9. OwnFetchIsForTheOpen' BY <1>1, <1>7, <1>8 DEF OwnFetchIsForTheOpen
<1>10. ASSUME NEW k \in Hook, Visited(k)' PROVE InOrder(k)'
  <2>1. InOrder(k) BY <1>1, <1>7, <1>10 DEF ListsAreInOrder
  <2>2. active \in Conv /\ active # NoConv /\ KindOf[active] = k
    BY <1>1, <1>10 DEF Visited, ThreadTypes
  <2>3. CASE k = h
    <3>1. stored[m] = active BY <1>10, <2>2, <2>3 DEF Visited
    <3> QED BY <1>1, <2>1, <2>2, <2>3, <3>1, AddedInOrder
  <2>4. CASE k # h
    <3>1. got' = got BY <1>2, <1>3, <2>2, <2>4 DEF Key
    <3>2. \A f \in Own(k)' : f \in Own(k) /\ fetch'[f].before = fetch[f].before BY <1>8
    <3> QED BY <1>1, <1>2, <1>3, <1>4, <2>1, <2>4, <3>1, <3>2, StillInOrder
  <2> QED BY <2>3, <2>4
<1>11. ListsAreInOrder' BY <1>10 DEF ListsAreInOrder
<1> QED BY <1>4, <1>5, <1>6, <1>9, <1>11

LEMMA DeliverKeepsOrder == ASSUME OrderInv, NEW m \in wire, Deliver(m) PROVE OrderInv'
<1>1. /\ ThreadTypes /\ RequestsAreOfTheirHook /\ AnswersAreInOrder /\ OwnFetchIsForTheOpen
      /\ ListsAreInOrder
  BY DEF OrderInv
<1>2. /\ wire' = wire \ {m}
      /\ IF stored[m] = active THEN Adding(KindOf[active], m)
         ELSE messages' = messages /\ raced' = raced /\ got' = got
      /\ active' = active /\ loading' = loading /\ hasMore' = hasMore /\ fetch' = fetch
      /\ sending' = sending /\ stored' = stored /\ late' = late
  BY DEF Deliver
<1>3. m \in 1..Len(stored) /\ m \in Msg /\ Len(stored) \in Nat /\ stored[m] \in Conv
  BY <1>1, ListFacts, ElementOfSeq DEF ThreadTypes
<1>4. m \in Pending /\ Pending' \subseteq Pending \ {m}
  BY <1>1, <1>2 DEF Pending, RequestsAreOfTheirHook
<1>5. RequestsAreOfTheirHook' BY <1>1, <1>2 DEF RequestsAreOfTheirHook
<1>6. /\ AnswersAreInOrder' /\ OwnFetchIsForTheOpen' /\ ListsAreInOrder'
      /\ messages' \in [Hook -> Seq(Msg)] /\ raced' \subseteq Msg /\ got' \subseteq Msg
  <2>1. CASE stored[m] = active
    <3>1. KindOf[active] \in Hook BY <1>3, <2>1, KindAssumption DEF Hook
    <3>2. Adding(KindOf[active], m) BY <1>2, <2>1
    <3> QED BY <1>2, <1>3, <1>4, <2>1, <3>1, <3>2, AddingKeepsOrder
  <2>2. CASE stored[m] # active
    <3>1. AnswersAreInOrder' /\ OwnFetchIsForTheOpen' /\ ListsAreInOrder'
      BY <1>2, <1>3, <1>4, <2>2, OthersKeepOrder
    <3> QED BY <1>1, <1>2, <2>2, <3>1 DEF ThreadTypes
  <2> QED BY <2>1, <2>2
<1>7. ThreadTypes' BY <1>1, <1>2, <1>6 DEF ThreadTypes, Under
<1> QED BY <1>5, <1>6, <1>7 DEF OrderInv

LEMMA SentKeepsOrder == ASSUME OrderInv, Sent PROVE OrderInv'
<1>1. /\ ThreadTypes /\ RequestsAreOfTheirHook /\ AnswersAreInOrder /\ OwnFetchIsForTheOpen
      /\ ListsAreInOrder
  BY DEF OrderInv
<1> DEFINE m == sending.msg
<1>2. /\ sending.phase \in {"done", "failed"} /\ sending' = NoSend
      /\ IF sending.phase = "done"
         THEN /\ Adding(KindOf[sending.conv], m)
              /\ late' = IF sending.conv = Key(KindOf[sending.conv], active)
                         THEN late ELSE late \cup {KindOf[sending.conv]}
         ELSE messages' = messages /\ raced' = raced /\ got' = got /\ late' = late
      /\ active' = active /\ loading' = loading /\ hasMore' = hasMore /\ fetch' = fetch
      /\ stored' = stored /\ wire' = wire
  BY DEF Sent
<1>3. Len(stored) \in Nat /\ sending.conv \in Conv /\ sending.conv # NoConv
  BY <1>1, <1>2, ListFacts, NoConvAssumption DEF RequestsAreOfTheirHook
<1>4. Pending' = wire BY <1>2, NoneSentFacts DEF Pending
<1>5. RequestsAreOfTheirHook' BY <1>1, <1>2, NoneSentFacts DEF RequestsAreOfTheirHook
<1>6. /\ AnswersAreInOrder' /\ OwnFetchIsForTheOpen' /\ ListsAreInOrder'
      /\ messages' \in [Hook -> Seq(Msg)] /\ raced' \subseteq Msg /\ got' \subseteq Msg
      /\ late' \subseteq Hook
  <2>1. CASE sending.phase = "done"
    <3>1. PICK h \in Hook : h = KindOf[sending.conv] BY <1>3, KindAssumption DEF Hook
    <3>2. /\ m \in 1..Len(stored) /\ m \notin wire /\ stored[m] = sending.conv
      BY <1>1, <2>1 DEF RequestsAreOfTheirHook
    <3>3. m \in Msg BY <1>1, <3>2, ListFacts
    <3>4. PICK n \in Msg : n = m BY <3>3
    <3>5. n \in Pending /\ Pending' \subseteq Pending \ {n} BY <1>4, <2>1, <3>2, <3>4 DEF Pending
    <3>6. Adding(h, n) BY <1>2, <2>1, <3>1, <3>4
    <3>7. /\ late \subseteq late' /\ late' \subseteq Hook
          /\ active # NoConv /\ KindOf[active] = h /\ stored[n] # active => h \in late'
      BY <1>1, <1>2, <2>1, <3>1, <3>2, <3>4 DEF Key, ThreadTypes
    <3> QED BY <1>2, <3>2, <3>4, <3>5, <3>6, <3>7, AddingKeepsOrder
  <2>2. CASE sending.phase = "failed"
    <3>1. Pending' \subseteq Pending BY <1>4 DEF Pending
    <3>2. AnswersAreInOrder' /\ OwnFetchIsForTheOpen' /\ ListsAreInOrder'
      BY <1>2, <1>3, <2>2, <3>1, OthersKeepOrder
    <3> QED BY <1>1, <1>2, <2>2, <3>2 DEF ThreadTypes
  <2> QED BY <1>2, <2>1, <2>2
<1>7. ThreadTypes' BY <1>1, <1>2, <1>6, NoneSentFacts DEF ThreadTypes, Under
<1> QED BY <1>5, <1>6, <1>7 DEF OrderInv

LEMMA ServeFetchKeepsOrder ==
    ASSUME OrderInv, NEW f \in Fetch, ServeFetch(f) PROVE OrderInv'
<1>1. /\ ThreadTypes /\ RequestsAreOfTheirHook /\ AnswersAreInOrder /\ OwnFetchIsForTheOpen
      /\ ListsAreInOrder
  BY DEF OrderInv
<1> DEFINE r == Answer(fetch[f].conv, fetch[f].before)
<1> HIDE DEF r
<1>2. /\ fetch[f].phase = "sent"
      /\ \/ /\ fetch' = [fetch EXCEPT ![f] = [fetch[f] EXCEPT !.phase = "ok", !.result = r]]
            /\ raced' = raced \cup Pending
         \/ /\ fetch' = [fetch EXCEPT ![f] = [fetch[f] EXCEPT !.phase = "failed"]]
            /\ raced' = raced
      /\ active' = active /\ messages' = messages /\ loading' = loading /\ hasMore' = hasMore
      /\ sending' = sending /\ stored' = stored /\ wire' = wire /\ late' = late /\ got' = got
  BY DEF ServeFetch, hooks, r
<1>3. fetch[f].conv \in Conv /\ fetch[f].before \in Nat
  BY <1>1, <1>2, FetchFields DEF RequestsAreOfTheirHook
<1>4. /\ r \in Seq(Msg)
      /\ \A k \in 1..Len(r) : /\ r[k] \in 1..Len(stored) /\ stored[r[k]] = fetch[f].conv
                              /\ fetch[f].before # 0 => r[k] < fetch[f].before
      /\ \A k, l \in 1..Len(r) : k < l => r[l] < r[k]
  BY <1>1, <1>3, AnswerFacts DEF ThreadTypes, r
<1>5. Pending' = Pending /\ Pending \subseteq Msg /\ Len(stored) \in Nat
  BY <1>1, <1>2, ListFacts DEF Pending, ThreadTypes, RequestsAreOfTheirHook
<1>6. raced \subseteq raced' /\ raced' \subseteq Msg BY <1>1, <1>2, <1>5 DEF ThreadTypes
<1>7. /\ fetch' \in [Fetch -> FetchType]
      /\ \A g \in Fetch : g # f => fetch'[g] = fetch[g]
      /\ fetch'[f].phase \in {"ok", "failed"} /\ fetch'[f].hook = fetch[f].hook
      /\ fetch'[f].conv = fetch[f].conv /\ fetch'[f].before = fetch[f].before
      /\ fetch'[f].visit = fetch[f].visit
      /\ fetch'[f].phase = "ok" => fetch'[f].result = r /\ raced' = raced \cup Pending
  <2>1. fetch[f] \in FetchType BY <1>1, FetchFields
  <2>2. CASE /\ fetch' = [fetch EXCEPT ![f] = [fetch[f] EXCEPT !.phase = "ok", !.result = r]]
             /\ raced' = raced \cup Pending
    <3> DEFINE e == [fetch[f] EXCEPT !.phase = "ok", !.result = r]
    <3>1. /\ e \in FetchType /\ e.phase = "ok" /\ e.hook = fetch[f].hook
          /\ e.conv = fetch[f].conv /\ e.before = fetch[f].before
          /\ e.visit = fetch[f].visit /\ e.result = r
      BY <1>4, <2>1 DEF FetchType
    <3> HIDE DEF e
    <3>2. fetch' = [fetch EXCEPT ![f] = e] BY <2>2 DEF e
    <3> QED BY <1>1, <2>2, <3>1, <3>2 DEF ThreadTypes
  <2>3. CASE fetch' = [fetch EXCEPT ![f] = [fetch[f] EXCEPT !.phase = "failed"]]
    <3> DEFINE e == [fetch[f] EXCEPT !.phase = "failed"]
    <3>1. /\ e \in FetchType /\ e.phase = "failed" /\ e.hook = fetch[f].hook
          /\ e.conv = fetch[f].conv /\ e.before = fetch[f].before
          /\ e.visit = fetch[f].visit
      BY <2>1 DEF FetchType
    <3> HIDE DEF e
    <3>2. fetch' = [fetch EXCEPT ![f] = e] BY <2>3 DEF e
    <3> QED BY <1>1, <3>1, <3>2 DEF ThreadTypes
  <2> QED BY <1>2, <2>2, <2>3
<1>8. \A h \in Hook : Under(h)' = Under(h) /\ Own(h)' = Own(h)
  <2>1. \A g \in Fetch : /\ fetch'[g].phase # "none" <=> fetch[g].phase # "none"
                         /\ fetch'[g].hook = fetch[g].hook /\ fetch'[g].visit = fetch[g].visit
    BY <1>2, <1>7
  <2> QED BY <2>1 DEF Under, Own
<1>9. ThreadTypes' BY <1>1, <1>2, <1>6, <1>7, <1>8 DEF ThreadTypes
<1>10. RequestsAreOfTheirHook' BY <1>1, <1>2, <1>7 DEF RequestsAreOfTheirHook
<1>11. ASSUME NEW g \in Fetch, fetch'[g].phase = "ok"
       PROVE  /\ NotAwaited(fetch[g].result)'
              /\ \A i \in 1..Len(fetch'[g].result) :
                   /\ stored'[fetch'[g].result[i]] = fetch'[g].conv
                   /\ fetch'[g].before # 0 => fetch'[g].result[i] < fetch'[g].before
              /\ \A i, j \in 1..Len(fetch'[g].result) :
                   i < j => fetch'[g].result[j] < fetch'[g].result[i]
  <2>1. CASE g = f
    <3>1. fetch'[g].result = r /\ raced' = raced \cup Pending BY <1>7, <1>11, <2>1
    <3>2. NotAwaited(fetch[g].result)' BY <1>2, <1>4, <1>5, <3>1 DEF NotAwaited
    <3> QED BY <1>2, <1>4, <1>7, <2>1, <3>1, <3>2
  <2>2. CASE g # f
    <3>1. fetch'[g] = fetch[g] BY <1>7, <2>2
    <3>2. LET q == fetch[g].result IN
              /\ NotAwaited(q)
              /\ \A i \in 1..Len(q) : /\ stored[q[i]] = fetch[g].conv
                                      /\ fetch[g].before # 0 => q[i] < fetch[g].before
              /\ \A i, j \in 1..Len(q) : i < j => q[j] < q[i]
      BY <1>1, <1>11, <3>1 DEF AnswersAreInOrder
    <3>3. NotAwaited(fetch[g].result)' BY <1>2, <1>5, <1>6, <3>1, <3>2 DEF NotAwaited
    <3> QED BY <1>2, <3>1, <3>2, <3>3
  <2> QED BY <2>1, <2>2
<1>12. AnswersAreInOrder' BY <1>11 DEF AnswersAreInOrder
<1>13. \A h \in Hook : Visited(h)' <=> Visited(h) BY <1>2 DEF Visited
<1>14. \A g \in Fetch : fetch'[g].conv = fetch[g].conv /\ fetch'[g].before = fetch[g].before
  BY <1>7
<1>15. OwnFetchIsForTheOpen'
  <2>1. \A h \in Hook : Own(h) \subseteq Fetch BY DEF Own, Under
  <2> QED BY <1>1, <1>2, <1>8, <1>13, <1>14, <2>1 DEF OwnFetchIsForTheOpen
<1>16. ASSUME NEW h \in Hook, Visited(h) PROVE InOrder(h)'
  <2>1. InOrder(h) BY <1>1, <1>16 DEF ListsAreInOrder
  <2>2. \A g \in Own(h)' : g \in Own(h) /\ fetch'[g].before = fetch[g].before
    BY <1>8, <1>14 DEF Own, Under
  <2> QED BY <1>1, <1>2, <1>5, <1>6, <2>1, <2>2, StillInOrder
<1>17. ListsAreInOrder' BY <1>13, <1>16 DEF ListsAreInOrder
<1> QED BY <1>9, <1>10, <1>12, <1>15, <1>17 DEF OrderInv

\* The list s with the answer r of a fetch of what is before b.
Answered(s, r, b) == IF b = 0 THEN r ELSE s \o r

\* The answer of the one fetch of a visit: what it replaces raced, and what it adds is
\* older than what did not.
LEMMA AnsweredInOrder ==
    ASSUME OrderInv, NEW h \in Hook, Visited(h), NEW f \in Own(h), fetch[f].phase = "ok",
           messages'[h] = Answered(messages[h], fetch[f].result, fetch[f].before),
           active' = active, stored' = stored, raced' = raced, got' = got,
           Pending' = Pending, Own(h)' = {}
    PROVE  InOrder(h)'
<1>1. /\ ThreadTypes /\ RequestsAreOfTheirHook /\ AnswersAreInOrder /\ OwnFetchIsForTheOpen
      /\ ListsAreInOrder
  BY DEF OrderInv
<1> DEFINE s == messages[h]
           r == fetch[f].result
           b == fetch[f].before
           t == Answered(s, r, b)
<1>2. f \in Fetch /\ fetch[f].conv = active
  BY <1>1 DEF OwnFetchIsForTheOpen, Own, Under
<1>3. b \in Nat /\ r \in Seq(Msg) BY <1>1, <1>2, FetchFields
<1>4. s \in Seq(Msg) /\ Len(s) \in Nat /\ \A i \in 1..Len(s) : s[i] \in Nat \ {0}
  BY <1>1, ListFacts
<1>5. Len(r) \in Nat /\ \A i \in 1..Len(r) : r[i] \in Nat
  <2>1. Len(r) \in Nat /\ \A i \in 1..Len(r) : r[i] \in Msg
    BY <1>3, LenProperties, ElementOfSeq
  <2>2. MaxMsg \in Nat BY PageAssumption
  <2> QED BY <2>1, <2>2 DEF Msg
<1>6. /\ NotAwaited(r)
      /\ \A i \in 1..Len(r) : stored[r[i]] = active /\ (b # 0 => r[i] < b)
      /\ \A i, j \in 1..Len(r) : i < j => r[j] < r[i]
  BY <1>1, <1>2 DEF AnswersAreInOrder
<1>7. /\ NotAwaited(s) /\ \A i \in 1..Len(s) : stored[s[i]] = active
      /\ \A i, j \in 1..Len(s) : i < j /\ s[i] \notin raced => s[j] < s[i]
      /\ \A m \in got \ raced : \E i \in 1..Len(s) : s[i] = m
      /\ \A i \in 1..Len(s) : s[i] \in raced \/ (b # 0 /\ b <= s[i])
  BY <1>1 DEF ListsAreInOrder, InOrder
<1>8. CASE b = 0
  <2>1. t = r BY <1>8 DEF Answered
  <2>2. \A m \in got' : m \in raced' BY <1>7, <1>8
  <2>4. messages'[h] = r BY <2>1
  <2>3. NotAwaited(messages[h])' BY <1>6, <2>4 DEF NotAwaited
  <2> HIDE DEF r, t
  <2> QED BY <1>6, <2>2, <2>3, <2>4 DEF InOrder
<1>9. CASE b # 0
  <2>1. t = s \o r BY <1>9 DEF Answered
  <2> HIDE DEF s, r, b, t, Msg
  <2>a. /\ Len(s \o r) = Len(s) + Len(r)
        /\ \A i \in 1..Len(s) + Len(r) :
             (s \o r)[i] = IF i <= Len(s) THEN s[i] ELSE r[i - Len(s)]
    BY <1>3, <1>4, ConcatProperties
  <2>2. /\ Len(t) = Len(s) + Len(r)
        /\ \A i \in 1..Len(s) + Len(r) : t[i] = IF i <= Len(s) THEN s[i] ELSE r[i - Len(s)]
    BY <2>1, <2>a
  <2>b. Len(s) \in Nat /\ Len(r) \in Nat /\ Len(t) = Len(s) + Len(r) BY <1>4, <1>5, <2>2
  <2>3. ASSUME NEW i \in 1..Len(t)
        PROVE  \/ i \in 1..Len(s) /\ t[i] = s[i]
               \/ i > Len(s) /\ i - Len(s) \in 1..Len(r) /\ t[i] = r[i - Len(s)]
    <3>1. CASE i <= Len(s)
      <4>1. i \in 1..Len(s) /\ i \in 1..Len(s) + Len(r) BY <2>b, <3>1
      <4> QED BY <2>2, <3>1, <4>1
    <3>2. CASE ~(i <= Len(s))
      <4>1. i > Len(s) /\ i - Len(s) \in 1..Len(r) /\ i \in 1..Len(s) + Len(r)
        BY <2>b, <3>2
      <4> QED BY <2>2, <3>2, <4>1
    <3> QED BY <3>1, <3>2
  <2>4. \A i \in 1..Len(t) : /\ t[i] \in 1..Len(stored) /\ (t[i] \in Pending => t[i] \in raced)
                             /\ stored[t[i]] = active
    <3> TAKE i \in 1..Len(t)
    <3>1. CASE i \in 1..Len(s) /\ t[i] = s[i] BY <1>7, <3>1 DEF NotAwaited
    <3>2. CASE i - Len(s) \in 1..Len(r) /\ t[i] = r[i - Len(s)]
      BY <1>6, <3>2 DEF NotAwaited
    <3> QED BY <2>3, <3>1, <3>2
  <2>5. ASSUME NEW i \in 1..Len(t), NEW j \in 1..Len(t), i < j, t[i] \notin raced
        PROVE  t[j] < t[i]
    <3>1. CASE i \in 1..Len(s) /\ t[i] = s[i]
      <4>1. CASE j \in 1..Len(s) /\ t[j] = s[j] BY <1>7, <2>5, <3>1, <4>1
      <4>2. CASE j - Len(s) \in 1..Len(r) /\ t[j] = r[j - Len(s)]
        <5>1. t[j] < b /\ t[j] \in Nat BY <1>5, <1>6, <1>9, <4>2
        <5>2. b <= t[i] /\ t[i] \in Nat BY <1>4, <1>7, <2>5, <3>1
        <5>3. b \in Nat BY <1>3
        <5> QED BY <5>1, <5>2, <5>3
      <4> QED BY <2>3, <4>1, <4>2
    <3>2. CASE i > Len(s) /\ i - Len(s) \in 1..Len(r) /\ t[i] = r[i - Len(s)]
      <4>1. ~(j \in 1..Len(s)) BY <1>4, <1>5, <2>2, <2>5, <3>2
      <4>2. j - Len(s) \in 1..Len(r) /\ t[j] = r[j - Len(s)] BY <2>3, <4>1
      <4>3. i - Len(s) < j - Len(s) BY <1>4, <1>5, <2>2, <2>5
      <4> QED BY <1>6, <3>2, <4>2, <4>3
    <3> QED BY <2>3, <3>1, <3>2
  <2>6. ASSUME NEW m \in got \ raced PROVE \E i \in 1..Len(t) : t[i] = m
    <3>1. PICK i \in 1..Len(s) : s[i] = m BY <1>7
    <3>2. i \in 1..Len(t) /\ i \in 1..Len(s) + Len(r) /\ i <= Len(s)
      BY <2>b
    <3> QED BY <2>2, <3>1, <3>2
  <2>8. messages'[h] = t BY DEF t, s, r, b
  <2>7. NotAwaited(messages[h])' BY <2>4, <2>8 DEF NotAwaited
  <2> QED BY <2>8, <2>4, <2>5, <2>6, <2>7 DEF InOrder
<1> QED BY <1>8, <1>9

LEMMA FetchedKeepsOrder == ASSUME OrderInv, NEW f \in Fetch, Fetched(f) PROVE OrderInv'
<1>1. /\ ThreadTypes /\ RequestsAreOfTheirHook /\ AnswersAreInOrder /\ OwnFetchIsForTheOpen
      /\ ListsAreInOrder
  BY DEF OrderInv
<1>2. PICK h \in Hook : h = fetch[f].hook BY <1>1, FetchFields
<1> DEFINE t == Answered(messages[h], fetch[f].result, fetch[f].before)
<1>3. /\ fetch[f].phase \in {"ok", "failed"}
      /\ IF fetch[f].phase = "ok"
         THEN /\ messages' = [messages EXCEPT ![h] = t]
              /\ hasMore' = [hasMore EXCEPT ![h] = IF Len(fetch[f].result) = Page
                                                   THEN "yes" ELSE "no"]
         ELSE messages' = messages /\ hasMore' = hasMore
      /\ late' = IF fetch[f].visit = "this" THEN late ELSE late \cup {h}
      /\ loading' = [loading EXCEPT ![h] = "no"] /\ fetch' = [fetch EXCEPT ![f] = NoFetch]
      /\ active' = active /\ sending' = sending /\ stored' = stored /\ wire' = wire
      /\ raced' = raced /\ got' = got
  BY <1>2 DEF Fetched, Answered
<1>4. t \in Seq(Msg)
  <2>1. messages[h] \in Seq(Msg) /\ fetch[f].result \in Seq(Msg)
    BY <1>1, FetchFields, ListFacts
  <2> HIDE DEF Msg
  <2>2. messages[h] \o fetch[f].result \in Seq(Msg) BY <2>1, ConcatProperties
  <2> QED BY <2>1, <2>2 DEF Answered
<1> HIDE DEF t
<1>5. /\ messages' \in [Hook -> Seq(Msg)] /\ hasMore' \in [Hook -> {"no", "yes"}]
      /\ fetch[f].phase = "ok" => messages'[h] = t
      /\ \A k \in Hook : k # h => messages'[k] = messages[k] /\ loading'[k] = loading[k]
      /\ loading' \in [Hook -> {"no", "yes"}] /\ loading'[h] = "no"
  <2>1. messages \in [Hook -> Seq(Msg)] /\ hasMore \in [Hook -> {"no", "yes"}]
        /\ loading \in [Hook -> {"no", "yes"}]
    BY <1>1 DEF ThreadTypes
  <2>2. CASE fetch[f].phase = "ok" BY <1>3, <1>4, <2>1, <2>2
  <2>3. CASE fetch[f].phase # "ok" BY <1>3, <2>1, <2>3
  <2> QED BY <2>2, <2>3
<1>6. /\ fetch' \in [Fetch -> FetchType] /\ fetch'[f] = NoFetch
      /\ \A g \in Fetch : g # f => fetch'[g] = fetch[g]
  BY <1>1, <1>3, NoneSentFacts DEF ThreadTypes
<1>7. fetch'[f].phase = "none" BY <1>6, NoneSentFacts
<1>8. \A k \in Hook : /\ Own(k)' = Own(k) \ {f} /\ (k # h => Own(k)' = Own(k))
                      /\ (k # h => Under(k)' = Under(k))
  <2>1. \A k \in Hook, g \in Fetch : /\ g \in Under(k)' <=> g \in Under(k) /\ g # f
                                     /\ g \in Own(k)' <=> g \in Own(k) /\ g # f
    BY <1>6, <1>7 DEF Own, Under
  <2>2. \A k \in Hook : /\ Own(k) \subseteq Fetch /\ Own(k)' \subseteq Fetch
                        /\ Under(k) \subseteq Fetch /\ Under(k)' \subseteq Fetch
    BY DEF Own, Under
  <2>3. \A k \in Hook : k # h => f \notin Under(k) /\ f \notin Own(k) BY <1>2 DEF Own, Under
  <2> QED BY <2>1, <2>2, <2>3
<1>9. ThreadTypes'
  <2>1. \A k \in Hook : loading'[k] = "yes" => Under(k)' # {}
    BY <1>1, <1>5, <1>8 DEF ThreadTypes
  <2>2. late' \subseteq Hook BY <1>1, <1>3 DEF ThreadTypes
  <2> QED BY <1>1, <1>3, <1>5, <1>6, <2>1, <2>2 DEF ThreadTypes
<1>10. RequestsAreOfTheirHook' BY <1>1, <1>3, <1>6, NoneSentFacts DEF RequestsAreOfTheirHook
<1>11. Pending' = Pending /\ Len(stored) \in Nat BY <1>1, <1>3, ListFacts DEF Pending
<1>12. AnswersAreInOrder'
  <2>1. \A g \in Fetch : fetch'[g].phase = "ok" => fetch'[g] = fetch[g] BY <1>6, <1>7
  <2> QED BY <1>1, <1>3, <1>11, <2>1, StillAnswers
<1>13. \A k \in Hook : Visited(k)' => Visited(k) /\ k \notin late' BY <1>3 DEF Visited
<1>14. Visited(h)' => f \in Own(h) /\ Own(h)' = {}
  <2>1. Visited(h)' => fetch[f].visit = "this" BY <1>3, <1>13
  <2>2. fetch[f].visit = "this" => f \in Own(h) BY <1>2, <1>3 DEF Own, Under
  <2>3. Visited(h) /\ f \in Own(h) => \A g \in Own(h) : g = f
    BY <1>1 DEF OwnFetchIsForTheOpen
  <2> QED BY <1>8, <1>13, <2>1, <2>2, <2>3
<1>15. OwnFetchIsForTheOpen'
  <2>1. ASSUME NEW k \in Hook, Visited(k)', NEW g \in Own(k)'
        PROVE  /\ fetch'[g].conv = active' /\ loading'[k] = "yes"
               /\ \A x \in Own(k)' : x = g
    <3>1. k # h BY <1>14, <2>1
    <3>2. Own(k)' = Own(k) /\ Visited(k) BY <1>8, <1>13, <2>1, <3>1
    <3>3. g \in Fetch /\ g # f BY <1>2, <2>1, <3>1, <3>2 DEF Own, Under
    <3> QED BY <1>1, <1>3, <1>5, <1>6, <2>1, <3>1, <3>2, <3>3 DEF OwnFetchIsForTheOpen
  <2> QED BY <2>1 DEF OwnFetchIsForTheOpen
<1>16. ASSUME NEW k \in Hook, Visited(k)' PROVE InOrder(k)'
  <2>1. InOrder(k) /\ Visited(k) BY <1>1, <1>13, <1>16 DEF ListsAreInOrder
  <2>2. CASE messages'[k] = messages[k]
    <3>1. \A g \in Own(k)' : g \in Own(k) /\ fetch'[g].before = fetch[g].before
      BY <1>6, <1>8 DEF Own, Under
    <3> QED BY <1>1, <1>3, <1>11, <2>1, <2>2, <3>1, StillInOrder
  <2>3. CASE messages'[k] # messages[k]
    <3>1. k = h BY <1>5, <2>3
    <3>2. fetch[f].phase = "ok" BY <1>3, <2>3
    <3>3. f \in Own(h) /\ Own(h)' = {} /\ Visited(h) BY <1>14, <1>16, <2>1, <3>1
    <3>4. messages'[h] = t BY <1>5, <3>2
    <3> QED BY <1>3, <1>11, <3>1, <3>2, <3>3, <3>4, AnsweredInOrder DEF t
  <2> QED BY <2>2, <2>3
<1>17. ListsAreInOrder' BY <1>16 DEF ListsAreInOrder
<1> QED BY <1>9, <1>10, <1>12, <1>15, <1>17 DEF OrderInv

LEMMA OrderStep ==
    ASSUME OrderInv, ThreadNext \/ UNCHANGED thread PROVE OrderInv'
<1>1. CASE UNCHANGED thread
  <2>1. /\ active' = active /\ messages' = messages /\ loading' = loading
        /\ hasMore' = hasMore /\ fetch' = fetch /\ sending' = sending /\ stored' = stored
        /\ wire' = wire /\ late' = late /\ raced' = raced /\ got' = got
    BY <1>1 DEF thread
  <2>2. ThreadTypes' /\ RequestsAreOfTheirHook'
    BY <2>1 DEF OrderInv, ThreadTypes, RequestsAreOfTheirHook, Under
  <2>3. Pending' = Pending /\ Len(stored) \in Nat BY <2>1, ListFacts DEF Pending, OrderInv
  <2> QED BY <2>1, <2>2, <2>3, OthersKeepOrder DEF OrderInv
<1>2. CASE ThreadNext
  <2>1. ASSUME NEW c \in Conv, SelectConversation(c) PROVE OrderInv'
    BY <2>1, SelectKeepsOrder
  <2>2. ASSUME NEW c \in Conv, Post(c) PROVE OrderInv' BY <2>2, PostKeepsOrder
  <2>3. ASSUME handleBack PROVE OrderInv' BY <2>3, BackKeepsOrder
  <2>4. ASSUME loadMore PROVE OrderInv' BY <2>4, LoadMoreKeepsOrder
  <2>5. ASSUME handleSend PROVE OrderInv' BY <2>5, SendKeepsOrder
  <2>6. ASSUME ServeSend PROVE OrderInv' BY <2>6, ServeSendKeepsOrder
  <2>7. ASSUME Sent PROVE OrderInv' BY <2>7, SentKeepsOrder
  <2>8. ASSUME NEW f \in Fetch, ServeFetch(f) PROVE OrderInv' BY <2>8, ServeFetchKeepsOrder
  <2>9. ASSUME NEW f \in Fetch, Fetched(f) PROVE OrderInv' BY <2>9, FetchedKeepsOrder
  <2>10. ASSUME NEW m \in wire, Deliver(m) PROVE OrderInv' BY <2>10, DeliverKeepsOrder
  <2> QED
    BY <1>2, <2>1, <2>2, <2>3, <2>4, <2>5, <2>6, <2>7, <2>8, <2>9, <2>10 DEF ThreadNext
<1> QED BY <1>1, <1>2

LEMMA OrderStarts == ASSUME ThreadInit PROVE OrderInv
<1>1. MaxMsg \in Nat /\ <<>> \in Seq(Msg) /\ <<>> \in Seq(Conv) /\ Len(<<>>) = 0
  BY PageAssumption, EmptySeq
<1>2. \A f \in Fetch : fetch[f] = NoFetch BY DEF ThreadInit
<1>3. ThreadTypes BY <1>1, NoneSentFacts DEF ThreadTypes, ThreadInit
<1>4. RequestsAreOfTheirHook BY <1>2, NoneSentFacts DEF RequestsAreOfTheirHook, ThreadInit
<1>5. AnswersAreInOrder BY <1>2, NoneSentFacts DEF AnswersAreInOrder
<1>6. \A h \in Hook : ~Visited(h) BY DEF Visited, ThreadInit
<1> QED BY <1>3, <1>4, <1>5, <1>6 DEF OrderInv, OwnFetchIsForTheOpen, ListsAreInOrder

\* What the lists in order say of the open conversation.
LEMMA OrderInvImplies ==
    ASSUME OrderInv
    PROVE  ForeignMessagesAreLate /\ DuplicatesNeedARace /\ GapsNeedARace
<1> SUFFICES ASSUME Open, KindOf[active] \notin late
             PROVE  /\ \A m \in ToSet(Shown) : stored[m] = active
                    /\ \A m \in ToSet(Shown) : Times(m) > 1 => m \in raced
                    /\ got \subseteq ToSet(Shown) \cup raced
  BY DEF ForeignMessagesAreLate, DuplicatesNeedARace, GapsNeedARace
<1>1. ThreadTypes /\ ListsAreInOrder BY DEF OrderInv
<1>2. PICK h \in Hook : h = KindOf[active]
  BY <1>1, KindAssumption DEF Hook, Open, ThreadTypes
<1>3. InOrder(h) BY <1>1, <1>2 DEF ListsAreInOrder, Visited, Open
<1> DEFINE s == messages[h]
<1>4. Shown = s /\ DOMAIN s = 1..Len(s) /\ Len(s) \in Nat
      /\ \A i \in 1..Len(s) : s[i] \in Nat
  BY <1>1, <1>2, ListFacts DEF Shown
<1>5. ToSet(Shown) = {s[i] : i \in 1..Len(s)} BY <1>4 DEF ToSet
<1>6. \A m \in ToSet(Shown) : stored[m] = active BY <1>3, <1>5 DEF InOrder
<1>7. ASSUME NEW m \in ToSet(Shown), m \notin raced PROVE ~(Times(m) > 1)
  <2> DEFINE at == {i \in 1..Len(s) : s[i] = m}
  <2>1. \A i, j \in at : i = j
    <3> SUFFICES ASSUME NEW i \in at, NEW j \in at, i < j PROVE FALSE BY <1>4
    <3> QED BY <1>3, <1>4, <1>7 DEF InOrder
  <2>2. PICK i \in at : TRUE BY <1>5
  <2>3. at = {i} BY <2>1, <2>2
  <2>4. Times(m) = Cardinality({i}) BY <1>4, <2>3 DEF Times
  <2>5. Cardinality({i}) = 1 BY FS_Singleton
  <2> HIDE DEF at
  <2> QED BY <2>4, <2>5
<1>8. got \subseteq ToSet(Shown) \cup raced BY <1>3, <1>5 DEF InOrder
<1> QED BY <1>6, <1>7, <1>8

-----------------------------------------------------------------------------
(* The list of conversations                                               *)

NewDmType == [phase : {"closed", "loading", "closed loading", "open"}, users : SUBSET Partner]

ConvTypes ==
    /\ dmConversations \in Seq(Partner) /\ rendered \subseteq Partner
    /\ convFetch \in [phase : {"sent", "ok", "failed", "done", "error"}, answer : SUBSET Partner]
    /\ convFetch.answer \subseteq partners /\ partners \subseteq Partner
    /\ incoming \in Seq(Partner) /\ dms \in 0..MaxDms
    /\ newDm \in NewDmType
    /\ early \subseteq Partner /\ missed \subseteq Partner /\ unrendered \subseteq Partner

\* The list that is to be replaced has only who has written since it was asked for; who
\* has been rendered is in it, or was; who has written is in the answer, or will be, or
\* what he wrote was lost.
WritersAreKept ==
    /\ Loading => newDm.phase \notin {"open", "loading"} /\ ToSet(dmConversations) \subseteq early
    /\ rendered \subseteq ToSet(dmConversations) \cup early
    /\ convFetch.phase = "ok" =>
         \A p \in partners : p \in convFetch.answer \cup ToSet(incoming) \cup early \cup missed

ListInv == ConvTypes /\ PartnersAreListedOnce /\ WritersAreKept /\ WritersAreListed

\* A set as a sequence, as the code that builds one from a map.
LEMMA SetToSeqFacts ==
    ASSUME NEW S \in SUBSET Partner
    PROVE  /\ SetToSeq(S) \in Seq(Partner) /\ ToSet(SetToSeq(S)) = S
           /\ \A i, j \in DOMAIN SetToSeq(S) : SetToSeq(S)[i] = SetToSeq(S)[j] => i = j
<1> DEFINE n == Cardinality(S)
           s == SetToSeq(S)
<1>1. IsFiniteSet(S) BY PartnerAssumption, FS_Subset
<1>2. n \in Nat /\ ExistsBijection(1..n, S) BY <1>1, FS_CardinalityType
<1>3. \E f \in [1..n -> S] : IsInjective(f) BY <1>2 DEF ExistsBijection, Bijection, Injection
<1>4. s \in [1..n -> S] /\ IsInjective(s) BY <1>3 DEF SetToSeq
<1> HIDE DEF s
<1>5. \A i, j \in 1..n : s[i] = s[j] => i = j BY <1>4 DEF IsInjective
<1> HIDE DEF n
<1>6. s \in [1..n -> Partner] BY <1>4
<1>7. s \in Seq(Partner) BY <1>2, <1>6, SeqDef
<1>8. DOMAIN s = 1..n BY <1>4
<1> DEFINE R == {s[i] : i \in 1..n}
<1>9. R \in SUBSET S BY <1>4
<1>10. s \in Bijection(1..n, R)
  <2>1. s \in [1..n -> R] BY <1>4
  <2>2. s \in Injection(1..n, R) BY <1>4, <2>1 DEF Injection
  <2>3. s \in Surjection(1..n, R) BY <2>1 DEF Surjection
  <2> QED BY <2>2, <2>3 DEF Bijection
<1> HIDE DEF R
<1>11. Cardinality(R) = n
  <2>1. ExistsBijection(1..n, R) BY <1>10 DEF ExistsBijection
  <2> QED BY <1>2, <2>1, FS_CountingElements
<1>12. S = R BY <1>1, <1>9, <1>11, FS_Subset DEF n
<1>13. ToSet(s) = S BY <1>8, <1>12 DEF ToSet, R
<1> QED BY <1>5, <1>7, <1>8, <1>13 DEF s

\* What the state has where there is a list.
LEMMA ConvFacts ==
    ASSUME ConvTypes
    PROVE  /\ DOMAIN dmConversations = 1..Len(dmConversations)
           /\ Len(dmConversations) \in Nat /\ ToSet(dmConversations) \subseteq Partner
           /\ ToSet(dmConversations) =
                {dmConversations[i] : i \in 1..Len(dmConversations)}
<1>1. dmConversations \in Seq(Partner) BY DEF ConvTypes
<1>2. /\ DOMAIN dmConversations = 1..Len(dmConversations) /\ Len(dmConversations) \in Nat
      /\ \A i \in 1..Len(dmConversations) : dmConversations[i] \in Partner
  BY <1>1, LenProperties, ElementOfSeq
<1> QED BY <1>2 DEF ToSet

\* A partner who is named comes to the front, unless the page has rendered him.
LEMMA NamedIsListed ==
    ASSUME ListInv, NEW p \in Partner, addDmConversation(p)
    PROVE  /\ dmConversations' \in Seq(Partner) /\ unrendered' \subseteq Partner
           /\ ToSet(dmConversations) \subseteq ToSet(dmConversations')
           /\ ToSet(dmConversations') \subseteq ToSet(dmConversations) \cup {p}
           /\ p \in ToSet(dmConversations') \cup rendered
           /\ PartnersAreListedOnce'
<1>1. ConvTypes /\ PartnersAreListedOnce BY DEF ListInv
<1> DEFINE s == dmConversations
           t == <<p>> \o s
<1>2. CASE p \in rendered
  <2>1. s' = s /\ unrendered' = unrendered BY <1>2 DEF addDmConversation
  <2> QED BY <1>1, <1>2, <2>1 DEF ConvTypes, PartnersAreListedOnce
<1>3. CASE p \notin rendered
  <2>1. s' = t /\ unrendered' = IF p \in ToSet(s) THEN unrendered \cup {p} ELSE unrendered
    BY <1>3 DEF addDmConversation
  <2>d. s \in Seq(Partner) /\ Len(s) \in Nat BY <1>1, ConvFacts DEF ConvTypes
  <2>e. <<p>> \in Seq(Partner) /\ Len(<<p>>) = 1 /\ <<p>>[1] = p OBVIOUS
  <2>2. s \in Seq(Partner) /\ <<p>> \in Seq(Partner) /\ Len(<<p>>) = 1 /\ <<p>>[1] = p
        /\ Len(s) \in Nat
    BY <2>d, <2>e
  <2>3. /\ t \in Seq(Partner) /\ Len(t) = 1 + Len(s)
        /\ \A i \in 1..1 + Len(s) : t[i] = IF i <= 1 THEN <<p>>[i] ELSE s[i - 1]
    <3> HIDE DEF s
    <3> QED BY <2>2, ConcatProperties
  <2>4. DOMAIN t = 1..1 + Len(s) BY <2>3, LenProperties
  <2>5. DOMAIN s = 1..Len(s) /\ ToSet(s) = {s[i] : i \in 1..Len(s)} BY <1>1, ConvFacts
  <2>a. s' \in Seq(Partner) BY <2>1, <2>3
  <2>b. unrendered' \subseteq Partner BY <1>1, <2>1 DEF ConvTypes
  <2>c. \A i, j \in 1..Len(s) : i # j /\ s[i] = s[j] => s[i] \in unrendered
    BY <1>1, <2>5 DEF PartnersAreListedOnce
  <2> HIDE DEF s, t
  <2>6. \A i \in 1..1 + Len(s) : t[i] = IF i = 1 THEN p ELSE s[i - 1] BY <2>2, <2>3
  <2>7. \A i \in 1..1 + Len(s) : i = 1 \/ i - 1 \in 1..Len(s) BY <2>2
  <2>8. ToSet(t) = {t[i] : i \in 1..1 + Len(s)} BY <2>4 DEF ToSet
  <2>9. p \in ToSet(t)
    <3>1. 1 \in 1..1 + Len(s) BY <2>2
    <3> QED BY <2>6, <2>8, <3>1
  <2>10. ToSet(s) \subseteq ToSet(t)
    <3> SUFFICES ASSUME NEW i \in 1..Len(s) PROVE s[i] \in ToSet(t) BY <2>5
    <3>1. i + 1 \in 1..1 + Len(s) /\ i + 1 # 1 /\ (i + 1) - 1 = i BY <2>2
    <3>2. t[i + 1] = s[i] BY <2>6, <3>1
    <3> QED BY <2>8, <3>1, <3>2
  <2>11. ToSet(t) \subseteq ToSet(s) \cup {p} BY <2>5, <2>6, <2>7, <2>8
  <2>12. ASSUME NEW i \in 1..1 + Len(s), NEW j \in 1..1 + Len(s), i # j, t[i] = t[j]
         PROVE  t[i] \in unrendered'
    <3>1. CASE i = 1
      <4>1. j # 1 /\ j - 1 \in 1..Len(s) /\ t[j] = s[j - 1] /\ t[i] = p
        BY <2>6, <2>7, <2>12, <3>1
      <4> QED BY <2>1, <2>5, <2>12, <4>1
    <3>2. CASE j = 1
      <4>1. i # 1 /\ i - 1 \in 1..Len(s) /\ t[i] = s[i - 1] /\ t[j] = p
        BY <2>6, <2>7, <2>12, <3>2
      <4> QED BY <2>1, <2>5, <2>12, <4>1
    <3>3. CASE i # 1 /\ j # 1
      <4>1. i - 1 \in 1..Len(s) /\ t[i] = s[i - 1] /\ j - 1 \in 1..Len(s) /\ t[j] = s[j - 1]
        BY <2>6, <2>7, <3>3
      <4>2. i - 1 # j - 1 BY <2>12
      <4> QED BY <2>1, <2>c, <2>12, <4>1, <4>2
    <3> QED BY <3>1, <3>2, <3>3
  <2>13. PartnersAreListedOnce'
    <3>1. dmConversations' = t BY <2>1 DEF s
    <3> QED BY <2>4, <2>12, <3>1 DEF PartnersAreListedOnce
  <2> QED BY <2>1, <2>a, <2>b, <2>9, <2>10, <2>11, <2>13 DEF s
<1> QED BY <1>2, <1>3

LEMMA FetchedIsListed == ASSUME ListInv, fetchConversations PROVE ListInv'
<1>1. ConvTypes /\ PartnersAreListedOnce /\ WritersAreKept BY DEF ListInv
<1> DEFINE a == convFetch.answer
<1>2. /\ convFetch.phase \in {"ok", "failed"}
      /\ dmConversations' = IF convFetch.phase = "ok" THEN SetToSeq(a) ELSE dmConversations
      /\ convFetch' = [phase |-> IF convFetch.phase = "ok" THEN "done" ELSE "error",
                       answer |-> {}]
      /\ rendered' = rendered /\ partners' = partners /\ incoming' = incoming
      /\ newDm' = newDm /\ dms' = dms /\ early' = early /\ missed' = missed
      /\ unrendered' = unrendered
  BY DEF fetchConversations
<1>3. a \in SUBSET Partner BY <1>1 DEF ConvTypes
<1>4. /\ SetToSeq(a) \in Seq(Partner) /\ ToSet(SetToSeq(a)) = a
      /\ \A i, j \in DOMAIN SetToSeq(a) : SetToSeq(a)[i] = SetToSeq(a)[j] => i = j
  BY <1>3, SetToSeqFacts
<1>5. rendered \subseteq early BY <1>1, <1>2 DEF WritersAreKept, Loading
<1>6. convFetch'.phase \in {"done", "error"} /\ convFetch'.answer = {} BY <1>2
<1>7. ConvTypes' BY <1>1, <1>2, <1>4, <1>6 DEF ConvTypes
<1>8. PartnersAreListedOnce' BY <1>1, <1>2, <1>4 DEF PartnersAreListedOnce
<1>9. WritersAreKept' BY <1>2, <1>5, <1>6 DEF WritersAreKept, Loading
<1>10. WritersAreListed'
  <2> SUFFICES ASSUME convFetch'.phase = "done", NEW p \in partners
               PROVE  p \in ToSet(dmConversations') \cup ToSet(incoming') \cup early' \cup missed'
    BY <1>2 DEF WritersAreListed
  <2>1. convFetch.phase = "ok" BY <1>2
  <2>2. p \in a \cup ToSet(incoming) \cup early \cup missed BY <1>1, <2>1 DEF WritersAreKept
  <2>3. ToSet(dmConversations') = a BY <1>2, <1>4, <2>1
  <2> QED BY <1>2, <2>2, <2>3
<1> QED BY <1>7, <1>8, <1>9, <1>10 DEF ListInv

\* The first message leaves the queue; the others stay.
LEMMA FirstLeaves ==
    ASSUME ConvTypes, incoming # <<>>, incoming' = Tail(incoming)
    PROVE  /\ Head(incoming) \in Partner /\ incoming' \in Seq(Partner)
           /\ ToSet(incoming) \subseteq ToSet(incoming') \cup {Head(incoming)}
<1> DEFINE s == incoming
           t == Tail(incoming)
<1>1. s \in Seq(Partner) /\ s # <<>> BY DEF ConvTypes
<1>2. /\ t \in Seq(Partner) /\ Len(t) = Len(s) - 1
      /\ \A i \in 1..Len(t) : t[i] = s[i + 1]
      /\ Head(s) \in Partner
  BY <1>1, HeadTailProperties
<1>3. Head(s) = s[1] BY <1>1
<1>4. DOMAIN s = 1..Len(s) /\ DOMAIN t = 1..Len(t) /\ Len(s) \in Nat
  BY <1>1, <1>2, LenProperties
<1> HIDE DEF s, t
<1>5. ASSUME NEW i \in 1..Len(s), i # 1 PROVE s[i] \in ToSet(t)
  <2>1. i - 1 \in 1..Len(t) /\ (i - 1) + 1 = i BY <1>2, <1>4, <1>5
  <2>2. t[i - 1] = s[i] BY <1>2, <2>1
  <2> QED BY <1>4, <2>1, <2>2 DEF ToSet
<1>6. ToSet(s) = {s[i] : i \in 1..Len(s)} BY <1>4 DEF ToSet
<1>7. ToSet(s) \subseteq ToSet(t) \cup {Head(s)} BY <1>3, <1>5, <1>6
<1> QED BY <1>2, <1>7 DEF s, t

LEMMA DeliveredIsListed == ASSUME ListInv, DeliverDm PROVE ListInv'
<1>1. ConvTypes /\ PartnersAreListedOnce /\ WritersAreKept /\ WritersAreListed BY DEF ListInv
<1>2. /\ incoming # <<>> /\ incoming' = Tail(incoming) /\ addDmConversation(Head(incoming))
      /\ early' = IF Loading THEN early \cup {Head(incoming)}
                  ELSE IF rendered = ToSet(dmConversations) THEN early \ {Head(incoming)}
                  ELSE early
      /\ missed' = missed \ {Head(incoming)}
      /\ rendered' = rendered /\ convFetch' = convFetch /\ partners' = partners
      /\ newDm' = newDm /\ dms' = dms
  BY DEF DeliverDm, Brought
<1>3. PICK p \in Partner : p = Head(incoming)
  BY <1>1, <1>2, FirstLeaves
<1>4. /\ incoming' \in Seq(Partner) /\ ToSet(incoming) \subseteq ToSet(incoming') \cup {p}
  BY <1>1, <1>2, <1>3, FirstLeaves
<1>5. /\ dmConversations' \in Seq(Partner) /\ unrendered' \subseteq Partner
      /\ ToSet(dmConversations) \subseteq ToSet(dmConversations')
      /\ ToSet(dmConversations') \subseteq ToSet(dmConversations) \cup {p}
      /\ p \in ToSet(dmConversations') \cup rendered
      /\ PartnersAreListedOnce'
  BY <1>2, <1>3, NamedIsListed
<1>6. /\ early \subseteq early' \cup {p} /\ early' \subseteq Partner
      /\ missed \subseteq missed' \cup {p} /\ missed' \subseteq Partner
      /\ Loading => early \cup {p} \subseteq early'
  BY <1>1, <1>2, <1>3 DEF ConvTypes
<1>7. ConvTypes' BY <1>1, <1>2, <1>4, <1>5, <1>6 DEF ConvTypes
<1>8. p \in ToSet(dmConversations') \cup early'
  <2>1. CASE Loading BY <1>6, <2>1
  <2>2. CASE ~Loading /\ rendered = ToSet(dmConversations) BY <1>5, <2>2
  <2>3. CASE ~Loading /\ rendered # ToSet(dmConversations)
    <3>1. early' = early BY <1>2, <2>3
    <3> QED BY <1>1, <1>5, <3>1 DEF WritersAreKept
  <2> QED BY <2>1, <2>2, <2>3
<1>9. WritersAreKept'
  BY <1>1, <1>2, <1>4, <1>5, <1>6, <1>8 DEF WritersAreKept, Loading
<1>10. WritersAreListed' BY <1>1, <1>2, <1>4, <1>5, <1>6, <1>8 DEF WritersAreListed
<1> QED BY <1>5, <1>7, <1>9, <1>10 DEF ListInv

LEMMA LostIsExcused == ASSUME ListInv, LoseDm PROVE ListInv'
<1>1. ConvTypes /\ PartnersAreListedOnce /\ WritersAreKept /\ WritersAreListed BY DEF ListInv
<1>2. /\ incoming # <<>> /\ incoming' = Tail(incoming)
      /\ missed' = missed \cup {Head(incoming)}
      /\ dmConversations' = dmConversations /\ rendered' = rendered
      /\ convFetch' = convFetch /\ partners' = partners /\ newDm' = newDm
      /\ dms' = dms /\ early' = early /\ unrendered' = unrendered
  BY DEF LoseDm
<1>3. /\ Head(incoming) \in Partner /\ incoming' \in Seq(Partner)
      /\ ToSet(incoming) \subseteq ToSet(incoming') \cup {Head(incoming)}
  BY <1>1, <1>2, FirstLeaves
<1>4. missed' \subseteq Partner /\ ToSet(incoming) \cup missed \subseteq ToSet(incoming') \cup missed'
  BY <1>1, <1>2, <1>3 DEF ConvTypes
<1>5. ConvTypes' BY <1>1, <1>2, <1>3, <1>4 DEF ConvTypes
<1>6. PartnersAreListedOnce' BY <1>1, <1>2 DEF PartnersAreListedOnce
<1>7. WritersAreKept' BY <1>1, <1>2, <1>4 DEF WritersAreKept, Loading
<1>8. WritersAreListed' BY <1>1, <1>2, <1>4 DEF WritersAreListed
<1> QED BY <1>5, <1>6, <1>7, <1>8 DEF ListInv

LEMMA SelectedIsListed ==
    ASSUME ListInv, NEW p \in Partner, handleSelect(p) PROVE ListInv'
<1>1. ConvTypes /\ PartnersAreListedOnce /\ WritersAreKept /\ WritersAreListed BY DEF ListInv
<1>2. /\ newDm.phase = "open" /\ addDmConversation(p)
      /\ newDm' = [newDm EXCEPT !.phase = "closed"] /\ rendered' = rendered
      /\ convFetch' = convFetch /\ partners' = partners /\ incoming' = incoming
      /\ dms' = dms /\ early' = early /\ missed' = missed
  BY DEF handleSelect
<1>3. /\ dmConversations' \in Seq(Partner) /\ unrendered' \subseteq Partner
      /\ ToSet(dmConversations) \subseteq ToSet(dmConversations')
      /\ PartnersAreListedOnce'
  BY <1>2, NamedIsListed
<1>4. newDm' \in NewDmType BY <1>1, <1>2 DEF ConvTypes, NewDmType
<1>5. ConvTypes' BY <1>1, <1>2, <1>3, <1>4 DEF ConvTypes
<1>6. ~Loading /\ ~Loading' BY <1>1, <1>2 DEF WritersAreKept, Loading
<1>7. WritersAreKept' BY <1>1, <1>2, <1>3, <1>6 DEF WritersAreKept, Loading
<1>8. WritersAreListed' BY <1>1, <1>2, <1>3 DEF WritersAreListed
<1> QED BY <1>3, <1>5, <1>7, <1>8 DEF ListInv

LEMMA ArrivedIsIncoming == ASSUME ListInv, NEW p \in Partner, DmArrives(p) PROVE ListInv'
<1>1. ConvTypes /\ PartnersAreListedOnce /\ WritersAreKept /\ WritersAreListed BY DEF ListInv
<1>2. /\ dms < MaxDms /\ dms' = dms + 1 /\ partners' = partners \cup {p}
      /\ incoming' = Append(incoming, p) /\ dmConversations' = dmConversations
      /\ rendered' = rendered /\ convFetch' = convFetch /\ newDm' = newDm
      /\ early' = early /\ missed' = missed /\ unrendered' = unrendered
  BY DEF DmArrives
<1>3. incoming' \in Seq(Partner) /\ ToSet(incoming) \cup {p} \subseteq ToSet(incoming')
  <2> DEFINE s == incoming
             t == Append(incoming, p)
  <2>1. s \in Seq(Partner) BY <1>1 DEF ConvTypes
  <2>2. /\ t \in Seq(Partner) /\ Len(t) = Len(s) + 1
        /\ \A i \in 1..Len(s) : t[i] = s[i]
        /\ t[Len(s) + 1] = p
    BY <2>1, AppendProperties
  <2>3. DOMAIN s = 1..Len(s) /\ DOMAIN t = 1..Len(t) /\ Len(s) \in Nat
    BY <2>1, <2>2, LenProperties
  <2> HIDE DEF s, t
  <2>4. 1..Len(s) \subseteq 1..Len(t) /\ Len(s) + 1 \in 1..Len(t) BY <2>2, <2>3
  <2>5. ToSet(s) \cup {p} \subseteq ToSet(t) BY <2>2, <2>3, <2>4 DEF ToSet
  <2> QED BY <1>2, <2>2, <2>5 DEF s, t
<1>4. dms' \in 0..MaxDms
  <2>1. dms \in 0..MaxDms BY <1>1 DEF ConvTypes
  <2> QED BY <1>2, <2>1, MaxDmsAssumption
<1>5. ConvTypes' BY <1>1, <1>2, <1>3, <1>4 DEF ConvTypes
<1>6. PartnersAreListedOnce' BY <1>1, <1>2 DEF PartnersAreListedOnce
<1>7. WritersAreKept' BY <1>1, <1>2, <1>3 DEF WritersAreKept, Loading
<1>8. WritersAreListed' BY <1>1, <1>2, <1>3 DEF WritersAreListed
<1> QED BY <1>5, <1>6, <1>7, <1>8 DEF ListInv

\* The dialog, the request and the page.
LEMMA OthersKeepList ==
    ASSUME ListInv,
           OpenNewDm \/ fetchUsers \/ CloseNewDm \/ ServeConversations \/ Render \/ UNCHANGED list
    PROVE  ListInv'
<1>1. ConvTypes /\ PartnersAreListedOnce /\ WritersAreKept /\ WritersAreListed BY DEF ListInv
<1>2. /\ dmConversations' = dmConversations /\ partners' = partners /\ incoming' = incoming
      /\ dms' = dms /\ early' = early /\ missed' = missed /\ unrendered' = unrendered
  BY DEF OpenNewDm, fetchUsers, CloseNewDm, ServeConversations, Render, list
<1>3. PartnersAreListedOnce' BY <1>1, <1>2 DEF PartnersAreListedOnce
<1>4. CASE OpenNewDm \/ fetchUsers \/ CloseNewDm \/ UNCHANGED list
  <2>1. rendered' = rendered /\ convFetch' = convFetch
    BY <1>4 DEF OpenNewDm, fetchUsers, CloseNewDm, list
  <2>a. newDm \in NewDmType /\ (newDm.phase \in {"open", "loading"} => ~Loading)
    BY <1>1 DEF ConvTypes, WritersAreKept
  <2>b. newDm' \in NewDmType /\ (newDm'.phase \in {"open", "loading"} => ~Loading)
    <3>1. CASE OpenNewDm BY <2>a, <3>1 DEF OpenNewDm, NewDmType
    <3>2. CASE fetchUsers
      <4>1. PICK u \in {Partner, newDm.users} :
              newDm' = [phase |-> IF newDm.phase = "loading" THEN "open" ELSE "closed",
                        users |-> u]
        BY <3>2 DEF fetchUsers
      <4>2. u \in SUBSET Partner BY <2>a DEF NewDmType
      <4>3. newDm'.phase = (IF newDm.phase = "loading" THEN "open" ELSE "closed")
            /\ newDm' \in NewDmType
        BY <4>1, <4>2 DEF NewDmType
      <4> QED BY <2>a, <4>3
    <3>3. CASE CloseNewDm BY <2>a, <3>3 DEF CloseNewDm, NewDmType
    <3>4. CASE UNCHANGED list BY <2>a, <3>4 DEF list
    <3> QED BY <1>4, <3>1, <3>2, <3>3, <3>4
  <2>2. newDm' \in NewDmType BY <2>b
  <2>3. newDm'.phase \in {"open", "loading"} => ~Loading BY <2>b
  <2>4. ConvTypes' BY <1>1, <1>2, <2>1, <2>2 DEF ConvTypes
  <2>5. WritersAreKept' BY <1>1, <1>2, <2>1, <2>3 DEF WritersAreKept, Loading
  <2>6. WritersAreListed' BY <1>1, <1>2, <2>1 DEF WritersAreListed
  <2> QED BY <1>3, <2>4, <2>5, <2>6 DEF ListInv
<1>5. CASE ServeConversations
  <2>a. convFetch.phase = "sent" /\ rendered' = rendered /\ newDm' = newDm
    BY <1>5 DEF ServeConversations
  <2>b. partners \subseteq Partner BY <1>1 DEF ConvTypes
  <2>c. convFetch' = [phase |-> "ok", answer |-> partners]
        \/ convFetch' = [phase |-> "failed", answer |-> {}]
    BY <1>5 DEF ServeConversations
  <2>1. /\ convFetch.phase = "sent" /\ rendered' = rendered /\ newDm' = newDm
        /\ convFetch'.phase \in {"ok", "failed"} /\ convFetch'.answer \subseteq partners
        /\ convFetch' \in [phase : {"sent", "ok", "failed", "done", "error"},
                           answer : SUBSET Partner]
        /\ convFetch'.phase = "ok" => convFetch'.answer = partners
    BY <2>a, <2>b, <2>c
  <2>2. ConvTypes' BY <1>1, <1>2, <2>1 DEF ConvTypes
  <2>3. WritersAreKept' BY <1>1, <1>2, <2>1 DEF WritersAreKept, Loading
  <2>4. WritersAreListed' BY <2>1 DEF WritersAreListed
  <2> QED BY <1>3, <2>2, <2>3, <2>4 DEF ListInv
<1>6. CASE Render
  <2>1. /\ rendered' = ToSet(dmConversations) /\ convFetch' = convFetch /\ newDm' = newDm
    BY <1>6 DEF Render
  <2>2. ConvTypes' BY <1>1, <1>2, <2>1, ConvFacts DEF ConvTypes
  <2>3. WritersAreKept' BY <1>1, <1>2, <2>1 DEF WritersAreKept, Loading
  <2>4. WritersAreListed' BY <1>1, <1>2, <2>1 DEF WritersAreListed
  <2> QED BY <1>3, <2>2, <2>3, <2>4 DEF ListInv
<1> QED BY <1>4, <1>5, <1>6

LEMMA ListStep == ASSUME ListInv, ListNext \/ UNCHANGED list PROVE ListInv'
<1>1. ASSUME NEW p \in Partner, DmArrives(p) \/ handleSelect(p) PROVE ListInv'
  BY <1>1, ArrivedIsIncoming, SelectedIsListed
<1> QED BY <1>1, FetchedIsListed, DeliveredIsListed, LostIsExcused, OthersKeepList DEF ListNext

LEMMA ListStarts == ASSUME ListInit PROVE ListInv
<1>1. <<>> \in Seq(Partner) /\ Len(<<>>) = 0 /\ DOMAIN <<>> = {} BY EmptySeq
<1>2. ToSet(<<>>) = {} BY <1>1 DEF ToSet
<1>3. ConvTypes BY <1>1, MaxDmsAssumption DEF ConvTypes, ListInit, Closed, NewDmType
<1>4. PartnersAreListedOnce BY <1>1 DEF PartnersAreListedOnce, ListInit
<1>5. WritersAreKept BY <1>2 DEF WritersAreKept, ListInit, Closed
<1>6. WritersAreListed BY DEF WritersAreListed, ListInit
<1> QED BY <1>3, <1>4, <1>5, <1>6 DEF ListInv

-----------------------------------------------------------------------------
(* The theorems                                                            *)

PagesInv == /\ DrawInv /\ ReplayInv /\ FormInv /\ MfaInv /\ RowsInv
            /\ OrderInv /\ ListInv

LEMMA PagesKeepTheirInvariants ==
    ASSUME PagesInv, [PagesNext]_pages
    PROVE  PagesInv'
<1>1. ReplayNext \/ UNCHANGED replay
  BY DEF PagesNext, pages
<1>2. DrawNext \/ UNCHANGED draw
  BY DEF PagesNext, pages
<1>3. FormNext \/ UNCHANGED forms
  BY DEF PagesNext, pages
<1>4. MfaNext \/ UNCHANGED mfa
  BY DEF PagesNext, pages
<1>5. ListPageNext \/ UNCHANGED settings
  BY DEF PagesNext, pages
<1>6. ThreadNext \/ UNCHANGED thread
  BY DEF PagesNext, pages
<1>7. ListNext \/ UNCHANGED list
  BY DEF PagesNext, pages
<1> QED
  BY <1>1, <1>2, <1>3, <1>4, <1>5, <1>6, <1>7,
     ReplayStep, DrawStep, FormStep, MfaStep, RowsStep, OrderStep, ListStep
  DEF PagesInv

LEMMA PagesHold == PagesSpec => []PagesInv
<1>1. PagesInit => PagesInv
  BY DrawStarts, ReplayStarts, FormStarts, MfaStarts, RowsStart, OrderStarts, ListStarts
  DEF PagesInit, PagesInv
<1>2. PagesInv /\ [PagesNext]_pages => PagesInv'
  BY PagesKeepTheirInvariants
<1> QED
  BY <1>1, <1>2, PTL DEF PagesSpec

\* The tracks a replay shows are of its range, and it can be closed unless its history
\* is being fetched or a filter lets none of it through: no answer is late, because
\* the page offers no way to close a replay, or to start another, during a request
\* (map/page.tsx, replay-panel.tsx).
THEOREM ReplaysAreLeft == PagesSpec => []ReplaysCanBeLeft
<1>1. PagesInv => ReplaysCanBeLeft
  BY ReplayInvImplies DEF PagesInv
<1> QED
  BY <1>1, PagesHold, PTL

\* A saved drawing stays the work it was made of, is made once, shared and unshared as
\* itself, and listed, but for what excuses each: the panel was closed during a create,
\* an answer was missed, the popover changed during a request about shares, two lists
\* were under way (map/page.tsx, use-drawings.ts).
THEOREM DrawingsKept == PagesSpec => []DrawingsAreKept
<1>1. PagesInv => DrawingsAreKept
  BY DrawInvImplies DEF PagesInv, DrawingsAreKept
<1> QED
  BY <1>1, PagesHold, PTL

\* A save changes no field its user has left alone, and what he typed is not dropped,
\* and a form at rest shows the record, but for what excuses each: another has changed
\* the record, an answer was missed, two refreshes of the user were under way, or he
\* typed into the marker's form while it was being saved (the hooks of the settings
\* pages and their isLoading, app/(app)/settings).
THEOREM FormsKept == PagesSpec => []FormsKeepTheirWork
<1>1. PagesInv => FormsKeepTheirWork
  BY FormInvImplies DEF PagesInv, FormsKeepTheirWork
<1> QED
  BY <1>1, PagesHold, PTL

\* The recovery codes in force are with the user or on their way to him, he confirms no
\* others, and the list shows the methods there are, but for what excuses each: he closed
\* a dialog that showed codes or had asked, an answer was missed, two registrations or two
\* fetches of the list were under way, or a removal was as he opened a dialog
\* (components/mfa, use-mfa.ts).
THEOREM CodesAreTold == PagesSpec => []CodesAndMethodsAreTold
<1>1. PagesInv => CodesAndMethodsAreTold
  BY MfaInvImplies DEF PagesInv, CodesAndMethodsAreTold
<1> QED
  BY <1>1, PagesHold, PTL

\* A list at rest has what its user has changed, is of the page, or the search, that he
\* chose, and is empty with rows left only after rows were deleted, but for what excuses
\* each: a request failed, answers came in another order, the key was changed while a
\* request was under way (the hooks of lib/hooks and the refetch after every change).
THEOREM ListsKeptCurrent == PagesSpec => []ListsAreCurrent
<1>1. PagesInv => ListsAreCurrent
  BY RowsInvImplies DEF PagesInv, ListsAreCurrent
<1> QED
  BY <1>1, PagesHold, PTL

\* No answer changes a dialog that is not the one that asked, no save undoes what is
\* there now, and no secret is replaced before it was seen, but for what excuses each:
\* the dialog was left with its request under way, opened during another, or sent twice;
\* others changed the row, requests overlapped or overtook one another, one failed; the
\* Enter key was pressed while a create was under way (the dialogs of the settings pages).
THEOREM ChangesAreMeant == PagesSpec => []ListChangesAreMeant
<1>1. PagesInv => ListChangesAreMeant
  BY RowsInvImplies DEF PagesInv, ListChangesAreMeant
<1> QED
  BY <1>1, PagesHold, PTL

\* The open thread has no message of another conversation, none twice, and keeps those
\* it has shown, but for what excuses each: an answer came after the user moved on, or
\* the message was on its way while a fetch was under way, or behind a newer one
\* (use-messages.ts, the fetches, the optimistic append and the socket's events).
THEOREM ThreadsKeptInOrder == PagesSpec => []ThreadsAreInOrder
<1>1. PagesInv => ThreadsAreInOrder
  BY OrderInvImplies DEF PagesInv, ThreadsAreInOrder
<1> QED
  BY <1>1, PagesHold, PTL

\* Whoever has written is in the list of conversations, once, but for what excuses each:
\* his message came while the list was loading, or he was named again before the page
\* had rendered him (use-conversations.ts, addDmConversation).
THEOREM ConversationsKept == PagesSpec => []ConversationsAreListed
<1>1. PagesInv => ConversationsAreListed
  BY DEF PagesInv, ListInv, ConversationsAreListed
<1> QED
  BY <1>1, PagesHold, PTL

-----------------------------------------------------------------------------
(* The bounds of what the pages hold: what is left of their types          *)

ReplayBounds ==
    /\ ~(replayPanelOpen = "yes" /\ filterPanelOpen = "yes") /\ replayRange <= MaxRange
    /\ \A s \in Scope : track[s].range <= MaxRange
    /\ \A f \in Find : find[f].track.range <= MaxRange
    /\ selectedGroup \in {"yes", "no"}
    /\ members \in {"none", "known"} /\ asking \in {"yes", "no"}

LEMMA ReplayBoundsStart == ReplayInit => ReplayBounds
<1> SUFFICES ASSUME ReplayInit PROVE ReplayBounds OBVIOUS
<1>1. MaxRange \in Nat /\ NoTrack.range = 0 /\ NoFind.track = NoTrack
  BY ReplayBoundsAssumption DEF NoTrack, NoFind
<1> QED BY <1>1 DEF ReplayInit, ReplayBounds, Scope

LEMMA ReplayBoundsStep ==
    ASSUME ReplayInv, ReplayBounds, ReplayNext \/ UNCHANGED replay
    PROVE  ReplayBounds'
<1>1. /\ MaxRange \in Nat /\ replayRange \in Nat /\ NoTrack.range = 0
      /\ NoFind.track.range = 0
      /\ track \in [Scope -> TrackType] /\ find \in [Find -> FindType]
  BY ReplayBoundsAssumption DEF ReplayInv, ReplayTypes, NoTrack, NoFind
<1>2. CASE onReplayClick \/ onFilterClick
  BY <1>2 DEF onReplayClick, onFilterClick, ReplayBounds
<1>3. CASE handleReplayStart
  <2> DEFINE new == [scope |-> ScopeOfFilters, phase |-> "sent",
                     track |-> [range |-> replayRange + 1, users |-> {}]]
  <2>1. PICK f \in Find : find' = [find EXCEPT ![f] = new]
    BY <1>3 DEF handleReplayStart
  <2>2. new.track.range = replayRange + 1 OBVIOUS
  <2> HIDE DEF new
  <2>3. replayRange + 1 <= MaxRange BY <1>1, <1>3 DEF handleReplayStart
  <2>4. \A g \in Find : find'[g].track.range <= MaxRange
    BY <1>1, <2>1, <2>2, <2>3 DEF ReplayBounds
  <2> QED BY <1>1, <1>3, <2>3, <2>4 DEF handleReplayStart, ReplayBounds
<1>4. CASE stopReplay
  BY <1>1, <1>4 DEF stopReplay, ReplayBounds
<1>5. CASE onGroupToggle \/ (\E u \in Person : onUserToggle(u)) \/ MembersFetched
  BY <1>5 DEF onGroupToggle, onUserToggle, MembersFetched, ReplayBounds
<1>6. ASSUME NEW f \in Find, ServeHistory(f) PROVE ReplayBounds'
  <2>1. PICK users \in SUBSET Person :
           find' = [find EXCEPT ![f] = [find[f] EXCEPT !.phase = "ok", !.track.users = users]]
    BY <1>6 DEF ServeHistory, Person
  <2> DEFINE served == [find[f] EXCEPT !.phase = "ok", !.track.users = users]
  <2>2. find[f] \in FindType BY <1>1
  <2>3. served.track.range = find[f].track.range BY <2>2 DEF FindType, TrackType
  <2> HIDE DEF served
  <2>4. find' = [find EXCEPT ![f] = served] BY <2>1 DEF served
  <2>5. \A g \in Find : find'[g].track.range = find[g].track.range BY <1>1, <2>3, <2>4
  <2> QED BY <1>6, <2>5 DEF ServeHistory, ReplayBounds
<1>7. ASSUME NEW f \in Find, HistoryFetched(f) PROVE ReplayBounds'
  <2> DEFINE brought == IF find[f].phase = "ok" THEN find[f].track ELSE NoTrack
  <2>1. brought.range <= MaxRange BY <1>1 DEF ReplayBounds
  <2> HIDE DEF brought
  <2>2. /\ find' = [find EXCEPT ![f] = NoFind]
        /\ track' = [track EXCEPT ![find[f].scope] = brought]
    BY <1>7 DEF HistoryFetched, brought
  <2>3. \A g \in Find : find'[g].track.range <= MaxRange BY <1>1, <2>2 DEF ReplayBounds
  <2>4. \A s \in Scope : track'[s].range <= MaxRange BY <1>1, <2>1, <2>2 DEF ReplayBounds
  <2> QED BY <1>7, <2>3, <2>4 DEF HistoryFetched, ReplayBounds
<1>8. CASE UNCHANGED replay
  BY <1>8 DEF replay, ReplayBounds
<1> QED BY <1>2, <1>3, <1>4, <1>5, <1>6, <1>7, <1>8 DEF ReplayNext

LEMMA ReplayTypesHold == ReplayInv /\ ReplayBounds => ReplayTypeOK
<1> SUFFICES ASSUME ReplayInv, ReplayBounds PROVE ReplayTypeOK OBVIOUS
<1>1. /\ track \in [Scope -> TrackType] /\ find \in [Find -> FindType] /\ replayRange \in Nat
      /\ MaxRange \in Nat
  BY ReplayBoundsAssumption DEF ReplayInv, ReplayTypes
<1>2. /\ \A s \in Scope : track[s].users \subseteq Person /\ track[s].range \in Nat
      /\ \A f \in Find : find[f].phase \in {"none", "sent", "ok"}
  BY <1>1 DEF TrackType, FindType
<1> QED BY <1>1, <1>2 DEF ReplayTypeOK, ReplayBounds, ReplayInv, ReplayTypes

MfaBounds ==
    /\ gen <= made /\ made <= MaxGen /\ kept \subseteq 1..MaxGen
    /\ totp.codes <= made /\ webauthn.codes <= made /\ codes <= made
    /\ \A a \in Ask : ask[a].gen <= made

LEMMA MfaBoundsStart == MfaInit => MfaBounds
<1> SUFFICES ASSUME MfaInit PROVE MfaBounds OBVIOUS
<1> DEFINE first == [NoAsk EXCEPT !.kind = "list", !.phase = "sent"]
<1>1. NoAsk.gen = 0 /\ first.gen = 0 /\ AtName.codes = 0 BY DEF NoAsk, AtName
<1>2. PICK a \in Ask : ask = [x \in Ask |-> IF x = a THEN first ELSE NoAsk] BY DEF MfaInit
<1> HIDE DEF first
<1>3. \A x \in Ask : ask[x].gen = 0 BY <1>1, <1>2
<1> QED BY <1>1, <1>3, MfaBoundsAssumption DEF MfaInit, MfaBounds

\* A request that is sent has no codes yet.
LEMMA AskSentBare ==
    ASSUME NEW requests \in [Ask -> AskType], NEW kind, NEW about,
           AskAbout(requests, kind, about)
    PROVE  \A q \in Ask : ask'[q] = requests[q] \/ ask'[q].gen = 0
<1> DEFINE n == [NoAsk EXCEPT !.kind = kind, !.phase = "sent", !.about = about]
<1>1. PICK b \in Ask : ask' = [requests EXCEPT ![b] = n] BY DEF AskAbout
<1>2. n.gen = 0 BY DEF NoAsk
<1> HIDE DEF n
<1> QED BY <1>1, <1>2

\* What a step that answers nothing does to the requests.
Bare == \A q \in Ask : ask'[q] = ask[q] \/ ask'[q].gen = 0

LEMMA EndedBare ==
    ASSUME MfaTypes, NEW a \in Ask
    PROVE  /\ Ended(a) \in [Ask -> AskType]
           /\ \A q \in Ask : Ended(a)[q] = ask[q] \/ Ended(a)[q].gen = 0
<1>1. NoAsk \in AskType /\ NoAsk.gen = 0 BY NoAskFacts DEF NoAsk
<1> QED BY <1>1 DEF Ended, MfaTypes

LEMMA RefetchBare ==
    ASSUME MfaTypes, NEW a \in Ask, Refetch(ask) \/ Refetch(Ended(a))
    PROVE  Bare
<1>1. ask \in [Ask -> AskType] BY DEF MfaTypes
<1>2. CASE Refetch(ask)
  BY <1>1, <1>2, AskSentBare DEF Refetch, AskServer, Bare
<1>3. CASE Refetch(Ended(a))
  <2> DEFINE requests == Ended(a)
  <2>1. /\ requests \in [Ask -> AskType]
        /\ \A q \in Ask : requests[q] = ask[q] \/ requests[q].gen = 0
    BY EndedBare
  <2>2. AskAbout(requests, "list", {}) BY <1>3 DEF Refetch, AskServer
  <2> HIDE DEF requests
  <2> QED BY <2>1, <2>2, AskSentBare DEF Bare
<1> QED BY <1>2, <1>3

\* A step that makes no codes keeps the bounds if it shows none but those there are.
LEMMA BareKeepsBounds ==
    ASSUME MfaTypes, MfaBounds, Bare, made' = made, gen' = gen \/ gen' = 0,
           kept' = kept,
           totp'.codes <= made, webauthn'.codes <= made, codes' <= made
    PROVE  MfaBounds'
<1>1. made \in Nat BY DEF MfaTypes
<1>2. \A q \in Ask : ask'[q].gen <= made
  BY <1>1 DEF Bare, MfaBounds
<1> QED BY <1>1, <1>2 DEF MfaBounds

LEMMA ServedKeepsBounds ==
    ASSUME MfaTypes, MfaBounds, NEW a \in Ask, NEW g \in Nat, AnswerMfa(a, g),
           made' \in Nat, made <= made', made' <= MaxGen, g <= made', gen' <= made',
           UNCHANGED <<kept, totp, webauthn, codes>>
    PROVE  MfaBounds'
<1>1. /\ made \in Nat /\ codes \in Nat
      /\ totp.codes \in Nat /\ webauthn.codes \in Nat /\ \A q \in Ask : ask[q].gen \in Nat
  BY AskFields, MfaBoundsAssumption DEF MfaTypes, StepType
<1>2. /\ ask'[a].gen = g
      /\ \A q \in Ask : q # a => ask'[q] = ask[q]
  BY AskAnswers
<1>3. \A q \in Ask : ask'[q].gen <= made'
  <2> TAKE q \in Ask
  <2>1. CASE q = a BY <2>1, <1>1, <1>2
  <2>2. CASE q # a
    <3>1. ask'[q] = ask[q] /\ ask[q].gen <= made
      BY <2>2, <1>2 DEF MfaBounds
    <3> QED BY <3>1, <1>1
  <2> QED BY <2>1, <2>2
<1>4. totp.codes <= made' /\ webauthn.codes <= made' /\ codes <= made' BY <1>1 DEF MfaBounds
<1> QED BY <1>3, <1>4 DEF MfaBounds

LEMMA MfaBoundsStep ==
    ASSUME MfaInv, MfaBounds, MfaNext \/ UNCHANGED mfa
    PROVE  MfaBounds'
<1>1. /\ MfaTypes /\ made \in Nat /\ MaxGen \in Nat /\ gen \in Nat
      /\ codes \in Nat /\ totp.codes \in Nat /\ webauthn.codes \in Nat
      /\ ask \in [Ask -> AskType]
  BY MfaBoundsAssumption DEF MfaInv, MfaTypes, StepType
<1>2. AtName.codes = 0 BY DEF AtName
<1>3. CASE \/ \E d \in {"totp", "webauthn", "regenerate"} : OpenDialog(d)
           \/ UNCHANGED mfa
  BY <1>3 DEF OpenDialog, mfa, MfaBounds
<1>4. CASE \/ handleBeginSetup \/ handleVerify \/ handleRegenerate
           \/ \E m \in Method : handleDelete(m) \/ handleTogglePasswordless(m)
  <2>1. Bare
    BY <1>1, <1>4, AskSentBare DEF handleBeginSetup, handleVerify, handleRegenerate,
       handleDelete, handleTogglePasswordless, AskServer, Bare
  <2>2. UNCHANGED <<made, gen, kept, totp, webauthn, codes>>
    BY <1>4 DEF handleBeginSetup, handleVerify, handleRegenerate,
       handleDelete, handleTogglePasswordless
  <2> QED BY <1>1, <2>1, <2>2, BareKeepsBounds DEF MfaBounds
<1>5. CASE TurnStep
  <2>1. totp'.codes = totp.codes
    BY <1>1, <1>5 DEF TurnStep, MfaTypes, StepType
  <2> QED BY <1>5, <2>1 DEF TurnStep, MfaBounds
<1>6. CASE handleRegister
  <2>1. Bare BY <1>1, <1>6, AskSentBare DEF handleRegister, AskServer, Bare
  <2>2. webauthn'.codes = webauthn.codes BY <1>1, <1>6 DEF handleRegister, MfaTypes, StepType
  <2>3. UNCHANGED <<made, gen, kept, totp, codes>> BY <1>6 DEF handleRegister
  <2> QED BY <1>1, <2>1, <2>2, <2>3, BareKeepsBounds DEF MfaBounds
<1>7. CASE Close
  <2>1. /\ totp'.codes <= made /\ webauthn'.codes <= made /\ codes' <= made
        /\ UNCHANGED <<made, gen, kept, ask>>
    BY <1>1, <1>2, <1>7 DEF Close, Reset, MfaBounds
  <2> QED BY <2>1 DEF MfaBounds
<1>8. CASE handleRecoveryDone
  <2>1. /\ totp'.codes <= made /\ webauthn'.codes <= made /\ codes' <= made
        /\ UNCHANGED <<made, gen>> /\ kept' = kept \cup {ShownCodes}
    BY <1>1, <1>2, <1>8 DEF handleRecoveryDone, Reset, MfaBounds
  <2>2. ShownCodes \in 1..MaxGen
    BY <1>1, <1>8 DEF handleRecoveryDone, ShownCodes, MfaBounds
  <2>3. \A q \in Ask : ask'[q] = ask[q] \/ ask'[q].gen = 0
    BY <1>1, <1>8, AskSentBare DEF handleRecoveryDone, Refetch, AskServer
  <2>5. \A q \in Ask : ask'[q].gen <= made BY <1>1, <2>3 DEF MfaBounds
  <2> QED BY <2>1, <2>2, <2>5 DEF MfaBounds
<1>9. ASSUME NEW a \in Ask, ServeMethod(a) PROVE MfaBounds'
  <2>1. UNCHANGED <<kept, totp, webauthn, codes>> BY <1>9 DEF ServeMethod
  <2>2. CASE methods = {}
    <3>1. made < MaxGen /\ made' = made + 1 /\ gen' = made + 1 /\ AnswerMfa(a, made + 1)
      BY <1>9, <2>2 DEF ServeMethod
    <3>2. made + 1 \in Nat /\ made <= made + 1 /\ made + 1 <= MaxGen BY <1>1, <3>1
    <3> QED BY <1>1, <2>1, <3>1, <3>2, ServedKeepsBounds
  <2>3. CASE methods # {}
    <3>1. made' = made /\ gen' = gen /\ AnswerMfa(a, 0)
      BY <1>9, <2>3 DEF ServeMethod
    <3> QED BY <1>1, <2>1, <3>1, ServedKeepsBounds DEF MfaBounds
  <2> QED BY <2>2, <2>3
<1>10. ASSUME NEW a \in Ask, ServeRegenerate(a) PROVE MfaBounds'
  <2>1. /\ made < MaxGen /\ made' = made + 1 /\ gen' = made + 1 /\ AnswerMfa(a, made + 1)
        /\ UNCHANGED <<kept, totp, webauthn, codes>>
    BY <1>10 DEF ServeRegenerate
  <2>2. made + 1 \in Nat /\ made <= made + 1 /\ made + 1 <= MaxGen BY <1>1, <2>1
  <2> QED BY <1>1, <2>1, <2>2, ServedKeepsBounds
<1>11. ASSUME NEW a \in Ask, ServeDelete(a) \/ ServeOther(a) PROVE MfaBounds'
  <2>1. /\ made' = made /\ gen' <= made /\ AnswerMfa(a, 0)
        /\ UNCHANGED <<kept, totp, webauthn, codes>>
    BY <1>1, <1>11 DEF ServeDelete, ServeOther, MfaBounds
  <2> QED BY <1>1, <2>1, ServedKeepsBounds DEF MfaBounds
<1>12. ASSUME NEW a \in Ask, Credential(a) PROVE MfaBounds'
  <2> DEFINE n == [ask[a] EXCEPT !.kind = "finish", !.phase = "sent"]
  <2>1. n.gen = ask[a].gen BY <1>1, AskFields DEF AskType
  <2> HIDE DEF n
  <2>2. ask' = [ask EXCEPT ![a] = n] BY <1>12 DEF Credential, n
  <2>3. \A q \in Ask : ask'[q].gen = ask[q].gen
    BY <1>1, <2>1, <2>2
  <2> QED BY <1>12, <2>3 DEF Credential, MfaBounds
<1>13. ASSUME NEW a \in Ask, Deleted(a) PROVE MfaBounds'
  <2>1. Bare BY <1>1, <1>13, RefetchBare DEF Deleted
  <2> QED BY <1>1, <1>13, <2>1, BareKeepsBounds DEF Deleted, MfaBounds
<1>14. ASSUME NEW a \in Ask, MethodsListed(a) \/ Begun(a) \/ Regenerated(a) \/ Failed(a)
       PROVE  MfaBounds'
  <2>1. Bare /\ UNCHANGED <<made, gen, kept>>
    BY <1>1, <1>14, EndedBare DEF MethodsListed, Begun, Regenerated, Failed, Bare
  <2>2. \A q \in Ask : ask[q].gen <= made BY DEF MfaBounds
  <2>3. codes' <= made
    BY <1>14, <2>2 DEF MethodsListed, Begun, Regenerated, Failed, MfaBounds
  <2>4. totp'.codes = totp.codes /\ webauthn'.codes = webauthn.codes
    BY <1>1, <1>14 DEF MethodsListed, Begun, Regenerated, Failed, MfaTypes, StepType
  <2>5. \A q \in Ask : ask'[q].gen <= made BY <1>1, <2>1, <2>2 DEF Bare
  <2> QED BY <2>1, <2>3, <2>4, <2>5 DEF MfaBounds
<1>15. ASSUME NEW a \in Ask, Prompting(a) PROVE MfaBounds'
  <2> DEFINE n == [NoAsk EXCEPT !.kind = "prompt", !.phase = "shown"]
  <2>1. n.gen = 0 BY DEF NoAsk
  <2> HIDE DEF n
  <2>2. ask' = [ask EXCEPT ![a] = n] BY <1>15 DEF Prompting, n
  <2>3. Bare BY <1>1, <2>1, <2>2 DEF Bare
  <2> QED BY <1>1, <1>15, <2>3, BareKeepsBounds DEF Prompting, MfaBounds
<1>16. ASSUME NEW a \in Ask, Verified(a) PROVE MfaBounds'
  <2>1. Bare
    BY <1>1, <1>16, EndedBare, RefetchBare DEF Verified, Bare
  <2>2. ask[a].gen <= made BY DEF MfaBounds
  <2>3. UNCHANGED <<made, gen, kept>> BY <1>16 DEF Verified
  <2>4. CASE ask[a].gen # 0
    <3>1. totp'.codes <= made /\ webauthn'.codes <= made /\ codes' <= made
      BY <1>16, <2>2, <2>4 DEF Verified, MfaBounds
    <3> QED BY <1>1, <2>1, <2>3, <3>1, BareKeepsBounds
  <2>5. CASE ask[a].gen = 0
    <3>1. PICK d \in {"totp", "webauthn"} : Reset(d)
      BY <1>16, <2>5 DEF Verified
    <3>2. totp'.codes <= made /\ webauthn'.codes <= made /\ codes' <= made
      BY <1>1, <1>2, <3>1 DEF Reset, MfaBounds
    <3> QED BY <1>1, <2>1, <2>3, <3>2, BareKeepsBounds
  <2> QED BY <2>4, <2>5
<1> QED
  BY <1>3, <1>4, <1>5, <1>6, <1>7, <1>8, <1>9, <1>10, <1>11, <1>12, <1>13, <1>14, <1>15,
     <1>16 DEF MfaNext

\* A set of which no two members differ has at most one.
LEMMA AtMostOne ==
    ASSUME NEW S, \A x, y \in S : x = y
    PROVE  Cardinality(S) <= 1
<1>1. CASE S = {} BY <1>1, FS_EmptySet
<1>2. CASE S # {}
  <2>1. PICK x \in S : TRUE BY <1>2
  <2>2. S = {x} BY <2>1
  <2> QED BY <2>2, FS_Singleton
<1> QED BY <1>1, <1>2

LEMMA MfaTypesHold == MfaInv /\ MfaBounds => MfaTypeOK
<1> SUFFICES ASSUME MfaInv, MfaBounds PROVE MfaTypeOK OBVIOUS
<1>1. /\ MfaTypes /\ made \in Nat /\ gen \in Nat /\ MaxGen \in Nat
      /\ methods \subseteq Method /\ listed \subseteq Method
  BY MfaBoundsAssumption DEF MfaInv, MfaTypes
<1>2. ShownCodes <= made BY <1>1 DEF ShownCodes, MfaBounds
<1> DEFINE S == {a \in Ask : ask[a].kind \in {"begin", "verify"}}
<1>3. \A x, y \in S : x = y BY DEF MfaInv, AsksInOrder
<1> HIDE DEF S
<1>4. Cardinality(S) <= 1 BY <1>3, AtMostOne
<1>5. gen \in 0..MaxGen /\ made \in 0..MaxGen
  BY <1>1 DEF MfaBounds
<1>6. /\ totp.step \in {"name", "scan", "verify", "recovery"}
      /\ webauthn.step \in {"name", "waiting", "recovery"}
  BY <1>1 DEF MfaTypes, StepType
<1>7. \A a \in Ask : ask[a].phase \in {"none", "sent", "ok", "shown"} BY <1>1, AskFields
<1> QED BY <1>1, <1>2, <1>4, <1>5, <1>6, <1>7 DEF MfaTypeOK, MfaBounds, MfaTypes, S

DrawBounds ==
    /\ work <= MaxWork
    /\ \A d \in DrawingId : drawn[d] <= MaxWork /\ origin[d] <= MaxWork
    /\ drawActive \in {"yes", "no"} /\ shapes \in {"none", "some"}
    /\ sharesLoading \in {"yes", "no"} /\ isSharing \in {"yes", "no"}
    /\ ownDrawings \subseteq 1..created /\ managing <= created /\ shares <= created
    /\ \A c \in Call : call[c].id <= created /\ call[c].ids \subseteq 1..created

LEMMA DrawBoundsStart == DrawInit => DrawBounds
<1> SUFFICES ASSUME DrawInit PROVE DrawBounds OBVIOUS
<1>1. NoCall.id = 0 /\ NoCall.ids = {} BY DEF NoCall
<1> QED BY <1>1, DrawBoundsAssumption DEF DrawInit, DrawBounds

\* The facts of what there is.
LEMMA DrawFacts ==
    ASSUME DrawInv
    PROVE  /\ created \in Nat /\ created <= MaxDrawing /\ MaxDrawing \in Nat /\ MaxWork \in Nat
           /\ work \in Nat /\ managing \in Nat /\ shares \in Nat /\ savedDrawingId \in 0..created
           /\ drawn \in [DrawingId -> Nat] /\ origin \in [DrawingId -> Nat]
           /\ call \in [Call -> CallType] /\ Existing \subseteq 1..created
           /\ 1..created \subseteq DrawingId
           /\ \A c \in Call : /\ call[c] \in CallType /\ call[c].id \in Nat
                              /\ call[c].about \in Nat
<1>1. /\ created \in Nat /\ created <= MaxDrawing /\ MaxDrawing \in Nat /\ MaxWork \in Nat
      /\ work \in Nat /\ managing \in Nat /\ shares \in Nat /\ savedDrawingId \in 0..created
      /\ drawn \in [DrawingId -> Nat] /\ origin \in [DrawingId -> Nat]
      /\ call \in [Call -> CallType]
  BY DrawBoundsAssumption DEF DrawInv, DrawTypes
<1>2. Existing \subseteq 1..created
  BY <1>1 DEF DrawInv, NumberedInOrder, Existing, DrawingId
<1>3. \A c \in Call : call[c] \in CallType /\ call[c].id \in Nat /\ call[c].about \in Nat
  BY <1>1 DEF CallType
<1> QED BY <1>1, <1>2, <1>3 DEF DrawingId

\* A request that is begun is about a drawing there is, if its id is.
LEMMA BeginBounds ==
    ASSUME NEW calls \in [Call -> CallType], NEW kind, NEW id \in Nat, NEW about \in Nat,
           Begin(calls, kind, id, about), id <= created,
           \A c \in Call : calls[c].id <= created /\ calls[c].ids \subseteq 1..created
    PROVE  \A c \in Call : call'[c].id <= created /\ call'[c].ids \subseteq 1..created
<1> DEFINE n == [NoCall EXCEPT !.kind = kind, !.phase = "sent", !.id = id, !.about = about]
<1>1. PICK b \in Call : call' = [calls EXCEPT ![b] = n] BY DEF Begin
<1>2. n.id = id /\ n.ids = {} BY DEF NoCall
<1> HIDE DEF n
<1> QED BY <1>1, <1>2

LEMMA EndedBounds ==
    ASSUME DrawInv, DrawBounds, NEW c \in Call
    PROVE  /\ EndedCall(c) \in [Call -> CallType]
           /\ \A x \in Call : EndedCall(c)[x].id <= created /\ EndedCall(c)[x].ids \subseteq 1..created
<1>1. NoCall \in CallType /\ NoCall.id = 0 /\ NoCall.ids = {} BY NoCallType DEF NoCall
<1> QED BY <1>1, DrawFacts DEF EndedCall, DrawBounds

\* An answer of the server, about what there is then.
LEMMA DoneBounds ==
    ASSUME DrawInv, DrawBounds, NEW c \in Call, NEW answer \in CallType, Done(c, answer),
           created' \in Nat, created <= created',
           answer.id <= created', answer.ids \subseteq 1..created'
    PROVE  \A x \in Call : call'[x].id <= created' /\ call'[x].ids \subseteq 1..created'
<1>1. /\ call'[c].id = answer.id /\ call'[c].ids = answer.ids
      /\ \A x \in Call : x # c => call'[x] = call[x]
  BY DrawFacts, DoneFacts
<1>2. /\ created \in Nat /\ \A x \in Call : call[x].id \in Nat
      /\ \A x \in Call : call[x].id <= created /\ call[x].ids \subseteq 1..created
  BY DrawFacts DEF DrawBounds
<1>3. 1..created \subseteq 1..created' BY <1>2
<1>4. \A x \in Call : call[x].id <= created' /\ call[x].ids \subseteq 1..created'
  BY <1>2, <1>3
<1> QED BY <1>1, <1>4

LEMMA DrawBoundsStep ==
    ASSUME DrawInv, DrawBounds, DrawNext \/ UNCHANGED draw
    PROVE  DrawBounds'
<1>1. /\ created \in Nat /\ created <= MaxDrawing /\ MaxDrawing \in Nat /\ MaxWork \in Nat
      /\ work \in Nat /\ managing \in Nat /\ shares \in Nat /\ savedDrawingId \in 0..created
      /\ drawn \in [DrawingId -> Nat] /\ origin \in [DrawingId -> Nat]
      /\ call \in [Call -> CallType] /\ Existing \subseteq 1..created
      /\ 1..created \subseteq DrawingId
      /\ \A c \in Call : /\ call[c] \in CallType /\ call[c].id \in Nat
                         /\ call[c].about \in Nat
  BY DrawFacts
<1>2. /\ \A c \in Call : call[c].id <= created /\ call[c].ids \subseteq 1..created
      /\ ownDrawings \subseteq 1..created /\ managing <= created /\ shares <= created
  BY DEF DrawBounds
<1>3. CASE onDrawClick \/ ChangeShapes \/ UNCHANGED draw
  BY <1>3 DEF onDrawClick, ChangeShapes, draw, DrawBounds
<1>4. CASE handleDrawClose
  BY <1>1, <1>4 DEF handleDrawClose, DrawBounds
<1>5. CASE \/ handleDrawSave \/ handleDrawShare \/ handleFilterPanelShare
           \/ handleDrawingUnshare \/ \E d \in DrawingId : handleDrawingDelete(d)
  <2>1. /\ \E kind \in Kinds, id \in 0..created, about \in Nat : Begin(call, kind, id, about)
        /\ UNCHANGED <<drawn, origin, created, work, drawActive, shapes, ownDrawings, managing,
                       shares, sharesLoading>>
        /\ isSharing' \in {"yes", isSharing}
    <3>1. CASE handleDrawSave
      BY <1>1, <3>1 DEF handleDrawSave, Kinds
    <3>2. CASE handleDrawShare \/ handleFilterPanelShare \/ handleDrawingUnshare
      BY <1>1, <1>2, <3>2 DEF handleDrawShare, handleFilterPanelShare,
                              handleDrawingUnshare, Kinds
    <3>3. CASE \E d \in DrawingId : handleDrawingDelete(d)
      BY <1>1, <1>2, <3>3 DEF handleDrawingDelete, Kinds
    <3> QED BY <1>5, <3>1, <3>2, <3>3
  <2>2. PICK kind \in Kinds, id \in 0..created, about \in Nat : Begin(call, kind, id, about)
    BY <2>1
  <2>3. \A c \in Call : call'[c].id <= created /\ call'[c].ids \subseteq 1..created
    <3>1. id \in Nat /\ id <= created BY <1>1
    <3> QED BY <1>1, <1>2, <2>2, <3>1, BeginBounds
  <2> QED BY <2>1, <2>3 DEF DrawBounds
<1>6. ASSUME NEW d \in DrawingId \cup {0}, Manage(d) PROVE DrawBounds'
  <2>1. /\ d \in 0..created /\ managing' = d /\ created' = created /\ shares' <= created
        /\ sharesLoading' \in {"yes", "no"}
        /\ UNCHANGED <<drawn, origin, work, drawActive, shapes, ownDrawings, isSharing>>
    BY <1>1, <1>2, <1>6 DEF Manage, DrawBounds
  <2>2. call' = call \/ Begin(call, "shares", d, 0) BY <1>6 DEF Manage
  <2>3. \A c \in Call : call'[c].id <= created /\ call'[c].ids \subseteq 1..created
    <3>1. d \in Nat /\ d <= created BY <1>1, <2>1
    <3> QED BY <1>1, <1>2, <2>2, <3>1, BeginBounds
  <2>4. managing' <= created BY <1>1, <2>1
  <2> QED BY <2>1, <2>3, <2>4 DEF DrawBounds
<1>7. ASSUME NEW c \in Call, ServeDrawingCreate(c) PROVE DrawBounds'
  <2> DEFINE answer == [call[c] EXCEPT !.id = created + 1]
  <2>1. call[c] \in CallType /\ created + 1 \in Nat /\ created <= created + 1 BY <1>1
  <2>2. answer \in CallType /\ answer.id = created + 1 /\ answer.ids = call[c].ids
    BY <2>1 DEF CallType
  <2>3. Done(c, answer) /\ created' = created + 1 BY <1>7 DEF ServeDrawingCreate
  <2> HIDE DEF answer
  <2>4. 1..created \subseteq 1..(created + 1) BY <1>1
  <2>5. call[c].ids \subseteq 1..(created + 1) BY <1>2, <2>4
  <2>6. \A x \in Call : call'[x].id <= created' /\ call'[x].ids \subseteq 1..created'
    BY <2>1, <2>2, <2>3, <2>5, DoneBounds
  <2>7. call[c].about <= MaxWork
    <3>1. call[c].about \in 1..work BY <1>7 DEF ServeDrawingCreate, DrawInv, OneSave
    <3> QED BY <1>1, <3>1 DEF DrawBounds
  <2>8. \A d \in DrawingId : drawn'[d] <= MaxWork /\ origin'[d] <= MaxWork
    BY <1>1, <1>7, <2>7 DEF ServeDrawingCreate, DrawBounds
  <2>9. /\ UNCHANGED <<work, drawActive, shapes, ownDrawings, managing, shares, sharesLoading,
                       isSharing>>
        /\ created' = created + 1
    BY <1>7 DEF ServeDrawingCreate
  <2>10. ownDrawings \subseteq 1..(created + 1) /\ managing <= created + 1
         /\ shares <= created + 1
    BY <1>1, <1>2, <2>4
  <2> QED BY <2>6, <2>8, <2>9, <2>10 DEF DrawBounds
<1>8. ASSUME NEW c \in Call, ServeDrawingUpdate(c) \/ ServeDrawingDelete(c) \/ ServeSharing(c)
      PROVE  DrawBounds'
  <2>1. PICK answer \in {call[c], [call[c] EXCEPT !.ids = Existing],
                          [call[c] EXCEPT !.ids = {}]} : Done(c, answer)
    BY <1>8 DEF ServeDrawingUpdate, ServeDrawingDelete, ServeSharing
  <2>2. Existing \in SUBSET DrawingId BY DEF Existing
  <2>3. /\ answer \in CallType /\ answer.id = call[c].id
        /\ answer.ids \in {call[c].ids, Existing, {}}
    BY <1>1, <2>1, <2>2 DEF CallType
  <2>4. /\ UNCHANGED <<created, work, origin, drawActive, shapes, ownDrawings, managing, shares,
                       sharesLoading, isSharing>>
    BY <1>8 DEF ServeDrawingUpdate, ServeDrawingDelete, ServeSharing
  <2>5. \A x \in Call : call'[x].id <= created' /\ call'[x].ids \subseteq 1..created'
    <3>1. answer.id <= created' /\ answer.ids \subseteq 1..created'
      BY <1>1, <1>2, <2>3, <2>4
    <3> QED BY <1>1, <2>1, <2>3, <2>4, <3>1, DoneBounds
  <2>6. \A d \in DrawingId : drawn'[d] <= MaxWork
    <3>1. CASE ServeDrawingUpdate(c)
      <4>1. call[c].about \in 1..work BY <3>1 DEF ServeDrawingUpdate, DrawInv, OneSave
      <4>2. call[c].about <= MaxWork BY <1>1, <4>1 DEF DrawBounds
      <4> QED BY <1>1, <3>1, <4>2 DEF ServeDrawingUpdate, DrawBounds
    <3>2. CASE ServeDrawingDelete(c)
      BY <1>1, <3>2 DEF ServeDrawingDelete, DrawBounds
    <3>3. CASE ServeSharing(c)
      BY <3>3 DEF ServeSharing, DrawBounds
    <3> QED BY <1>8, <3>1, <3>2, <3>3
  <2> QED BY <2>4, <2>5, <2>6 DEF DrawBounds
<1>9. ASSUME NEW c \in Call, DrawingSaved(c) \/ DrawingDeleted(c) \/ Shared(c)
      PROVE  DrawBounds'
  <2>1. /\ \E kind \in Kinds, id \in 0..created : Begin(EndedCall(c), kind, id, 0)
        /\ UNCHANGED <<drawn, origin, created, work, drawActive, shapes, ownDrawings>>
        /\ managing' \in {0, managing} /\ shares' \in {0, shares}
        /\ sharesLoading' \in {"yes", sharesLoading} /\ isSharing' \in {"no", isSharing}
    <3>1. call[c].id \in 0..created BY <1>1, <1>2
    <3>2. 0 \in 0..created BY <1>1
    <3>3. CASE DrawingSaved(c) BY <3>2, <3>3 DEF DrawingSaved, Kinds
    <3>4. CASE DrawingDeleted(c) BY <3>2, <3>4 DEF DrawingDeleted, Kinds
    <3>5. CASE Shared(c) BY <3>1, <3>5 DEF Shared, Kinds
    <3> QED BY <1>9, <3>3, <3>4, <3>5
  <2>2. PICK kind \in Kinds, id \in 0..created : Begin(EndedCall(c), kind, id, 0) BY <2>1
  <2> DEFINE calls == EndedCall(c)
  <2>3. /\ calls \in [Call -> CallType]
        /\ \A x \in Call : calls[x].id <= created /\ calls[x].ids \subseteq 1..created
    BY EndedBounds
  <2>4. Begin(calls, kind, id, 0) /\ id \in Nat /\ id <= created BY <1>1, <2>2
  <2> HIDE DEF calls
  <2>5. \A x \in Call : call'[x].id <= created /\ call'[x].ids \subseteq 1..created
    BY <2>3, <2>4, BeginBounds
  <2>6. managing' <= created /\ shares' <= created BY <1>1, <1>2, <2>1
  <2> QED BY <2>1, <2>5, <2>6 DEF DrawBounds
<1>10. ASSUME NEW c \in Call, Unshared(c) PROVE DrawBounds'
  <2> DEFINE m == [NoCall EXCEPT !.kind = "shares", !.phase = "sent", !.id = call[c].id]
             n == [NoCall EXCEPT !.kind = "list", !.phase = "sent"]
  <2>1. PICK d \in Call \ {c} : call' = [call EXCEPT ![c] = m, ![d] = n]
    BY <1>10 DEF Unshared
  <2>2. m.id = call[c].id /\ m.ids = {} /\ n.id = 0 /\ n.ids = {} BY DEF NoCall
  <2> HIDE DEF m, n
  <2>3. \A x \in Call : call'[x].id <= created /\ call'[x].ids \subseteq 1..created
    BY <1>1, <1>2, <2>1, <2>2
  <2> QED BY <1>10, <2>3 DEF Unshared, DrawBounds
<1>11. ASSUME NEW c \in Call, \/ WorkShared(c) \/ SharesLoaded(c) \/ DrawingsListed(c)
                              \/ CallFailed(c)
       PROVE  DrawBounds'
  <2>1. \A x \in Call : call'[x].id <= created /\ call'[x].ids \subseteq 1..created
    BY <1>11, EndedBounds DEF WorkShared, SharesLoaded, DrawingsListed, CallFailed
  <2>2. /\ UNCHANGED <<drawn, origin, created, work, drawActive, shapes, managing>>
        /\ shares' <= created /\ ownDrawings' \subseteq 1..created
        /\ sharesLoading' \in {"yes", "no"} /\ isSharing' \in {"yes", "no"}
    <3>1. CASE WorkShared(c) \/ SharesLoaded(c)
      BY <1>1, <1>2, <3>1 DEF WorkShared, SharesLoaded, DrawBounds
    <3>2. CASE DrawingsListed(c)
      BY <1>1, <1>2, <3>2 DEF DrawingsListed, DrawBounds
    <3>3. CASE CallFailed(c)
      BY <1>1, <1>2, <3>3 DEF CallFailed, DrawBounds
    <3> QED BY <1>11, <3>1, <3>2, <3>3
  <2> QED BY <2>1, <2>2 DEF DrawBounds
<1> QED
  BY <1>3, <1>4, <1>5, <1>6, <1>7, <1>8, <1>9, <1>10, <1>11 DEF DrawNext

LEMMA DrawTypesHold == DrawInv /\ DrawBounds => DrawTypeOK
<1> SUFFICES ASSUME DrawInv, DrawBounds PROVE DrawTypeOK OBVIOUS
<1>1. /\ created \in Nat /\ MaxWork \in Nat /\ work \in Nat \ {0} /\ managing \in Nat
      /\ shares \in Nat /\ drawn \in [DrawingId -> Nat] /\ origin \in [DrawingId -> Nat]
      /\ created \in 0..MaxDrawing /\ savedDrawingId \in 0..created
  BY DrawFacts DEF DrawInv, DrawTypes
<1>2. \A c \in Call : call[c].phase \in {"none", "sent", "ok"}
  BY DrawFacts DEF CallType
<1> DEFINE S == Calling({"create", "update"})
<1>3. \A x, y \in S : x = y BY DEF Calling, DrawInv, OneSave
<1> HIDE DEF S
<1>4. Cardinality(S) <= 1 BY <1>3, AtMostOne
<1>5. drawn \in [DrawingId -> 0..MaxWork] /\ origin \in [DrawingId -> 0..MaxWork]
  BY <1>1 DEF DrawBounds
<1>6. work \in 1..MaxWork /\ managing \in 0..created /\ shares \in 0..created
  BY <1>1 DEF DrawBounds
<1> QED BY <1>1, <1>2, <1>4, <1>5, <1>6 DEF DrawTypeOK, DrawBounds, S

RowBounds ==
    /\ isLoading = "yes" => Querying
    /\ changes <= MaxChange /\ reveal <= changes /\ table.of <= MaxRow
    /\ \A q \in Query : query[q].key <= MaxRow /\ query[q].answer.of <= MaxRow
    /\ \A s \in Save : save[s].key <= MaxRow
    /\ mishap \subseteq {"taken", "undone", "secret"}

LEMMA RowBoundsStart == ListPageInit => RowBounds
<1> SUFFICES ASSUME ListPageInit PROVE RowBounds OBVIOUS
<1> DEFINE first == [NoQuery EXCEPT !.phase = "sent", !.key = 1]
<1>1. /\ NoQuery.key = 0 /\ NoQuery.answer.of = 0 /\ NoQuery.phase = "none"
      /\ first.key = 1 /\ first.answer.of = 0 /\ first.phase = "sent"
      /\ NoTable.of = 0 /\ NoSave.key = 0
  BY DEF NoQuery, NoTable, NoSave
<1>2. PICK q \in Query : query = [x \in Query |-> IF x = q THEN first ELSE NoQuery]
  BY DEF ListPageInit
<1> HIDE DEF first
<1>3. MaxRow \in Nat /\ 0 <= MaxRow /\ 1 <= MaxRow /\ MaxChange \in Nat BY BoundsAssumption
<1>4. Querying BY <1>1, <1>2 DEF Querying
<1>5. \A x \in Query : query[x].key <= MaxRow /\ query[x].answer.of <= MaxRow
  BY <1>1, <1>2, <1>3
<1>6. \A s \in Save : save[s].key <= MaxRow BY <1>1, <1>3 DEF ListPageInit
<1> QED BY <1>1, <1>3, <1>4, <1>5, <1>6 DEF ListPageInit, RowBounds

\* A fetch of a page there may be.
LEMMA FetchBounds ==
    ASSUME RowTypes, RowBounds, NEW k \in Nat, k <= MaxRow, fetchRows(k)
    PROVE  /\ Querying'
           /\ \A q \in Query : query'[q].key <= MaxRow /\ query'[q].answer.of <= MaxRow
<1> DEFINE n == [NoQuery EXCEPT !.phase = "sent", !.key = k]
<1>1. PICK q \in Query : query' = [query EXCEPT ![q] = n] BY DEF fetchRows
<1>2. /\ n.key = k /\ n.answer.of = 0 /\ n.phase = "sent" /\ NoQuery.phase = "none"
  BY DEF NoQuery, NoTable
<1> HIDE DEF n
<1>3. query'[q] = n BY <1>1 DEF RowTypes
<1>4. Querying' BY <1>2, <1>3 DEF Querying
<1>5. 0 <= MaxRow BY BoundsAssumption
<1> QED BY <1>1, <1>2, <1>4, <1>5 DEF RowTypes, RowBounds

LEMMA RequestBounds ==
    ASSUME RowTypes, RowBounds, NEW op, NEW r, NEW flag, Request(op, r, flag)
    PROVE  \A s \in Save : save'[s].key <= MaxRow
<1> DEFINE n == [NoSave EXCEPT !.phase = "sent", !.op = op, !.row = r, !.flag = flag,
                               !.key = key, !.dialog = IF op \in {"create", "edit"}
                                                       THEN "mine" ELSE "gone"]
<1>1. PICK s \in Save : save' = [save EXCEPT ![s] = n] BY DEF Request
<1>2. n.key = key BY DEF NoSave
<1> HIDE DEF n
<1>3. key <= MaxRow BY BoundsAssumption DEF RowTypes, Row
<1> QED BY <1>1, <1>2, <1>3 DEF RowTypes, RowBounds

\* What ends, or leaves its dialog, keeps the page it was sent on.
LEMMA EndBounds ==
    ASSUME RowTypes, RowBounds, NEW op, NEW s \in Save
    PROVE  /\ DoneSave.key = 0
           /\ \A t \in Save : [save EXCEPT ![s] = DoneSave][t].key <= MaxRow
           /\ \A t \in Save : Orphaned(op)[t].key <= MaxRow
           /\ \A t \in Save : [Orphaned(op) EXCEPT ![s] = DoneSave][t].key <= MaxRow
<1>1. DoneSave.key = 0 /\ 0 <= MaxRow BY BoundsAssumption DEF DoneSave, NoSave
<1>2. save \in [Save -> SaveType] /\ \A t \in Save : save[t].key <= MaxRow
  BY DEF RowTypes, RowBounds
<1>3. \A t \in Save : [save[t] EXCEPT !.dialog = "gone"].key = save[t].key
  BY <1>2 DEF SaveType
<1> DEFINE o == Orphaned(op)
<1>4. o = [t \in Save |-> IF save[t].op = op THEN [save[t] EXCEPT !.dialog = "gone"] ELSE save[t]]
  BY DEF Orphaned
<1> HIDE DEF o
<1>5. DOMAIN o = Save /\ \A t \in Save : o[t].key <= MaxRow BY <1>2, <1>3, <1>4
<1>6. \A t \in Save : [o EXCEPT ![s] = DoneSave][t].key <= MaxRow BY <1>1, <1>5
<1>7. \A t \in Save : [save EXCEPT ![s] = DoneSave][t].key <= MaxRow BY <1>1, <1>2
<1> QED BY <1>1, <1>5, <1>6, <1>7 DEF o

LEMMA RowBoundsStep ==
    ASSUME RowsInv, RowBounds, ListPageNext \/ UNCHANGED settings
    PROVE  RowBounds'
<1>1. /\ RowTypes /\ AnswersInOrder /\ MaxRow \in Nat /\ MaxChange \in Nat /\ changes \in Nat
      /\ reveal \in Nat /\ query \in [Query -> QueryType] /\ save \in [Save -> SaveType]
  BY BoundsAssumption DEF RowsInv, RowTypes
<1>2. /\ \A q \in Query : query[q].key <= MaxRow /\ query[q].answer.of <= MaxRow
      /\ \A s \in Save : save[s].key <= MaxRow /\ save[s].key \in Nat
  BY <1>1, SaveFields DEF RowBounds
<1>3. ASSUME NEW q \in Query, ServeList(q) PROVE RowBounds'
  <2> DEFINE t == [of |-> query[q].key, at |-> changes,
                   rows |-> [r \in OnPage(query[q].key) |-> remote[r]],
                   total |-> Cardinality(DOMAIN remote)]
             n == [query[q] EXCEPT !.phase = "ok", !.answer = t]
  <2>1. t.of = query[q].key OBVIOUS
  <2>2. query' = [query EXCEPT ![q] = n] BY <1>3 DEF ServeList
  <2> HIDE DEF t
  <2>3. n.key = query[q].key /\ n.answer = t /\ n.phase = "ok" /\ NoQuery.phase = "none"
    BY <1>1 DEF QueryType, NoQuery
  <2> HIDE DEF n
  <2>4. \A p \in Query : query'[p].key <= MaxRow /\ query'[p].answer.of <= MaxRow
    BY <1>1, <1>2, <2>1, <2>2, <2>3
  <2>5. Querying'
    <3>1. query'[q] = n BY <1>1, <2>2
    <3> QED BY <2>3, <3>1 DEF Querying
  <2> QED BY <1>3, <2>4, <2>5 DEF ServeList, RowBounds
<1>4. ASSUME NEW q \in Query, ListAnswered(q) PROVE RowBounds'
  <2>1. NoQuery.key = 0 /\ NoQuery.answer.of = 0 /\ NoTable.of = 0 BY DEF NoQuery, NoTable
  <2>2. \A p \in Query : query'[p].key <= MaxRow /\ query'[p].answer.of <= MaxRow
    BY <1>1, <1>2, <1>4, <2>1 DEF ListAnswered
  <2>3. table'.of <= MaxRow BY <1>1, <1>2, <1>4, <2>1 DEF ListAnswered, RowBounds
  <2>4. isLoading' = "no" BY <1>4 DEF ListAnswered
  <2> QED BY <1>4, <2>2, <2>3, <2>4 DEF ListAnswered, RowBounds
<1>5. ASSUME NEW k \in Row, TurnPage(k) PROVE RowBounds'
  <2>1. k \in Nat /\ k <= MaxRow BY <1>1 DEF Row
  <2>2. /\ Querying'
        /\ \A q \in Query : query'[q].key <= MaxRow /\ query'[q].answer.of <= MaxRow
    BY <1>1, <1>5, <2>1, FetchBounds DEF TurnPage
  <2> QED BY <1>5, <2>2 DEF TurnPage, RowBounds
<1>6. CASE OpenCreate \/ \E r \in Row : OpenEdit(r)
  BY <1>6 DEF OpenCreate, OpenEdit, RowBounds, Querying
<1>7. CASE Cancel
  <2>1. \A s \in Save : save'[s].key <= MaxRow BY <1>1, <1>7, EndBounds DEF Cancel
  <2> QED BY <1>7, <2>1 DEF Cancel, RowBounds, Querying
<1>8. CASE \/ SaveBeside \/ (\E op \in {"create", "edit"} : Submit(op))
           \/ \E r \in Row, op \in {"delete", "default", "toggle"} : RowRequest(op, r)
  <2>1. /\ \E op, r, flag : Request(op, r, flag)
        /\ UNCHANGED <<changes, table, isLoading, query, reveal, mishap>>
    <3>1. CASE SaveBeside BY <3>1 DEF SaveBeside
    <3>2. CASE \E op \in {"create", "edit"} : Submit(op) BY <3>2 DEF Submit
    <3>3. CASE \E r \in Row, op \in {"delete", "default", "toggle"} : RowRequest(op, r)
      BY <3>3 DEF RowRequest
    <3> QED BY <1>8, <3>1, <3>2, <3>3
  <2>2. \A s \in Save : save'[s].key <= MaxRow BY <1>1, <2>1, RequestBounds
  <2> QED BY <2>1, <2>2 DEF RowBounds, Querying
<1>9. ASSUME NEW r \in Row, OthersChange(r) PROVE RowBounds'
  <2>1. /\ changes < MaxChange /\ changes' = changes + 1
        /\ UNCHANGED <<table, isLoading, query, save, reveal, mishap>>
    BY <1>9 DEF OthersChange
  <2>2. changes' <= MaxChange /\ reveal' <= changes' BY <1>1, <2>1 DEF RowBounds
  <2> QED BY <2>1, <2>2 DEF RowBounds, Querying
<1>10. ASSUME NEW s \in Save, ServeSave(s) PROVE RowBounds'
  <2>1. /\ changes < MaxChange /\ changes' = changes + 1 /\ Applied(s)
        /\ UNCHANGED <<table, isLoading, query, reveal>>
    BY <1>10 DEF ServeSave
  <2>2. changes' <= MaxChange /\ reveal' <= changes' BY <1>1, <2>1 DEF RowBounds
  <2>3. mishap' \subseteq mishap \cup {"undone"} BY <2>1 DEF Applied
  <2> DEFINE n == [save[s] EXCEPT !.phase = "ok", !.at = changes + 1]
  <2>4. save' = [save EXCEPT ![s] = n] BY <1>10 DEF ServeSave
  <2>5. n.key = save[s].key BY <1>1 DEF SaveType
  <2> HIDE DEF n
  <2>6. \A t \in Save : save'[t].key <= MaxRow BY <1>1, <1>2, <2>4, <2>5
  <2> QED BY <2>1, <2>2, <2>3, <2>6 DEF RowBounds, Querying
<1>11. ASSUME NEW s \in Save, SaveFailed(s) PROVE RowBounds'
  <2>1. \A t \in Save : save'[t].key <= MaxRow BY <1>1, <1>11, EndBounds DEF SaveFailed
  <2> QED BY <1>11, <2>1 DEF SaveFailed, RowBounds, Querying
<1>12. ASSUME NEW s \in Save, RowSaved(s) \/ DialogSaved(s) PROVE RowBounds'
  <2>1. \A t \in Save : save'[t].key <= MaxRow
    BY <1>1, <1>12, EndBounds DEF RowSaved, DialogSaved
  <2>2. fetchRows(save[s].key) /\ changes' = changes /\ table' = table
    BY <1>12 DEF RowSaved, DialogSaved
  <2>3. /\ Querying'
        /\ \A q \in Query : query'[q].key <= MaxRow /\ query'[q].answer.of <= MaxRow
    BY <1>1, <1>2, <2>2, FetchBounds
  <2>4. reveal' \in {reveal, save[s].at} /\ mishap' \subseteq mishap \cup {"secret", "taken"}
    BY <1>12 DEF RowSaved, DialogSaved
  <2>5. save[s].at <= changes BY <1>1, <1>12 DEF RowSaved, DialogSaved, AnswersInOrder
  <2>6. reveal' <= changes BY <2>4, <2>5 DEF RowBounds
  <2> QED BY <2>1, <2>2, <2>3, <2>4, <2>6 DEF RowBounds
<1>13. ASSUME NEW s \in Save, BesideSaved(s) PROVE RowBounds'
  <2>1. \A t \in Save : [save[t] EXCEPT !.dialog = "gone"].key = save[t].key
    BY <1>1 DEF SaveType
  <2>2. DoneSave.key = 0 /\ 0 <= MaxRow BY <1>1, EndBounds
  <2>3. \A t \in Save : save'[t].key <= MaxRow
    BY <1>2, <1>13, <2>1, <2>2 DEF BesideSaved
  <2>4. mishap' \subseteq mishap \cup {"taken"}
        /\ UNCHANGED <<changes, table, isLoading, query, reveal>>
    BY <1>13 DEF BesideSaved
  <2> QED BY <2>3, <2>4 DEF RowBounds, Querying
<1>14. CASE RevealDone
  BY <1>1, <1>14 DEF RevealDone, RowBounds, Querying
<1>15. CASE UNCHANGED settings
  BY <1>15 DEF settings, RowBounds, Querying
<1> QED
  BY <1>3, <1>4, <1>5, <1>6, <1>7, <1>8, <1>9, <1>10, <1>11, <1>12, <1>13, <1>14, <1>15
  DEF ListPageNext

LEMMA RowTypesHold == RowsInv /\ RowBounds => ListPageTypeOK
<1> SUFFICES ASSUME RowsInv, RowBounds PROVE ListPageTypeOK OBVIOUS
<1>1. /\ RowTypes /\ AnswersInOrder /\ MaxRow \in Nat /\ MaxChange \in Nat /\ changes \in Nat
      /\ reveal \in Nat /\ answered \in Nat
  BY BoundsAssumption DEF RowsInv, RowTypes
<1>2. DOMAIN remote \subseteq Row /\ table.rows \in RowMap /\ table.of \in Nat
  BY <1>1, RowMapFacts DEF RowTypes, TableType
<1>3. DOMAIN table.rows \subseteq Row BY <1>2, RowMapFacts
<1>4. table.of \in Row \cup {0} BY <1>1, <1>2 DEF RowBounds, Row
<1>5. changes \in Change /\ answered \in Change /\ reveal \in Change
  BY <1>1 DEF AnswersInOrder, RowBounds, Change
<1>6. dialog.open \in {"none", "create", "edit"} BY <1>1 DEF RowTypes, DialogType
<1>7. \A s \in Save : save[s].phase \in {"none", "sent", "ok", "done"} BY <1>1, SaveFields
<1>8. \A q \in Query : query[q].phase \in {"none", "sent", "ok"} BY <1>1, QueryFields
<1> QED BY <1>1, <1>2, <1>3, <1>4, <1>5, <1>6, <1>7, <1>8 DEF ListPageTypeOK, RowBounds, RowTypes

\* Of the other pages the invariants have the types.
LEMMA ThreadTypesHold == OrderInv => ThreadTypeOK
<1> SUFFICES ASSUME OrderInv PROVE ThreadTypeOK OBVIOUS
<1>1. ThreadTypes BY DEF OrderInv
<1>2. /\ sending.phase \in {"none", "sent", "done", "failed"}
      /\ sending.conv \in Conv \cup {NoConv} /\ sending.msg \in 0..MaxMsg
  BY <1>1 DEF ThreadTypes, SendType
<1>3. wire \subseteq Msg BY <1>1, ListFacts DEF ThreadTypes
<1>4. \A f \in Fetch : /\ fetch[f].phase \in {"none", "sent", "ok", "failed"}
                       /\ fetch[f].hook \in Hook /\ fetch[f].conv \in Conv \cup {NoConv}
                       /\ fetch[f].before \in 0..MaxMsg /\ fetch[f].result \in Seq(Msg)
  BY <1>1, FetchFields
<1> QED BY <1>1, <1>2, <1>3, <1>4 DEF ThreadTypes, ThreadTypeOK

LEMMA ListTypesHold == ListInv => ListTypeOK
<1> SUFFICES ASSUME ListInv PROVE ListTypeOK OBVIOUS
<1>1. ConvTypes /\ WritersAreKept BY DEF ListInv
<1>2. /\ newDm.phase \in {"closed", "loading", "closed loading", "open"}
      /\ newDm.users \subseteq Partner
  BY <1>1 DEF ConvTypes, NewDmType
<1>3. newDm.phase \in {"open", "loading"} => ~Loading BY <1>1 DEF WritersAreKept
<1>4. convFetch.phase \in {"sent", "ok", "failed", "done", "error"}
  BY <1>1 DEF ConvTypes
<1> QED BY <1>1, <1>2, <1>3, <1>4 DEF ConvTypes, ListTypeOK

LEMMA FormTypesHold == FormInv => FormTypeOK
<1> SUFFICES ASSUME FormInv PROVE FormTypeOK OBVIOUS
<1>1. FormTypes /\ OnePut /\ FormFollowsThePage BY DEF FormInv
<1> DEFINE S == {r \in FormCall : put[r].kind = "save"}
<1>2. page # GeneralSettingsPage => "saves" \notin metForm /\ \A x, y \in S : x = y
  BY <1>1 DEF OnePut, FormFollowsThePage
<1> HIDE DEF S
<1>3. page # GeneralSettingsPage => "saves" \notin metForm /\ Cardinality(S) <= 1
  BY <1>2, AtMostOne
<1>4. MaxEdit \in Nat BY FormBoundsAssumption
<1>5. \A f \in Field : record[f] \in 0..MaxEdit /\ form[f] \in 0..MaxEdit
  BY <1>1 DEF FormTypes, Edits
<1>6. \A f \in Field : snap[f] \in -1..MaxEdit
  BY <1>1, <1>4 DEF FormTypes, Edits, Without
<1>7. \A r \in FormCall : put[r].phase \in {"none", "sent", "ok"}
  BY <1>1 DEF FormTypes, PutType
<1> QED BY <1>1, <1>3, <1>5, <1>6, <1>7 DEF FormTypes, FormTypeOK, Edits, S

PageBounds == ReplayBounds /\ MfaBounds /\ DrawBounds /\ RowBounds

LEMMA PagesKeepTheirBounds ==
    ASSUME PagesInv, PageBounds, [PagesNext]_pages
    PROVE  PageBounds'
<1>1. /\ ReplayNext \/ UNCHANGED replay
      /\ DrawNext \/ UNCHANGED draw
      /\ MfaNext \/ UNCHANGED mfa
      /\ ListPageNext \/ UNCHANGED settings
  BY DEF PagesNext, pages
<1> QED
  BY <1>1, ReplayBoundsStep, DrawBoundsStep, MfaBoundsStep, RowBoundsStep
  DEF PagesInv, PageBounds

\* Every page has the values its type says; what loads has a request under way, and
\* what must be sent once at a time is: a save of a form or of a drawing, the code of a
\* second factor (the disabled buttons and the skeletons of the pages).
THEOREM PagesTypeCorrect == PagesSpec => []PagesTypeOK
<1>1. PagesInit => route \in Route /\ PageBounds
  BY ReplayBoundsStart, MfaBoundsStart, DrawBoundsStart, RowBoundsStart
  DEF PagesInit, PageBounds
<1>2. PagesInv /\ route \in Route /\ PageBounds /\ [PagesNext]_pages
        => (route \in Route /\ PageBounds)'
  <2>1. [PagesNext]_pages => route' = route BY DEF PagesNext, pages
  <2> QED BY <2>1, PagesKeepTheirBounds
<1>3. PagesInv /\ route \in Route /\ PageBounds => PagesTypeOK
  BY ThreadTypesHold, ListTypesHold, RowTypesHold, MfaTypesHold, FormTypesHold,
     DrawTypesHold, ReplayTypesHold
  DEF PagesInv, PageBounds, PagesTypeOK
<1> QED
  BY <1>1, <1>2, <1>3, PagesHold, PTL DEF PagesSpec
=============================================================================

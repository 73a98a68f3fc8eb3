--------------------------- MODULE HubRoutingProofs ---------------------------
(***************************************************************************)
(* For every set of users, groups, requests and connections, every policy  *)
(* and every request body.                                                 *)
(*                                                                         *)
(* The membership requests (GroupService): the role of a row is what the   *)
(* system admins decided last, but for a decision that met an update in    *)
(* flight, and only AddMember adds members. The invariant must also speak  *)
(* of the copies of rows that UpdateMember requests carry between reading  *)
(* and writing: such a copy is written back whole, so its role must be the *)
(* decided one, too; and of the generations, which keep the decisions on   *)
(* earlier rows of a user apart from those on his present one.             *)
(*                                                                         *)
(* The hub (HubRouting): a connection's copy of its memberships is current *)
(* or its age is excused, and so is every delivery made on its word. The   *)
(* invariant must also speak of the connections that are being set up: the *)
(* copy a connection registers with was read before the hub knew of it.    *)
(***************************************************************************)
EXTENDS HubRouting, TLAPS

-----------------------------------------------------------------------------
(* Membership requests.                                                    *)

\* The role in a copy of a row is the decided one, or the decision was contested.
AsDecided(g, u, row) ==
  LET t == <<g, u, row.gen>>
  IN  (row.isGroupAdmin <=> t \in granted) \/ t \in contested

\* What a request in flight may write.
InBounds(q) ==
  /\ q.step = "insert" => (q.ch.isGroupAdmin = {TRUE} => q.caller \in Admin)
  /\ q.step \in {"check", "write"} =>
       /\ q.row \in Row
       /\ q.row.gen <= gens[q.g][q.u]
       /\ q.ch.isGroupAdmin = {} => AsDecided(q.g, q.u, q.row)
  /\ q.step = "write" => q.ch.isGroupAdmin = {} \/ q.caller \in Admin

RequestsInBounds == \A r \in Request : InBounds(req[r])

\* The rows and the decisions are of generations that have been.
GensBound ==
  /\ \A g \in Group, u \in User :
       members[g][u] # NoRow => members[g][u].gen <= gens[g][u]
  /\ \A g \in Group, u \in User, n \in Nat :
       <<g, u, n>> \in granted => n <= gens[g][u]

Full == [step : Steps, caller : User, g : Group, u : User, ch : Body,
         row : Row \cup {NoRow}]

TableInv == TableTypeOK /\ RolesAreDecidedByAdmins /\ GensBound /\ RequestsInBounds

-----------------------------------------------------------------------------

LEMMA OrElseType ==
  ASSUME NEW opt \in Optional, NEW d \in BOOLEAN
  PROVE  /\ OrElse(opt, d) \in BOOLEAN
         /\ opt = {} => OrElse(opt, d) = d
         /\ OrElse(opt, FALSE) => opt = {TRUE}
<1>1. {TRUE} # {FALSE} /\ {TRUE} # {} /\ {FALSE} # {}
  OBVIOUS
<1> QED
  BY <1>1 DEF Optional, OrElse

LEMMA InitTableInv == Init => TableInv
<1> SUFFICES ASSUME Init PROVE TableInv
  OBVIOUS
<1>1. members \in [Group -> [User -> Row \cup {NoRow}]]
  <2> DEFINE R0 == [gen : {0}, canRead : {TRUE}, canWrite : {FALSE}, isGroupAdmin : BOOLEAN]
  <2>1. R0 \subseteq Row
    <3> SUFFICES ASSUME NEW x \in R0 PROVE x \in Row
      OBVIOUS
    <3>1. x.gen \in Nat
      OBVIOUS
    <3>2. x.canRead \in BOOLEAN
      OBVIOUS
    <3>3. x.canWrite \in BOOLEAN
      OBVIOUS
    <3>4. x.isGroupAdmin \in BOOLEAN
      OBVIOUS
    <3>5. x = [gen |-> x.gen, canRead |-> x.canRead, canWrite |-> x.canWrite,
               isGroupAdmin |-> x.isGroupAdmin]
      OBVIOUS
    <3> QED
      BY <3>1, <3>2, <3>3, <3>4, <3>5 DEF Row
  <2>2. members \in [Group -> [User -> R0 \cup {NoRow}]]
    BY DEF Init
  <2> HIDE DEF R0
  <2> QED
    BY <2>1, <2>2
<1>3. TableTypeOK
  BY <1>1 DEF Init, TableTypeOK
<1>4. RolesAreDecidedByAdmins
  <2> SUFFICES ASSUME NEW g \in Group, NEW u \in User, members[g][u] # NoRow
               PROVE  members[g][u].isGroupAdmin <=> <<g, u, members[g][u].gen>> \in granted
    BY DEF RolesAreDecidedByAdmins
  <2>1. members[g][u].gen = 0
    BY DEF Init
  <2> QED
    BY <2>1 DEF Init
<1>5. GensBound
  <2>1. \A g \in Group, u \in User : gens[g][u] = 0
    BY DEF Init
  <2>2. ASSUME NEW g \in Group, NEW u \in User, members[g][u] # NoRow
        PROVE  members[g][u].gen <= gens[g][u]
    <3>1. members[g][u].gen = 0
      BY <2>2 DEF Init
    <3> QED
      BY <2>1, <3>1
  <2>3. ASSUME NEW g \in Group, NEW u \in User, NEW n \in Nat, <<g, u, n>> \in granted
        PROVE  n <= gens[g][u]
    <3>1. n = 0
      BY <2>3 DEF Init
    <3> QED
      BY <2>1, <3>1
  <2> QED
    BY <2>2, <2>3 DEF GensBound
<1>6. RequestsInBounds
  BY DEF Init, RequestsInBounds, InBounds, Idle
<1> QED
  BY <1>3, <1>4, <1>5, <1>6 DEF TableInv

\* A request that is not idle and not done carries all its fields.
LEMMA InFlight ==
  ASSUME TableTypeOK, NEW r \in Request, req[r].step \in Steps
  PROVE  req[r] \in Full
BY DEF TableTypeOK, Full, Idle, Done, Steps

\* What the table holds after one row is replaced.
LEMMA OneRow ==
  ASSUME TableTypeOK, NEW h \in Group, NEW v \in User, NEW x,
         members' = [members EXCEPT ![h][v] = x],
         NEW g \in Group, NEW u \in User
  PROVE  members'[g][u] = IF g = h /\ u = v THEN x ELSE members[g][u]
BY DEF TableTypeOK

\* Steps that only begin, advance or end a request.
LEMMA ReqOnlyStep ==
  ASSUME TableInv, NEW r \in Request, NEW q,
         req' = [req EXCEPT ![r] = q],
         q \in Full \/ q = Done,
         InBounds(q),
         UNCHANGED <<groups, members, gens, granted, contested, unannounced>>
  PROVE  TableInv'
<1>1. TableTypeOK'
  BY DEF TableInv, TableTypeOK, Full
<1>2. RolesAreDecidedByAdmins' /\ GensBound'
  BY DEF TableInv, RolesAreDecidedByAdmins, GensBound
<1>3. RequestsInBounds'
  <2>1. ASSUME NEW x \in Request PROVE InBounds(req'[x])
    BY DEF TableInv, TableTypeOK, RequestsInBounds
  <2> QED
    BY <2>1 DEF RequestsInBounds, InBounds, AsDecided
<1> QED
  BY <1>1, <1>2, <1>3 DEF TableInv

LEMMA DoneInBounds == InBounds(Done)
BY DEF InBounds, Done

LEMMA BeginStep ==
  ASSUME TableInv, NEW r \in Request, NEW caller \in User, NEW g \in Group, NEW u \in User,
         \/ \E ch \in Change : AddMemberCheck(r, caller, g, u, ch)
                               \/ UpdateMemberRead(r, caller, g, u, ch)
         \/ RemoveMemberCheck(r, caller, g, u)
  PROVE  TableInv'
<1>1. ASSUME NEW ch \in Change, AddMemberCheck(r, caller, g, u, ch)
      PROVE  TableInv'
  <2> DEFINE q == [step |-> "insert", caller |-> caller, g |-> g, u |-> u, ch |-> ch,
                   row |-> NoRow]
  <2>1. q \in Full
    BY ChangeAssumption DEF Full, Steps
  <2>2. InBounds(q)
    BY <1>1 DEF AddMemberCheck, InBounds
  <2> QED
    BY <1>1, <2>1, <2>2, ReqOnlyStep DEF AddMemberCheck, Begin
<1>2. ASSUME NEW ch \in Change, UpdateMemberRead(r, caller, g, u, ch)
      PROVE  TableInv'
  <2> DEFINE q == [step |-> "check", caller |-> caller, g |-> g, u |-> u, ch |-> ch,
                   row |-> members[g][u]]
  <2>1. members[g][u] \in Row /\ AsDecided(g, u, members[g][u])
    BY <1>2 DEF UpdateMemberRead, TableInv, TableTypeOK, RolesAreDecidedByAdmins, AsDecided
  <2>2. members[g][u].gen <= gens[g][u]
    BY <1>2 DEF UpdateMemberRead, TableInv, GensBound
  <2>3. q \in Full
    BY <2>1, ChangeAssumption DEF Full, Steps
  <2>4. InBounds(q)
    BY <2>1, <2>2 DEF InBounds
  <2> QED
    BY <1>2, <2>3, <2>4, ReqOnlyStep DEF UpdateMemberRead, Begin
<1>3. CASE RemoveMemberCheck(r, caller, g, u)
  <2>1. PICK step \in {"delete", "target"} :
          req' = [req EXCEPT ![r] = [step |-> step, caller |-> caller, g |-> g, u |-> u,
                                     ch |-> NoBody, row |-> NoRow]]
    BY <1>3 DEF RemoveMemberCheck, Begin
  <2> DEFINE q == [step |-> step, caller |-> caller, g |-> g, u |-> u, ch |-> NoBody,
                   row |-> NoRow]
  <2>2. q \in Full
    BY DEF Full, Steps, NoBody, Body, Optional
  <2>3. InBounds(q)
    BY DEF InBounds
  <2> QED
    BY <1>3, <2>1, <2>2, <2>3, ReqOnlyStep DEF RemoveMemberCheck
<1> QED
  BY <1>1, <1>2, <1>3

LEMMA CheckStep ==
  ASSUME TableInv, NEW r \in Request, UpdateMemberCheck(r)
  PROVE  TableInv'
<1> DEFINE q == req[r]
<1>1. /\ q \in Full /\ q.step = "check" /\ q.row \in Row /\ q.row.gen <= gens[q.g][q.u]
      /\ q.ch.isGroupAdmin = {} => AsDecided(q.g, q.u, q.row)
  BY InFlight DEF UpdateMemberCheck, TableInv, RequestsInBounds, InBounds, Steps
<1>2. CASE req' = [req EXCEPT ![r] = Done]
  BY <1>2, ReqOnlyStep, DoneInBounds DEF UpdateMemberCheck
<1>3. CASE req' # [req EXCEPT ![r] = Done]
  <2> DEFINE row == [q.row EXCEPT !.canRead      = OrElse(q.ch.canRead, @),
                                  !.canWrite     = OrElse(q.ch.canWrite, @),
                                  !.isGroupAdmin = OrElse(q.ch.isGroupAdmin, @)]
             p   == [q EXCEPT !.step = "write", !.row = row]
  <2>1. q.caller \in Admin \/ q.ch.isGroupAdmin = {}
    BY <1>3 DEF UpdateMemberCheck, Finish
  <2>2. q.ch \in Body
    BY <1>1 DEF Full
  <2>3. row \in Row /\ row.gen = q.row.gen
    BY <1>1, <2>2, OrElseType DEF Row, Body
  <2>4. q.ch.isGroupAdmin = {} => row.isGroupAdmin = q.row.isGroupAdmin
    BY <1>1, <2>2, OrElseType DEF Row, Body
  <2>5. p \in Full /\ p.row = row /\ p.step = "write" /\ p.caller = q.caller
        /\ p.g = q.g /\ p.u = q.u /\ p.ch = q.ch
    BY <1>1, <2>3 DEF Full, Steps
  <2>6. p.ch.isGroupAdmin = {} => AsDecided(p.g, p.u, p.row)
    BY <1>1, <2>3, <2>4, <2>5 DEF AsDecided
  <2>7. req' = [req EXCEPT ![r] = p]
    BY <1>3 DEF UpdateMemberCheck, Finish
  <2>8. p.row.gen <= gens[p.g][p.u]
    BY <1>1, <2>3, <2>5
  <2> HIDE DEF p, row
  <2>9. InBounds(p)
    BY <2>1, <2>3, <2>5, <2>6, <2>8 DEF InBounds
  <2> QED
    BY <2>5, <2>7, <2>9, ReqOnlyStep DEF UpdateMemberCheck
<1> QED
  BY <1>2, <1>3

\* A decision leaves alone what is said of every other row ...
LEMMA DecideOthers ==
  ASSUME NEW g, NEW u, NEW row, Decide(g, u, row), NEW h, NEW v, NEW w,
         <<h, v, w.gen>> # <<g, u, row.gen>>, AsDecided(h, v, w)
  PROVE  AsDecided(h, v, w)'
BY DEF Decide, AsDecided

\* ... and of its own row it says what is written, or that the decision met an
\* update in flight.
LEMMA DecideOwn ==
  ASSUME NEW g, NEW u, NEW row \in Row, Decide(g, u, row), NEW w \in Row, w.gen = row.gen,
         \/ w.isGroupAdmin = row.isGroupAdmin
         \/ \E x \in Request : Carries(x, g, u, row.gen, w.isGroupAdmin)
  PROVE  AsDecided(g, u, w)'
<1>1. row.isGroupAdmin \in BOOLEAN /\ w.isGroupAdmin \in BOOLEAN
  BY DEF Row
<1>2. CASE w.isGroupAdmin = row.isGroupAdmin
  BY <1>2 DEF Decide, AsDecided
<1>3. CASE w.isGroupAdmin # row.isGroupAdmin
  <2>1. w.isGroupAdmin = ~row.isGroupAdmin
    BY <1>1, <1>3
  <2>2. <<g, u, row.gen>> \in contested'
    BY <1>3, <2>1 DEF Decide
  <2> QED
    BY <2>2 DEF AsDecided
<1> QED
  BY <1>2, <1>3

\* Writes: the role written is the decided one, or this step decides it.
LEMMA WriteStep ==
  ASSUME TableInv, NEW r \in Request, NEW g \in Group, NEW u \in User, NEW row \in Row,
         members' = [members EXCEPT ![g][u] = row],
         gens' \in [Group -> [User -> Nat]],
         \A h \in Group, v \in User : gens[h][v] <= gens'[h][v],
         row.gen <= gens'[g][u],
         \/ AsDecided(g, u, row) /\ UNCHANGED <<granted, contested>>
         \/ Decide(g, u, row) /\ (req[r].step \in {"check", "write"} => req[r].ch.isGroupAdmin # {}),
         req[r] \in Full, req' = [req EXCEPT ![r].step = "publish"],
         UNCHANGED <<groups, unannounced>>
  PROVE  TableInv'
<1>0. \A h \in Group, v \in User : gens[h][v] \in Nat /\ gens'[h][v] \in Nat
  <2>1. gens \in [Group -> [User -> Nat]]
    BY DEF TableInv, TableTypeOK
  <2> QED
    BY <2>1
<1>1. <<g, u, row.gen>> \in Group \X User \X Nat
  BY DEF Row
<1>2. granted' \subseteq granted \cup {<<g, u, row.gen>>}
      /\ contested' \subseteq contested \cup {<<g, u, row.gen>>}
  BY DEF Decide
<1>3. granted' \subseteq Group \X User \X Nat /\ contested' \subseteq Group \X User \X Nat
  BY <1>1, <1>2 DEF TableInv, TableTypeOK
<1>4. /\ req'[r] \in Full /\ req'[r].step = "publish"
      /\ \A x \in Request \ {r} : req'[x] = req[x]
  <2>1. req'[r] = [req[r] EXCEPT !.step = "publish"]
    BY DEF TableInv, TableTypeOK
  <2> QED
    BY <2>1 DEF TableInv, TableTypeOK, Full, Steps
<1>5. TableTypeOK'
  <2>1. members' \in [Group -> [User -> Row \cup {NoRow}]]
    BY DEF TableInv, TableTypeOK
  <2>2. DOMAIN req' = Request /\ \A x \in Request : req'[x] \in {Idle, Done} \/ req'[x] \in Full
    BY <1>4 DEF TableInv, TableTypeOK, Full
  <2> QED
    BY <1>3, <2>1, <2>2 DEF TableInv, TableTypeOK, Full
<1>6. AsDecided(g, u, row)'
  <2>1. CASE AsDecided(g, u, row) /\ UNCHANGED <<granted, contested>>
    BY <2>1 DEF AsDecided
  <2>2. CASE Decide(g, u, row)
    BY <2>2, DecideOwn
  <2> QED
    BY <2>1, <2>2
<1>7. ASSUME NEW h, NEW v, NEW w, <<h, v, w.gen>> # <<g, u, row.gen>>, AsDecided(h, v, w)
      PROVE  AsDecided(h, v, w)'
  <2>1. CASE UNCHANGED <<granted, contested>>
    BY <1>7, <2>1 DEF AsDecided
  <2>2. CASE Decide(g, u, row)
    BY <1>7, <2>2, DecideOthers
  <2> QED
    BY <2>1, <2>2
<1>8. RolesAreDecidedByAdmins'
  <2> SUFFICES ASSUME NEW h \in Group, NEW v \in User, members'[h][v] # NoRow
               PROVE  AsDecided(h, v, members[h][v])'
    BY DEF RolesAreDecidedByAdmins, AsDecided
  <2>1. CASE h = g /\ v = u
    <3>1. members'[h][v] = row
      BY <2>1 DEF TableInv, TableTypeOK
    <3> QED
      BY <1>6, <2>1, <3>1 DEF AsDecided
  <2>2. CASE ~(h = g /\ v = u)
    <3>1. members'[h][v] = members[h][v]
      BY <2>2 DEF TableInv, TableTypeOK
    <3>2. AsDecided(h, v, members[h][v])
      BY <3>1 DEF TableInv, RolesAreDecidedByAdmins, AsDecided
    <3>3. PICK w : w = members[h][v]
      OBVIOUS
    <3>4. AsDecided(h, v, w)'
      BY <1>7, <2>2, <3>2, <3>3
    <3> QED
      BY <3>1, <3>3, <3>4 DEF AsDecided
  <2> QED
    BY <2>1, <2>2
<1>9. GensBound'
  <2>1. ASSUME NEW h \in Group, NEW v \in User, members'[h][v] # NoRow
        PROVE  members'[h][v].gen <= gens'[h][v]
    <3>1. CASE h = g /\ v = u
      <4>1. members'[h][v] = row
        BY <3>1 DEF TableInv, TableTypeOK
      <4> QED
        BY <3>1, <4>1
    <3>2. CASE ~(h = g /\ v = u)
      <4>1. members'[h][v] = members[h][v] /\ members[h][v] \in Row
        BY <2>1, <3>2 DEF TableInv, TableTypeOK
      <4>2. members[h][v].gen <= gens[h][v] /\ members[h][v].gen \in Nat
        BY <2>1, <4>1 DEF TableInv, GensBound, Row
      <4>3. gens[h][v] \in Nat /\ gens'[h][v] \in Nat
        BY <1>0
      <4> QED
        BY <4>1, <4>2, <4>3
    <3> QED
      BY <3>1, <3>2
  <2>2. ASSUME NEW h \in Group, NEW v \in User, NEW n \in Nat, <<h, v, n>> \in granted'
        PROVE  n <= gens'[h][v]
    <3>1. CASE <<h, v, n>> = <<g, u, row.gen>>
      BY <3>1
    <3>2. CASE <<h, v, n>> \in granted
      <4>1. n <= gens[h][v]
        BY <3>2 DEF TableInv, GensBound
      <4>2. gens[h][v] \in Nat /\ gens'[h][v] \in Nat
        BY <1>0
      <4> QED
        BY <4>1, <4>2
    <3> QED
      BY <1>2, <2>2, <3>1, <3>2
  <2> QED
    BY <2>1, <2>2 DEF GensBound
<1>10. RequestsInBounds'
  <2> SUFFICES ASSUME NEW x \in Request PROVE InBounds(req[x])'
    BY DEF RequestsInBounds
  <2>1. CASE x = r
    BY <1>4, <2>1 DEF InBounds
  <2>2. CASE x # r
    <3>1. req'[x] = req[x] /\ InBounds(req[x])
      BY <1>4, <2>2 DEF TableInv, RequestsInBounds
    <3>2. CASE req[x].step \in {"check", "write"}
      <4> DEFINE q == req[x]
      <4>1. q \in Full /\ q.row \in Row /\ q.row.gen <= gens[q.g][q.u]
            /\ (q.ch.isGroupAdmin = {} => AsDecided(q.g, q.u, q.row))
        BY <3>1, <3>2, InFlight DEF InBounds, TableInv, Steps
      <4>2. q.g \in Group /\ q.u \in User /\ q.row.gen \in Nat
        BY <4>1 DEF Full, Row
      <4>3. q.row.gen <= gens'[q.g][q.u]
        <5>1. gens[q.g][q.u] \in Nat /\ gens'[q.g][q.u] \in Nat
              /\ gens[q.g][q.u] <= gens'[q.g][q.u]
          BY <1>0, <4>2
        <5> QED
          BY <4>1, <4>2, <5>1
      <4>4. ASSUME q.ch.isGroupAdmin = {} PROVE AsDecided(q.g, q.u, q.row)'
        <5>1. CASE UNCHANGED <<granted, contested>>
          BY <3>1, <4>1, <4>4, <5>1 DEF AsDecided
        <5>2. CASE Decide(g, u, row) /\ <<q.g, q.u, q.row.gen>> # <<g, u, row.gen>>
          <6>1. PICK h, v, w : h = q.g /\ v = q.u /\ w = q.row
            OBVIOUS
          <6>2. AsDecided(h, v, w)'
            BY <1>7, <4>1, <4>4, <5>2, <6>1
          <6> QED
            BY <3>1, <6>1, <6>2
        <5>3. CASE Decide(g, u, row) /\ <<q.g, q.u, q.row.gen>> = <<g, u, row.gen>>
          <6>1. PICK w \in Row : w = q.row
            BY <4>1
          <6>2. Carries(x, g, u, row.gen, w.isGroupAdmin)
            BY <3>2, <4>4, <5>3, <6>1 DEF Carries
          <6>3. AsDecided(g, u, w)'
            BY <5>3, <6>1, <6>2, DecideOwn
          <6> QED
            BY <3>1, <5>3, <6>1, <6>3
        <5> QED
          BY <5>1, <5>2, <5>3
      <4> QED
        BY <3>1, <3>2, <4>1, <4>3, <4>4 DEF InBounds
    <3>3. CASE req[x].step \notin {"check", "write"}
      BY <3>1, <3>3 DEF InBounds
    <3> QED
      BY <3>2, <3>3
  <2> QED
    BY <2>1, <2>2
<1> QED
  BY <1>5, <1>8, <1>9, <1>10 DEF TableInv

LEMMA InsertStep ==
  ASSUME TableInv, NEW r \in Request, AddMemberInsert(r)
  PROVE  TableInv'
<1> DEFINE q   == req[r]
           row == [gen          |-> gens[q.g][q.u] + 1,
                   canRead      |-> OrElse(q.ch.canRead, TRUE),
                   canWrite     |-> OrElse(q.ch.canWrite, FALSE),
                   isGroupAdmin |-> OrElse(q.ch.isGroupAdmin, FALSE)]
<1>1. q \in Full /\ q.step = "insert"
  BY InFlight DEF AddMemberInsert, TableInv, Steps
<1>2. q.g \in Group /\ q.u \in User /\ q.caller \in User /\ q.ch \in Body
  BY <1>1 DEF Full
<1>3. gens[q.g][q.u] \in Nat /\ gens[q.g][q.u] + 1 \in Nat
  BY <1>2 DEF TableInv, TableTypeOK
<1>4. row \in Row /\ row.gen = gens[q.g][q.u] + 1
  BY <1>2, <1>3, OrElseType DEF Row, Body
<1>5. ASSUME q.caller \notin Admin PROVE AsDecided(q.g, q.u, row)
  <2>1. ~OrElse(q.ch.isGroupAdmin, FALSE)
    BY <1>1, <1>2, <1>5, OrElseType DEF Body, TableInv, RequestsInBounds, InBounds
  <2>2. ~row.isGroupAdmin
    BY <2>1
  <2>3. ASSUME <<q.g, q.u, row.gen>> \in granted PROVE FALSE
    <3>1. row.gen <= gens[q.g][q.u]
      BY <1>2, <1>3, <1>4, <2>3 DEF TableInv, GensBound
    <3> QED
      BY <1>3, <1>4, <3>1
  <2> QED
    BY <2>2, <2>3 DEF AsDecided
<1>6. CASE groups[q.g] = "live" /\ members[q.g][q.u] = NoRow
  <2>1. /\ members' = [members EXCEPT ![q.g][q.u] = row]
        /\ gens' = [gens EXCEPT ![q.g][q.u] = row.gen]
        /\ IF q.caller \in Admin THEN Decide(q.g, q.u, row) ELSE UNCHANGED <<granted, contested>>
        /\ req' = [req EXCEPT ![r].step = "publish"]
        /\ UNCHANGED <<groups, unannounced>>
    BY <1>6 DEF AddMemberInsert, Goto
  <2>2. gens' \in [Group -> [User -> Nat]]
    BY <1>2, <1>3, <2>1 DEF TableInv, TableTypeOK
  <2>3. ASSUME NEW h \in Group, NEW v \in User
        PROVE  gens[h][v] <= gens'[h][v]
    <3>1. gens[h][v] \in Nat
      BY DEF TableInv, TableTypeOK
    <3>2. gens'[h][v] = IF h = q.g /\ v = q.u THEN gens[q.g][q.u] + 1 ELSE gens[h][v]
      BY <1>2, <1>4, <2>1 DEF TableInv, TableTypeOK
    <3> QED
      BY <1>3, <3>1, <3>2
  <2>4. row.gen <= gens'[q.g][q.u]
    <3>1. gens'[q.g][q.u] = row.gen
      BY <1>2, <2>1 DEF TableInv, TableTypeOK
    <3> QED
      BY <1>3, <1>4, <3>1
  <2> HIDE DEF row
  <2>5. \/ AsDecided(q.g, q.u, row) /\ UNCHANGED <<granted, contested>>
        \/ Decide(q.g, q.u, row) /\ (req[r].step \in {"check", "write"} => req[r].ch.isGroupAdmin # {})
    BY <1>1, <1>5, <2>1
  <2> HIDE DEF q
  <2> QED
    BY <1>1, <1>2, <1>4, <2>1, <2>2, <2>3, <2>4, <2>5, WriteStep DEF q
<1>7. CASE ~(groups[q.g] = "live" /\ members[q.g][q.u] = NoRow)
  BY <1>7, ReqOnlyStep, DoneInBounds DEF AddMemberInsert, Finish
<1> QED
  BY <1>6, <1>7

LEMMA UpdateStep ==
  ASSUME TableInv, NEW r \in Request, UpdateMemberWrite(r)
  PROVE  TableInv'
<1> DEFINE q == req[r]
<1>1. q \in Full /\ q.step = "write"
  BY InFlight DEF UpdateMemberWrite, TableInv, Steps
<1>2. /\ q.g \in Group /\ q.u \in User /\ q.caller \in User /\ q.row \in Row
      /\ q.row.gen <= gens[q.g][q.u]
      /\ q.ch.isGroupAdmin = {} => AsDecided(q.g, q.u, q.row)
      /\ q.ch.isGroupAdmin = {} \/ q.caller \in Admin
  BY <1>1 DEF Full, TableInv, RequestsInBounds, InBounds
<1>3. CASE Matches(q.g, q.u, q.row)
  <2>1. /\ members' = [members EXCEPT ![q.g][q.u] = q.row]
        /\ IF q.caller \in Admin /\ q.ch.isGroupAdmin # {}
             THEN Decide(q.g, q.u, q.row) ELSE UNCHANGED <<granted, contested>>
        /\ req' = [req EXCEPT ![r].step = "publish"]
        /\ UNCHANGED <<groups, gens, unannounced>>
    BY <1>3 DEF UpdateMemberWrite, Goto
  <2>2. /\ gens' \in [Group -> [User -> Nat]]
        /\ \A h \in Group, v \in User : gens[h][v] \in Nat
    BY <2>1 DEF TableInv, TableTypeOK
  <2>3. /\ \A h \in Group, v \in User : gens[h][v] <= gens'[h][v]
        /\ q.row.gen <= gens'[q.g][q.u]
    BY <1>2, <2>1, <2>2
  <2>4. \/ AsDecided(q.g, q.u, q.row) /\ UNCHANGED <<granted, contested>>
        \/ /\ Decide(q.g, q.u, q.row)
           /\ req[r].step \in {"check", "write"} => req[r].ch.isGroupAdmin # {}
    BY <1>2, <2>1
  <2> HIDE DEF q
  <2> QED
    BY <1>1, <1>2, <2>1, <2>2, <2>3, <2>4, WriteStep DEF q
<1>4. CASE ~Matches(q.g, q.u, q.row)
  BY <1>4, ReqOnlyStep, DoneInBounds DEF UpdateMemberWrite, Finish
<1> QED
  BY <1>3, <1>4

\* The target's role is read: on to the DELETE, or the end.
LEMMA TargetStep ==
  ASSUME TableInv, NEW r \in Request, RemoveMemberTarget(r)
  PROVE  TableInv'
<1>1. req[r] \in Full
  BY InFlight DEF RemoveMemberTarget, TableInv, Steps
<1>2. CASE req' = [req EXCEPT ![r] = Done]
  BY <1>2, ReqOnlyStep, DoneInBounds DEF RemoveMemberTarget
<1>3. CASE req' # [req EXCEPT ![r] = Done]
  <2> DEFINE p == [req[r] EXCEPT !.step = "delete"]
  <2>1. req' = [req EXCEPT ![r] = p]
    BY <1>3 DEF RemoveMemberTarget, Goto, Finish, TableInv, TableTypeOK
  <2>2. p \in Full /\ p.step = "delete"
    BY <1>1 DEF Full, Steps
  <2> HIDE DEF p
  <2>3. InBounds(p)
    BY <2>2 DEF InBounds
  <2> QED
    BY <2>1, <2>2, <2>3, ReqOnlyStep DEF RemoveMemberTarget
<1> QED
  BY <1>2, <1>3

\* Deletions: rows only go away, and at most one request moves on.
LEMMA DeletionStep ==
  ASSUME TableInv, NEW r \in Request,
         groups' \in [Group -> {"unborn", "live", "deleted"}],
         members' \in [Group -> [User -> Row \cup {NoRow}]],
         \A g \in Group, u \in User : members'[g][u] \in {members[g][u], NoRow},
         \/ req' = req
         \/ req[r] \in Full /\ req' = [req EXCEPT ![r].step = "publish"]
         \/ req' = [req EXCEPT ![r] = Done],
         unannounced' \subseteq User,
         UNCHANGED <<gens, granted, contested>>
  PROVE  TableInv'
<1>1. /\ DOMAIN req' = Request
      /\ \A x \in Request \ {r} : req'[x] = req[x]
      /\ req'[r] = req[r] \/ req'[r] = Done
           \/ (req'[r] \in Full /\ req'[r].step = "publish")
  <2>1. DOMAIN req = Request
    BY DEF TableInv, TableTypeOK
  <2>2. CASE req' = req
    BY <2>1, <2>2
  <2>3. CASE req' = [req EXCEPT ![r] = Done]
    BY <2>1, <2>3
  <2>4. CASE req[r] \in Full /\ req' = [req EXCEPT ![r].step = "publish"]
    <3>1. req'[r] = [req[r] EXCEPT !.step = "publish"]
      BY <2>1, <2>4
    <3> QED
      BY <2>1, <2>4, <3>1 DEF Full, Steps
  <2> QED
    BY <2>2, <2>3, <2>4
<1>2. TableTypeOK'
  BY <1>1 DEF TableInv, TableTypeOK, Full
<1>3. RolesAreDecidedByAdmins' /\ GensBound'
  BY DEF TableInv, RolesAreDecidedByAdmins, GensBound
<1>4. RequestsInBounds'
  <2>1. \A x \in Request : req'[x] = req[x] \/ req'[x].step \in {"publish", "done"}
    BY <1>1 DEF Done
  <2>2. ASSUME NEW x \in Request PROVE InBounds(req'[x])
    BY <2>1 DEF TableInv, RequestsInBounds, InBounds
  <2> QED
    BY <2>2 DEF RequestsInBounds, InBounds, AsDecided
<1> QED
  BY <1>2, <1>3, <1>4 DEF TableInv

LEMMA RemoveStep ==
  ASSUME TableInv, NEW r \in Request, RemoveMemberDelete(r)
  PROVE  TableInv'
<1> DEFINE q == req[r]
<1>1. q \in Full
  BY InFlight DEF RemoveMemberDelete, TableInv, Steps
<1>2. q.g \in Group /\ q.u \in User
  BY <1>1 DEF Full
<1>3. CASE members[q.g][q.u] # NoRow
  <2>1. /\ members' = [members EXCEPT ![q.g][q.u] = NoRow]
        /\ req' = [req EXCEPT ![r].step = "publish"]
        /\ UNCHANGED <<groups, gens, granted, contested, unannounced>>
    BY <1>3 DEF RemoveMemberDelete, Goto
  <2>2. /\ members' \in [Group -> [User -> Row \cup {NoRow}]]
        /\ \A g \in Group, u \in User : members'[g][u] \in {members[g][u], NoRow}
    BY <1>2, <2>1 DEF TableInv, TableTypeOK
  <2>3. /\ groups' \in [Group -> {"unborn", "live", "deleted"}]
        /\ unannounced' \subseteq User
    BY <2>1 DEF TableInv, TableTypeOK
  <2> HIDE DEF q
  <2> QED
    BY <1>1, <2>1, <2>2, <2>3, DeletionStep DEF q
<1>4. CASE members[q.g][q.u] = NoRow
  BY <1>4, ReqOnlyStep, DoneInBounds DEF RemoveMemberDelete, Finish
<1> QED
  BY <1>3, <1>4

LEMMA PublishStep ==
  ASSUME TableInv, NEW r \in Request, publishMembershipChanged(r)
  PROVE  TableInv'
<1>1. req[r].u \in User
  BY InFlight DEF publishMembershipChanged, TableInv, Steps, Full
<1>2. unannounced' \subseteq User
  BY <1>1 DEF publishMembershipChanged, TableInv, TableTypeOK
<1>3. /\ groups' \in [Group -> {"unborn", "live", "deleted"}]
      /\ members' \in [Group -> [User -> Row \cup {NoRow}]]
      /\ \A g \in Group, u \in User : members'[g][u] \in {members[g][u], NoRow}
  BY DEF publishMembershipChanged, TableInv, TableTypeOK
<1> QED
  BY <1>2, <1>3, DeletionStep DEF publishMembershipChanged, Finish

LEMMA GroupStep ==
  ASSUME TableInv, NEW g \in Group, CreateGroup(g) \/ DeleteGroup(g)
  PROVE  TableInv'
<1>1. /\ groups' \in [Group -> {"unborn", "live", "deleted"}]
      /\ members' \in [Group -> [User -> Row \cup {NoRow}]]
      /\ \A h \in Group, u \in User : members'[h][u] \in {members[h][u], NoRow}
      /\ unannounced' \subseteq User
      /\ UNCHANGED <<gens, req, granted, contested>>
  <2>1. CASE CreateGroup(g)
    BY <2>1 DEF CreateGroup, TableInv, TableTypeOK
  <2>2. CASE DeleteGroup(g)
    <3>1. members' \in [Group -> [User -> Row \cup {NoRow}]]
      BY <2>2 DEF DeleteGroup, TableInv, TableTypeOK
    <3>2. \A h \in Group, u \in User : members'[h][u] \in {members[h][u], NoRow}
      BY <2>2 DEF DeleteGroup, TableInv, TableTypeOK
    <3> QED
      BY <2>2, <3>1, <3>2 DEF DeleteGroup, TableInv, TableTypeOK
  <2> QED
    BY <2>1, <2>2
<1>2. TableTypeOK'
  BY <1>1 DEF TableInv, TableTypeOK
<1>3. RolesAreDecidedByAdmins' /\ GensBound'
  BY <1>1 DEF TableInv, RolesAreDecidedByAdmins, GensBound
<1>4. RequestsInBounds'
  BY <1>1 DEF TableInv, RequestsInBounds, InBounds, AsDecided
<1> QED
  BY <1>2, <1>3, <1>4 DEF TableInv

LEMMA NextTableInv == TableInv /\ [GroupNext]_gvars => TableInv'
<1> SUFFICES ASSUME TableInv, [GroupNext]_gvars PROVE TableInv'
  OBVIOUS
<1>1. CASE UNCHANGED gvars
  BY <1>1 DEF gvars, TableInv, TableTypeOK, RolesAreDecidedByAdmins, GensBound,
     RequestsInBounds, InBounds, AsDecided
<1>2. ASSUME NEW r \in Request, RequestStep(r)
      PROVE  TableInv'
  BY <1>2, BeginStep, CheckStep, InsertStep, UpdateStep, TargetStep, RemoveStep, PublishStep
     DEF RequestStep
<1>3. ASSUME NEW g \in Group, CreateGroup(g) \/ DeleteGroup(g)
      PROVE  TableInv'
  BY <1>3, GroupStep
<1> QED
  BY <1>1, <1>2, <1>3 DEF GroupNext

\* What is published by a request are events of users, whatever else is on the
\* bus.
LEMMA BusKept ==
  ASSUME TableInv, [GroupNext]_gvars, NEW M, \A u \in User : MembershipEvent(u) \in M,
         bus \in Seq(M)
  PROVE  bus' \in Seq(M)
<1>1. ASSUME NEW r \in Request, publishMembershipChanged(r)
      PROVE  bus' \in Seq(M)
  <2>1. req[r].u \in User
    BY <1>1, InFlight DEF publishMembershipChanged, TableInv, Steps, Full
  <2> QED
    BY <1>1, <2>1 DEF publishMembershipChanged
<1>2. ASSUME NEW r \in Request, RequestStep(r), ~publishMembershipChanged(r)
      PROVE  bus' = bus
  BY <1>2 DEF RequestStep, AddMemberCheck, AddMemberInsert, UpdateMemberRead,
     UpdateMemberCheck, UpdateMemberWrite, RemoveMemberCheck, RemoveMemberTarget,
     RemoveMemberDelete
<1>3. ASSUME NEW g \in Group, CreateGroup(g) \/ DeleteGroup(g)
      PROVE  bus' = bus
  BY <1>3 DEF CreateGroup, DeleteGroup
<1> QED
  BY <1>1, <1>2, <1>3 DEF GroupNext, gvars

\* The inductive invariant of the requests alone.
IndInv == TableInv /\ TypeOK

THEOREM Invariance == Spec => []IndInv
<1>1. Init => IndInv
  <2> SUFFICES ASSUME Init PROVE TableInv /\ bus = <<>>
    BY DEF IndInv, TypeOK, TableInv
  <2> QED
    BY InitTableInv DEF Init
<1>2. IndInv /\ [GroupNext]_gvars => IndInv'
  <2> SUFFICES ASSUME IndInv, [GroupNext]_gvars PROVE IndInv'
    OBVIOUS
  <2> DEFINE E == {MembershipEvent(u) : u \in User}
  <2>1. TableInv'
    BY NextTableInv DEF IndInv
  <2>2. bus' \in Seq(E)
    <3>1. (\A u \in User : MembershipEvent(u) \in E) /\ bus \in Seq(E)
      BY DEF IndInv, TypeOK
    <3> HIDE DEF E
    <3> QED
      BY <3>1, BusKept DEF IndInv
  <2> QED
    BY <2>1, <2>2 DEF IndInv, TableInv, TypeOK
<1> QED
  BY <1>1, <1>2, PTL DEF Spec

\* The table, the requests in flight and the events keep their types.
THEOREM TypeCorrect == Spec => []TypeOK
BY Invariance, PTL DEF IndInv

\* However the requests interleave, the role in a member's present row is the
\* one a system admin decided, unless the decision met an update in flight.
THEOREM RolesDecided == Spec => []RolesAreDecidedByAdmins
BY Invariance, PTL DEF IndInv, TableInv

-----------------------------------------------------------------------------

\* A step that fills an empty place in the table is the INSERT of a request for
\* that place.
LEMMA AddedByInsert ==
  ASSUME TableTypeOK, GroupNext, NEW g \in Group, NEW u \in User,
         members[g][u] = NoRow, members'[g][u] # NoRow
  PROVE  \E r \in Request : AddMemberInsert(r) /\ req[r].g = g /\ req[r].u = u
<1>1. ASSUME NEW h \in Group, CreateGroup(h) \/ DeleteGroup(h) PROVE FALSE
  <2>1. CASE CreateGroup(h)
    BY <2>1 DEF CreateGroup
  <2>2. CASE DeleteGroup(h)
    <3>1. members' = [members EXCEPT ![h] = [v \in User |-> NoRow]]
      BY <2>2 DEF DeleteGroup
    <3>2. members'[g][u] \in {members[g][u], NoRow}
      BY <3>1 DEF TableTypeOK
    <3> QED
      BY <3>2
  <2> QED
    BY <1>1, <2>1, <2>2
<1>2. PICK r \in Request : RequestStep(r)
  BY <1>1 DEF GroupNext
<1>3. members' # members
  OBVIOUS
<1>4. AddMemberInsert(r) \/ UpdateMemberWrite(r) \/ RemoveMemberDelete(r)
  BY <1>2, <1>3 DEF RequestStep, AddMemberCheck, UpdateMemberRead, RemoveMemberCheck,
     RemoveMemberTarget, UpdateMemberCheck, publishMembershipChanged
<1>5. req[r] \in Full
  BY <1>4, InFlight DEF AddMemberInsert, UpdateMemberWrite, RemoveMemberDelete, Steps
<1>6. req[r].g \in Group /\ req[r].u \in User
  BY <1>5 DEF Full
<1>7. ~RemoveMemberDelete(r)
  BY <1>3, <1>6, OneRow DEF RemoveMemberDelete
<1>8. ~UpdateMemberWrite(r)
  BY <1>3, <1>6, OneRow DEF UpdateMemberWrite, Matches
<1>9. AddMemberInsert(r)
  BY <1>4, <1>7, <1>8
<1>10. req[r].g = g /\ req[r].u = u
  <2>1. PICK x : members' = [members EXCEPT ![req[r].g][req[r].u] = x]
    BY <1>3, <1>9 DEF AddMemberInsert
  <2>2. members'[g][u] = IF g = req[r].g /\ u = req[r].u THEN x ELSE members[g][u]
    BY <1>6, <2>1, OneRow
  <2> QED
    BY <2>2
<1> QED
  BY <1>9, <1>10

\* An update or a removal in flight never brings a removed member back.
THEOREM NoResurrection == Spec => OnlyAddMemberAdds
<1>1. TableTypeOK /\ [GroupNext]_gvars =>
        [\A g \in Group, u \in User :
           members[g][u] = NoRow /\ members'[g][u] # NoRow
             => \E r \in Request : AddMemberInsert(r) /\ req[r].g = g /\ req[r].u = u]_gvars
  BY AddedByInsert
<1> QED
  BY <1>1, Invariance, PTL DEF Spec, OnlyAddMemberAdds, IndInv, TableInv

-----------------------------------------------------------------------------
(* The hub.                                                                *)

Excused(c) == Pending(ClientUser[c]) \/ ClientUser[c] \in unannounced \/ c \in missed

\* Connections that are still being set up included.
OpenViewsAreExcused ==
  \A c \in Client : link[c] # "offline" => Current(c) \/ Excused(c)

RoutingInv == TableInv /\ RoutingTypeOK /\ OpenViewsAreExcused

\* An event that has been published stays on the bus until it is the head.
LEMMA AppendKeeps ==
  ASSUME NEW M, NEW q \in Seq(M), NEW m \in M, NEW e, NEW i \in DOMAIN q, q[i] = e
  PROVE  \E j \in DOMAIN Append(q, m) : Append(q, m)[j] = e
<1>1. i \in DOMAIN Append(q, m) /\ Append(q, m)[i] = q[i]
  OBVIOUS
<1> QED
  BY <1>1

LEMMA AppendAdds ==
  ASSUME NEW M, NEW q \in Seq(M), NEW m \in M
  PROVE  \E j \in DOMAIN Append(q, m) : Append(q, m)[j] = m
<1>1. Len(q) + 1 \in DOMAIN Append(q, m) /\ Append(q, m)[Len(q) + 1] = m
  OBVIOUS
<1> QED
  BY <1>1

LEMMA TailKeeps ==
  ASSUME NEW M, NEW q \in Seq(M), q # <<>>, NEW e, e # Head(q), NEW i \in DOMAIN q, q[i] = e
  PROVE  \E j \in DOMAIN Tail(q) : Tail(q)[j] = e
<1>1. i # 1 /\ i \in 1..Len(q)
  OBVIOUS
<1>2. i - 1 \in DOMAIN Tail(q) /\ Tail(q)[i - 1] = q[i]
  BY <1>1
<1> QED
  BY <1>2

LEMMA EventIsMessage == \A u \in User : MembershipEvent(u) \in Message
BY DEF Message

LEMMA HeadOfBus ==
  ASSUME bus \in Seq(Message), bus # <<>>
  PROVE  /\ Head(bus) \in Message
         /\ Head(bus).kind = "membership" =>
              \E u \in User : Head(bus) = MembershipEvent(u) /\ Head(bus).u = u
         /\ Head(bus).kind # "membership" =>
              Head(bus).g \in Group /\ \A u \in User : Head(bus) # MembershipEvent(u)
         /\ Tail(bus) \in Seq(Message)
<1>1. Head(bus) \in Message /\ Tail(bus) \in Seq(Message)
  OBVIOUS
<1> QED
  BY <1>1 DEF Message, MembershipEvent

LEMMA InitRouting == RoutingInit => RoutingInv
<1> SUFFICES ASSUME RoutingInit PROVE RoutingInv
  OBVIOUS
<1>1. TableInv /\ bus = <<>>
  BY InitTableInv DEF RoutingInit, Init
<1>2. traffic \in 0..MaxTraffic
  BY TrafficAssumption DEF RoutingInit
<1>3. RoutingTypeOK
  BY <1>1, <1>2 DEF RoutingInit, RoutingTypeOK, TableInv, View, NoGroups
<1> QED
  BY <1>1, <1>3 DEF RoutingInv, RoutingInit, OpenViewsAreExcused

-----------------------------------------------------------------------------
(* What a membership request does to the excuses of a user: his rows stay  *)
(* as they are or an excuse appears, and no excuse goes away.              *)

ExcuseKept(u) ==
  /\ Pending(u) => (Pending(u) \/ u \in unannounced)'
  /\ u \in unannounced => u \in unannounced'
  /\ ListMembershipsByUserID(u)' = ListMembershipsByUserID(u)
       \/ (Pending(u) \/ u \in unannounced)'

\* A request that was not about to publish moves on, and no row changes but
\* one whose user it is about to announce.
LEMMA QuietRequest ==
  ASSUME TableInv, NEW r \in Request, req[r].step # "publish", NEW q, req' = [req EXCEPT ![r] = q],
         UNCHANGED <<bus, unannounced>>, NEW u \in User,
         UNCHANGED members \/ (q.step = "publish" /\ q.u = u)
         \/ \A g \in Group : members'[g][u] = members[g][u]
  PROVE  ExcuseKept(u)
<1>1. \A x \in Request : x # r => req'[x] = req[x]
  BY DEF TableInv, TableTypeOK
<1>2. req'[r] = q
  BY DEF TableInv, TableTypeOK
<1>3. Pending(u) => Pending(u)'
  BY <1>1 DEF Pending
<1>4. (q.step = "publish" /\ q.u = u) => Pending(u)'
  BY <1>2 DEF Pending
<1> QED
  BY <1>3, <1>4 DEF ExcuseKept, ListMembershipsByUserID

\* The writes of the requests: one row, then "publish".
LEMMA WriteExcused ==
  ASSUME TableInv, NEW r \in Request, req[r] \in Full, req[r].step # "publish", NEW x,
         members' = [members EXCEPT ![req[r].g][req[r].u] = x], Goto(r, "publish"),
         UNCHANGED <<bus, unannounced>>, NEW u \in User
  PROVE  ExcuseKept(u)
<1> DEFINE q == [req[r] EXCEPT !.step = "publish"]
<1>1. req' = [req EXCEPT ![r] = q]
  BY DEF Goto, TableInv, TableTypeOK
<1>2. q.step = "publish" /\ q.u = req[r].u
  BY DEF Full
<1>3. req[r].g \in Group /\ req[r].u \in User
  BY DEF Full
<1>4. u # req[r].u => \A g \in Group : members'[g][u] = members[g][u]
  BY <1>3, OneRow DEF TableInv
<1> HIDE DEF q
<1> QED
  BY <1>1, <1>2, <1>4, QuietRequest

LEMMA PublishExcused ==
  ASSUME TableInv, bus \in Seq(Message), NEW r \in Request, publishMembershipChanged(r),
         NEW u \in User
  PROVE  ExcuseKept(u)
<1>1. req[r].u \in User
  BY InFlight DEF publishMembershipChanged, TableInv, Steps, Full
<1>2. \A x \in Request : x # r => req'[x] = req[x]
  BY DEF publishMembershipChanged, Finish, TableInv, TableTypeOK
<1>3. UNCHANGED members /\ unannounced \subseteq unannounced'
  BY DEF publishMembershipChanged
<1>4. ASSUME NEW i \in DOMAIN bus, bus[i] = MembershipEvent(u)
      PROVE  Pending(u)'
  <2>1. \E j \in DOMAIN bus' : bus'[j] = MembershipEvent(u)
    BY <1>1, <1>4, AppendKeeps, EventIsMessage DEF publishMembershipChanged
  <2> QED
    BY <2>1 DEF Pending
<1>5. ASSUME req[r].u = u
      PROVE  (Pending(u) \/ u \in unannounced)'
  <2>1. CASE bus' = Append(bus, MembershipEvent(u))
    BY <2>1, AppendAdds, EventIsMessage DEF Pending
  <2> QED
    BY <1>5, <2>1 DEF publishMembershipChanged
<1>6. Pending(u) => (Pending(u) \/ u \in unannounced)'
  <2>1. ASSUME NEW x \in Request, req[x].step = "publish", req[x].u = u, x # r
        PROVE  Pending(u)'
    BY <1>2, <2>1 DEF Pending
  <2> QED
    BY <1>4, <1>5, <2>1 DEF Pending
<1> QED
  BY <1>3, <1>6 DEF ExcuseKept, ListMembershipsByUserID

LEMMA RequestExcused ==
  ASSUME TableInv, bus \in Seq(Message), NEW r \in Request, RequestStep(r), NEW u \in User
  PROVE  ExcuseKept(u)
<1>1. ASSUME NEW caller \in User, NEW g \in Group, NEW v \in User,
             \/ \E ch \in Change : AddMemberCheck(r, caller, g, v, ch)
                                   \/ UpdateMemberRead(r, caller, g, v, ch)
             \/ RemoveMemberCheck(r, caller, g, v)
      PROVE  ExcuseKept(u)
  BY <1>1, QuietRequest DEF AddMemberCheck, UpdateMemberRead, RemoveMemberCheck, Begin
<1>2. CASE UpdateMemberCheck(r)
  BY <1>2, QuietRequest DEF UpdateMemberCheck, Finish
<1>3. CASE AddMemberInsert(r)
  <2>1. req[r] \in Full /\ req[r].step # "publish"
    BY <1>3, InFlight DEF AddMemberInsert, TableInv, Steps
  <2>2. CASE groups[req[r].g] = "live" /\ members[req[r].g][req[r].u] = NoRow
    BY <1>3, <2>1, <2>2, WriteExcused DEF AddMemberInsert
  <2>3. CASE ~(groups[req[r].g] = "live" /\ members[req[r].g][req[r].u] = NoRow)
    BY <1>3, <2>1, <2>3, QuietRequest DEF AddMemberInsert, Finish
  <2> QED
    BY <2>2, <2>3
<1>4. CASE UpdateMemberWrite(r)
  <2>1. req[r] \in Full /\ req[r].step # "publish"
    BY <1>4, InFlight DEF UpdateMemberWrite, TableInv, Steps
  <2>2. CASE Matches(req[r].g, req[r].u, req[r].row)
    BY <1>4, <2>1, <2>2, WriteExcused DEF UpdateMemberWrite
  <2>3. CASE ~Matches(req[r].g, req[r].u, req[r].row)
    BY <1>4, <2>1, <2>3, QuietRequest DEF UpdateMemberWrite, Finish
  <2> QED
    BY <2>2, <2>3
<1>5. CASE RemoveMemberTarget(r)
  <2>1. req[r].step # "publish"
    BY <1>5 DEF RemoveMemberTarget
  <2>2. CASE req' = [req EXCEPT ![r] = Done]
    BY <1>5, <2>1, <2>2, QuietRequest DEF RemoveMemberTarget
  <2>3. CASE req' # [req EXCEPT ![r] = Done]
    <3>1. req' = [req EXCEPT ![r] = [req[r] EXCEPT !.step = "delete"]]
      BY <1>5, <2>3 DEF RemoveMemberTarget, Goto, Finish, TableInv, TableTypeOK
    <3> QED
      BY <1>5, <2>1, <3>1, QuietRequest DEF RemoveMemberTarget
  <2> QED
    BY <2>2, <2>3
<1>6. CASE RemoveMemberDelete(r)
  <2>1. req[r] \in Full /\ req[r].step # "publish"
    BY <1>6, InFlight DEF RemoveMemberDelete, TableInv, Steps
  <2>2. CASE members[req[r].g][req[r].u] # NoRow
    BY <1>6, <2>1, <2>2, WriteExcused DEF RemoveMemberDelete
  <2>3. CASE members[req[r].g][req[r].u] = NoRow
    BY <1>6, <2>1, <2>3, QuietRequest DEF RemoveMemberDelete, Finish
  <2> QED
    BY <2>2, <2>3
<1> QED
  BY <1>1, <1>2, <1>3, <1>4, <1>5, <1>6, PublishExcused DEF RequestStep

\* A deleted group's members have an excuse: they are told nothing.
LEMMA GroupExcused ==
  ASSUME TableInv, NEW g \in Group, CreateGroup(g) \/ DeleteGroup(g), NEW u \in User
  PROVE  ExcuseKept(u)
<1>1. CASE CreateGroup(g)
  BY <1>1 DEF CreateGroup, ExcuseKept, Pending, ListMembershipsByUserID
<1>2. CASE DeleteGroup(g)
  <2>1. (Pending(u) <=> Pending(u)') /\ unannounced \subseteq unannounced'
    BY <1>2 DEF DeleteGroup, Pending
  <2>2. CASE members[g][u] # NoRow
    BY <1>2, <2>1, <2>2 DEF DeleteGroup, ExcuseKept
  <2>3. CASE members[g][u] = NoRow
    <3>1. \A h \in Group : members'[h][u] = members[h][u]
      BY <1>2, <2>3 DEF DeleteGroup, TableInv, TableTypeOK
    <3> QED
      BY <2>1, <3>1 DEF ExcuseKept, ListMembershipsByUserID
  <2> QED
    BY <2>2, <2>3
<1> QED
  BY <1>1, <1>2

\* The requests, while the connections do nothing.
LEMMA GroupKeepsRouting ==
  ASSUME RoutingInv, GroupNext, UNCHANGED hvars
  PROVE  RoutingInv'
<1>1. TableInv'
  BY NextTableInv DEF RoutingInv
<1>2. bus' \in Seq(Message)
  BY BusKept, EventIsMessage DEF RoutingInv, RoutingTypeOK
<1>3. RoutingTypeOK'
  BY <1>1, <1>2 DEF RoutingInv, RoutingTypeOK, TableInv, hvars
<1>4. \A u \in User : ExcuseKept(u)
  BY RequestExcused, GroupExcused DEF GroupNext, RoutingInv, RoutingTypeOK
<1>5. ASSUME NEW c \in Client, link'[c] # "offline"
      PROVE  (Current(c) \/ Excused(c))'
  <2>1. ClientUser[c] \in User
    BY ClientAssumption
  <2>2. Current(c) \/ Excused(c)
    BY <1>5 DEF RoutingInv, OpenViewsAreExcused, hvars
  <2>3. UNCHANGED <<view, missed>>
    BY DEF hvars
  <2> QED
    BY <1>4, <2>1, <2>2, <2>3 DEF ExcuseKept, Excused, Current
<1> QED
  BY <1>1, <1>3, <1>5 DEF RoutingInv, OpenViewsAreExcused

-----------------------------------------------------------------------------
(* The steps of the hub.                                                   *)

LEMMA TableUnchanged ==
  ASSUME TableInv, UNCHANGED <<groups, members, gens, req, granted, contested>>, unannounced' \subseteq User
  PROVE  TableInv'
BY DEF TableInv, TableTypeOK, RolesAreDecidedByAdmins, GensBound, RequestsInBounds, InBounds,
   AsDecided

\* A connection is set up, registered or removed.
LEMMA LinkStep ==
  ASSUME RoutingInv, NEW c \in Client, HandlerLoad(c) \/ addClient(c) \/ removeClient(c)
  PROVE  RoutingInv'
<1>1. UNCHANGED gvars /\ UNCHANGED traffic
  BY DEF HandlerLoad, addClient, removeClient
<1>2. TableInv'
  BY <1>1, TableUnchanged DEF gvars, RoutingInv, TableInv, TableTypeOK
<1>3. ClientUser[c] \in User
  BY ClientAssumption
<1>4. /\ ListMembershipsByUserID(ClientUser[c]) \in View
      /\ NoGroups \in View
  BY <1>3 DEF ListMembershipsByUserID, View, NoGroups, RoutingInv, TableInv, TableTypeOK
<1>5. RoutingTypeOK'
  BY <1>1, <1>2, <1>4 DEF HandlerLoad, addClient, removeClient, gvars, RoutingInv, RoutingTypeOK,
     TableInv
<1>6. \A d \in Client : d # c => UNCHANGED <<link[d], view[d]>> /\ (d \in missed => d \in missed')
  BY DEF HandlerLoad, addClient, removeClient, RoutingInv, RoutingTypeOK
<1>7. \A u : Pending(u) => Pending(u)'
  BY <1>1 DEF Pending, gvars
<1>8. \A d : ListMembershipsByUserID(ClientUser[d])' = ListMembershipsByUserID(ClientUser[d])
  BY <1>1 DEF ListMembershipsByUserID, gvars
<1>9. ASSUME NEW d \in Client, d # c, link'[d] # "offline"
      PROVE  (Current(d) \/ Excused(d))'
  BY <1>1, <1>6, <1>7, <1>8, <1>9 DEF Current, Excused, RoutingInv, OpenViewsAreExcused, gvars
<1>10. ASSUME link'[c] # "offline"
       PROVE  (Current(c) \/ Excused(c))'
  <2>1. CASE HandlerLoad(c)
    BY <1>8, <2>1 DEF HandlerLoad, Current, RoutingInv, RoutingTypeOK
  <2>2. CASE addClient(c)
    <3>1. Current(c) \/ Excused(c)
      BY <2>2 DEF addClient, RoutingInv, OpenViewsAreExcused
    <3> QED
      BY <1>1, <1>7, <1>8, <2>2, <3>1 DEF addClient, Current, Excused, gvars
  <2>3. CASE removeClient(c)
    BY <1>10, <2>3 DEF removeClient, RoutingInv, RoutingTypeOK
  <2> QED
    BY <2>1, <2>2, <2>3
<1> QED
  BY <1>2, <1>5, <1>9, <1>10 DEF RoutingInv, OpenViewsAreExcused

\* An event is routed: the connections of its user are brought up to date, or
\* are excused for missing it; the events of the others stay on the bus.
LEMMA RefreshStep ==
  ASSUME RoutingInv, refreshClientMemberships
  PROVE  RoutingInv'
<1>1. bus \in Seq(Message) /\ bus # <<>> /\ Head(bus).kind = "membership" /\ bus' = Tail(bus)
  BY DEF RoutingInv, RoutingTypeOK, refreshClientMemberships
<1>2. PICK u \in User : Head(bus) = MembershipEvent(u) /\ Head(bus).u = u
  BY <1>1, HeadOfBus
<1>3. bus' \in Seq(Message)
  BY <1>1, HeadOfBus
<1>4. UNCHANGED <<groups, members, gens, req, granted, contested, link, traffic>>
  BY DEF refreshClientMemberships
<1>5. \/ /\ view' = [c \in Client |-> IF c \in Refreshed(u) THEN NewMap(c) ELSE view[c]]
         /\ missed' = (missed \ Refreshed(u))
                        \cup {c \in Client : link[c] = "loaded" /\ ClientUser[c] = u}
         /\ unannounced' = unannounced \ {u}
      \/ /\ unannounced' = unannounced \cup {u}
         /\ UNCHANGED <<view, missed>>
  BY <1>2 DEF refreshClientMemberships
<1>6. TableInv'
  BY <1>4, <1>5, TableUnchanged DEF RoutingInv, TableInv, TableTypeOK
<1>7. \A c \in Client : NewMap(c) \in View
  BY ClientAssumption DEF NewMap, ListMembershipsByUserID, View, RoutingInv, TableInv, TableTypeOK
<1>8. view' \in [Client -> View] /\ missed' \subseteq Client
  BY <1>5, <1>7 DEF RoutingInv, RoutingTypeOK
<1>9. RoutingTypeOK'
  BY <1>3, <1>4, <1>6, <1>8 DEF RoutingInv, RoutingTypeOK, TableInv
<1>10. ASSUME NEW v \in User, v # u, Pending(v)
       PROVE  Pending(v)'
  <2>1. MembershipEvent(v) # Head(bus)
    BY <1>2, <1>10 DEF MembershipEvent
  <2>2. ASSUME NEW i \in DOMAIN bus, bus[i] = MembershipEvent(v)
        PROVE  \E j \in DOMAIN bus' : bus'[j] = MembershipEvent(v)
    BY <1>1, <2>1, <2>2, TailKeeps
  <2> QED
    BY <1>4, <1>10, <2>2 DEF Pending
<1>11. \A c \in Client : ListMembershipsByUserID(ClientUser[c])' = ListMembershipsByUserID(ClientUser[c])
  BY <1>4 DEF ListMembershipsByUserID
<1>12. ASSUME NEW c \in Client, link'[c] # "offline"
       PROVE  (Current(c) \/ Excused(c))'
  <2>1. ClientUser[c] \in User /\ link[c] \in {"loaded", "registered"}
    BY <1>4, <1>12, ClientAssumption DEF RoutingInv, RoutingTypeOK
  <2>2. Current(c) \/ Excused(c)
    BY <1>4, <1>12 DEF RoutingInv, OpenViewsAreExcused
  <2>3. CASE ClientUser[c] = u /\ unannounced' = unannounced \cup {u}
    BY <2>3 DEF Excused
  <2>4. CASE /\ ClientUser[c] = u
             /\ view' = [d \in Client |-> IF d \in Refreshed(u) THEN NewMap(d) ELSE view[d]]
             /\ missed' = (missed \ Refreshed(u))
                            \cup {d \in Client : link[d] = "loaded" /\ ClientUser[d] = u}
    <3>1. CASE link[c] = "loaded"
      BY <2>4, <3>1 DEF Excused
    <3>2. CASE link[c] = "registered"
      BY <1>11, <2>4, <3>2 DEF Refreshed, Registered, NewMap, Current
    <3> QED
      BY <2>1, <3>1, <3>2
  <2>5. CASE ClientUser[c] # u
    <3>1. UNCHANGED view[c]
      BY <1>5, <2>5 DEF Refreshed
    <3>2. Excused(c) => Excused(c)'
      BY <1>5, <1>10, <2>1, <2>5 DEF Excused, Refreshed
    <3> QED
      BY <1>11, <2>2, <3>1, <3>2 DEF Current
  <2> QED
    BY <1>5, <2>3, <2>4, <2>5
<1> QED
  BY <1>6, <1>9, <1>12 DEF RoutingInv, OpenViewsAreExcused

\* Traffic comes and goes without touching an event.
LEMMA TrafficKeepsRouting ==
  ASSUME RoutingInv, bus' \in Seq(Message), traffic' \in 0..MaxTraffic,
         \A u \in User, i \in DOMAIN bus : bus[i] = MembershipEvent(u) =>
           \E j \in DOMAIN bus' : bus'[j] = MembershipEvent(u),
         UNCHANGED <<groups, members, gens, req, granted, contested, unannounced, link, view, missed>>
  PROVE  RoutingInv'
<1>1. TableInv'
  BY TableUnchanged DEF RoutingInv, TableInv, TableTypeOK
<1>2. RoutingTypeOK'
  BY <1>1 DEF RoutingInv, RoutingTypeOK, TableInv
<1>3. \A u \in User : Pending(u) => Pending(u)'
  BY DEF Pending
<1>4. \A c \in Client : Current(c) => Current(c)'
  BY DEF Current, ListMembershipsByUserID
<1>5. \A c \in Client : Excused(c) => Excused(c)'
  BY <1>3, ClientAssumption DEF Excused
<1> QED
  BY <1>1, <1>2, <1>4, <1>5 DEF RoutingInv, OpenViewsAreExcused

LEMMA PublishKeepsRouting ==
  ASSUME RoutingInv, NEW m \in Message, Publish(m)
  PROVE  RoutingInv'
<1>1. bus \in Seq(Message) /\ bus' = Append(bus, m)
  BY DEF RoutingInv, RoutingTypeOK, Publish
<1>2. traffic' \in 0..MaxTraffic
  BY TrafficAssumption DEF RoutingInv, RoutingTypeOK, Publish
<1>3. \A u \in User, i \in DOMAIN bus : bus[i] = MembershipEvent(u) =>
        \E j \in DOMAIN bus' : bus'[j] = MembershipEvent(u)
  BY <1>1, AppendKeeps
<1>4. bus' \in Seq(Message)
  BY <1>1
<1> QED
  BY <1>2, <1>3, <1>4, TrafficKeepsRouting DEF Publish

LEMMA TrafficSteps ==
  ASSUME RoutingInv, TrafficStep
  PROVE  RoutingInv'
<1>1. ASSUME NEW g \in Group, NEW u \in User, SendMessage(u, g)
      PROVE  RoutingInv'
  <2>1. [kind |-> "message", g |-> g, u |-> u] \in Message
    BY DEF Message
  <2> QED
    BY <1>1, <2>1, PublishKeepsRouting DEF SendMessage
<1>2. ASSUME NEW g \in Group, NEW c \in Client, handleLocationUpdate(c, g)
      PROVE  RoutingInv'
  <2>1. [kind |-> "location", g |-> g, d |-> ClientDevice[c]] \in Message
    BY ClientAssumption DEF Message
  <2> QED
    BY <1>2, <2>1, PublishKeepsRouting DEF handleLocationUpdate
<1> QED
  BY <1>1, <1>2 DEF TrafficStep

LEMMA RouteStep ==
  ASSUME RoutingInv, routeMessage
  PROVE  RoutingInv'
<1>1. bus \in Seq(Message) /\ bus # <<>> /\ Head(bus).kind # "membership" /\ bus' = Tail(bus)
  BY DEF RoutingInv, RoutingTypeOK, routeMessage
<1>2. bus' \in Seq(Message) /\ \A u \in User : MembershipEvent(u) # Head(bus)
  BY <1>1, HeadOfBus
<1>3. \A u \in User, i \in DOMAIN bus : bus[i] = MembershipEvent(u) =>
        \E j \in DOMAIN bus' : bus'[j] = MembershipEvent(u)
  BY <1>1, <1>2, TailKeeps
<1>4. traffic' \in 0..MaxTraffic
  BY DEF routeMessage, hvars, RoutingInv, RoutingTypeOK
<1> QED
  BY <1>2, <1>3, <1>4, TrafficKeepsRouting DEF routeMessage, hvars

LEMMA NextRouting == RoutingInv /\ [RoutingNext]_vars => RoutingInv'
<1> SUFFICES ASSUME RoutingInv, [RoutingNext]_vars PROVE RoutingInv'
  OBVIOUS
<1>1. CASE UNCHANGED vars
  <2>1. UNCHANGED <<groups, members, gens, req, granted, contested, unannounced, bus, link, view, missed, traffic>>
    BY <1>1 DEF vars, gvars, hvars
  <2> QED
    BY <2>1, TrafficKeepsRouting DEF RoutingInv, RoutingTypeOK
<1>2. CASE HubStep
  BY <1>2, RefreshStep, RouteStep, LinkStep DEF HubStep
<1> QED
  BY <1>1, <1>2, GroupKeepsRouting, TrafficSteps DEF RoutingNext

\* The inductive invariant, in every behaviour of requests, hub and traffic.
THEOREM RoutingInvariance == RoutingSpec => []RoutingInv
BY InitRouting, NextRouting, PTL DEF RoutingSpec

\* The bus, the connections and their copies of the table keep their types.
THEOREM RoutingTypeCorrect == RoutingSpec => []RoutingTypeOK
BY RoutingInvariance, PTL DEF RoutingInv

\* Composed with the hub, too, the roles are decided by system admins.
THEOREM RoutingRolesDecided == RoutingSpec => []RolesAreDecidedByAdmins
BY RoutingInvariance, PTL DEF RoutingInv, TableInv

\* A registered connection's copy is current, or its age is excused.
THEOREM StaleOnlyIfExcused == RoutingSpec => []StaleViewsAreExcused
<1>1. RoutingInv => StaleViewsAreExcused
  BY DEF RoutingInv, OpenViewsAreExcused, Excused, StaleViewsAreExcused, Registered
<1> QED
  BY <1>1, RoutingInvariance, PTL

\* Whoever is sent a group's traffic is allowed to have it by the table, except
\* under the same excuses.
THEOREM DeliveriesJustified == RoutingSpec => []DeliveriesAreJustified
<1>1. RoutingInv => DeliveriesAreJustified
  <2> SUFFICES ASSUME RoutingInv, bus # <<>>, Head(bus).kind # "membership",
                      NEW c \in Recipients(Head(bus)), ~Excused(c)
               PROVE  CheckCommunication(Policy,
                        IF Head(bus).kind = "location" THEN "view_locations" ELSE "read_messages",
                        members[Head(bus).g][ClientUser[c]], ClientUser[c] \in Admin)
    BY DEF DeliveriesAreJustified, Excused
  <2>1. Head(bus).g \in Group
    BY HeadOfBus DEF RoutingInv, RoutingTypeOK
  <2>2. c \in Client /\ link[c] = "registered"
    BY DEF Recipients, Registered
  <2>3. view[c][Head(bus).g] = members[Head(bus).g][ClientUser[c]]
    BY <2>1, <2>2 DEF RoutingInv, OpenViewsAreExcused, Current, ListMembershipsByUserID
  <2> QED
    BY <2>3 DEF Recipients
<1> QED
  BY <1>1, RoutingInvariance, PTL
=============================================================================

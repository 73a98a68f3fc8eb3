-------------------------- MODULE DefaultConfigProofs --------------------------
(***************************************************************************)
(* For every set of configurations and requests: two defaults need a race, *)
(* and without one there are four ways to have no usable default.          *)
(*                                                                         *)
(* The invariant must also speak of the requests between their statements: *)
(* one that has cleared the old default, and has not been overtaken by     *)
(* another new one, finds the table without a default but its own; and one *)
(* whose write no one would call a loss writes a usable default, or writes *)
(* to a row that is none.                                                  *)
(***************************************************************************)
EXTENDS DefaultConfig, FiniteSetTheorems, TLAPS

OneDefault == raced \/ \A c, d \in Defaults(rows) : c = d

InOrder(r) ==
  /\ req[r].c \in made
  /\ req[r].why # "boot"
  /\ (Len(req[r].todo) = 1 /\ req[r].row.def /\ ~req[r].overtaken /\ ~raced)
       => Defaults(rows) \subseteq {req[r].c}
  /\ (req[r].why = "other" /\ ~req[r].overtaken)
       => (req[r].row.def /\ req[r].row.on) \/ req[r].c \notin Usable(rows)

RequestsInOrder == \A r \in Request : InFlight(r) => InOrder(r)

\* The bootstrap inserts the default first, and admins wait for it.
Booted ==
  /\ Exists(FirstDefault) \/ \A c \in Config : rows[c] = None
  /\ server = "up" => Exists(FirstDefault)
  /\ server # "up" => \A r \in Request : req[r] = Idle

LossKnown ==
  \/ lost \in {"clear", "unset", "delete", "disabled"} \/ raced
  \/ lost = "boot" /\ (Exists(FirstDefault) => Usable(rows) # {})

IndInv == TypeOK /\ OneDefault /\ RequestsInOrder /\ Booted /\ LossKnown

-----------------------------------------------------------------------------
(* The helpers of the model.                                               *)

LEMMA GivenType ==
  ASSUME NEW opt \in {{}, {TRUE}, {FALSE}}, NEW d \in BOOLEAN
  PROVE  /\ Given(opt, d) \in BOOLEAN
         /\ opt = {} => Given(opt, d) = d
         /\ opt = {TRUE} => Given(opt, d)
         /\ opt = {FALSE} => ~Given(opt, d)
<1>1. \A v : (CHOOSE x \in {v} : TRUE) = v
  OBVIOUS
<1>2. {TRUE} # {} /\ {FALSE} # {} /\ {TRUE} # {FALSE}
  OBVIOUS
<1>3. CASE opt = {}
  BY <1>2, <1>3 DEF Given
<1>4. CASE opt = {TRUE}
  BY <1>1, <1>2, <1>4 DEF Given
<1>5. CASE opt = {FALSE}
  BY <1>1, <1>2, <1>5 DEF Given
<1> QED
  BY <1>3, <1>4, <1>5

LEMMA Primed ==
  /\ Defaults(rows)' = Defaults(rows')
  /\ Usable(rows)' = Usable(rows')
BY DEF Defaults, Usable

LEMMA NoneIsNoRow == None \notin Row
BY NoneAssumption DEF Row

\* Replacing one row adds it to the defaults or takes it away.
LEMMA OneRow ==
  ASSUME TypeOK, NEW c \in Config, NEW row \in Row
  PROVE  LET t == [rows EXCEPT ![c] = row]
         IN  /\ t \in [Config -> Row \cup {None}]
             /\ \A d \in Config : t[d] = IF d = c THEN row ELSE rows[d]
             /\ row.def => Defaults(t) = Defaults(rows) \cup {c}
             /\ ~row.def => Defaults(t) = Defaults(rows) \ {c}
             /\ row.def /\ row.on => Usable(t) = Usable(rows) \cup {c}
             /\ ~(row.def /\ row.on) => Usable(t) = Usable(rows) \ {c}
BY NoneIsNoRow DEF TypeOK, Defaults, Usable

\* A request in flight is a change with one or two statements to go.
LEMMA InFlightFacts ==
  ASSUME TypeOK, NEW r \in Request, InFlight(r)
  PROVE  /\ req[r] \in Change
         /\ req[r].todo \in Steps /\ req[r].c \in Config /\ req[r].row \in Row
         /\ req[r].why \in Losses /\ req[r].overtaken \in BOOLEAN
BY DEF TypeOK, InFlight, Change

LEMMA ChangeIsNotIdle == Idle \notin Change
BY DEF Idle, Change, Steps

\* The fields a step of another request or of the same leaves alone.
SameChange(p, q) ==
  p.c = q.c /\ p.row = q.row /\ p.why = q.why /\ p.overtaken = q.overtaken

LEMMA AdvancedFacts ==
  ASSUME TypeOK, NEW r \in Request, InFlight(r)
  PROVE  /\ Advanced(r) \in [Request -> Change \cup {Idle}]
         /\ \A x \in Request : x # r => Advanced(r)[x] = req[x]
         /\ Head(req[r].todo) # "clear" => Advanced(r)[r] = Idle
         /\ Head(req[r].todo) = "clear" =>
              /\ Advanced(r)[r] \in Change
              /\ Len(Advanced(r)[r].todo) = 1
              /\ SameChange(Advanced(r)[r], req[r])
<1> DEFINE q == Advanced(r)[r]
<1>1. req[r] \in Change /\ req[r].todo \in Steps
  BY InFlightFacts
<1>2. req \in [Request -> Change \cup {Idle}]
  BY DEF TypeOK
<1>3. q = IF Len(req[r].todo) = 1 THEN Idle ELSE [req[r] EXCEPT !.todo = Tail(req[r].todo)]
  BY <1>2 DEF Advanced
<1>4. \A x \in Request : x # r => Advanced(r)[x] = req[x]
  BY <1>2 DEF Advanced
<1>5. CASE req[r].todo \in {<<"insert">>, <<"write">>}
  <2>1. Len(req[r].todo) = 1 /\ Head(req[r].todo) # "clear"
    BY <1>5
  <2>2. q = Idle
    BY <1>3, <2>1
  <2> QED
    BY <1>2, <1>4, <2>1, <2>2 DEF Advanced
<1>6. CASE req[r].todo \in {<<"clear", "insert">>, <<"clear", "write">>}
  <2>1. Len(req[r].todo) = 2 /\ Head(req[r].todo) = "clear"
        /\ Tail(req[r].todo) \in {<<"insert">>, <<"write">>}
    <3>1. CASE req[r].todo = <<"clear", "insert">>
      BY <3>1
    <3>2. CASE req[r].todo = <<"clear", "write">>
      BY <3>2
    <3> QED
      BY <1>6, <3>1, <3>2
  <2>2. q = [req[r] EXCEPT !.todo = Tail(req[r].todo)]
    BY <1>3, <2>1
  <2>3. Len(Tail(req[r].todo)) = 1
    BY <2>1
  <2> HIDE DEF q
  <2>4. q.todo = Tail(req[r].todo) /\ SameChange(q, req[r])
    BY <1>1, <2>2 DEF Change, SameChange
  <2>5. q \in Change
    BY <1>1, <2>1, <2>2 DEF Change, Steps
  <2> QED
    BY <1>2, <1>4, <2>1, <2>3, <2>4, <2>5 DEF q, Advanced
<1> QED
  BY <1>1, <1>5, <1>6 DEF Steps

-----------------------------------------------------------------------------
(* What keeps the parts of the invariant.                                  *)

\* A request is kept in order by a step that leaves it alone, and adds no
\* default or overtakes it.
LEMMA InOrderKept ==
  ASSUME NEW r \in Request, InOrder(r), SameChange(req'[r], req[r]) \/ 
           /\ req'[r].c = req[r].c /\ req'[r].why = req[r].why /\ req'[r].overtaken,
         req'[r].todo = req[r].todo,
         made \subseteq made', raced => raced',
         \/ Defaults(rows') \subseteq Defaults(rows) /\ Usable(rows') \subseteq Usable(rows)
         \/ req'[r].overtaken
  PROVE  InOrder(r)'
BY Primed DEF InOrder, SameChange

\* The statement is named when it leaves no usable default.
LEMMA LossKept ==
  ASSUME LossKnown, Exists(FirstDefault), NEW t, NEW kind, Becomes(t, kind), raced => raced',
         \/ kind \in {"clear", "unset", "delete", "disabled"} \/ raced'
         \/ Usable(rows) # {} => Usable(t) # {}
  PROVE  LossKnown'
BY Primed DEF LossKnown, Becomes

LEMMA LostType ==
  ASSUME TypeOK, NEW t, NEW kind \in Losses, Becomes(t, kind)
  PROVE  lost' \in Losses
BY DEF TypeOK, Becomes

LEMMA InitIndInv == Init => IndInv
<1> SUFFICES ASSUME Init PROVE IndInv
  OBVIOUS
<1>1. Defaults(rows) = {}
  BY DEF Init, Defaults
<1>2. TypeOK
  BY DEF Init, TypeOK, Losses
<1>3. ~Exists(FirstDefault)
  BY BuiltinAssumption DEF Init, Exists, Config
<1> QED
  BY <1>1, <1>2, <1>3 DEF Init, IndInv, OneDefault, RequestsInOrder, InFlight, Booted, LossKnown,
     Idle

-----------------------------------------------------------------------------
(* The steps.                                                              *)

LEMMA BootStep ==
  ASSUME IndInv, CountBuiltin \/ Crash
  PROVE  IndInv'
<1>1. UNCHANGED <<rows, made, lost, raced>>
  BY DEF CountBuiltin, Crash
<1>2. \A r \in Request : req'[r] = Idle
  BY DEF CountBuiltin, Crash, IndInv, Booted
<1>3. TypeOK'
  BY <1>1 DEF CountBuiltin, Crash, IndInv, TypeOK
<1>4. RequestsInOrder'
  BY <1>2 DEF RequestsInOrder, InFlight
<1>5. Booted'
  <2>1. server' = "up" => \E c \in Config : rows[c] # None
    BY DEF CountBuiltin, Crash, Exists, Config
  <2> QED
    BY <1>1, <1>2, <2>1 DEF IndInv, Booted, Exists
<1> QED
  BY <1>1, <1>3, <1>4, <1>5, Primed DEF IndInv, OneDefault, LossKnown, Exists

LEMMA InsertBuiltinStep ==
  ASSUME IndInv, NEW c \in Builtin, InsertBuiltin(c)
  PROVE  IndInv'
<1> DEFINE row == [def |-> c = FirstDefault, on |-> TRUE]
<1>1. /\ c \in Config /\ row \in Row /\ row.def = (c = FirstDefault) /\ row.on
      /\ rows' = [rows EXCEPT ![c] = row] /\ rows[c] = None
      /\ UNCHANGED <<req, lost, raced>>
  BY DEF Config, Row, InsertBuiltin, Exists
<1>2. \A r \in Request : req[r] = Idle
  BY DEF InsertBuiltin, IndInv, Booted
<1> HIDE DEF row
<1>3. /\ rows' \in [Config -> Row \cup {None}]
      /\ \A d \in Config : rows'[d] = IF d = c THEN row ELSE rows[d]
      /\ row.def => Defaults(rows') = Defaults(rows) \cup {c} /\ Usable(rows') = Usable(rows) \cup {c}
      /\ ~row.def => Defaults(rows') = Defaults(rows) \ {c} /\ Usable(rows') = Usable(rows) \ {c}
  BY <1>1, OneRow DEF IndInv
<1>4. TypeOK'
  BY <1>1, <1>3 DEF InsertBuiltin, IndInv, TypeOK
<1>5. RequestsInOrder'
  BY <1>1, <1>2 DEF RequestsInOrder, InFlight
<1>6. Exists(FirstDefault)'
  BY <1>1, <1>3, NoneIsNoRow, BuiltinAssumption DEF InsertBuiltin, Exists, Config
<1>7. Booted'
  BY <1>1, <1>2, <1>6 DEF Booted
<1>8. CASE c = FirstDefault
  <2>1. Defaults(rows) = {}
    BY <1>1, <1>8 DEF IndInv, Booted, Exists, Defaults
  <2>2. Defaults(rows') = {c} /\ c \in Usable(rows')
    BY <1>1, <1>3, <1>8, <2>1
  <2> QED
    BY <1>1, <1>4, <1>5, <1>7, <2>2, Primed DEF IndInv, OneDefault, LossKnown
<1>9. CASE c # FirstDefault
  <2>1. c \notin Defaults(rows)
    BY <1>1 DEF Defaults
  <2>2. c \notin Usable(rows)
    BY <2>1 DEF Usable
  <2>4. Defaults(rows') = Defaults(rows) /\ Usable(rows') = Usable(rows)
    <3>1. ~row.def
      BY <1>1, <1>9
    <3>2. Defaults(rows) \ {c} = Defaults(rows) /\ Usable(rows) \ {c} = Usable(rows)
      BY <2>1, <2>2
    <3> QED
      BY <1>3, <3>1, <3>2
  <2>3. Exists(FirstDefault)
    BY <1>9 DEF InsertBuiltin
  <2> QED
    BY <1>1, <1>4, <1>5, <1>7, <2>3, <2>4, Primed DEF IndInv, OneDefault, LossKnown
<1> QED
  BY <1>8, <1>9

\* A request begins with the change q.
LEMMA BeginStep ==
  ASSUME IndInv, NEW r \in Request, NEW q \in Change, server = "up",
         req' = [req EXCEPT ![r] = q], made \subseteq made', made' \subseteq Config, q.c \in made',
         q.why # "boot",
         Len(q.todo) = 1 /\ q.row.def /\ ~raced => Defaults(rows) \subseteq {q.c},
         q.why = "other" => (q.row.def /\ q.row.on) \/ q.c \notin Usable(rows),
         UNCHANGED <<server, rows, lost, raced>>
  PROVE  IndInv'
<1>1. /\ req' \in [Request -> Change \cup {Idle}]
      /\ \A x \in Request : req'[x] = IF x = r THEN q ELSE req[x]
  BY DEF IndInv, TypeOK
<1>2. TypeOK'
  BY <1>1 DEF IndInv, TypeOK
<1>3. InOrder(r)'
  BY <1>1, Primed DEF InOrder
<1>4. ASSUME NEW x \in Request, x # r, InFlight(x)'
      PROVE  InOrder(x)'
  <2>1. req'[x] = req[x]
    BY <1>1, <1>4
  <2>2. InOrder(x)
    BY <1>4, <2>1 DEF IndInv, RequestsInOrder, InFlight
  <2> QED
    BY <2>1, <2>2, InOrderKept DEF SameChange
<1>5. RequestsInOrder'
  BY <1>3, <1>4 DEF RequestsInOrder
<1> QED
  BY <1>2, <1>5, Primed DEF IndInv, OneDefault, Booted, Exists, LossKnown

LEMMA CreateStep ==
  ASSUME IndInv, NEW r \in Request, NEW c \in Custom, NEW def \in BOOLEAN, Create(r, c, def)
  PROVE  IndInv'
<1> DEFINE q == [todo |-> IF def THEN <<"clear", "insert">> ELSE <<"insert">>,
                 c |-> c, row |-> [def |-> def, on |-> TRUE], why |-> "other", overtaken |-> FALSE]
<1>1. c \in Config
  BY DEF Config
<1>2. q \in Change
  BY <1>1 DEF Change, Steps, Row, Losses
<1>3. /\ q.c = c /\ q.why = "other" /\ q.row.def = def /\ q.row.on
      /\ Len(q.todo) = 1 => ~q.row.def
  OBVIOUS
<1>4. c \notin Usable(rows)
  BY DEF Create, IndInv, TypeOK, Usable, Defaults
<1>5. made \subseteq made' /\ made' \subseteq Config /\ c \in made'
  BY <1>1 DEF Create, IndInv, TypeOK
<1>6. server = "up" /\ req' = [req EXCEPT ![r] = q] /\ UNCHANGED <<server, rows, lost, raced>>
  BY DEF Create
<1> HIDE DEF q
<1> QED
  BY <1>2, <1>3, <1>4, <1>5, <1>6, BeginStep

LEMMA UpdateStep ==
  ASSUME IndInv, NEW r \in Request, NEW c \in Config, NEW e \in Body, Update(r, c, e)
  PROVE  IndInv'
<1> DEFINE row == [def |-> Given(e.def, rows[c].def), on |-> Given(e.on, rows[c].on)]
           q   == [todo |-> IF row.def /\ ~rows[c].def THEN <<"clear", "write">> ELSE <<"write">>,
                   c |-> c,
                   row |-> row,
                   why |-> IF e.def = {FALSE} THEN "unset"
                           ELSE IF e.def = {TRUE} /\ ~row.on THEN "disabled" ELSE "other",
                   overtaken |-> FALSE]
<1>1. rows[c] \in Row /\ rows[c] # None /\ c \in made
  BY DEF Update, Exists, IndInv, TypeOK
<1>2. e.def \in {{}, {TRUE}, {FALSE}} /\ e.on \in {{}, {TRUE}, {FALSE}}
      /\ rows[c].def \in BOOLEAN /\ rows[c].on \in BOOLEAN
  BY <1>1 DEF Body, Row
<1>3. /\ row.def \in BOOLEAN /\ row.on \in BOOLEAN
      /\ e.def = {} => row.def = rows[c].def
      /\ e.def = {TRUE} => row.def
      /\ e.def = {FALSE} => ~row.def
      /\ e.on = {} => row.on = rows[c].on
      /\ e.on = {TRUE} => row.on
  BY <1>2, GivenType
<1>4. row \in Row
  BY <1>3 DEF Row
<1>5. e.on = {FALSE} => ~rows[c].def
  BY DEF Update, MayUpdate
<1>6. c \in Usable(rows) <=> rows[c].def /\ rows[c].on
  BY <1>1 DEF Usable, Defaults
<1>7. server = "up" /\ req' = [req EXCEPT ![r] = q] /\ UNCHANGED <<server, rows, made, lost, raced>>
  BY DEF Update
<1>8. q \in Change
  BY <1>4 DEF Change, Steps, Losses
<1>9. /\ q.c = c /\ q.row = row /\ q.why # "boot"
      /\ q.why = "other" => e.def # {FALSE} /\ (e.def = {TRUE} => row.on)
  OBVIOUS
<1>13. Len(q.todo) = 1 /\ row.def => rows[c].def
  <2>1. Len(<<"clear", "write">>) = 2
    OBVIOUS
  <2>2. q.todo = IF row.def /\ ~rows[c].def THEN <<"clear", "write">> ELSE <<"write">>
    OBVIOUS
  <2> HIDE DEF q, row
  <2> QED
    BY <2>1, <2>2
<1> HIDE DEF q, row
<1>10. ASSUME Len(q.todo) = 1, q.row.def, ~raced
       PROVE  Defaults(rows) \subseteq {q.c}
  <2>1. c \in Defaults(rows)
    BY <1>1, <1>9, <1>10, <1>13 DEF Defaults
  <2> QED
    BY <1>9, <1>10, <2>1 DEF IndInv, OneDefault
<1>11. q.why = "other" => (q.row.def /\ q.row.on) \/ q.c \notin Usable(rows)
  BY <1>2, <1>3, <1>5, <1>6, <1>9
<1>12. made \subseteq made' /\ made' \subseteq Config /\ q.c \in made'
  BY <1>1, <1>7, <1>9 DEF IndInv, TypeOK
<1> QED
  BY <1>7, <1>8, <1>9, <1>10, <1>11, <1>12, BeginStep

LEMMA DeleteStep ==
  ASSUME IndInv, NEW c \in Config, Delete(c)
  PROVE  IndInv'
<1>1. /\ server = "up" /\ c # FirstDefault /\ rows' = [rows EXCEPT ![c] = None]
      /\ Becomes(rows', "delete") /\ UNCHANGED <<server, made, req, raced>>
  BY BuiltinAssumption DEF Delete, Becomes
<1>2. /\ rows' \in [Config -> Row \cup {None}]
      /\ \A d \in Config : rows'[d] = IF d = c THEN None ELSE rows[d]
  BY <1>1 DEF IndInv, TypeOK
<1>3. Defaults(rows') \subseteq Defaults(rows) /\ Usable(rows') \subseteq Usable(rows)
  BY <1>2 DEF Defaults, Usable
<1>4. lost' \in Losses
  BY <1>1, LostType DEF IndInv, Losses
<1>5. TypeOK'
  BY <1>1, <1>2, <1>4 DEF IndInv, TypeOK
<1>6. RequestsInOrder'
  <2> SUFFICES ASSUME NEW x \in Request, InFlight(x) PROVE InOrder(x)'
    BY <1>1 DEF RequestsInOrder, InFlight
  <2> QED
    BY <1>1, <1>3, InOrderKept DEF IndInv, RequestsInOrder, SameChange
<1>7. Exists(FirstDefault) /\ Exists(FirstDefault)'
  BY <1>1, <1>2, BuiltinAssumption DEF IndInv, Booted, Exists, Config
<1>8. LossKnown'
  BY <1>1, <1>7, LossKept DEF IndInv
<1> QED
  BY <1>1, <1>3, <1>5, <1>6, <1>7, <1>8, Primed DEF IndInv, OneDefault, Booted

LEMMA ClearStep ==
  ASSUME IndInv, NEW r \in Request, ClearDefault(r)
  PROVE  IndInv'
<1> DEFINE t == [c \in Config |-> IF Exists(c) THEN [rows[c] EXCEPT !.def = FALSE] ELSE None]
<1>1. /\ server = "up" /\ InFlight(r) /\ Head(req[r].todo) = "clear"
      /\ rows' = t /\ Becomes(t, "clear") /\ req' = Advanced(r) /\ UNCHANGED <<server, made, raced>>
  BY DEF ClearDefault, At, Becomes
<1>2. /\ t \in [Config -> Row \cup {None}]
      /\ \A c \in Config : t[c] # None <=> rows[c] # None
      /\ \A c \in Config : rows[c] # None => ~t[c].def
  <2>1. \A c \in Config : Exists(c) =>
          [rows[c] EXCEPT !.def = FALSE] \in Row /\ ~[rows[c] EXCEPT !.def = FALSE].def
    BY DEF Exists, IndInv, TypeOK, Row
  <2> QED
    BY <2>1, NoneIsNoRow DEF Exists
<1> HIDE DEF t
<1>3. Defaults(rows') = {} /\ Usable(rows') = {}
  BY <1>1, <1>2 DEF Defaults, Usable
<1>4. /\ req' \in [Request -> Change \cup {Idle}]
      /\ \A x \in Request : x # r => req'[x] = req[x]
      /\ req'[r] \in Change /\ SameChange(req'[r], req[r])
  BY <1>1, AdvancedFacts DEF IndInv
<1>5. lost' \in Losses
  BY <1>1, LostType DEF IndInv, Losses
<1>6. TypeOK'
  BY <1>1, <1>2, <1>4, <1>5 DEF IndInv, TypeOK
<1>7. ASSUME NEW x \in Request, InFlight(x)'
      PROVE  InOrder(x)'
  <2>1. InOrder(x)
    BY <1>1, <1>4, <1>7 DEF InFlight, IndInv, RequestsInOrder
  <2>2. SameChange(req'[x], req[x])
    BY <1>4 DEF SameChange
  <2> QED
    BY <1>1, <1>3, <2>1, <2>2, Primed DEF InOrder, SameChange
<1>8. Exists(FirstDefault) /\ Exists(FirstDefault)'
  BY <1>1, <1>2, BuiltinAssumption DEF IndInv, Booted, Exists, Config
<1>9. LossKnown'
  BY <1>1, <1>8, LossKept DEF IndInv
<1> QED
  BY <1>1, <1>3, <1>6, <1>7, <1>8, <1>9, Primed DEF IndInv, RequestsInOrder, OneDefault, Booted

\* A row is put into the table: a new default overtakes the other requests, and
\* a request that was not overtaken itself leaves no second default and loses
\* only what it was asked to.
LEMMA PutsStep ==
  ASSUME IndInv, NEW r \in Request, server = "up", InFlight(r), Head(req[r].todo) # "clear",
         Puts(r), UNCHANGED <<server, made>>
  PROVE  IndInv'
<1> DEFINE c == req[r].c
           row == req[r].row
           t == [rows EXCEPT ![c] = row]
           q == Advanced(r)
<1>1. /\ c \in Config /\ row \in Row /\ req[r].todo \in Steps
      /\ req[r].why \in Losses /\ req[r].overtaken \in BOOLEAN /\ InOrder(r)
  BY InFlightFacts DEF IndInv, RequestsInOrder
<1>2. Len(req[r].todo) = 1
  BY <1>1 DEF Steps
<1>3. /\ rows' = t /\ Becomes(t, req[r].why) /\ raced' = (raced \/ req[r].overtaken)
      /\ req' = IF row.def
                  THEN [x \in Request |-> IF q[x] = Idle THEN Idle ELSE [q[x] EXCEPT !.overtaken = TRUE]]
                  ELSE q
  BY DEF Puts, Becomes
<1>4. /\ t \in [Config -> Row \cup {None}]
      /\ \A d \in Config : t[d] = IF d = c THEN row ELSE rows[d]
      /\ row.def => Defaults(t) = Defaults(rows) \cup {c}
      /\ ~row.def => Defaults(t) = Defaults(rows) \ {c}
      /\ row.def /\ row.on => Usable(t) = Usable(rows) \cup {c}
      /\ ~(row.def /\ row.on) => Usable(t) = Usable(rows) \ {c}
  BY <1>1, OneRow DEF IndInv
<1>5. q \in [Request -> Change \cup {Idle}] /\ q[r] = Idle /\ \A x \in Request : x # r => q[x] = req[x]
  BY AdvancedFacts DEF IndInv
<1>6. c \in made /\ req[r].why # "boot"
      /\ (row.def /\ ~req[r].overtaken /\ ~raced => Defaults(rows) \subseteq {c})
      /\ (req[r].why = "other" /\ ~req[r].overtaken => (row.def /\ row.on) \/ c \notin Usable(rows))
  BY <1>1, <1>2 DEF InOrder
<1> HIDE DEF c, row, t, q
<1>7. /\ req' \in [Request -> Change \cup {Idle}]
      /\ req'[r] = Idle
      /\ \A x \in Request : req'[x] # Idle =>
           /\ x # r /\ InFlight(x)
           /\ req'[x].c = req[x].c /\ req'[x].row = req[x].row /\ req'[x].why = req[x].why
           /\ req'[x].todo = req[x].todo
           /\ IF row.def THEN req'[x].overtaken ELSE req'[x].overtaken = req[x].overtaken
  <2>1. CASE ~row.def
    BY <1>3, <1>5, <2>1 DEF InFlight
  <2>2. CASE row.def
    <3>1. ASSUME NEW p \in Change
          PROVE  LET p1 == [p EXCEPT !.overtaken = TRUE]
                 IN  p1 \in Change /\ p1.c = p.c /\ p1.row = p.row /\ p1.why = p.why
                     /\ p1.todo = p.todo /\ p1.overtaken
      BY DEF Change
    <3>2. \A x \in Request : req'[x] = IF q[x] = Idle THEN Idle ELSE [q[x] EXCEPT !.overtaken = TRUE]
      BY <1>3, <2>2
    <3>3. \A x \in Request : q[x] # Idle => q[x] \in Change /\ x # r /\ q[x] = req[x]
      BY <1>5
    <3>4. \A x \in Request : req'[x] \in Change \cup {Idle}
      BY <3>1, <3>2, <3>3
    <3>5. req' \in [Request -> Change \cup {Idle}]
      BY <1>3, <2>2, <3>1, <3>3
    <3>6. \A x \in Request : req'[x] # Idle => q[x] # Idle /\ req'[x] = [q[x] EXCEPT !.overtaken = TRUE]
      BY <3>2
    <3>7. req'[r] = Idle
      BY <1>5, <3>2
    <3>8. ASSUME NEW x \in Request, req'[x] # Idle
          PROVE  /\ x # r /\ InFlight(x)
                 /\ req'[x].c = req[x].c /\ req'[x].row = req[x].row /\ req'[x].why = req[x].why
                 /\ req'[x].todo = req[x].todo /\ req'[x].overtaken
      <4>1. q[x] \in Change /\ x # r /\ q[x] = req[x] /\ q[x] # Idle
        BY <3>3, <3>6, <3>8
      <4>2. req'[x] = [req[x] EXCEPT !.overtaken = TRUE] /\ req[x] \in Change
        BY <3>6, <3>8, <4>1
      <4> QED
        BY <3>1, <4>1, <4>2 DEF InFlight
    <3> QED
      BY <2>2, <3>5, <3>7, <3>8
  <2> QED
    BY <2>1, <2>2
<1>8. lost' \in Losses
  BY <1>1, <1>3, LostType DEF IndInv
<1>9. TypeOK'
  <2>1. {d \in Config : rows'[d] # None} \subseteq made
    BY <1>3, <1>4, <1>6 DEF IndInv, TypeOK
  <2>2. raced' \in BOOLEAN
    BY <1>1, <1>3 DEF IndInv, TypeOK
  <2> QED
    BY <1>3, <1>4, <1>7, <1>8, <2>1, <2>2 DEF IndInv, TypeOK
<1>10. ASSUME NEW x \in Request, InFlight(x)'
       PROVE  InOrder(x)'
  <2>1. /\ x # r /\ InFlight(x)
        /\ req'[x].c = req[x].c /\ req'[x].row = req[x].row /\ req'[x].why = req[x].why
        /\ req'[x].todo = req[x].todo
        /\ IF row.def THEN req'[x].overtaken ELSE req'[x].overtaken = req[x].overtaken
    BY <1>7, <1>10 DEF InFlight
  <2>2. InOrder(x) /\ made \subseteq made' /\ (raced => raced')
    BY <1>3, <2>1 DEF IndInv, RequestsInOrder
  <2>3. CASE row.def
    BY <2>1, <2>2, <2>3, InOrderKept
  <2>4. CASE ~row.def
    BY <1>3, <1>4, <2>1, <2>2, <2>4, InOrderKept DEF SameChange
  <2> QED
    BY <2>3, <2>4
<1>11. OneDefault'
  BY <1>3, <1>4, <1>6, Primed DEF IndInv, OneDefault
<1>12. Exists(FirstDefault) /\ Exists(FirstDefault)'
  BY <1>1, <1>3, <1>4, NoneIsNoRow, BuiltinAssumption DEF IndInv, Booted, Exists, Config
<1>13. Booted'
  BY <1>12 DEF Booted
<1>14. \/ req[r].why \in {"clear", "unset", "delete", "disabled"} \/ raced'
       \/ Usable(rows) # {} => Usable(t) # {}
  BY <1>1, <1>3, <1>4, <1>6 DEF Losses
<1>15. LossKnown'
  BY <1>3, <1>12, <1>14, LossKept DEF IndInv
<1> QED
  BY <1>9, <1>10, <1>11, <1>13, <1>15 DEF IndInv, RequestsInOrder

\* A request ends without touching the table.
LEMMA EndStep ==
  ASSUME IndInv, NEW r \in Request,
         req' \in [Request -> Change \cup {Idle}], req'[r] = Idle,
         \A x \in Request : x # r => req'[x] = req[x],
         UNCHANGED <<server, rows, made, lost, raced>>
  PROVE  IndInv'
<1>1. TypeOK'
  BY DEF IndInv, TypeOK
<1>2. ASSUME NEW x \in Request, InFlight(x)'
      PROVE  InOrder(x)'
  <2>1. req'[x] = req[x] /\ InOrder(x)
    BY <1>2 DEF InFlight, IndInv, RequestsInOrder
  <2> QED
    BY <2>1, InOrderKept DEF SameChange
<1> QED
  BY <1>1, <1>2, Primed DEF IndInv, RequestsInOrder, OneDefault, Booted, Exists, LossKnown

LEMMA RequestStep ==
  ASSUME IndInv, NEW r \in Request, Insert(r) \/ Write(r) \/ Abort(r)
  PROVE  IndInv'
<1>1. CASE Insert(r)
  BY <1>1, PutsStep DEF Insert, At
<1>2. CASE Write(r) /\ Exists(req[r].c)
  BY <1>2, PutsStep DEF Write, At
<1>3. CASE Write(r) /\ ~Exists(req[r].c)
  BY <1>3, EndStep, AdvancedFacts DEF Write, At, IndInv
<1>4. CASE Abort(r)
  BY <1>4, EndStep DEF Abort, IndInv, TypeOK
<1> QED
  BY <1>1, <1>2, <1>3, <1>4

LEMMA NextIndInv == IndInv /\ [Next]_vars => IndInv'
<1> SUFFICES ASSUME IndInv, [Next]_vars PROVE IndInv'
  OBVIOUS
<1>1. CASE UNCHANGED vars
  BY <1>1 DEF vars, IndInv, TypeOK, OneDefault, RequestsInOrder, InOrder, Booted, LossKnown,
     Defaults, Usable, Exists, InFlight
<1> QED
  BY <1>1, BootStep, InsertBuiltinStep, CreateStep, UpdateStep, DeleteStep, ClearStep, RequestStep
     DEF Next

THEOREM Invariance == Spec => []IndInv
BY InitIndInv, NextIndInv, PTL DEF Spec

\* The table, the requests and the histories keep their types.
THEOREM TypeCorrect == Spec => []TypeOK
BY Invariance, PTL DEF IndInv

\* However the requests interleave and fail, a second default needs a write
\* over another request's new default.
THEOREM SecondDefaultNeedsARace == Spec => []TwoDefaultsNeedARace
<1>1. IndInv => TwoDefaultsNeedARace
  <2> SUFFICES ASSUME IndInv, ~raced PROVE Cardinality(Defaults(rows)) <= 1
    BY DEF TwoDefaultsNeedARace
  <2>1. CASE Defaults(rows) = {}
    BY <2>1, FS_EmptySet
  <2>2. ASSUME NEW c \in Defaults(rows)
        PROVE  Cardinality(Defaults(rows)) = 1
    <3>1. Defaults(rows) = {c}
      BY DEF IndInv, OneDefault
    <3> QED
      BY <3>1, FS_Singleton
  <2> QED
    BY <2>1, <2>2
<1> QED
  BY <1>1, Invariance, PTL

\* Without such a race, the clients are without a default only after one of the
\* four ways to lose it.
THEOREM LossNeedsAnExcuse == Spec => []DefaultLossIsExcused
<1>1. IndInv => DefaultLossIsExcused
  BY DEF IndInv, DefaultLossIsExcused, Quiet, Booted, LossKnown
<1> QED
  BY <1>1, Invariance, PTL
=============================================================================

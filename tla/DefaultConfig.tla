---------------------------- MODULE DefaultConfig ----------------------------
(***************************************************************************)
(* The tile sources of service/map_config_service.go and the terrain       *)
(* sources of service/terrain_config_service.go, which share their code:   *)
(* a table of configurations, one of them the default of every client.     *)
(* Each SQL statement is one step; setting a default takes two of them.    *)
(***************************************************************************)
EXTENDS Naturals, FiniteSets, Sequences

CONSTANTS
  Builtin,      \* the configurations a bootstrap inserts...
  FirstDefault, \* ... and the one of them that is inserted as the default
  Custom,       \* ids of configurations made by admins
  Request,      \* admin requests that may be in flight at one time
  None

ASSUME BuiltinAssumption == FirstDefault \in Builtin /\ Builtin \cap Custom = {}
ASSUME NoneAssumption    == None \notin Request /\ None \notin [def : BOOLEAN, on : BOOLEAN]

Config == Builtin \cup Custom
Row    == [def : BOOLEAN, on : BOOLEAN]      \* is_default, is_enabled
\* An optional field of a request is the set of its value, or empty.
Body   == [def : {{}, {TRUE}, {FALSE}}, on : {{}, {TRUE}, {FALSE}}]

VARIABLES
  server,    \* "down", "boot" (inserting the built-in rows) or "up"
  rows,      \* the table
  made,      \* ids that have been used
  req,       \* requests in flight: the statements still to run, the row to write
  lost,      \* history: what the last statement that left no usable default was part of
  raced      \* history: a row was written over another request's new default

vars == <<server, rows, made, req, lost, raced>>

Idle   == [todo |-> <<>>]
Steps  == {<<"clear", "insert">>, <<"insert">>, <<"clear", "write">>, <<"write">>}
Losses == {"boot", "clear", "unset", "delete", "disabled", "other"}
\* why: what to call the write should it leave no usable default. overtaken: a
\* new default was written by another request since this one began.
Change == [todo : Steps, c : Config, row : Row, why : Losses, overtaken : BOOLEAN]

TypeOK ==
  /\ server \in {"down", "boot", "up"}
  /\ rows \in [Config -> Row \cup {None}]
  /\ made \subseteq Config
  /\ {c \in Config : rows[c] # None} \subseteq made
  /\ req \in [Request -> Change \cup {Idle}]
  /\ lost \in Losses
  /\ raced \in BOOLEAN

Init ==
  /\ server = "down"
  /\ rows = [c \in Config |-> None]
  /\ made = {}
  /\ req = [r \in Request |-> Idle]
  /\ lost = "boot"
  /\ raced = FALSE

-----------------------------------------------------------------------------

Exists(c)    == rows[c] # None
Defaults(t)  == {c \in Config : t[c] # None /\ t[c].def}
\* What GetSettings and GetDefault look for.
Usable(t)    == {c \in Defaults(t) : t[c].on}
InFlight(r)  == req[r] # Idle
Given(opt, default) == IF opt = {} THEN default ELSE CHOOSE v \in opt : TRUE

\* Mutant: a finished request is not ended.
M_Advanced_NoEnd(r) == [req EXCEPT ![r].todo = Tail(@)]

Advanced(r) ==
  LET q == req[r]
  IN  [req EXCEPT ![r] = IF Len(q.todo) = 1 THEN Idle ELSE [q EXCEPT !.todo = Tail(@)]]

At(r, step) == server = "up" /\ InFlight(r) /\ Head(req[r].todo) = step

\* The table becomes t, through a statement of the kind named.
Becomes(t, kind) ==
  /\ rows' = t
  /\ lost' = IF Usable(rows) # {} /\ Usable(t) = {} THEN kind ELSE lost

\* main starts. BootstrapMapConfigs, BootstrapTerrainConfigs: CountBuiltin.
CountBuiltin ==
  /\ server = "down"
  /\ server' = IF \E c \in Builtin : Exists(c) THEN "up" ELSE "boot"
  /\ UNCHANGED <<rows, made, req, lost, raced>>

\* ... and one INSERT after the other, the default's first.
InsertBuiltin(c) ==
  /\ server = "boot"
  /\ ~Exists(c)
  /\ c = FirstDefault \/ Exists(FirstDefault)
  /\ rows' = [rows EXCEPT ![c] = [def |-> c = FirstDefault, on |-> TRUE]]
  /\ made' = made \cup {c}
  /\ server' = IF \A b \in Builtin \ {c} : Exists(b) THEN "up" ELSE "boot"
  /\ UNCHANGED <<req, lost, raced>>

\* Mutant: the old default is not cleared.
M_Create_NoClear(r, c, def) ==
  /\ server = "up" /\ ~InFlight(r)
  /\ c \in Custom \ made
  /\ made' = made \cup {c}
  /\ req' = [req EXCEPT ![r] =
       [todo |-> <<"insert">>, c |-> c, row |-> [def |-> def, on |-> TRUE], why |-> "other", overtaken |-> FALSE]]
  /\ UNCHANGED <<server, rows, lost, raced>>

\* Create.
Create(r, c, def) ==
  /\ server = "up" /\ ~InFlight(r)
  /\ c \in Custom \ made
  /\ made' = made \cup {c}
  /\ req' = [req EXCEPT ![r] =
       [todo |-> IF def THEN <<"clear", "insert">> ELSE <<"insert">>,
        c |-> c, row |-> [def |-> def, on |-> TRUE], why |-> "other", overtaken |-> FALSE]]
  /\ UNCHANGED <<server, rows, lost, raced>>

\* Mutant: the guard on disabling the default is forgotten.
M_MayUpdate_Anything(row, e) == TRUE

\* Update refuses to disable the default.
MayUpdate(row, e) == ~(e.on = {FALSE} /\ row.def)

\* Update: the row is read, and what is to be written made from it.
Update(r, c, e) ==
  /\ server = "up" /\ ~InFlight(r)
  /\ Exists(c)
  /\ MayUpdate(rows[c], e)
  /\ LET row == [def |-> Given(e.def, rows[c].def), on |-> Given(e.on, rows[c].on)] IN
     req' = [req EXCEPT ![r] =
       [todo |-> IF row.def /\ ~rows[c].def THEN <<"clear", "write">> ELSE <<"write">>,
        c |-> c,
        row |-> row,
        why |-> IF e.def = {FALSE} THEN "unset"
                ELSE IF e.def = {TRUE} /\ ~row.on THEN "disabled" ELSE "other",
        overtaken |-> FALSE]]
  /\ UNCHANGED <<server, rows, made, lost, raced>>

\* Delete: built-in rows are refused (is_builtin is never written).
Delete(c) ==
  /\ server = "up"
  /\ Exists(c)
  /\ c \notin Builtin
  /\ Becomes([rows EXCEPT ![c] = None], "delete")
  /\ UNCHANGED <<server, made, req, raced>>

\* ClearDefault: one UPDATE over all rows.
ClearDefault(r) ==
  /\ At(r, "clear")
  /\ Becomes([c \in Config |-> IF Exists(c) THEN [rows[c] EXCEPT !.def = FALSE] ELSE None],
             "clear")
  /\ req' = Advanced(r)
  /\ UNCHANGED <<server, made, raced>>

\* The row r puts into the table, and the requests it overtakes.
Puts(r) ==
  /\ Becomes([rows EXCEPT ![req[r].c] = req[r].row], req[r].why)
  /\ raced' = (raced \/ req[r].overtaken)
  /\ LET q == Advanced(r) IN
     req' = IF req[r].row.def
              THEN [x \in Request |-> IF q[x] = Idle THEN Idle ELSE [q[x] EXCEPT !.overtaken = TRUE]]
              ELSE q

Insert(r) ==
  /\ At(r, "insert")
  /\ Puts(r)
  /\ UNCHANGED <<server, made>>

\* The UPDATE of every column; of a row gone meanwhile it is refused.
Write(r) ==
  /\ At(r, "write")
  /\ IF Exists(req[r].c) THEN Puts(r)
     ELSE req' = Advanced(r) /\ UNCHANGED <<rows, lost, raced>>
  /\ UNCHANGED <<server, made>>

\* A statement fails or the caller goes away.
Abort(r) ==
  /\ InFlight(r)
  /\ req' = [req EXCEPT ![r] = Idle]
  /\ UNCHANGED <<server, rows, made, lost, raced>>

\* The process ends, or cannot finish its bootstrap.
Crash ==
  /\ server # "down"
  /\ server' = "down"
  /\ req' = [r \in Request |-> Idle]
  /\ UNCHANGED <<rows, made, lost, raced>>

Next ==
  \/ CountBuiltin \/ Crash
  \/ \E c \in Builtin : InsertBuiltin(c)
  \/ \E c \in Config : Delete(c)
  \/ \E r \in Request :
       \/ ClearDefault(r) \/ Insert(r) \/ Write(r) \/ Abort(r)
       \/ \E c \in Custom, def \in BOOLEAN : Create(r, c, def)
       \/ \E c \in Config, e \in Body : Update(r, c, e)

Spec == Init /\ [][Next]_vars

-----------------------------------------------------------------------------
(* Properties.                                                             *)

Quiet == server = "up" /\ \A r \in Request : ~InFlight(r)

\* ClearDefault, "Call this before setting a new default": no two rows are the
\* default, whatever fails between the statements, until a request writes a row
\* after another made a new default since it began.
TwoDefaultsNeedARace == Cardinality(Defaults(rows)) <= 1 \/ raced

\* The guards on disabling the default and on deleting a built-in row leave
\* four ways to have no usable default without such a race: a request that
\* cleared the old one and failed; "is_default": false; deleting the default;
\* making a disabled row the default (Update, Delete).
DefaultLossIsExcused ==
  (Quiet /\ Usable(rows) = {}) => lost \in {"clear", "unset", "delete", "disabled"} \/ raced

=============================================================================

----------------------------- MODULE PolicyCache -----------------------------
(***************************************************************************)
(* The permission policy of service/permission_policy_service.go: one row  *)
(* of server_settings, and a copy of it in the memory of each API server.  *)
(* A call holds the service's mutex only while it touches the copy, so the *)
(* database statement and the store into the copy are separate steps.      *)
(***************************************************************************)
EXTENDS Naturals, FiniteSets

CONSTANTS
  Server,     \* API instances on one database
  Call,       \* calls that may be in progress at one time
  Policy,
  Default,    \* DefaultPermissionPolicy()
  None,       \* no row, nothing cached
  Faults      \* the database errors considered: on a "read", on the "answer"

ASSUME DefaultAssumption == Default \in Policy
ASSUME NoneAssumption    == None \notin Policy
ASSUME FaultsAssumption  == Faults \subseteq {"read", "answer"}

VARIABLES
  db,        \* the row
  cached,    \* PermissionPolicyService.cached of each server
  call,      \* the calls in progress
  excused    \* history: servers whose copy something has left behind

vars == <<db, cached, call, excused>>

Idle    == [at |-> "idle"]
Loading == [at : {"read"}, server : Server]
Storing == [at : {"store"}, server : Server, policy : Policy]

TypeOK ==
  /\ db \in Policy \cup {None}
  /\ cached \in [Server -> Policy \cup {None}]
  /\ call \in [Call -> {Idle} \cup Loading \cup Storing]
  /\ excused \subseteq Server

Init ==
  /\ db = None
  /\ cached = [s \in Server |-> None]
  /\ call = [c \in Call |-> Idle]
  /\ excused = {}

\* Mutant: no row is passed on as no policy.
M_Effective_NoDefault(row) == row

\* What a reader of the table takes a row for.
Effective(row) == IF row = None THEN Default ELSE row

CallsOn(s)        == {c \in Call : call[c].at # "idle" /\ call[c].server = s}
StoresOn(s)       == {c \in CallsOn(s) : call[c].at = "store"}
HoldsACopy(s)     == cached[s] # None \/ StoresOn(s) # {}

\* GetPolicy: a server without a copy loads the policy.
GetPolicy(c, s) ==
  /\ call[c] = Idle
  /\ cached[s] = None
  /\ call' = [call EXCEPT ![c] = [at |-> "read", server |-> s]]
  /\ UNCHANGED <<db, cached, excused>>

\* loadPolicy: the SELECT. Every error counts as "no row".
ReadRow(c) ==
  /\ call[c].at = "read"
  /\ LET s == call[c].server IN
     \E failed \in {FALSE, "read" \in Faults} :
       LET p == IF failed THEN Default ELSE Effective(db) IN
       /\ call' = [call EXCEPT ![c] = [at |-> "store", server |-> s, policy |-> p]]
       /\ excused' = IF p = Effective(db) THEN excused ELSE excused \cup {s}
  /\ UNCHANGED <<db, cached>>

\* UpdatePolicy: the upsert. It leaves behind every other server's copy, and
\* this one's if another call is still to store what it read or wrote before.
SetRow(c, s, p) ==
  /\ call[c] = Idle
  /\ db' = p
  /\ call' = [call EXCEPT ![c] = [at |-> "store", server |-> s, policy |-> p]]
  /\ excused' = excused \cup {t \in Server \ {s} : HoldsACopy(t)}
                        \cup (IF StoresOn(s) # {} THEN {s} ELSE {})
  /\ UNCHANGED cached

\* The upsert is committed, and its answer lost: the call ends with an error.
SetRowUnanswered(c, p) ==
  /\ "answer" \in Faults
  /\ call[c] = Idle
  /\ db' = p
  /\ excused' = excused \cup {t \in Server : HoldsACopy(t)}
  /\ UNCHANGED <<cached, call>>

\* Mutant: a copy that is there is kept.
M_StoreCopy_OnlyFirst(c) ==
  /\ call[c].at = "store"
  /\ LET s == call[c].server IN
     /\ cached' = IF cached[s] = None THEN [cached EXCEPT ![s] = call[c].policy] ELSE cached
     /\ excused' = IF call[c].policy = Effective(db) /\ StoresOn(s) = {c}
                     THEN excused \ {s} ELSE excused
  /\ call' = [call EXCEPT ![c] = Idle]
  /\ UNCHANGED db

\* Both end by storing under the lock.
StoreCopy(c) ==
  /\ call[c].at = "store"
  /\ LET s == call[c].server IN
     /\ cached' = [cached EXCEPT ![s] = call[c].policy]
     /\ excused' = IF call[c].policy = Effective(db) /\ StoresOn(s) = {c}
                     THEN excused \ {s} ELSE excused
  /\ call' = [call EXCEPT ![c] = Idle]
  /\ UNCHANGED db

\* The process of s ends and another takes its place.
Restart(s) ==
  /\ cached' = [cached EXCEPT ![s] = None]
  /\ call' = [c \in Call |-> IF c \in CallsOn(s) THEN Idle ELSE call[c]]
  /\ excused' = excused \ {s}
  /\ UNCHANGED db

Next ==
  \/ \E c \in Call, s \in Server : GetPolicy(c, s)
  \/ \E c \in Call : ReadRow(c) \/ StoreCopy(c)
  \/ \E c \in Call, s \in Server, p \in Policy : SetRow(c, s, p)
  \/ \E c \in Call, p \in Policy : SetRowUnanswered(c, p)
  \/ \E s \in Server : Restart(s)

Spec == Init /\ [][Next]_vars

-----------------------------------------------------------------------------
(* Properties.                                                             *)

IsCurrent(s) == cached[s] = None \/ cached[s] = Effective(db)
Quiet(s)     == CallsOn(s) = {}

\* Once the calls on a server are over, the policy its checks are made with is
\* the stored one, but for four causes: an update made through another server;
\* a load or an update of this server overtaken by one; a load that met a
\* database error; an update whose answer was lost (GetPolicy, UpdatePolicy).
StaleCacheIsExcused == \A s \in Server \ excused : Quiet(s) => IsCurrent(s)

\* "GetPolicy returns the current permission policy."
GetPolicyIsCurrent == \A s \in Server : Quiet(s) => IsCurrent(s)

=============================================================================

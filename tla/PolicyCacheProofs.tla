-------------------------- MODULE PolicyCacheProofs --------------------------
(***************************************************************************)
(* For every set of servers, calls and policies, with or without database  *)
(* faults: a cached policy is the stored one unless the server is on the   *)
(* list of those something has left behind (PolicyCache, TLAPS).           *)
(*                                                                         *)
(* StaleCacheIsExcused speaks of quiet servers only and is not inductive.  *)
(* IndInv says what holds while calls run: a server that is not excused    *)
(* will store nothing but the stored policy, and if it has nothing to      *)
(* store its copy is that policy already.                                  *)
(***************************************************************************)
EXTENDS PolicyCache, TLAPS

IndInv ==
  /\ TypeOK
  /\ \A s \in Server \ excused :
       /\ \A c \in StoresOn(s) : call[c].policy = Effective(db)
       /\ StoresOn(s) = {} => IsCurrent(s)

\* The calls about to store, without the definitions in between.
LEMMA StoresOnIs ==
  ASSUME NEW s \in Server
  PROVE  StoresOn(s) = {c \in Call : call[c].at = "store" /\ call[c].server = s}
  BY DEF StoresOn, CallsOn

LEMMA EffectiveIsPolicy == ASSUME TypeOK PROVE Effective(db) \in Policy
  BY DefaultAssumption DEF Effective, TypeOK

\* No call in any of the three records is mistaken for another.
LEMMA CallShape ==
  ASSUME TypeOK, NEW c \in Call
  PROVE  /\ call[c].at \in {"idle", "read", "store"}
         /\ call[c].at = "idle" => call[c] = Idle
         /\ call[c].at = "read" => call[c] \in Loading /\ call[c].server \in Server
         /\ call[c].at = "store" => /\ call[c] \in Storing
                                    /\ call[c].server \in Server
                                    /\ call[c].policy \in Policy
  BY DEF TypeOK, Idle, Loading, Storing

\* Type correctness of PolicyCache is preserved by every step.
LEMMA TypeStep == ASSUME TypeOK, [Next]_vars PROVE TypeOK'
<1>1. ASSUME NEW c \in Call, NEW s \in Server, GetPolicy(c, s) PROVE TypeOK'
  BY <1>1 DEF GetPolicy, TypeOK, Loading
<1>2. ASSUME NEW c \in Call, ReadRow(c) PROVE TypeOK'
  BY <1>2, CallShape, EffectiveIsPolicy, DefaultAssumption DEF ReadRow, TypeOK, Storing
<1>3. ASSUME NEW c \in Call, StoreCopy(c) PROVE TypeOK'
  BY <1>3, CallShape DEF StoreCopy, TypeOK
<1>4. ASSUME NEW c \in Call, NEW s \in Server, NEW p \in Policy, SetRow(c, s, p) PROVE TypeOK'
  BY <1>4 DEF SetRow, TypeOK, Storing
<1>5. ASSUME NEW c \in Call, NEW p \in Policy, SetRowUnanswered(c, p) PROVE TypeOK'
  BY <1>5 DEF SetRowUnanswered, TypeOK
<1>6. ASSUME NEW s \in Server, Restart(s) PROVE TypeOK'
  BY <1>6 DEF Restart, TypeOK
<1>7. CASE UNCHANGED vars
  BY <1>7 DEF vars, TypeOK
<1> QED
  BY <1>1, <1>2, <1>3, <1>4, <1>5, <1>6, <1>7 DEF Next

LEMMA InitInv == Init => IndInv
  BY NoneAssumption, DefaultAssumption
     DEF Init, IndInv, TypeOK, StoresOn, CallsOn, IsCurrent, Idle

LEMMA Step == ASSUME IndInv, [Next]_vars PROVE IndInv'
<1>1. TypeOK /\ TypeOK'
  BY TypeStep DEF IndInv
<1> SUFFICES ASSUME NEW s \in Server, s \notin excused'
             PROVE  /\ \A c \in StoresOn(s)' : call'[c].policy = Effective(db)'
                    /\ StoresOn(s)' = {} => IsCurrent(s)'
  BY <1>1 DEF IndInv
<1> DEFINE Now  == {c \in Call : call[c].at = "store" /\ call[c].server = s}
           Then == {c \in Call : call'[c].at = "store" /\ call'[c].server = s}
           Good == /\ \A c \in Then : call'[c].policy = Effective(db')
                   /\ Then = {} => cached'[s] = None \/ cached'[s] = Effective(db')
<1>2. StoresOn(s) = Now
  BY StoresOnIs
<1>3. StoresOn(s)' = Then
  BY DEF StoresOn, CallsOn
<1>4. s \notin excused => /\ \A c \in Now : call[c].policy = Effective(db)
                          /\ Now = {} => cached[s] = None \/ cached[s] = Effective(db)
  BY <1>2 DEF IndInv, IsCurrent
<1>5. ASSUME NEW c \in Call, NEW t \in Server, GetPolicy(c, t) PROVE Good
  <2>1. Then = Now /\ \A x \in Now : call'[x] = call[x]
    BY <1>1, <1>5 DEF GetPolicy, TypeOK, Idle
  <2> QED
    BY <1>4, <1>5, <2>1 DEF GetPolicy
<1>6. ASSUME NEW c \in Call, ReadRow(c) PROVE Good
  <2>1. PICK p \in Policy : /\ call' = [call EXCEPT ![c] = [at |-> "store",
                                          server |-> call[c].server, policy |-> p]]
                            /\ call[c].server = s => p = Effective(db)
    BY <1>1, <1>6, EffectiveIsPolicy, DefaultAssumption DEF ReadRow
  <2>2. s \notin excused /\ db' = db /\ cached' = cached
    BY <1>6 DEF ReadRow
  <2>3. \A x \in Then : x = c \/ (x \in Now /\ call'[x] = call[x])
    BY <1>1, <2>1 DEF TypeOK
  <2>4. c \in Then => call'[c].policy = Effective(db)
    BY <1>1, <2>1 DEF TypeOK
  <2>5. Now \subseteq Then
    BY <1>1, <1>6, <2>1 DEF TypeOK, ReadRow
  <2> QED
    BY <1>4, <2>2, <2>3, <2>4, <2>5
<1>7. ASSUME NEW c \in Call, StoreCopy(c) PROVE Good
  <2>1. Then = Now \ {c} /\ \A x \in Then : call'[x] = call[x]
    BY <1>1, <1>7 DEF StoreCopy, TypeOK, Idle
  <2>2. db' = db /\ cached' = [cached EXCEPT ![call[c].server] = call[c].policy]
    BY <1>7 DEF StoreCopy
  <2>3. CASE call[c].server # s
    <3>1. s \notin excused /\ Now = Then /\ cached'[s] = cached[s]
      BY <1>1, <1>7, <2>1, <2>2, <2>3 DEF StoreCopy, TypeOK
    <3> QED
      BY <1>4, <2>1, <2>2, <3>1
  <2>4. CASE call[c].server = s
    <3>1. c \in Now /\ cached'[s] = call[c].policy
      BY <1>1, <1>7, <2>2, <2>4 DEF StoreCopy, TypeOK
    <3>2. s \notin excused \/ (call[c].policy = Effective(db) /\ Now = {c})
      BY <1>2, <1>7, <2>4 DEF StoreCopy
    <3> QED
      BY <1>4, <2>1, <2>2, <3>1, <3>2
  <2> QED
    BY <2>3, <2>4
<1>8. ASSUME NEW c \in Call, NEW t \in Server, NEW p \in Policy, SetRow(c, t, p) PROVE Good
  <2>1. /\ db' = p /\ cached' = cached /\ Effective(db') = p
        /\ s \notin excused
        /\ call' = [call EXCEPT ![c] = [at |-> "store", server |-> t, policy |-> p]]
        /\ call[c].at = "idle"
    BY <1>8, NoneAssumption DEF SetRow, Effective, Idle
  <2>2. CASE t = s
    <3>1. Now = {}
      BY <1>2, <1>8, <2>2 DEF SetRow
    <3>2. Then = {c} /\ call'[c].policy = p
      BY <1>1, <2>1, <2>2, <3>1 DEF TypeOK
    <3> QED
      BY <2>1, <3>2
  <2>3. CASE t # s
    <3>1. cached[s] = None /\ Now = {}
      BY <1>2, <1>8, <2>3 DEF SetRow, HoldsACopy
    <3>2. Then = {}
      BY <1>1, <2>1, <2>3, <3>1 DEF TypeOK
    <3> QED
      BY <2>1, <3>1, <3>2
  <2> QED
    BY <2>2, <2>3
<1>9. ASSUME NEW c \in Call, NEW p \in Policy, SetRowUnanswered(c, p) PROVE Good
  <2>1. cached[s] = None /\ Now = {}
    BY <1>2, <1>9 DEF SetRowUnanswered, HoldsACopy
  <2> QED
    BY <1>9, <2>1 DEF SetRowUnanswered
<1>10. ASSUME NEW t \in Server, Restart(t) PROVE Good
  <2>1. /\ db' = db
        /\ cached' = [cached EXCEPT ![t] = None]
        /\ \A x \in Call : call'[x] = IF x \in CallsOn(t) THEN Idle ELSE call[x]
    BY <1>10 DEF Restart
  <2>2. CASE t = s
    <3>1. Then = {}
      BY <2>1, <2>2 DEF CallsOn, Idle
    <3> QED
      BY <1>1, <2>1, <2>2, <3>1 DEF TypeOK
  <2>3. CASE t # s
    <3>1. s \notin excused /\ cached'[s] = cached[s]
      BY <1>1, <1>10, <2>1, <2>3 DEF Restart, TypeOK
    <3>2. Then = Now /\ \A x \in Now : call'[x] = call[x]
      BY <2>1, <2>3 DEF CallsOn, Idle
    <3> QED
      BY <1>4, <2>1, <3>1, <3>2
  <2> QED
    BY <2>2, <2>3
<1>11. ASSUME UNCHANGED vars PROVE Good
  BY <1>4, <1>11 DEF vars
<1>12. Good
  BY <1>5, <1>6, <1>7, <1>8, <1>9, <1>10, <1>11 DEF Next
<1> HIDE DEF Good, Now
<1> QED
  BY <1>3, <1>12 DEF Good, IsCurrent, Effective

LEMMA Invariant == Spec => []IndInv
<1>1. IndInv /\ [Next]_vars => IndInv'
  BY Step
<1> QED
  BY InitInv, <1>1, PTL DEF Spec

\* Type correctness of PolicyCache.
THEOREM TypeCorrect == Spec => []TypeOK
<1>1. IndInv => TypeOK
  BY DEF IndInv
<1> QED
  BY Invariant, <1>1, PTL

\* Once the calls on a server are over, the policy its permission checks use is
\* the stored one, but for the four causes SetRow, SetRowUnanswered and ReadRow
\* record (permission_policy_service.go).
THEOREM StaleOnlyIfExcused == Spec => []StaleCacheIsExcused
<1>1. IndInv => StaleCacheIsExcused
  BY DEF IndInv, StaleCacheIsExcused, Quiet, StoresOn
<1> QED
  BY Invariant, <1>1, PTL
=============================================================================

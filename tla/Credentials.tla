---------------------------- MODULE Credentials ----------------------------
(***************************************************************************)
(* What the pages of a browser do to the token pair they share: a pair is  *)
(* taken once, by a sign-in or a refresh, and may be dropped at any time.  *)
(* A pair that was replaced or dropped is never taken again: it is spent,  *)
(* and presenting it would end the session.                                *)
(***************************************************************************)
CONSTANTS Token, NoToken

VARIABLES cur,   \* the pair that is held, or NoToken
          past   \* the pairs that have ever been held

Init == cur = NoToken /\ past = {}

Take == \E n \in Token \ past : cur' = n /\ past' = past \cup {n}

Drop == cur' = NoToken /\ past' = past

Next == Take \/ Drop

Spec == Init /\ [][Next]_<<cur, past>>
=============================================================================

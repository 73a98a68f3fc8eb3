----------------------------- MODULE MCWebPages -----------------------------
(* A small instance of WebPages. *)
EXTENDS WebPages, TLC

CONSTANTS g1, g2,                           \* conversations
          f1, f2, s1, s2, w1, w2, c1, c2,   \* requests
          m1, m2                            \* second factors

\* Two groups: the hook of the direct conversations is another copy of the same code.
MCKindOf == (g1 :> "group") @@ (g2 :> "group")

\* A request under way has no name in the code: the two of a page can be exchanged.  Query
\* and Ask are left out, as PagesInit chooses one of each, and so is Find, of the smallest
\* page; as one page is mounted at a time, one exchange for all pages is enough.
\* Nor have a group and a second factor a name, and they are exchanged in the same way.
Swap(pairs) == pairs @@ [y \in {pairs[x] : x \in DOMAIN pairs} |->
                            CHOOSE x \in DOMAIN pairs : pairs[x] = y]
Either(swap) == {swap, [x \in DOMAIN swap |-> x]}
Exchanges == {e @@ m : e \in Either(Swap((f1 :> f2) @@ (s1 :> s2) @@ (w1 :> w2) @@ (c1 :> c2))),
                       m \in Either(Swap((g1 :> g2) @@ (m1 :> m2)))}
=============================================================================

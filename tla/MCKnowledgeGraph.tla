-------------------------- MODULE MCKnowledgeGraph --------------------------
\* Two sources that share a document, a claim that rests on both, three people
\* who may be the same.
EXTENDS KnowledgeGraph, TLC

CONSTANTS home, blog, h1, h2, b1, b2, b3, own, shared, post, rOwn, rPost, rShared,
          c1, c2, mA, mB, ann, bob, cy, kAB, kBA, kAC, x1, nAnn, nann, nBob, s1, s2

SourceFn == (h1 :> home) @@ (h2 :> home) @@ (b1 :> blog) @@ (b2 :> blog) @@ (b3 :> blog)
ContentFn == (h1 :> own) @@ (h2 :> shared) @@ (b1 :> shared) @@ (b2 :> post) @@ (b3 :> own)
DocFn == (rOwn :> own) @@ (rPost :> post) @@ (rShared :> shared)
RawFn == (mA :> rOwn) @@ (mB :> rPost)
NameFn == (ann :> nAnn) @@ (bob :> nBob) @@ (cy :> nBob)
TextFn == (kAB :> nann) @@ (kAC :> nAnn) @@ (kBA :> nBob)
FoldFn == (nAnn :> nAnn) @@ (nann :> nAnn) @@ (nBob :> nBob)

\* The claim c1 has evidence from both sources, c2 from the shared document.
Graph ==
    [fetches |-> {h1, h2, b1, b2},
     first |-> (own :> h1) @@ (shared :> h2) @@ (post :> b2),
     links |-> {<<own, h1>>, <<shared, h2>>, <<shared, b1>>, <<post, b2>>},
     raws |-> {rOwn, rPost, rShared},
     evidence |-> {[claim |-> c1, raw |-> rOwn, source |-> home],
                   [claim |-> c1, raw |-> rPost, source |-> blog],
                   [claim |-> c2, raw |-> rShared, source |-> home]},
     claims |-> (c1 :> [subject |-> ann, object |-> cy]) @@ (c2 :> [subject |-> cy, object |-> bob]),
     mentions |-> (mA :> ann) @@ (mB :> bob),
     entities |-> {ann, bob, cy},
     aliases |-> {<<bob, nann>>},
     candidates |-> (kAB :> [mention |-> mA, entity |-> bob, decision |-> None])
                 @@ (kBA :> [mention |-> mB, entity |-> ann, decision |-> None])
                 @@ (kAC :> [mention |-> mA, entity |-> cy, decision |-> None]),
     conflicts |-> (x1 :> [a |-> c1, b |-> c2, resolution |-> "unresolved"])]

Symmetry == Permutations({s1, s2})
OneGraph == {Graph}
=============================================================================

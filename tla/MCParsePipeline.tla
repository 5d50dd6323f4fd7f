-------------------------- MODULE MCParsePipeline --------------------------
\* Two sources with a page each, whose contents may coincide.
EXTENDS ParsePipeline, TLC

CONSTANTS p1, p2, home, blog, s1, s2, A, B

TwoSources == (home :> s1) @@ (blog :> s2)
OneSource == home :> s1
Symmetry == Permutations({p1, p2})
=============================================================================

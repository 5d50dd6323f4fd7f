--------------------------- MODULE MCRunLifecycle ---------------------------
(* Small instances of RunLifecycle.                                        *)
EXTENDS RunLifecycle, TLC

\* Run ids and requests are interchangeable; safety only.
Symmetric == Permutations(Runs) \cup Permutations(Handlers)
=============================================================================

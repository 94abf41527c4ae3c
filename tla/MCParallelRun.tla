--------------------------- MODULE MCParallelRun ---------------------------
(* ParallelRun for TLC: tokens are files, two sets of them overlap in a     *)
(* common file.                                                             *)
EXTENDS ParallelRun, TLC

CONSTANTS s1, s2, api, ui, src, docs

MCOverlap(a, b) == a \cap b # {}

\* s2 meets the first stream of s1 in its path and the second in its name.
MCPlan ==
    (s1 :> ((api :> {src}) @@ (ui :> {docs}))) @@ (s2 :> ((api :> {}) @@ (ui :> {src})))

\* s2 was started with a wt_base of its own.
MCAllowed == {<<s1, api>>, <<s1, ui>>}
=============================================================================

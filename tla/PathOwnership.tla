--------------------------- MODULE PathOwnership ---------------------------
(***************************************************************************)
(* What the lease registry promises to parallel sessions ("exclusive lease *)
(* on owned_paths", memory/stream_lease.py:2): a process is granted a set  *)
(* of paths under a stream name only when no other grant overlaps it, and  *)
(* keeps it until it gives it up or dies.  No registry, no liveness test.  *)
(***************************************************************************)
CONSTANTS
    Pids,           \* operating-system process identifiers
    Names,          \* stream names
    Tokens,         \* owned_paths tokens
    Overlap(_, _)   \* two sets of tokens have a path in common

VARIABLE own  \* own[p][n]: the paths that process p may write as stream n

Claims == SUBSET Tokens

Init == own = [p \in Pids |-> [n \in Names |-> {}]]

Grant(p, n, paths) ==
    /\ paths # {}
    /\ \A q \in Pids, m \in Names : <<q, m>> # <<p, n>> => ~Overlap(paths, own[q][m])
    /\ \A q \in Pids \ {p} : own[q][n] = {}
    /\ own' = [own EXCEPT ![p][n] = paths]

GiveUp(p, n) == own' = [own EXCEPT ![p][n] = {}]

Die(p) == own' = [own EXCEPT ![p] = [n \in Names |-> {}]]

Next ==
    \E p \in Pids :
        \/ \E n \in Names, paths \in Claims : Grant(p, n, paths)
        \/ \E n \in Names : GiveUp(p, n)
        \/ Die(p)

Spec == Init /\ [][Next]_own

\* No two grants overlap, whoever they belong to.
Exclusive ==
    \A p, q \in Pids, m, n \in Names :
        <<p, m>> # <<q, n>> => ~Overlap(own[p][m], own[q][n])
=============================================================================

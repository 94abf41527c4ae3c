--------------------------- MODULE SnapshotBound ---------------------------
(***************************************************************************)
(* How memory_snapshot and proxy_stats keep an answer under its limit      *)
(* (_bound_payload, _bound_memory in memory/local_mcp/tools/local.py):     *)
(* parts are dropped in a fixed order until the packed object fits, and    *)
(* the names of what was dropped travel with it, in the same object, and   *)
(* take their own room.  Sizes are in units; a name takes one, and a pack  *)
(* that is not truncated one more ("false" is longer than "true").         *)
(***************************************************************************)
EXTENDS Naturals, FiniteSets

CONSTANTS
    Patterns,  \* the categories under "patterns"
    Extras,    \* the other keys that are not kept
    MaxSize,   \* bound: the size of one part
    Limit      \* _SNAPSHOT_LIMIT

ASSUME BoundAssumption ==
    /\ {MaxSize, Limit} \subseteq Nat
    /\ IsFiniteSet(Patterns) /\ IsFiniteSet(Extras)
    /\ "keep" \notin Patterns \cup Extras

\* "keep" are the keys of the identity, which are never dropped.
Parts == {"keep", "llm_ontology", "recent_distillations"} \cup Patterns \cup Extras

VARIABLES
    size,      \* the size of each part that is left; 0, it is gone
    named,     \* "dropped": the names that travel with it
    bounding   \* where _bound_payload is

boundVars == <<size, named, bounding>>

BoundTypeOK ==
    /\ size \in [Parts -> 0 .. MaxSize] /\ named \subseteq Parts \cup {"patterns"}
    /\ bounding \in {"pack", "first", "shrink", "patterns", "extras",
                     "whole", "cut"}

BoundInit ==
    /\ size \in [Parts -> 0 .. MaxSize] /\ size["keep"] > 0
    /\ named = {} /\ bounding = "pack"

\* The units of the parts that are left, and the names.
Units(sizes) == {u \in Parts \X (1 .. MaxSize) : u[2] <= sizes[u[1]]}
Packed == Cardinality(Units(size)) + Cardinality(named)
Fits   == Packed <= Limit

\* The name is always remembered.
RememberDropBroken(p) == named' = named \cup {p}

\* _remember_drop: not when the identity with the names alone is too large.
RememberDrop(p) ==
    named' = IF size["keep"] + Cardinality(named \cup {p}) <= Limit
             THEN named \cup {p} ELSE named

\* The whole fits; nothing is copied, nothing is named.
Pack ==
    /\ bounding = "pack"
    /\ bounding' = IF Packed + 1 <= Limit THEN "whole" ELSE "first"
    /\ UNCHANGED <<size, named>>

Drop(p, n) == size' = [size EXCEPT ![p] = n] /\ RememberDrop(p)
Later(to)  == bounding' = to /\ UNCHANGED <<size, named>>

DropFirst ==
    /\ bounding = "first"
    /\ IF ~Fits /\ size["llm_ontology"] > 0
       THEN Drop("llm_ontology", 0) /\ UNCHANGED bounding
       ELSE Later("shrink")

\* The distillations one by one from the end.
DropDistillation ==
    /\ bounding = "shrink"
    /\ IF ~Fits /\ size["recent_distillations"] > 0
       THEN /\ Drop("recent_distillations", size["recent_distillations"] - 1)
            /\ UNCHANGED bounding
       ELSE Later("patterns")

\* The categories, the smallest first; with none left, their own name too.
DropPattern ==
    /\ bounding = "patterns"
    /\ LET there == {p \in Patterns : size[p] > 0}
       IN  IF ~Fits /\ there # {}
           THEN \E p \in there : /\ \A q \in there : size[p] <= size[q]
                                 /\ Drop(p, 0) /\ UNCHANGED bounding
           ELSE /\ bounding' = "extras" /\ UNCHANGED size
                /\ IF there = {} THEN RememberDrop("patterns") ELSE UNCHANGED named

\* Whatever is left and is not kept, the largest first.
DropExtra ==
    /\ bounding = "extras"
    /\ LET there == {p \in Parts \ {"keep"} : size[p] > 0}
       IN  IF ~Fits /\ there # {}
           THEN \E p \in there : /\ \A q \in there : size[p] >= size[q]
                                 /\ Drop(p, 0) /\ UNCHANGED bounding
           ELSE Later("cut")

BoundNext == Pack \/ DropFirst \/ DropDistillation \/ DropPattern \/ DropExtra

----------------------------------------------------------------------------
(* A cut answer is within the limit, names and all, unless the identity     *)
(* alone is not, whatever the parts take (_bound_payload, _remember_drop).  *)
AnswerFits == bounding = "cut" => Fits \/ size["keep"] > Limit
=============================================================================

--------------------------- MODULE MCStreamLease ---------------------------
(* StreamLease for TLC: a directory, a file in it and another directory.    *)
(* No action prefers one process or one name to another.                    *)
EXTENDS StreamLease

MCSuffixed == {"a.py"}

\* "src/", "src/a.py", "doc"
MCTokens == {<<"src", "">>, <<"src", "a.py">>, <<"doc">>}

Symmetry == Permutations(Pids) \cup Permutations(Names)
=============================================================================

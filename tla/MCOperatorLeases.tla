------------------------- MODULE MCOperatorLeases -------------------------
(* OperatorLeases for TLC, with the paths of MCStreamLease.                 *)
EXTENDS OperatorLeases

MCSuffixed == {"a.py"}

\* "src/", "src/a.py"
MCTokens == {<<"src", "">>, <<"src", "a.py">>}
=============================================================================

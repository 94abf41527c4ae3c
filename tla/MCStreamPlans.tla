--------------------------- MODULE MCStreamPlans ---------------------------
(* StreamPlans for TLC: a small tree with a file, a package and two plain   *)
(* directories, and the ways to name them.                                  *)
EXTENDS StreamPlans

MCSuffixed == {"a.py", "pkg.d"}

\* "src", "src/", "src/a.py", "src/lib", "pkg.d", "pkg.d/"
MCTokens == {<<"src">>, <<"src", "">>, <<"src", "a.py">>, <<"src", "lib">>,
             <<"pkg.d">>, <<"pkg.d", "">>}

MCFiles == {<<"src", "a.py">>, <<"src", "lib", "a.py">>, <<"src", "lib">>, <<"pkg.d">>,
            <<"pkg.d", "x">>, <<"src">>}
=============================================================================

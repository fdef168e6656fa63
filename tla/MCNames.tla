------------------------------ MODULE MCNames ------------------------------
EXTENDS Names, TLC

CONSTANTS i1, i2, i3

\* Processes and the inodes but the root's are treated alike.
Symmetric == Permutations(Procs) \cup Permutations(Inos \ {Root})
MCPaths == {<<"a">>, <<"b">>, <<"a", "a">>, <<"a", "..">>}
=============================================================================

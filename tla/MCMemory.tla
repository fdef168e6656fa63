------------------------------ MODULE MCMemory ------------------------------
EXTENDS Memory, TLC

\* Processes, executables and written values are treated alike.
Symmetric == Permutations(Procs) \cup Permutations(Vals) \cup Permutations(Exes)
=============================================================================

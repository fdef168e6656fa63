------------------------------ MODULE MCPipes ------------------------------
EXTENDS Pipes, TLC

\* Processes are treated alike.
Symmetric == Permutations(Procs)
=============================================================================

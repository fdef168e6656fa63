------------------------------ MODULE MCInodes ------------------------------
EXTENDS Inodes, TLC

CONSTANT f1

\* Processes, entries of the table and blocks are treated alike.
Symmetric == Permutations(Procs) \cup Permutations(Inodes) \cup Permutations(Blocks)
=============================================================================

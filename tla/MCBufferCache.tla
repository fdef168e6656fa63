--------------------------- MODULE MCBufferCache ---------------------------
\* Small instances of BufferCache.
EXTENDS BufferCache, TLC

CONSTANT d1

OneDevice  == [x \in Blocks |-> d1]

\* Blocks that differ only in their name, and the processes.
Symmetric == Permutations(Procs) \cup Permutations(Blocks)
=============================================================================

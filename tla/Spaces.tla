------------------------------- MODULE Spaces -------------------------------
(***************************************************************************)
(* What the memory manager promises to the processes: each has a memory of *)
(* its own.  Nobody sees the pages, which of them are shared, or which are *)
(* on the swap device.                                                     *)
(***************************************************************************)
CONSTANTS Procs,      \* the processes there can be
          Addrs,      \* the pages of an address space
          Vals,       \* what a process can write into a page
          Exes,       \* the executables
          Initial(_, _), \* what a page of one holds before it is written
          Nothing     \* what there is for no process to read

VARIABLES alive,  \* the processes there are
          mem     \* what each of them reads at each address

vars == <<alive, mem>>

Fresh(x) == [a \in Addrs |-> Initial(x, a)]
Gone == [a \in Addrs |-> Nothing]

Init ==
    \E p \in Procs, x \in Exes :
        /\ alive = {p}
        /\ mem = [q \in Procs |-> IF q = p THEN Fresh(x) ELSE Gone]

\* A store, by the process or by the kernel on its behalf.
Store(p, a, v) ==
    /\ p \in alive
    /\ mem' = [mem EXCEPT ![p][a] = v]
    /\ UNCHANGED alive

\* The child starts with what its parent has.
Fork(p, c) ==
    /\ p \in alive /\ c \notin alive
    /\ alive' = alive \cup {c}
    /\ mem' = [mem EXCEPT ![c] = mem[p]]

Exec(p, x) ==
    /\ p \in alive
    /\ mem' = [mem EXCEPT ![p] = Fresh(x)]
    /\ UNCHANGED alive

\* exit(), or the end of a process for which there is no memory.
Exit(p) ==
    /\ p \in alive
    /\ alive' = alive \ {p}
    /\ mem' = [mem EXCEPT ![p] = Gone]

Next ==
    \E p \in Procs :
        \/ \E a \in Addrs, v \in Vals : Store(p, a, v)
        \/ \E c \in Procs : Fork(p, c)
        \/ \E x \in Exes : Exec(p, x)
        \/ Exit(p)

Spec == Init /\ [][Next]_vars
=============================================================================

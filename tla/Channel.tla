------------------------------- MODULE Channel -------------------------------
(***************************************************************************)
(* What a pipe promises: a queue of bytes that come out in the order in    *)
(* which they went in, an end of file only when nobody can write any more, *)
(* and an error only when nobody can read any more.                        *)
(***************************************************************************)
EXTENDS Integers, Sequences, SequencesExt

CONSTANTS Procs, NoProc,
          Capacity,   \* how many bytes a pipe holds
          Vals        \* what they can be

VARIABLES queue,      \* the bytes in the pipe
          readers,    \* who can read from it
          writers,    \* who can write to it
          got         \* what a process has just got, if it has

vars == <<queue, readers, writers, got>>

Nothing == [by |-> NoProc, is |-> "nothing", bytes |-> <<>>]
EOF(p) == [by |-> p, is |-> "end of file", bytes |-> <<>>]
BrokenPipe(p) == [by |-> p, is |-> "broken pipe", bytes |-> <<>>]
Data(p, s) == [by |-> p, is |-> "bytes", bytes |-> s]

Init ==
    /\ queue = <<>> /\ readers = {} /\ writers = {}
    /\ got = Nothing

Create(p) ==
    /\ readers = {} /\ writers = {}
    /\ readers' = {p} /\ writers' = {p} /\ queue' = <<>>
    /\ got' = Nothing

\* A child has what its parent has.
Inherit(p, c) ==
    /\ readers' = IF p \in readers THEN readers \cup {c} ELSE readers
    /\ writers' = IF p \in writers THEN writers \cup {c} ELSE writers
    /\ UNCHANGED queue /\ got' = Nothing

\* The last end takes the bytes that are left with it.
Leave(p) ==
    /\ readers' \in {readers, readers \ {p}}
    /\ writers' \in {writers, writers \ {p}}
    /\ queue' = IF readers' \cup writers' = {} THEN <<>> ELSE queue
    /\ got' = Nothing

Send(p, s) ==
    /\ p \in writers /\ Len(queue) + Len(s) <= Capacity
    /\ queue' = queue \o s
    /\ UNCHANGED <<readers, writers>> /\ got' = Nothing

Receive(p, n) ==
    /\ p \in readers /\ n \in 1..Len(queue)
    /\ got' = Data(p, SubSeq(queue, 1, n))
    /\ queue' = SubSeq(queue, n + 1, Len(queue))
    /\ UNCHANGED <<readers, writers>>

EndOfFile(p) ==
    /\ p \in readers /\ writers = {} /\ queue = <<>>
    /\ got' = EOF(p)
    /\ UNCHANGED <<queue, readers, writers>>

Broken(p) ==
    /\ p \in writers /\ readers = {}
    /\ got' = BrokenPipe(p)
    /\ UNCHANGED <<queue, readers, writers>>

Forget == got' = Nothing /\ UNCHANGED <<queue, readers, writers>>

Next ==
    \/ Forget
    \/ \E p \in Procs :
        \/ Create(p) \/ Leave(p) \/ EndOfFile(p) \/ Broken(p)
        \/ \E c \in Procs : Inherit(p, c)
        \/ \E s \in BoundedSeq(Vals, Capacity) : Send(p, s)
        \/ \E n \in 1..Capacity : Receive(p, n)

Spec == Init /\ [][Next]_vars
=============================================================================

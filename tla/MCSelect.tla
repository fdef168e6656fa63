------------------------------ MODULE MCSelect -------------------------------
(* One selects a pipe and a terminal, one selects or reads, and one selects or *)
(* writes.                                                                     *)
EXTENDS Select, TLC

CONSTANTS p1, p2, p3

MCWants ==
    (p1 :> {{"in pipe", "in tty"}, {}}) @@
    (p2 :> {{"in tty", "ex pipe"}, {"out pipe"}}) @@
    (p3 :> {{"in pipe"}, {"out pipe", "in tty"}})
MCCalls == (p1 :> {"write"}) @@ (p2 :> {"read", "tty"}) @@ (p3 :> {"read", "write"})
=============================================================================

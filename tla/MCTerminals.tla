----------------------------- MODULE MCTerminals -----------------------------
(* A console as it is at first and as an editor wants it, where what erases a *)
(* line is an ordinary character, and a serial line.                          *)
EXTENDS Terminals

MCModes ==
    [k \in {"console", "serial"} |->
        IF k = "console" THEN {{"canon", "echo", "isig"}, {"isig"}} ELSE {{"canon", "echo", "ixon"}}]
MCKeys ==
    [k \in {"console", "serial"} |->
        IF k = "console" THEN {"nl", "kill", "intr"} ELSE {"x", "eof", "erase", "stop", "start"}]
=============================================================================

------------------------------ MODULE MCConsole ------------------------------
(* Two consoles of two columns and three lines, with a line to spare.      *)
EXTENDS Console

MCSaved == {<<0, 0>>, <<2, 1>>}
MCChars ==
    {"a", "esc", "lf", "cr", "del", "bs", "tab", "can", "[", "?", ";", "2", "E", "M", "D", "7", "8",
     "P", "c", "G", "A", "B", "C", "F", "d", "H", "J", "K", "L", "@", "r", "s", "u"}
=============================================================================

---------------------------- MODULE MCProcesses ----------------------------
(* Values for the constants of Processes that a .cfg cannot write.         *)
EXTENDS Processes, TLC

Use(calls, sends, sleeps) ==
    [calls |-> {"fork", "exit"} \cup calls, sends |-> sends, sleeps |-> sleeps]

\* Families come and go while memory is short; processes are killed; job
\* control; sessions and their terminal, also of a superuser.
SomeUses ==
    {Use({"wait"}, {}, {"copy"}), Use({"kill"}, {9}, {"page"}),
     Use({"kill"}, {9}, {"copy"}), Use({"kill"}, {9, 19}, {}),
     Use({"kill", "setpgid"}, {19}, {}),
     Use({"setsid", "setpgid", "tty"}, {}, {}),
     Use({"setsid", "suser", "tty"}, {}, {})}
\* Waiting for one child, a group or any, while signals arrive.
WaitUses == {Use({"wait", "kill"}, {9, 19}, {}), Use({"wait", "setpgid"}, {}, {"copy"})}
SwapUse == {Use({"wait"}, {}, {"page"})}
JobUse == {Use({"kill", "setpgid"}, {19}, {})}

AnyChild == {-1}
SomeChild == {-1, 0, 3, -3}
NoOptions == {{}}
AllOptions == {{}, {"WUNTRACED"}, {"WNOHANG"}}

PagesAlike == Permutations(Pages)
=============================================================================

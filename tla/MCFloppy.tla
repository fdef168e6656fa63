------------------------------ MODULE MCFloppy ------------------------------
(* Both drives are used, on the same and on another track, and beyond the end. *)
EXTENDS Floppy

MCAsked == {<<0, 0>>, <<0, 1>>, <<1, 1>>, <<1, BadTrack>>}
=============================================================================

------------------------------ MODULE MCJournal ------------------------------
(***************************************************************************)
(* Two addresses and two blocks, so that a transcript can push, overwrite *)
(* and wipe the same address and touch another; three actions, enough for *)
(* a push, a wipe and a push again of one address; one actor, whose       *)
(* presence is all Record tests.                                           *)
(***************************************************************************)
EXTENDS Journal

CONSTANTS c1, a1, a2, b1, b2

====

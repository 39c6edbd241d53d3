----------------------------- MODULE MCQuillUnit -----------------------------
(***************************************************************************)
(* QuillUnit for TLC: six keys and two values give every container a      *)
(* quill can hold (3^6 states); with inlets of 2 over an initial 1, an    *)
(* extent of 7 makes quills of four to six inlets split, and a contention  *)
(* of 60% (split size 4) keeps two inlets on the left.                     *)
(***************************************************************************)
EXTENDS QuillUnit

MCKeys == 1..6
====

------------------------------- MODULE MCTable -------------------------------
(***************************************************************************)
(* Dimensions 0..2 (empty rows or columns, single cells, 1x2, 2x1, 2x2)   *)
(* and three element values, one of them the default, so that a reshape  *)
(* that keeps, moves or drops an element is told apart.                   *)
(***************************************************************************)
EXTENDS Table

CONSTANTS e0, e1, e2

====

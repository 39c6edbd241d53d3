---------------------------- MODULE MCTableStorage ----------------------------
(***************************************************************************)
(* Two element values besides T(), and dimensions and rows of up to two:  *)
(* enough for a 2 x 1 table (dimensions that differ tell row-major from   *)
(* column-major) and for rows of sizes 1 and 2 in one initializer list.   *)
(***************************************************************************)
EXTENDS TableStorage

CONSTANTS e0, e1, e2

MCValues == {e0, e1, e2}

====

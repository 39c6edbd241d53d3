------------------------------ MODULE MCNetwork ------------------------------
(***************************************************************************)
(* Two network names, so that one network's files are never mistaken for *)
(* another's. One invocation at a time (the run that checks the file     *)
(* layout under interrupted invocations), or two that overlap.           *)
(***************************************************************************)
EXTENDS Network

CONSTANTS n1, n2, p1, p2

MCNames == {n1, n2}
MCOneProc == {p1}
MCTwoProcs == {p1, p2}

====

----------------------------- MODULE MCPorcupine -----------------------------
(***************************************************************************)
(* Porcupine instantiated for TLC. Four keys and inlets of size 2 in      *)
(* quills of footprint 1 and extent 5 let a leaf hold two inlets: the      *)
(* third splits it 2/1 (Export keeps inlets while the running footprint   *)
(* is <= 5 * 80% = 4), so adding 3, 4, 1 and then 2 reaches three leaves  *)
(* under the root seam, and a leaf down to one inlet (footprint 3 < 4) or *)
(* none merges into a sibling. A leaf reloaded by Extract() lacks the     *)
(* base footprint, so its splits and merges come one inlet later or       *)
(* earlier than those of the leaf released. Six nodule ids never run out. *)
(***************************************************************************)
EXTENDS Porcupine

MCKeys == 1..4
MCNodeIds == 1..6

(***************************************************************************)
(* The address a dirty nodule still carries, and the root address while    *)
(* the root is dirty, are overwritten by the next seal() before anything   *)
(* reads them; states differing only there are the same state.            *)
(***************************************************************************)
SealedView ==
  << [n \in DOMAIN nodes |->
        IF nodes[n].q.state = "clean" THEN nodes[n] ELSE [nodes[n] EXCEPT !.address = NoAddress]],
     root,
     IF nodes[root].q.state = "clean" THEN rootAddress ELSE NoAddress,
     loaded >>
====

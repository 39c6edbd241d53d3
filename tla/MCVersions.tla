------------------------------ MODULE MCVersions ------------------------------
(***************************************************************************)
(* The two version types of the repository side by side: elle::Version,   *)
(* a software version with fields in 0..2, and nucleus::proton::Version,  *)
(* a block version of two objects over a three-bit number type with        *)
(* increments of 1 or 2, so that every number and its wrap are reached.  *)
(* Each pair of versions is drawn and operated on independently.          *)
(***************************************************************************)
EXTENDS Naturals

CONSTANTS o1, o2

VARIABLES ex, ey, px, py

E == INSTANCE ElleVersion WITH x <- ex, y <- ey, Bound <- 2

P == INSTANCE ProtonVersion WITH x <- px, y <- py, Objects <- {o1, o2},
                                 TypeBits <- 3, MaxIncrement <- 2

vars == <<ex, ey, px, py>>

Init == E!Init /\ P!Init

Next ==
  \/ E!Next /\ UNCHANGED <<px, py>>
  \/ P!Next /\ UNCHANGED <<ex, ey>>

Spec == Init /\ [][Next]_vars

\* elle::Version's ==, < and > agree with the lexicographic rank.
VersionOrder == E!VersionOrder

====

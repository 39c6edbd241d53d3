----------------------------- MODULE ElleVersion -----------------------------
(***************************************************************************)
(* elle::Version (src/elle/src/elle/Version.cc): a major.minor.subminor    *)
(* triple with ==, < and > written out field by field. Two versions are    *)
(* default-constructed and then read from a serializer with fields in a   *)
(* bounded range; the operators are compared with the order they are      *)
(* meant to implement.                                                     *)
(***************************************************************************)
EXTENDS Naturals

CONSTANT Bound   \* each field ranges over 0..Bound

Versions == [major : 0..Bound, minor : 0..Bound, subminor : 0..Bound]

Equal(a, b) ==
  a.major = b.major /\ a.minor = b.minor /\ a.subminor = b.subminor

\* Mutant: the fields compared from the least significant one.
LessSubminorFirst(a, b) ==
  IF a.subminor # b.subminor THEN a.subminor < b.subminor
  ELSE IF a.minor # b.minor THEN a.minor < b.minor
  ELSE a.major < b.major

Less(a, b) ==
  IF a.major # b.major THEN a.major < b.major
  ELSE IF a.minor # b.minor THEN a.minor < b.minor
  ELSE a.subminor < b.subminor

Greater(a, b) == ~(Equal(a, b) \/ Less(a, b))

VARIABLES x, y

\* Version(): every field 0.
Init == x = [major |-> 0, minor |-> 0, subminor |-> 0] /\ y = x

\* serialize() on a SerializerIn: the three fields read in turn, whatever
\* values the input holds, into either of the two versions.
Deserialize(v) ==
  \/ x' = v /\ UNCHANGED y
  \/ y' = v /\ UNCHANGED x

Next == \E v \in Versions : Deserialize(v)

Spec == Init /\ [][Next]_<<x, y>>

-----------------------------------------------------------------------------
\* The reference order: a version's rank in the lexicographic order.
Rank(v) == (v.major * (Bound + 1) + v.minor) * (Bound + 1) + v.subminor

(***************************************************************************)
(* operator< and operator> of elle::Version order versions by major, then *)
(* minor, then subminor, and == holds of equal triples only: together the *)
(* three agree with the lexicographic rank of the two versions compared.  *)
(***************************************************************************)
VersionOrder ==
  /\ Less(x, y) <=> Rank(x) < Rank(y)
  /\ Greater(x, y) <=> Rank(x) > Rank(y)
  /\ Equal(x, y) <=> Rank(x) = Rank(y)

=============================================================================

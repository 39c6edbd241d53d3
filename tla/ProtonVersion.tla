---------------------------- MODULE ProtonVersion ----------------------------
(***************************************************************************)
(* nucleus::proton::Version (src/nucleus/proton/Version.cc), the version   *)
(* number of a mutable block. A Version object is modelled as a record of *)
(* its identity (its address in memory: ==, < and > first test whether    *)
(* both operands are the same object) and its unsigned number.           *)
(***************************************************************************)
EXTENDS Naturals

CONSTANTS
  Objects,      \* identities of Version objects
  TypeBits,     \* width of Version::Type
  MaxIncrement  \* bound on the Natural32 increment given to +=

Width == 2 ^ TypeBits

Numbers == 0..(Width - 1)

Versions == [id : Objects, number : Numbers]

Equal(a, b) == a.id = b.id \/ a.number = b.number

Less(a, b) == a.id = b.id \/ a.number < b.number

Greater(a, b) == a.id = b.id \/ a.number > b.number

\* Version::Last, the largest number of the unsigned Version::Type.
Last == Width - 1

VARIABLES x, y

vars == <<x, y>>

Init == x \in Versions /\ y \in Versions

\* x.Create(number): the number assigned.
Create(n) ==
  /\ x' = [x EXCEPT !.number = n]
  /\ UNCHANGED y

\* x += increment: the unsigned number grows, wrapping at the type's width.
Increment(i) ==
  /\ x' = [x EXCEPT !.number = (@ + i) % Width]
  /\ UNCHANGED y

\* y = x + y: operator+ builds a Version of the (wrapping) sum, copied into y.
Add ==
  /\ y' = [y EXCEPT !.number = (x.number + y.number) % Width]
  /\ UNCHANGED x

Next ==
  \/ \E n \in Numbers : Create(n)
  \/ \E i \in 1..MaxIncrement : Increment(i)
  \/ Add

Spec == Init /\ [][Next]_vars

-----------------------------------------------------------------------------
(***************************************************************************)
(* operator< is a strict order: no version is less than itself. The early *)
(* "this may actually be the same object" return in operator< and        *)
(* operator> answers true when an object is compared with itself.        *)
(***************************************************************************)
LessIrreflexive == ~Less(x, x) /\ ~Greater(x, x)

=============================================================================

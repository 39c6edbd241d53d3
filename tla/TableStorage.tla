----------------------------- MODULE TableStorage -----------------------------
(***************************************************************************)
(* elle::TableImpl<T, Indexes...> of src/src/elle/Table.hh, for two        *)
(* dimensions: a table over raw aligned storage, _table = new              *)
(* Storage[_size], whose elements are constructed in place (placement new) *)
(* by the constructors and destroyed one by one by the destructor.        *)
(*                                                                         *)
(*   dims    : _dimensions                                                 *)
(*   slots   : the _size storage cells, each a constructed T or Uninit    *)
(*   overrun : a placement new has written past the end of _table         *)
(*   built   : history only, the initializer list the table was built    *)
(*             from, with the at() writes since made at their row and     *)
(*             column; <<>> after TableImpl(dimensions)                   *)
(***************************************************************************)
EXTENDS Naturals, Sequences, SequencesExt

CONSTANTS
  Values,     \* element values
  Default,    \* T()
  Uninit,     \* a storage cell no constructor has run on
  MaxDim      \* bound on each dimension and on each row of an initializer

ASSUME Default \in Values /\ Uninit \notin Values

Dims == [1..2 -> 0..MaxDim]

\* _details::table::size: the first dimension times the size of the rest.
StorageSize(d) == d[1] * d[2]

\* Mutant: _index_offset taking the leading dimensions instead of the last.
OffsetLeading(d, k) == IF k = 0 THEN 1 ELSE d[1]

\* _index_offset(make_index_sequence<k>): the product of the last k
\* dimensions, std::get<N - S - 1>(_dimensions) for S in 0..k-1.
Offset(d, k) == IF k = 0 THEN 1 ELSE d[2]

\* _index: the sum of each coordinate times _index_offset of the dimensions
\* after its own.
Position(d, c) == c[1] * Offset(d, 1) + c[2] * Offset(d, 0)

\* _check_boundaries: every coordinate within [0, dimension).
WithinBounds(d, c) == \A s \in 1..2 : 0 <= c[s] /\ c[s] < d[s]

Coordinates(d) == { c \in [1..2 -> 0..MaxDim] : WithinBounds(d, c) }

\* The initializer lists of two levels the constructor may be given.
Initializers == BoundedSeq(BoundedSeq(Values, MaxDim), MaxDim)

VARIABLES dims, slots, overrun, built

vars == <<dims, slots, overrun, built>>

Init ==
  /\ dims = <<0, 0>>
  /\ slots = <<>>
  /\ overrun = FALSE
  /\ built = <<>>

(***************************************************************************)
(* TableImpl(dimensions): the storage is allocated, then T() is           *)
(* constructed in each of its _size cells.                                 *)
(***************************************************************************)
ConstructDefault(d) ==
  /\ dims' = d
  /\ slots' = [j \in 1..StorageSize(d) |-> Default]
  /\ overrun' = FALSE
  /\ built' = <<>>

(***************************************************************************)
(* TableImpl(initializer list): _dimensions are the size of the list and  *)
(* of its first row, read through *begin(init) even when the list is      *)
(* empty (an unspecified size, here any); the storage is allocated for    *)
(* their product; then distribute() placement-news every element of every *)
(* row at the next cell, whatever the row's size. Cells past the last     *)
(* element stay unconstructed; elements past the last cell are written    *)
(* beyond _table.                                                          *)
(***************************************************************************)
ConstructRows(rows) ==
  \E first \in 0..MaxDim :
    LET d    == <<Len(rows), IF rows = <<>> THEN first ELSE Len(rows[1])>>
        flat == FlattenSeq(rows)
    IN  /\ dims' = d
        /\ slots' = [j \in 1..StorageSize(d) |-> IF j <= Len(flat) THEN flat[j] ELSE Uninit]
        /\ overrun' = (Len(flat) > StorageSize(d))
        /\ built' = rows

\* A list of rows of equal size: the lists whose layout is defined.
Rectangular(rows) ==
  rows # <<>> /\ \A r \in 1..Len(rows) : Len(rows[r]) = Len(rows[1])

(***************************************************************************)
(* at(index) = value: err "out of bounds" unless _check_boundaries holds;  *)
(* ELLE_ASSERT_LT(i, _size) on the position _index computes; then the     *)
(* cell is assigned through a T& (which presumes it constructed).         *)
(***************************************************************************)
SetAt(c, v) ==
  /\ WithinBounds(dims, c)
  /\ Position(dims, c) < StorageSize(dims)
  /\ slots' = [slots EXCEPT ![Position(dims, c) + 1] = v]
  /\ built' = IF Rectangular(built)
              THEN [built EXCEPT ![c[1] + 1][c[2] + 1] = v]
              ELSE built
  /\ UNCHANGED <<dims, overrun>>

Next ==
  \/ \E d \in Dims : ConstructDefault(d)
  \/ \E rows \in Initializers : ConstructRows(rows)
  \/ \E c \in Coordinates(dims), v \in Values : SetAt(c, v)

Spec == Init /\ [][Next]_vars

-----------------------------------------------------------------------------
(***************************************************************************)
(* The initializer list is laid out in row-major order: built from a list *)
(* of rows of equal size, at(i, j) is the j-th element of the i-th row as *)
(* the list and every at() write since put it (a write changes no other  *)
(* element), and _index sends every in-bounds index below _size (the     *)
(* assertion in at() never fires).                                        *)
(***************************************************************************)
RowMajorLayout ==
  Rectangular(built) =>
    \A c \in Coordinates(dims) :
      /\ Position(dims, c) < StorageSize(dims)
      /\ slots[Position(dims, c) + 1] = built[c[1] + 1][c[2] + 1]

(***************************************************************************)
(* Every cell of the storage holds a constructed T and nothing was written *)
(* past it: at() reads and assigns through T&, and the destructor runs    *)
(* ~T() on all _size cells, so an unconstructed cell or an overrun is     *)
(* undefined behaviour.                                                    *)
(***************************************************************************)
StorageConstructed ==
  /\ ~overrun
  /\ \A j \in 1..Len(slots) : slots[j] # Uninit

=============================================================================

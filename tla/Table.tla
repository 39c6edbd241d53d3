-------------------------------- MODULE Table --------------------------------
(***************************************************************************)
(* elle::Table (src/src/elle/Table.hxx), a table of two dimensions: its    *)
(* _dimensions and the vector _table of its elements in row-major order.  *)
(* index(coordinates) and index(position) convert between the two, at()   *)
(* writes an element, dimensions(d) reshapes the table keeping what lies  *)
(* in both shapes, and the constructors and the deserializer build a new  *)
(* table in place of the old one. operator= destroys the table and copy-  *)
(* constructs it again from its argument, which may be the table itself.  *)
(***************************************************************************)
EXTENDS Naturals, Sequences, SequencesExt

CONSTANTS
  Values,     \* element values
  Default,    \* T(), the value of a default-constructed element
  MaxDim,     \* bound on each dimension
  Self,           \* the argument of operator= is the assigned table itself
  SelfAssignment, \* whether a caller may assign a table to itself
  Garbage         \* what dereferencing past the end of the vector reads

ASSUME Default \in Values

Dims == [1..2 -> 0..MaxDim]

\* _details::table::size: the product of the dimensions.
TableSize(d) == FoldLeft(LAMBDA a, b : a * b, 1, d)

\* Mutant: the offsets taken from the leading dimensions (column-major).
IndexOffsetLeading(d, k) == FoldLeft(LAMBDA a, b : a * b, 1, SubSeq(d, 1, k))

\* _index_offset over a sequence of k: the product of the last k dimensions.
IndexOffset(d, k) == FoldLeft(LAMBDA a, b : a * b, 1, SubSeq(d, Len(d) - k + 1, Len(d)))

\* index(coordinates): each coordinate times the offset of the dimensions
\* after its own.
IndexOf(d, c) == c[1] * IndexOffset(d, 1) + c[2] * IndexOffset(d, 0)

\* index(position), and the iterator's _index: coordinate I is
\* i % offset(D - I) / offset(D - I - 1), evaluated left to right.
CoordsOf(d, i) ==
  [s \in 1..2 |-> (i % IndexOffset(d, 3 - s)) \div IndexOffset(d, 2 - s)]

\* contains(): every coordinate within [0, dimension).
InBounds(d, c) == \A s \in 1..2 : 0 <= c[s] /\ c[s] < d[s]

Coords(d) == { c \in [1..2 -> 0..MaxDim] : InBounds(d, c) }

\* Every table value: dimensions and size() elements.
Tables == UNION { [dims : {d}, elems : [1..TableSize(d) -> Values]] : d \in Dims }

ASSUME Self \notin Tables /\ SelfAssignment \in BOOLEAN /\ Garbage \notin Values

\* The arguments operator= may be given.
Sources == Tables \cup (IF SelfAssignment THEN {Self} ELSE {})

VARIABLES dims, elems

vars == <<dims, elems>>

\* The element at the given coordinates (position + 1 in the sequence);
\* _table[index] is unchecked, so a vector shorter than size() is read past
\* its end.
At(c) == IF IndexOf(dims, c) < Len(elems) THEN elems[IndexOf(dims, c) + 1] ELSE Garbage

Init == dims = <<0, 0>> /\ elems = <<>>

(***************************************************************************)
(* TableImpl(dimensions, value): the no_init constructor, then the vector *)
(* resized to size() default-constructed elements; value is not used.     *)
(***************************************************************************)
ConstructFilled(d, value) ==
  /\ dims' = d
  /\ elems' = [j \in 1..TableSize(d) |-> Default]

(***************************************************************************)
(* TableImpl(initializer list): the dimensions are the sizes of the list  *)
(* and of its first row (read through *begin(init) even when the list is  *)
(* empty: an unspecified size, here any); then distribute() appends the   *)
(* rows' elements and errs on a row of the wrong size, so no table is     *)
(* constructed.                                                            *)
(***************************************************************************)
ConstructRows(rows) ==
  \E first \in 0..MaxDim :
    LET d == <<Len(rows), IF rows = <<>> THEN first ELSE Len(rows[1])>>
    IN  /\ \A r \in 1..Len(rows) : Len(rows[r]) = d[2]
        /\ dims' = d
        /\ elems' = FlattenSeq(rows)

\* at(coordinates) = value: refused ("out of bounds") outside the table.
\* _table[i] is unchecked: past the end of a vector emptied by t = t the
\* write lands outside the vector, which at() never reads back.
SetAt(c, v) ==
  /\ InBounds(dims, c)
  /\ elems' = IF IndexOf(dims, c) < Len(elems)
               THEN [elems EXCEPT ![IndexOf(dims, c) + 1] = v]
               ELSE elems
  /\ UNCHANGED dims

(***************************************************************************)
(* dimensions(d): a new table of shape d is filled position by position: *)
(* the element at the same coordinates is moved from the old table when  *)
(* the old one contains them, else a default one is appended.            *)
(***************************************************************************)
\* Mutant: the element vector kept by position and cut or padded to size.
ResizeFlat(d) ==
  /\ dims' = d
  /\ elems' = [j \in 1..TableSize(d) |->
                 IF j <= Len(elems) THEN elems[j] ELSE Default]

Resize(d) ==
  /\ dims' = d
  /\ elems' = [j \in 1..TableSize(d) |->
                 LET c == CoordsOf(d, j - 1)
                 IN  IF InBounds(dims, c) THEN At(c) ELSE Default]

Load(d, e) ==
  /\ Len(e) = TableSize(d)
  /\ dims' = d
  /\ elems' = e

(***************************************************************************)
(* TableImpl(TableImpl const& src): the no_init constructor on a copy of  *)
(* src's dimensions, then each of src's elements appended in turn.        *)
(***************************************************************************)
CopyOf(src) ==
  [dims |-> src.dims, elems |-> FoldLeft(LAMBDA e, x : Append(e, x), <<>>, src.elems)]

(***************************************************************************)
(* operator=(table): ~TableImpl() destroys the element vector, then       *)
(* new (this) TableImpl(table) copy-constructs in place. When table is    *)
(* *this the copy reads a destroyed object (undefined behaviour); the     *)
(* build's outcome: the dimensions, a trivially destructible array, are  *)
(* copied unchanged, the delegated constructor value-initialises _table  *)
(* (empty), and the loop then copies the elements of that same, now      *)
(* empty, vector.                                                          *)
(***************************************************************************)
Assign(src) ==
  LET copy == IF src = Self THEN CopyOf([dims |-> dims, elems |-> <<>>])
                            ELSE CopyOf(src)
  IN  /\ dims' = copy.dims
      /\ elems' = copy.elems

TableEqual(a, b) ==
  /\ a.dims = b.dims
  /\ \A j \in 1..Min({Len(a.elems), Len(b.elems)}) : a.elems[j] = b.elems[j]

(***************************************************************************)
(* Iteration. begin() wraps the vector's begin; end() is begin() + size(),*)
(* the product of the dimensions, not the vector's own end. operator*    *)
(* pairs the iterator's offset from the vector's begin, turned into       *)
(* coordinates by iterator_base::_index, with the element it points at.  *)
(***************************************************************************)
\* Mutant: end() one short of begin() + size().
EndBeforeLast(d) == TableSize(d) - 1

End(d) == TableSize(d)

\* iterator_base::_index: coordinate I is offset % _index_offset(D - I)
\* / _index_offset(D - I - 1).
IterIndex(d, o) == [s \in 1..2 |-> (o % IndexOffset(d, 3 - s)) \div IndexOffset(d, 2 - s)]

\* The pairs a range-for from begin() to end() yields, in order.
Iteration ==
  [o \in 1..End(dims) |->
     <<IterIndex(dims, o - 1), IF o <= Len(elems) THEN elems[o] ELSE Garbage>>]

Next ==
  \/ \E d \in Dims, v \in Values : ConstructFilled(d, v)
  \/ \E rows \in BoundedSeq(BoundedSeq(Values, MaxDim), MaxDim) : ConstructRows(rows)
  \/ \E c \in Coords(dims), v \in Values : SetAt(c, v)
  \/ \E d \in Dims : Resize(d)
  \/ \E d \in Dims, e \in BoundedSeq(Values, MaxDim * MaxDim) : Load(d, e)
  \/ \E src \in Sources : Assign(src)

Spec == Init /\ [][Next]_vars

-----------------------------------------------------------------------------
IndexBijection ==
  /\ \A i \in 0..(TableSize(dims) - 1) :
       InBounds(dims, CoordsOf(dims, i)) /\ IndexOf(dims, CoordsOf(dims, i)) = i
  /\ \A c \in Coords(dims) : CoordsOf(dims, IndexOf(dims, c)) = c

(***************************************************************************)
(* dimensions(d) keeps every element whose coordinates lie in both the    *)
(* old and the new shape, at the same coordinates, and fills the rest of  *)
(* the new shape with default elements.                                    *)
(***************************************************************************)
ResizeKeeps ==
  [][\A d \in Dims :
       Resize(d) =>
         \A c \in Coords(d) :
           elems'[IndexOf(d, c) + 1] = IF InBounds(dims, c) THEN At(c) ELSE Default]_vars

IterationMatchesAt ==
  /\ Len(Iteration) = Cardinality(Coords(dims))
  /\ { Iteration[o] : o \in DOMAIN Iteration } = { <<c, At(c)>> : c \in Coords(dims) }

=============================================================================

-------------------------------- MODULE Quill --------------------------------
(***************************************************************************)
(* The leaf nodule of the Porcupine tree, nucleus::proton::Quill<V>        *)
(* (src/XXX/Quill.hxx), as operators over a quill record.                  *)
(*                                                                         *)
(* A quill is a record                                                     *)
(*   container : the std::map from key to inlet, a function whose domain   *)
(*               is the set of keys present (std::map keeps it sorted)     *)
(*   footprint : _footprint.size, a Natural32 maintained incrementally     *)
(*   state     : _state, "dirty" or "clean"                                *)
(* and an inlet is a record [key, value, fp] where fp is the inlet's own   *)
(* _footprint.size, the last value Footprint::Compute() gave it.           *)
(*                                                                         *)
(* The Seam (internal nodule) is, per the specification, the same          *)
(* container discipline over child references; the tree module             *)
(* instantiates this module a second time with the seam's constants.      *)
(*                                                                         *)
(* Operators that the code would refuse (escape) are guarded by the        *)
(* matching Can... predicate, which the caller conjoins as the guard.      *)
(***************************************************************************)
EXTENDS Integers, FiniteSets, Sequences, SequencesExt

CONSTANTS
  Keys,           \* the ordered key type V::K, a finite set of integers
  Values,         \* what an inlet refers to (a value, or a child nodule)
  Footprint,      \* Quill<V>::Footprint, the footprint of an empty quill
  InletSize,      \* footprint of one serialized inlet
  Extent,         \* Descriptor.extent, target maximum footprint
  Contention,     \* Descriptor.contention, as a percentage of Extent
  FootprintBits   \* width of the unsigned _footprint.size (32 in the code)

ASSUME Keys \subseteq Int /\ Keys # {}
ASSUME Footprint \in Nat /\ InletSize \in Nat \ {0}
ASSUME Extent \in Nat /\ Contention \in 0..100
ASSUME FootprintBits \in Nat \ {0}

\* _footprint.size is unsigned: arithmetic on it wraps at 2^FootprintBits.
FootprintWidth == 2 ^ FootprintBits

Inlets == [key : Keys, value : Values, fp : Nat]

IsQuill(q) ==
  /\ DOMAIN q = {"container", "footprint", "state"}
  /\ DOMAIN q.container \subseteq Keys
  /\ \A k \in DOMAIN q.container : q.container[k] \in Inlets
  /\ q.footprint \in 0..(FootprintWidth - 1)
  /\ q.state \in {"dirty", "clean"}

\* The keys of a quill in the ascending order of the std::map: the n-th
\* key has n - 1 keys below it. (SetToSortSeq enumerates every function
\* into the set, which is too slow on every state.)
KeySeq(q) ==
  LET D == DOMAIN q.container
  IN  [n \in 1..Cardinality(D) |->
         CHOOSE k \in D : Cardinality({x \in D : x < k}) = n - 1]

\* Footprint::Compute() of an inlet: its serialized size.
InletFootprint(i) == InletSize

(***************************************************************************)
(* Create(): an empty quill with the initial footprint, dirty.             *)
(***************************************************************************)
Create == [container |-> [k \in {} |-> 0],
           footprint |-> Footprint % FootprintWidth,
           state     |-> "dirty"]

(***************************************************************************)
(* Insert(inlet): refused when the key is already recorded; otherwise the  *)
(* inlet's footprint is computed and added to the quill's, and the quill   *)
(* becomes dirty.                                                          *)
(***************************************************************************)
CanInsert(q, k) == k \notin DOMAIN q.container

Insert(q, k, v) ==
  LET i == [key |-> k, value |-> v, fp |-> InletFootprint([key |-> k])]
  IN  [q EXCEPT !.container = @ @@ (k :> i),
                !.footprint = (@ + i.fp) % FootprintWidth,
                !.state     = "dirty"]

(***************************************************************************)
(* Delete(key): Locate() refuses an absent key; otherwise the inlet's      *)
(* footprint is recomputed and subtracted (unsigned), the entry erased and *)
(* the quill made dirty.                                                   *)
(***************************************************************************)
Exist(q, k) == k \in DOMAIN q.container

Delete(q, k) ==
  LET fp == InletFootprint(q.container[k])
  IN  [q EXCEPT !.container = [x \in DOMAIN @ \ {k} |-> @[x]],
                !.footprint = (@ - fp) % FootprintWidth,
                !.state     = "dirty"]

(***************************************************************************)
(* Lookup(key): the loop over the container in ascending order stops at    *)
(* the first inlet whose key is >= the given one, or at the last inlet.    *)
(* On an empty container the loop never stops and Lookup escapes.          *)
(***************************************************************************)
RECURSIVE LookupFrom(_, _, _)
LookupFrom(seq, key, n) ==
  IF key <= seq[n] \/ n = Len(seq) THEN seq[n]
                                   ELSE LookupFrom(seq, key, n + 1)

CanLookup(q) == DOMAIN q.container # {}

\* Mutant: the loop testing key < iterator->first, so that an entry is no
\* longer responsible for its own key.
LookupExclusive(q, key) == LookupFrom(KeySeq(q), key + 1, 1)

Lookup(q, key) == LookupFrom(KeySeq(q), key, 1)

\* Locate(key): exact match, refused when the key is absent.
Locate(q, key) == q.container[key]

(***************************************************************************)
(* Mayor(): container.rbegin()->first, the highest key. On an empty        *)
(* container this dereferences end(): undefined behaviour, so callers     *)
(* only take the mayor of a non-empty quill.                               *)
(***************************************************************************)
Mayor(q) == Last(KeySeq(q))

\* Maiden(): the single remaining key; refused unless exactly one inlet.
CanMaiden(q) == Cardinality(DOMAIN q.container) = 1

Maiden(q) == Head(KeySeq(q))

(***************************************************************************)
(* Export(x, y, size), the Nodule helper Split() relies on: walking x in   *)
(* ascending order from the initial footprint, inlets are kept while the   *)
(* running footprint has not exceeded size; the remaining, higher-keyed    *)
(* inlets move to y, each one's footprint leaving x's and joining y's.     *)
(***************************************************************************)
RECURSIVE ExportCut(_, _, _, _)
ExportCut(q, seq, acc, n) ==
  IF n > Len(seq) \/ acc > (Extent * Contention) \div 100 THEN n
  ELSE ExportCut(q, seq, acc + q.container[seq[n]].fp, n + 1)

\* The summed footprints of the inlets of q filed under the keys ks.
MoveFootprint(q, ks) == MapThenSumSet(LAMBDA x : q.container[x].fp, ks)

\* Mutant: Export() moving the lower-keyed prefix instead of the suffix.
SplitLow(q) ==
  LET seq   == KeySeq(q)
      cut   == ExportCut(q, seq, Footprint, 1)
      moved == { seq[n] : n \in 1..(cut - 1) }
      fp    == MoveFootprint(q, moved)
  IN  << [q EXCEPT !.container = [x \in DOMAIN @ \ moved |-> @[x]],
                   !.footprint = (@ - fp) % FootprintWidth],
         [Create EXCEPT !.container = [x \in moved |-> q.container[x]],
                        !.footprint = (@ + fp) % FootprintWidth] >>

\* The pair <<left, right>> Split() leaves: x keeps the lower prefix.
Split(q) ==
  LET seq   == KeySeq(q)
      cut   == ExportCut(q, seq, Footprint, 1)
      moved == { seq[n] : n \in cut..Len(seq) }
      fp    == MoveFootprint(q, moved)
      r     == Create
  IN  << [q EXCEPT !.container = [x \in DOMAIN @ \ moved |-> @[x]],
                   !.footprint = (@ - fp) % FootprintWidth,
                   !.state     = "dirty"],
         [r EXCEPT !.container = [x \in moved |-> q.container[x]],
                   !.footprint = (@ + fp) % FootprintWidth] >>

(***************************************************************************)
(* Merge(quill): the mayors of both quills are compared; the lower quill   *)
(* exports its inlets into the current one, or the current one imports    *)
(* the higher quill's. Either way the current quill ends with the union,  *)
(* its footprint grown by the moved inlets', and is dirty. A key present   *)
(* in both makes the insertion escape.                                     *)
(***************************************************************************)
CanMerge(q, o) == DOMAIN q.container \cap DOMAIN o.container = {}

Merge(q, o) ==
  [q EXCEPT !.container = @ @@ o.container,
            !.footprint = (@ + MoveFootprint(o, DOMAIN o.container))
                            % FootprintWidth,
            !.state     = "dirty"]

(***************************************************************************)
(* Check(): every inlet's own key matches the key it is filed under.       *)
(***************************************************************************)
Check(q) == \A k \in DOMAIN q.container : q.container[k].key = k

(***************************************************************************)
(* Serialize(): the container size, then each inlet in ascending order.    *)
(* Extract(): a quill from the default constructor Quill(), refilled by   *)
(* Insert() of each inlet read, so a duplicated key in the archive makes  *)
(* it escape. Extract() never calls Create(): the footprint starts from   *)
(* the one the constructors leave, not from the initial Footprint.        *)
(***************************************************************************)
Serialize(q) == [n \in 1..Len(KeySeq(q)) |->
                   [key   |-> KeySeq(q)[n],
                    value |-> q.container[KeySeq(q)[n]].value]]

\* Quill() and Quill(load, unload) only construct Nodule<V>: _footprint is
\* left as Footprint's own constructor sets it, an empty size of 0.
Constructed == [Create EXCEPT !.footprint = 0]

RECURSIVE ExtractFrom(_, _)
ExtractFrom(q, img) ==
  IF img = <<>> THEN q
  ELSE ExtractFrom(Insert(q, Head(img).key, Head(img).value), Tail(img))

Extract(img) == ExtractFrom(Constructed, img)

=============================================================================

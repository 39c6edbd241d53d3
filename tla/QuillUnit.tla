------------------------------ MODULE QuillUnit ------------------------------
(***************************************************************************)
(* A single quill driven by any sequence of Insert(key, value) and         *)
(* Delete(key) calls, the way a caller of Quill<V> may use it. In every    *)
(* state reached, the quill's pure operations (Lookup, and Split then     *)
(* Merge) are compared with what they must compute.                     *)
(***************************************************************************)
EXTENDS Quill

VARIABLE quill

Init == quill = Create

\* Insert(key, value): a duplicate key is refused and changes nothing.
InsertCall(k, v) ==
  /\ CanInsert(quill, k)
  /\ quill' = Insert(quill, k, v)

\* Delete(key): an absent key is refused by Locate() and changes nothing.
DeleteCall(k) ==
  /\ Exist(quill, k)
  /\ quill' = Delete(quill, k)

Next == \E k \in Keys : DeleteCall(k) \/ \E v \in Values : InsertCall(k, v)

Spec == Init /\ [][Next]_quill

-----------------------------------------------------------------------------
\* The footprint a quill with the given inlets must have: the initial
\* footprint plus that of every inlet.
Expected(q) == (Footprint + MoveFootprint(q, DOMAIN q.container)) % FootprintWidth

(***************************************************************************)
(* Lookup() is the responsible-entry lookup: for any key, below, between, *)
(* at or above the stored ones, it yields the smallest stored key that is  *)
(* >= the given one, or the greatest stored key when there is none. This   *)
(* right-closed partition is what routes every key to exactly one entry.  *)
(***************************************************************************)
LookupResponsible ==
  CanLookup(quill) =>
    \A k \in (Min(Keys) - 1)..(Max(Keys) + 1) :
      LET above == { x \in DOMAIN quill.container : x >= k }
      IN  Lookup(quill, k) = IF above # {} THEN Min(above)
                                           ELSE Max(DOMAIN quill.container)

(***************************************************************************)
(* Split() of a quill over the extent leaves two non-empty quills, each    *)
(* with a strictly smaller footprint that still accounts for its inlets,   *)
(* whose key sets partition the original with every left key below every   *)
(* right key; and Merge() of the two gives back the original inlets.      *)
(***************************************************************************)
SplitMergeRoundTrip ==
  quill.footprint > Extent =>
    LET l == Split(quill)[1]
        r == Split(quill)[2]
    IN  /\ DOMAIN l.container # {} /\ DOMAIN r.container # {}
        /\ \A a \in DOMAIN l.container, b \in DOMAIN r.container : a < b
        /\ DOMAIN l.container \cup DOMAIN r.container = DOMAIN quill.container
        /\ l.footprint < quill.footprint /\ r.footprint < quill.footprint
        /\ l.footprint = Expected(l) /\ r.footprint = Expected(r)
        /\ Merge(l, r).container = quill.container
        /\ Merge(l, r).footprint = quill.footprint

=============================================================================

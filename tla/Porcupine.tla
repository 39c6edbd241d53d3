------------------------------ MODULE Porcupine ------------------------------
(***************************************************************************)
(* The Porcupine tree handle: a root nodule that is either a single Quill  *)
(* (height 1) or a Seam whose entries route keys to Quill leaves (height   *)
(* 2). add() and remove() descend to the responsible leaf, mutate it with  *)
(* the Quill operations and rebalance: a leaf over the extent is split and *)
(* its sibling entered in the parent, a root quill that splits grows a new *)
(* root seam; a leaf under extent * contention is merged into a sibling    *)
(* and a root seam left with one child is replaced by it. seal() writes    *)
(* every dirty nodule bottom-up and yields the root address.               *)
(*                                                                         *)
(* Nodules are content addressed: the address of a sealed nodule is its    *)
(* serialized image, and a seam's image embeds its children's addresses,  *)
(* so the root address determines the whole persisted tree.               *)
(*                                                                         *)
(* Nest, the nodule cache, may release a leaf under the root seam (the    *)
(* root is held by the Porcupine handle and never released): a dirty leaf *)
(* is sealed first, then only its address remains. A leaf that is not    *)
(* loaded is rebuilt from its address by Quill::Extract() when the tree   *)
(* next descends to it.                                                    *)
(***************************************************************************)
EXTENDS Integers, FiniteSets, Sequences, SequencesExt

CONSTANTS
  Keys, Values,
  NodeIds,                    \* identities of in-memory nodules (bounded pool)
  QuillFootprint, QuillInletSize, QuillExtent,
  SeamFootprint, SeamInletSize, SeamExtent,
  Contention, FootprintBits,
  NoAddress                   \* the address of a never-sealed nodule

Leaf == INSTANCE Quill WITH Footprint <- QuillFootprint,
                            InletSize <- QuillInletSize,
                            Extent    <- QuillExtent

Seam == INSTANCE Quill WITH Values    <- NodeIds,
                            Footprint <- SeamFootprint,
                            InletSize <- SeamInletSize,
                            Extent    <- SeamExtent

\* Below this footprint a leaf is merged: extent * contention, truncated.
Threshold == (QuillExtent * Contention) \div 100

\* An empty leaf is under the threshold, a one-inlet leaf fits the extent,
\* and a root seam can index every nodule: the tree never grows past height 2.
ASSUME QuillFootprint < Threshold /\ Threshold < QuillExtent
ASSUME QuillFootprint + QuillInletSize <= QuillExtent
ASSUME SeamFootprint + SeamInletSize * Cardinality(NodeIds) <= SeamExtent
ASSUME Cardinality(NodeIds) >= 3

VARIABLES
  nodes,        \* id -> [kind, q, address]: the nodules in memory
  root,         \* the id of the root nodule
  rootAddress,  \* the root reference the last completed seal() produced
  loaded        \* the nodules Nest holds in memory; for any other nodule
                \* only nodes[n].address is read, its q being the released
                \* instance

vars == <<nodes, root, rootAddress, loaded>>

Kinds == {"quill", "seam"}

IsSeam(n) == nodes[n].kind = "seam"

\* Mutant: a nodule taken from the pool is assumed fresh when it is only
\* not the root.
FreeNotRoot == NodeIds \ {root}

Free == NodeIds \ DOMAIN nodes

\* The children of the root seam, and the entry key routing to each.
Children == IF IsSeam(root) THEN { nodes[root].q.container[k].value :
                                   k \in DOMAIN nodes[root].q.container }
                            ELSE {}

(***************************************************************************)
(* Nest load(address): the image read back and extracted into a fresh     *)
(* quill, which the cache holds as clean (Reloaded(Clean)).                *)
(***************************************************************************)
Reload(n) == [Leaf!Extract(nodes[n].address.inlets) EXCEPT !.state = "clean"]

\* The quill of a nodule as a descent through Nest sees it.
Content(n) == IF n \in loaded THEN nodes[n].q ELSE Reload(n)

KeyOf(s, child) == CHOOSE k \in DOMAIN s.container : s.container[k].value = child

(***************************************************************************)
(* search(): the root quill, or the child of the root seam responsible     *)
(* for the key.                                                            *)
(***************************************************************************)
Search(k) == IF IsSeam(root)
               THEN nodes[root].q.container[Seam!Lookup(nodes[root].q, k)].value
               ELSE root

\* Mutant: an entry whose key does not change leaves the seam's state alone.
RekeyInPlace(s, old, new, child) ==
  IF old = new THEN s ELSE Seam!Insert(Seam!Delete(s, old), new, child)

\* A seam entry re-keyed to its child's new mayor; the seam becomes dirty.
Rekey(s, old, new, child) ==
  IF old = new THEN [s EXCEPT !.state = "dirty"]
               ELSE Seam!Insert(Seam!Delete(s, old), new, child)

QuillNode(q) == [kind |-> "quill", q |-> q, address |-> NoAddress]

\* Mutant: a new root seam allocated with the leaf's constructor.
SeamNodeAsQuill(s) == [kind |-> "quill", q |-> s, address |-> NoAddress]

SeamNode(s) == [kind |-> "seam", q |-> s, address |-> NoAddress]

(***************************************************************************)
(* The image of a nodule: its serialized inlets in key order, a seam's     *)
(* carrying each child's image (its address) in place of the child.       *)
(***************************************************************************)
Image(n) ==
  IF IsSeam(n)
    THEN [kind |-> "seam",
          inlets |-> [i \in 1..Len(Seam!Serialize(nodes[n].q)) |->
                        LET e == Seam!Serialize(nodes[n].q)[i]
                        IN  [key |-> e.key,
                             value |-> [kind |-> "quill",
                                        inlets |-> Leaf!Serialize(Content(e.value))]]]]
    ELSE [kind |-> "quill", inlets |-> Leaf!Serialize(Content(n))]

(***************************************************************************)
(* Init: a new Porcupine holds one created, empty, dirty root quill.       *)
(***************************************************************************)
Init ==
  LET r == CHOOSE n \in NodeIds : TRUE
  IN  /\ nodes = (r :> QuillNode(Leaf!Create))
      /\ root = r
      /\ rootAddress = NoAddress
      /\ loaded = {r}

(***************************************************************************)
(* add(key, value) into a root quill: insert, and when the quill exceeds   *)
(* the extent, split it and grow a root seam over the two halves.         *)
(***************************************************************************)
AddToRootQuill(k, v) ==
  LET q1 == Leaf!Insert(nodes[root].q, k, v)
      lr == Leaf!Split(q1)
      r  == CHOOSE n \in Free : TRUE
      s  == CHOOSE n \in Free \ {r} : TRUE
  IN  /\ ~IsSeam(root)
      /\ Leaf!CanInsert(nodes[root].q, k)
      /\ IF q1.footprint <= QuillExtent
           THEN /\ nodes' = [nodes EXCEPT ![root].q = q1]
                /\ UNCHANGED <<root, loaded>>
           ELSE /\ Cardinality(Free) >= 2
                /\ nodes' = (s :> SeamNode(Seam!Insert(Seam!Insert(Seam!Create,
                                   Leaf!Mayor(lr[1]), root), Leaf!Mayor(lr[2]), r)))
                            @@ (r :> QuillNode(lr[2]))
                            @@ [nodes EXCEPT ![root].q = lr[1]]
                /\ root' = s
                /\ loaded' = loaded \cup {r, s}
      /\ UNCHANGED rootAddress

(***************************************************************************)
(* add(key, value) under a root seam: insert into the responsible leaf,    *)
(* re-key its entry to its mayor, and when it exceeds the extent split it  *)
(* and enter the new right sibling under its own mayor.                    *)
(***************************************************************************)
AddToLeaf(k, v) ==
  LET l  == Search(k)
      s  == nodes[root].q
      q1 == Leaf!Insert(Content(l), k, v)
      lr == Leaf!Split(q1)
      r  == CHOOSE n \in Free : TRUE
  IN  /\ IsSeam(root)
      /\ Leaf!CanInsert(Content(l), k)
      /\ IF q1.footprint <= QuillExtent
           THEN nodes' = [nodes EXCEPT
                            ![l].q    = q1,
                            ![root].q = Rekey(s, KeyOf(s, l), Leaf!Mayor(q1), l)]
                /\ loaded' = loaded \cup {l}
           ELSE /\ Free # {}
                /\ nodes' = (r :> QuillNode(lr[2])) @@
                   [nodes EXCEPT
                      ![l].q    = lr[1],
                      ![root].q = Seam!Insert(Rekey(s, KeyOf(s, l),
                                    Leaf!Mayor(lr[1]), l), Leaf!Mayor(lr[2]), r)]
                /\ loaded' = loaded \cup {l, r}
      /\ UNCHANGED <<root, rootAddress>>

(***************************************************************************)
(* remove(key) from a root quill: delete; an empty root quill remains.     *)
(***************************************************************************)
RemoveFromRootQuill(k) ==
  /\ ~IsSeam(root)
  /\ Leaf!Exist(nodes[root].q, k)
  /\ nodes' = [nodes EXCEPT ![root].q = Leaf!Delete(@, k)]
  /\ UNCHANGED <<root, rootAddress, loaded>>

(***************************************************************************)
(* remove(key) under a root seam: delete from the responsible leaf; if it  *)
(* stays at or above the threshold re-key its entry, otherwise merge it    *)
(* with an adjacent sibling, drop the sibling's entry, and collapse a root *)
(* seam left with a single child into that child.                          *)
(***************************************************************************)
Adjacent(s, l) ==
  LET ks == Seam!KeySeq(s)
      i  == CHOOSE i \in 1..Len(ks) : s.container[ks[i]].value = l
  IN  { s.container[ks[j]].value : j \in {i - 1, i + 1} \cap 1..Len(ks) }

RemoveFromLeaf(k) ==
  LET l  == Search(k)
      s  == nodes[root].q
      q1 == Leaf!Delete(Content(l), k)
  IN  /\ IsSeam(root)
      /\ Leaf!Exist(Content(l), k)
      /\ IF q1.footprint >= Threshold
           THEN /\ nodes' = [nodes EXCEPT
                               ![l].q    = q1,
                               ![root].q = Rekey(s, KeyOf(s, l), Leaf!Mayor(q1), l)]
                /\ UNCHANGED root
           ELSE \E o \in Adjacent(s, l) :
                  LET m  == Leaf!Merge(q1, Content(o))
                      s1 == Seam!Insert(Seam!Delete(Seam!Delete(s, KeyOf(s, l)),
                                          KeyOf(s, o)), Leaf!Mayor(m), l)
                      kept == DOMAIN nodes \ {o}
                  IN  /\ Leaf!CanMerge(q1, Content(o))
                      /\ IF Seam!CanMaiden(s1)
                           THEN /\ nodes' = [n \in kept \ {root} |->
                                               IF n = l THEN [nodes[l] EXCEPT !.q = m]
                                                        ELSE nodes[n]]
                                /\ root' = l
                           ELSE /\ nodes' = [n \in kept |->
                                               CASE n = l    -> [nodes[l] EXCEPT !.q = m]
                                                 [] n = root -> [nodes[root] EXCEPT !.q = s1]
                                                 [] OTHER    -> nodes[n]]
                                /\ UNCHANGED root
      /\ loaded' = (loaded \cup {l}) \cap DOMAIN nodes'
      /\ UNCHANGED rootAddress

(***************************************************************************)
(* seal(): every dirty nodule, children first, is serialized, addressed    *)
(* by its image and made clean; the root's address is returned.           *)
(***************************************************************************)
Seal ==
  /\ \E n \in DOMAIN nodes : nodes[n].q.state = "dirty"
  /\ nodes' = [n \in DOMAIN nodes |->
                 IF nodes[n].q.state = "dirty"
                   THEN [nodes[n] EXCEPT !.q.state = "clean", !.address = Image(n)]
                   ELSE nodes[n]]
  /\ rootAddress' = Image(root)
  /\ UNCHANGED <<root, loaded>>

(***************************************************************************)
(* seal() failing part way: the backing store refuses a block after some   *)
(* dirty leaves were already written; those leaves are clean and          *)
(* addressed, the root seam stays dirty and no root address is returned.  *)
(***************************************************************************)
SealInterrupted ==
  /\ IsSeam(root)
  /\ \E S \in SUBSET { n \in Children : nodes[n].q.state = "dirty" } :
       /\ S # {}
       /\ nodes' = [n \in DOMAIN nodes |->
                      IF n \in S
                        THEN [nodes[n] EXCEPT !.q.state = "clean", !.address = Image(n)]
                        ELSE nodes[n]]
  /\ UNCHANGED <<root, rootAddress, loaded>>

(***************************************************************************)
(* lookup(key) under a root seam: the descent asks Nest for the           *)
(* responsible leaf, which is loaded from its address if released.        *)
(***************************************************************************)
Lookup(k) ==
  LET l == Search(k)
  IN  /\ IsSeam(root)
      /\ l \notin loaded
      /\ nodes' = [nodes EXCEPT ![l].q = Reload(l)]
      /\ loaded' = loaded \cup {l}
      /\ UNCHANGED <<root, rootAddress>>

(***************************************************************************)
(* Nest unload(nodule) under memory pressure: a dirty leaf is first       *)
(* sealed (serialized and addressed), then the in-memory instance is      *)
(* released and the seam's entry keeps only its address. A store that    *)
(* refuses the block fails the unload and changes nothing.                *)
(***************************************************************************)
Unload(n) ==
  /\ n \in Children \cap loaded
  /\ nodes' = IF nodes[n].q.state = "dirty"
                THEN [nodes EXCEPT ![n].q.state = "clean", ![n].address = Image(n)]
                ELSE nodes
  /\ loaded' = loaded \ {n}
  /\ UNCHANGED <<root, rootAddress>>

Next ==
  \/ \E k \in Keys, v \in Values : AddToRootQuill(k, v) \/ AddToLeaf(k, v)
  \/ \E k \in Keys : RemoveFromRootQuill(k) \/ RemoveFromLeaf(k)
  \/ Seal
  \/ SealInterrupted
  \/ \E k \in Keys : Lookup(k)
  \/ \E n \in NodeIds : Unload(n)

Spec == Init /\ [][Next]_vars

-----------------------------------------------------------------------------
(***************************************************************************)
(* Properties.                                                             *)
(***************************************************************************)

TypeOK ==
  /\ DOMAIN nodes \subseteq NodeIds
  /\ \A n \in DOMAIN nodes :
       /\ nodes[n].kind \in Kinds
       /\ IF IsSeam(n) THEN Seam!IsQuill(nodes[n].q) ELSE Leaf!IsQuill(nodes[n].q)
  /\ root \in loaded
  /\ loaded \subseteq DOMAIN nodes

(***************************************************************************)
(* The map the tree stands for: the bindings a caller can reach, i.e. each *)
(* key found in the leaf that search() routes it to.                       *)
(***************************************************************************)
Reachable == { k \in Keys : Leaf!Exist(Content(Search(k)), k) }

Dict == [k \in Reachable |-> Content(Search(k)).container[k].value]

KV == INSTANCE KVMap WITH dict <- Dict

(***************************************************************************)
(* Refinement: every add(), remove(), split, merge, root growth, root      *)
(* collapse and seal() of the tree, in any order, is an add or remove of   *)
(* the abstract map or leaves it unchanged: no binding is lost, duplicated *)
(* or made unreachable by the routing of the seam.                         *)
(***************************************************************************)
ImplementsKVMap == KV!Spec

(***************************************************************************)
(* A clean nodule is one not mutated since it was sealed: its address is   *)
(* still the image of its content, seam children included, and a clean    *)
(* root is what the last seal() returned. Every path that mutates a leaf   *)
(* must also dirty the seam above it, or seal() skips the seam and the    *)
(* persisted tree silently misses the change.                             *)
(***************************************************************************)
CleanNodulesSealed ==
  /\ \A n \in DOMAIN nodes :
       nodes[n].q.state = "clean" => nodes[n].address = Image(n)
  /\ nodes[root].q.state = "clean" => rootAddress = Image(root)


(***************************************************************************)
(* A nodule's footprint is the base footprint of an empty nodule plus its *)
(* inlets' footprints (unsigned), for every nodule whether Nest holds it  *)
(* or must reload it: Insert() and Delete() adjust the size incrementally, *)
(* Split() and Merge() move inlet footprints between quills, and a        *)
(* reloaded quill is rebuilt by Extract(), which never calls Create().    *)
(* Split and merge thresholds read this footprint, so a leaf that reloads *)
(* with another one is rebalanced differently from the one released.     *)
(* This is the specification's footprint invariant; the code breaks it   *)
(* on the first reload (see the hazard at Quill.hxx:615), so no passing   *)
(* run lists it: add it to MCPorcupine.cfg to see the trace.             *)
(***************************************************************************)
FootprintAccounted ==
  \A n \in DOMAIN nodes :
    IF IsSeam(n)
      THEN nodes[n].q.footprint =
             (SeamFootprint + Seam!MoveFootprint(nodes[n].q, DOMAIN nodes[n].q.container))
               % Seam!FootprintWidth
      ELSE Content(n).footprint =
             (QuillFootprint + Leaf!MoveFootprint(Content(n), DOMAIN Content(n).container))
               % Leaf!FootprintWidth

(***************************************************************************)
(* Quill::Merge() takes the Mayor() of both quills, and Mayor() reads      *)
(* container.rbegin() without checking that the container is non-empty.   *)
(* The specification says an ineligible mayor call is an IntegrityError.  *)
(* Since an empty leaf is always under the threshold, a remove() that     *)
(* empties a leaf under the root seam feeds that empty leaf to Merge(): no *)
(* such step may occur.                                                    *)
(***************************************************************************)
NoMayorOfEmptyQuill ==
  [][\A k \in Keys :
       RemoveFromLeaf(k) => Cardinality(DOMAIN Content(Search(k)).container) # 1]_vars

=============================================================================

-------------------------------- MODULE KVMap --------------------------------
(***************************************************************************)
(* What a Porcupine promises its callers: an ordered map from keys to      *)
(* values. add() binds an absent key (DuplicateKeyError otherwise, with no *)
(* effect); remove() unbinds a present key (NotFoundError otherwise, with  *)
(* no effect); lookups and sealing leave the map unchanged. How the map is *)
(* split into nodes, cached or persisted is invisible at this level.       *)
(***************************************************************************)
CONSTANTS Keys, Values

VARIABLE dict   \* the bindings: a function whose domain is the bound keys

Dicts == UNION { [D -> Values] : D \in SUBSET Keys }

TypeOK == dict \in Dicts

Init == dict = [k \in {} |-> CHOOSE v \in Values : TRUE]

Add(k, v) ==
  /\ k \notin DOMAIN dict
  /\ dict' = [x \in DOMAIN dict \cup {k} |-> IF x = k THEN v ELSE dict[x]]

Remove(k) ==
  /\ k \in DOMAIN dict
  /\ dict' = [x \in DOMAIN dict \ {k} |-> dict[x]]

Next == \E k \in Keys : Remove(k) \/ \E v \in Values : Add(k, v)

Spec == Init /\ [][Next]_dict

=============================================================================

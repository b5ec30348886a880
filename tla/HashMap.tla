------------------------------ MODULE HashMap ------------------------------
(***************************************************************************)
(* The chained hash map of kernel/utils/lists.c, which holds the symbols   *)
(* of the kernel and of its modules.  Every function runs under map->lock. *)
(* A key's hash modulo hashSize is a constant.                             *)
(***************************************************************************)
EXTENDS Integers, Sequences, SequencesExt

CONSTANTS Keys, Values, NULL, HashSize,
    Hash(_)          \* hashmap_string_hash(key) % hashSize

HashMapConstants ==
    NULL \notin Values /\ HashSize \in Nat /\ \A k \in Keys : Hash(k) \in 0 .. HashSize - 1

VARIABLES
    hashmap,         \* per bucket the chain of entries
    result           \* what the last hashmap_set or hashmap_remove returned

Init == hashmap = [i \in 0 .. HashSize - 1 |-> <<>>] /\ result = NULL

Bucket(k) == hashmap[Hash(k)]

(* The walk along a chain: the first entry with the key, 0 for none. *)
Find(k) ==
    LET at == {i \in DOMAIN Bucket(k) : Bucket(k)[i].key = k}
    IN  IF at = {} THEN 0 ELSE CHOOSE i \in at : \A j \in at : i <= j

hashmap_get(k) == IF Find(k) = 0 THEN NULL ELSE Bucket(k)[Find(k)].value
hashmap_has(k) == Find(k) # 0

hashmap_set(k, v) ==
    IF hashmap_has(k)
    THEN /\ result' = hashmap_get(k)
         /\ hashmap' = [hashmap EXCEPT ![Hash(k)][Find(k)].value = v]
    ELSE /\ result' = NULL
         /\ hashmap' = [hashmap EXCEPT ![Hash(k)] = Append(@, [key |-> k, value |-> v])]

(* Mutant: the rest of the chain goes with the entry. *)
hashmap_remove_cuts(k) ==
    /\ result' = hashmap_get(k)
    /\ hashmap' = [hashmap EXCEPT ![Hash(k)] = SubSeq(@, 1, Find(k) - 1)]

hashmap_remove(k) ==
    /\ result' = hashmap_get(k)
    /\ hashmap' = IF hashmap_has(k)
                  THEN [hashmap EXCEPT ![Hash(k)] = RemoveAt(@, Find(k))] ELSE hashmap

(* The keys bucket after bucket *)
hashmap_to_list ==
    FlattenSeq([i \in 1 .. HashSize |->
                   [j \in DOMAIN hashmap[i - 1] |-> hashmap[i - 1][j].key]])

Next == \E k \in Keys : hashmap_remove(k) \/ \E v \in Values : hashmap_set(k, v)

Spec == Init /\ [][Next]_<<hashmap, result>>

-----------------------------------------------------------------------------
(* What the users of the map see *)
Content == [k \in Keys |-> hashmap_get(k)]

(* The map is a dictionary: setting or removing one key returns what       *)
(* hashmap_get said of it and leaves the others alone, also those in the   *)
(* same chain.                                                             *)
Dictionary ==
    [][\E k \in Keys, v \in Values \cup {NULL} :
          result' = Content[k] /\ Content' = [Content EXCEPT ![k] = v]]_<<hashmap, result>>

(* hashmap_to_list gives module_load_node every key once. *)
ListedOnce ==
    /\ IsInjective(hashmap_to_list)
    /\ ToSet(hashmap_to_list) = {k \in Keys : hashmap_has(k)}
=============================================================================

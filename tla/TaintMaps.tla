------------------------------ MODULE TaintMaps ------------------------------
(****************************************************************************)
(* The maps Dytan keeps its taint marks in: std::map<K, bitset *>, keyed by *)
(* register, by memory address or by the address of a conditional branch.   *)
(*                                                                          *)
(* A bitset of taint marks is modelled by the set of the positions of its   *)
(* one bits.  A map is a function whose DOMAIN is the set of keys it holds: *)
(* Dytan tells a missing entry from an entry with no marks, because the     *)
(* Clear functions touch only entries that exist.                           *)
(****************************************************************************)

\* map is a map from some of the keys K to sets of marks from M.
IsTaintMap(map, K, M) == DOMAIN map \subseteq K /\ map \in [DOMAIN map -> SUBSET M]

NoEntries == [k \in {} |-> {}]

\* find(k), and no marks when there is no entry.
MarksOf(map, k) == IF k \in DOMAIN map THEN map[k] ELSE {}

\* The union of the marks of the entries for the keys K, one bitset_union each.
UnionOf(map, K) == UNION {map[k] : k \in K \cap DOMAIN map}

\* The union over the whole map: what the loops over controlTaintMap build.
AllMarks(map) == UNION {map[k] : k \in DOMAIN map}

\* bitset_set_bits on an entry that exists, map[k] = bitset_copy on one that
\* does not.
Put(map, K, marks) ==
    [k \in K \cup DOMAIN map |-> IF k \in K THEN marks ELSE map[k]]

\* bitset_set_bits on the entries that exist; the other keys stay absent.
Overwrite(map, K, marks) ==
    [k \in DOMAIN map |-> IF k \in K THEN marks ELSE map[k]]

\* bitset_free and erase.
Erase(map, K) == [k \in DOMAIN map \ K |-> map[k]]
==============================================================================

------------------------------ MODULE MapDiffs ------------------------------
(***************************************************************************)
(* MapDiff (src/signal_map.rs): the change that a SignalMap sends instead  *)
(* of its contents.  The contents are functions on a set of keys; keys are *)
(* numbers, which stand for any ordered type.                              *)
(***************************************************************************)
EXTENDS SequencesExt, Integers, FiniteSets

EmptyMap == [k \in {} |-> {}]

\* The finite maps from keys in K to values in V.
Maps(K, V) == UNION {[D -> V] : D \in {E \in SUBSET K : IsFiniteSet(E)}}

ReplaceMap(m)    == [op |-> "Replace", entries |-> m]
InsertKey(k, v)  == [op |-> "Insert", key |-> k, value |-> v]
UpdateKey(k, v)  == [op |-> "Update", key |-> k, value |-> v]
RemoveKey(k)     == [op |-> "Remove", key |-> k]
ClearMap         == [op |-> "Clear"]

Bind(m, k, v) == [j \in DOMAIN m \cup {k} |-> IF j = k THEN v ELSE m[j]]
Without(m, k) == [j \in DOMAIN m \ {k} |-> m[j]]

\* How many keys of D are less than k.
Rank(D, k) == Cardinality({j \in D : j < k})

\* The keys of D in ascending order, as a BTreeMap iterates.
Ascending(D) == [p \in 1..Cardinality(D) |-> CHOOSE k \in D : Rank(D, k) = p - 1]

\* What a consumer makes of the diff d.
ApplyMap(d, m) ==
    CASE d.op = "Replace" -> d.entries
      [] d.op \in {"Insert", "Update"} -> Bind(m, d.key, d.value)
      [] d.op = "Remove" -> Without(m, d.key)
      [] d.op = "Clear" -> EmptyMap

\* An updated or removed key is in the map, an inserted one is not.
ApplicableMap(d, m) ==
    /\ d.op = "Insert" => d.key \notin DOMAIN m
    /\ d.op \in {"Update", "Remove"} => d.key \in DOMAIN m

\* Every diff that a map with the entries m may send.
LegalMapDiffs(m, K, V) ==
    {ReplaceMap(n) : n \in Maps(K, V)}
    \cup {InsertKey(k, v) : k \in K \ DOMAIN m, v \in V}
    \cup {UpdateKey(k, v) : k \in DOMAIN m, v \in V}
    \cup {RemoveKey(k) : k \in DOMAIN m}
    \cup {ClearMap}

\* MapDiff::map, with a callback that gives image[v] for v.
MapMapDiff(d, image) ==
    CASE d.op = "Replace" ->
            ReplaceMap([k \in DOMAIN d.entries |-> image[d.entries[k]]])
      [] d.op \in {"Insert", "Update"} -> [d EXCEPT !.value = image[@]]
      [] OTHER -> d
=============================================================================

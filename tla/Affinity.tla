------------------------------ MODULE Affinity ------------------------------
(***************************************************************************)
(* The operations of the pin map (LruMap, src/src/affinity.rs) as          *)
(* functions from a map to a map.  A map is a record of the hash map from  *)
(* conversations to keys and the deque of conversations, coldest first.    *)
(***************************************************************************)
EXTENDS Integers, FiniteSets, Sequences, SequencesExt, Functions

CONSTANT AffinityCap   \* the capacity asked for; AffinityMap::new raises 0 to 1

ASSUME AffinityCapAssumption == AffinityCap \in Nat

Capacity == IF AffinityCap > 1 THEN AffinityCap ELSE 1

NoPins == [map |-> <<>>, lru |-> <<>>]

Pinned(p)      == DOMAIN p.map
Touch(lru, id) == Append(RemoveFirst(lru, id), id)

(* get: a hit refreshes the recency. *)
AfterGet(p, id) == IF id \in Pinned(p) THEN [p EXCEPT !.lru = Touch(@, id)] ELSE p

(* Variant with a mistake: make room by the back of the deque. *)
EvictedHottest(p) == IF p.lru = <<>> THEN p
                     ELSE [map |-> Restrict(p.map, Pinned(p) \ {Last(p.lru)}), lru |-> Front(p.lru)]

(* put, first part: make room by the front of the deque. *)
Evicted(p) ==
  IF p.lru = <<>> THEN p
  ELSE IF Head(p.lru) \in Pinned(p)
       THEN [map |-> Restrict(p.map, Pinned(p) \ {Head(p.lru)}), lru |-> Tail(p.lru)]
       ELSE NoPins

Full(p) == Cardinality(Pinned(p)) >= Capacity

(* HashMap::insert *)
Inserted(f, x, y) == [z \in DOMAIN f \cup {x} |-> IF z = x THEN y ELSE f[z]]

(* Variant with a mistake: the key is put where the conversation belongs. *)
AfterPutSwapped(p, id, key) == [map |-> Inserted(p.map, key, id), lru |-> Append(p.lru, key)]

(* put *)
AfterPut(p, id, key) ==
  LET q == IF id \notin Pinned(p) /\ Full(p) THEN Evicted(p) ELSE p
  IN  [map |-> Inserted(q.map, id, key),
       lru |-> IF id \in Pinned(q) THEN Touch(q.lru, id) ELSE Append(q.lru, id)]

(* Variant with a mistake: the deque is forgotten. *)
AfterRemoveIfMapOnly(p, id, key) ==
  IF id \in Pinned(p) /\ p.map[id] = key THEN [p EXCEPT !.map = Restrict(@, Pinned(p) \ {id})] ELSE p

(* remove_if *)
AfterRemoveIf(p, id, key) ==
  IF id \in Pinned(p) /\ p.map[id] = key
  THEN [map |-> Restrict(p.map, Pinned(p) \ {id}), lru |-> RemoveFirst(p.lru, id)]
  ELSE p
=============================================================================

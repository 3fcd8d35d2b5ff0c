---------------------------- MODULE AffinityMap ----------------------------
(***************************************************************************)
(* The pin map of prompt-cache affinity (AffinityMap, src/src/affinity.rs) *)
(* as the request threads use it: every operation is one critical section  *)
(* of its mutex.                                                           *)
(***************************************************************************)
EXTENDS Affinity

CONSTANTS Ids,    \* conversations (64-bit identities in the code)
          Keys    \* upstream keys

VARIABLE pins

Init == pins = NoPins

(* AffinityMap::get, by pinned_key: the answer is not remembered here. *)
Get(id) == pins' = AfterGet(pins, id)

(* AffinityMap::put, by Pool::pin. *)
Put(id, key) == pins' = AfterPut(pins, id, key)

(* AffinityMap::remove_if, by Pool::unpin. *)
RemoveIf(id, key) == pins' = AfterRemoveIf(pins, id, key)

Operation(id) == Get(id) \/ \E key \in Keys : Put(id, key) \/ RemoveIf(id, key)

Next == \E id \in Ids : Operation(id)

Spec == Init /\ [][Next]_pins
-----------------------------------------------------------------------------
(* The map takes conversations to keys, the deque holds conversations.     *)
TypeOK == /\ Pinned(pins) \subseteq Ids
          /\ \A id \in Pinned(pins) : pins.map[id] \in Keys
          /\ pins.lru \in Seq(Ids)

(***************************************************************************)
(* "The deque and map are only ever mutated under this one lock, so they   *)
(* cannot diverge": the deque lists every pinned conversation once and no  *)
(* other, and the map stays within its capacity.  So the defensive clear   *)
(* of put, which would forget every pin, never runs.                       *)
(***************************************************************************)
InStep == /\ ToSet(pins.lru) = Pinned(pins)
          /\ IsInjective(pins.lru)
          /\ Cardinality(Pinned(pins)) <= Capacity

(***************************************************************************)
(* The map and its deque implement a map with an order of recency: only    *)
(* the conversation used the longest ago makes room for a new one, and     *)
(* unpinning a key never forgets a conversation pinned to another key.     *)
(***************************************************************************)
Before == {pair \in Pinned(pins) \X Pinned(pins) :
             \E i, j \in DOMAIN pins.lru :
               i < j /\ pins.lru[i] = pair[1] /\ pins.lru[j] = pair[2]}

Recency == INSTANCE RecencyMap WITH Limit <- Capacity, pin <- pins.map, older <- Before

ImplementsRecencyMap == Recency!Spec
=============================================================================

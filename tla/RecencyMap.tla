----------------------------- MODULE RecencyMap -----------------------------
(***************************************************************************)
(* What the pin map promises: a bounded map that forgets only on request   *)
(* or to make room, and then the entry that was used the longest ago.      *)
(* Recency is an order on the entries, without a word on how it is kept.   *)
(***************************************************************************)
EXTENDS Integers, FiniteSets, Functions

CONSTANTS Ids, Keys, Limit

VARIABLES pin,     \* the key of each remembered conversation
          older    \* the pairs <<a, b>> where a was used before b

recency == <<pin, older>>

Entries == DOMAIN pin

Init == pin = <<>> /\ older = {}

Without(order, id) == {pair \in order : id # pair[1] /\ id # pair[2]}

(* The order once id is the latest of the entries. *)
Latest(order, entries, id) == Without(order, id) \cup ((entries \ {id}) \X {id})

Coldest == CHOOSE id \in Entries : \A other \in Entries \ {id} : <<id, other>> \in older

Use(id) == /\ id \in Entries
           /\ older' = Latest(older, Entries, id)
           /\ UNCHANGED pin

Pin(id, key) ==
  LET gone == IF id \notin Entries /\ Cardinality(Entries) = Limit THEN {Coldest} ELSE {}
      kept == Entries \ gone
  IN  /\ pin'   = [c \in kept \cup {id} |-> IF c = id THEN key ELSE pin[c]]
      /\ older' = Latest({pair \in older : pair[1] \in kept /\ pair[2] \in kept}, kept, id)

Unpin(id) == /\ id \in Entries
             /\ pin'   = Restrict(pin, Entries \ {id})
             /\ older' = Without(older, id)

Next == \E id \in Ids : Use(id) \/ Unpin(id) \/ \E key \in Keys : Pin(id, key)

Spec == Init /\ [][Next]_recency
=============================================================================

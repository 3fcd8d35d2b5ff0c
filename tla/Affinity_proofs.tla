-------------------------- MODULE Affinity_proofs --------------------------
(***************************************************************************)
(* What the operations of the pin map preserve (Affinity), for any         *)
(* conversations, keys and capacity: the deque lists the pinned            *)
(* conversations, each once, and there are no more than the capacity.      *)
(***************************************************************************)
EXTENDS Affinity, FiniteSetTheorems, SequenceTheorems, TLAPS

(* A sequence without one of its places. *)
LEMMA RemoveAtProperties ==
  ASSUME NEW S, NEW s \in Seq(S), NEW i \in 1..Len(s)
  PROVE  LET r == RemoveAt(s, i) IN
         /\ r \in Seq(S) /\ Len(r) = Len(s) - 1
         /\ \A j \in 1..Len(r) : r[j] = IF j < i THEN s[j] ELSE s[j + 1]
  <1> DEFINE a == SubSeq(s, 1, i - 1)
             b == SubSeq(s, i + 1, Len(s))
  <1>1. /\ a \in Seq(S) /\ Len(a) = i - 1
        /\ \A j \in 1..(i - 1) : a[j] = s[j]
    BY SubSeqProperties
  <1>2. /\ b \in Seq(S) /\ Len(b) = Len(s) - i
        /\ \A j \in 1..(Len(s) - i) : b[j] = s[i + j]
    BY SubSeqProperties
  <1>3. RemoveAt(s, i) = a \o b
    BY DEF RemoveAt
  <1>4. /\ a \o b \in Seq(S) /\ Len(a \o b) = Len(a) + Len(b)
        /\ \A j \in 1..(Len(a) + Len(b)) : (a \o b)[j] = IF j <= Len(a) THEN a[j] ELSE b[j - Len(a)]
    BY <1>1, <1>2, ConcatProperties
  <1>5. ASSUME NEW j \in 1..(Len(s) - 1)
        PROVE  (a \o b)[j] = IF j < i THEN s[j] ELSE s[j + 1]
    <2> HIDE DEF a, b
    <2>1. CASE j < i
      BY <1>1, <1>2, <1>4, <2>1
    <2>2. CASE ~(j < i)
      <3>1. (a \o b)[j] = b[j - (i - 1)] /\ j - (i - 1) \in 1..(Len(s) - i)
        BY <1>1, <1>2, <1>4, <2>2
      <3>2. i + (j - (i - 1)) = j + 1
        OBVIOUS
      <3> QED
        BY <1>2, <2>2, <3>1, <3>2
    <2> QED
      BY <2>1, <2>2
  <1> HIDE DEF a, b
  <1> DEFINE c == a \o b
  <1>6. c \in Seq(S) /\ Len(c) = Len(s) - 1
    <2>1. Len(a) + Len(b) = Len(s) - 1
      BY <1>1, <1>2
    <2> QED
      BY <1>4, <2>1
  <1>7. \A j \in 1..Len(c) : c[j] = IF j < i THEN s[j] ELSE s[j + 1]
    BY <1>5, <1>6
  <1>8. RemoveAt(s, i) = c
    BY <1>3
  <1> HIDE DEF c
  <1> QED
    BY <1>6, <1>7, <1>8

(* The first occurrence in a sequence without repetition is the only one. *)
LEMMA RemoveFirstIs ==
  ASSUME NEW S, NEW s \in Seq(S), IsInjective(s), NEW i \in 1..Len(s)
  PROVE  RemoveFirst(s, s[i]) = RemoveAt(s, i)
  <1>1. {j \in 1..Len(s) : s[j] = s[i]} = {i}
    BY DEF IsInjective
  <1>2. Min({i}) = i
    BY DEF Min
  <1>3. SelectInSeq(s, LAMBDA v : v = s[i]) = i
    BY <1>1, <1>2 DEF SelectInSeq
  <1> QED
    BY <1>3 DEF RemoveFirst

(* Taking an element out of a sequence that has it once. *)
LEMMA RemoveFirstProperties ==
  ASSUME NEW S, NEW s \in Seq(S), IsInjective(s), NEW e
  PROVE  /\ RemoveFirst(s, e) \in Seq(S) /\ IsInjective(RemoveFirst(s, e))
         /\ ToSet(RemoveFirst(s, e)) = ToSet(s) \ {e}
  <1>1. CASE \E i \in 1..Len(s) : s[i] = e
    <2>1. PICK i \in 1..Len(s) : s[i] = e
      BY <1>1
    <2> DEFINE r == RemoveAt(s, i)
    <2>2. RemoveFirst(s, e) = r
      BY <2>1, RemoveFirstIs
    <2>3. /\ r \in Seq(S) /\ Len(r) = Len(s) - 1 /\ DOMAIN r = 1..Len(r) /\ DOMAIN s = 1..Len(s)
          /\ \A j \in 1..Len(r) : r[j] = IF j < i THEN s[j] ELSE s[j + 1]
      BY RemoveAtProperties
    <2> HIDE DEF r
    <2>4. IsInjective(r)
      <3> SUFFICES ASSUME NEW j \in 1..Len(r), NEW k \in 1..Len(r), r[j] = r[k]
                   PROVE  j = k
        BY <2>3 DEF IsInjective
      <3> DEFINE Of(n) == IF n < i THEN n ELSE n + 1
      <3>1. /\ Of(j) \in 1..Len(s) /\ r[j] = s[Of(j)]
            /\ Of(k) \in 1..Len(s) /\ r[k] = s[Of(k)]
        BY <2>3
      <3>2. Of(j) = Of(k)
        BY <2>3, <3>1 DEF IsInjective
      <3> QED
        BY <3>2
    <2>5. ASSUME NEW x \in ToSet(r) PROVE x \in ToSet(s) \ {e}
      BY <2>1, <2>3, <2>5 DEF ToSet, IsInjective
    <2>6. ASSUME NEW x \in ToSet(s) \ {e} PROVE x \in ToSet(r)
      <3>1. PICK j \in 1..Len(s) : s[j] = x /\ j # i
        BY <2>1, <2>3 DEF ToSet
      <3>2. CASE j < i
        <4>1. j \in 1..Len(r) /\ r[j] = x
          BY <2>3, <3>1, <3>2
        <4> QED
          BY <2>3, <4>1 DEF ToSet
      <3>3. CASE j > i
        <4>1. j - 1 \in 1..Len(r) /\ r[j - 1] = x
          BY <2>3, <3>1, <3>3
        <4> QED
          BY <2>3, <4>1 DEF ToSet
      <3> QED
        BY <3>1, <3>2, <3>3
    <2> QED
      BY <2>2, <2>3, <2>4, <2>5, <2>6
  <1>2. CASE ~\E i \in 1..Len(s) : s[i] = e
    <2>1. RemoveFirst(s, e) = s
      BY <1>2 DEF RemoveFirst
    <2> QED
      BY <1>2, <2>1 DEF ToSet
  <1> QED
    BY <1>1, <1>2

(* Adding an element at the back that was not there. *)
LEMMA AppendKeepsOrder ==
  ASSUME NEW S, NEW s \in Seq(S), IsInjective(s), NEW e \in S, e \notin ToSet(s)
  PROVE  /\ Append(s, e) \in Seq(S) /\ IsInjective(Append(s, e))
         /\ ToSet(Append(s, e)) = ToSet(s) \cup {e}
  <1>1. /\ Append(s, e) \in Seq(S) /\ Len(Append(s, e)) = Len(s) + 1
        /\ \A i \in 1..Len(s) : Append(s, e)[i] = s[i]
        /\ Append(s, e)[Len(s) + 1] = e
        /\ DOMAIN s = 1..Len(s) /\ DOMAIN Append(s, e) = 1..(Len(s) + 1)
    OBVIOUS
  <1>2. IsInjective(Append(s, e))
    BY <1>1 DEF IsInjective, ToSet
  <1>3. ToSet(Append(s, e)) = ToSet(s) \cup {e}
    BY <1>1 DEF ToSet
  <1> QED
    BY <1>1, <1>2, <1>3

(* Taking the front off. *)
LEMMA TailProperties ==
  ASSUME NEW S, NEW s \in Seq(S), IsInjective(s), s # <<>>
  PROVE  /\ Head(s) \in ToSet(s) /\ Tail(s) \in Seq(S) /\ IsInjective(Tail(s))
         /\ ToSet(Tail(s)) = ToSet(s) \ {Head(s)}
  <1>1. /\ Tail(s) \in Seq(S) /\ Len(Tail(s)) = Len(s) - 1 /\ Len(s) >= 1 /\ Len(s) \in Nat
        /\ \A i \in 1..(Len(s) - 1) : Tail(s)[i] = s[i + 1]
        /\ Head(s) = s[1] /\ DOMAIN s = 1..Len(s) /\ DOMAIN Tail(s) = 1..(Len(s) - 1)
    OBVIOUS
  <1>2. IsInjective(Tail(s))
    BY <1>1 DEF IsInjective
  <1>3. ASSUME NEW x \in ToSet(Tail(s)) PROVE x \in ToSet(s) \ {Head(s)}
    BY <1>1, <1>3 DEF ToSet, IsInjective
  <1>4. ASSUME NEW x \in ToSet(s) \ {Head(s)} PROVE x \in ToSet(Tail(s))
    <2>1. PICK j \in 2..Len(s) : s[j] = x
      BY <1>1 DEF ToSet
    <2>2. j - 1 \in 1..(Len(s) - 1) /\ Tail(s)[j - 1] = x
      BY <1>1, <2>1
    <2> QED
      BY <1>1, <2>2 DEF ToSet
  <1>5. Head(s) \in ToSet(s)
    BY <1>1 DEF ToSet
  <1> QED
    BY <1>1, <1>2, <1>3, <1>4, <1>5
-----------------------------------------------------------------------------
(***************************************************************************)
(* A map that is in order: it takes conversations of ids to keys of keys,  *)
(* its deque lists the pinned conversations, each once, and there are no   *)
(* more of them than the capacity.  The type alone would not be kept, for  *)
(* the bound at an eviction needs a deque that names a pinned conversation.*)
(***************************************************************************)
InOrder(p, ids, keys) == /\ p = [map |-> p.map, lru |-> p.lru]
                         /\ p.map \in [Pinned(p) -> keys]
                         /\ Pinned(p) \subseteq ids
                         /\ p.lru \in Seq(ids)
                         /\ IsInjective(p.lru)
                         /\ ToSet(p.lru) = Pinned(p)
                         /\ IsFiniteSet(Pinned(p))
                         /\ Cardinality(Pinned(p)) <= Capacity

(* How a map made of two parts is shown to be in order. *)
LEMMA InOrderParts ==
  ASSUME NEW ids, NEW keys, NEW D, D \subseteq ids, NEW f \in [D -> keys], NEW s \in Seq(ids),
         IsInjective(s), ToSet(s) = D, IsFiniteSet(D), Cardinality(D) <= Capacity,
         NEW p, p = [map |-> f, lru |-> s]
  PROVE  InOrder(p, ids, keys) /\ Pinned(p) = D
  <1>1. p.map = f /\ p.lru = s
    OBVIOUS
  <1>2. Pinned(p) = D
    BY <1>1 DEF Pinned
  <1> QED
    BY <1>1, <1>2 DEF InOrder

(* The capacity is positive whatever was asked for. *)
LEMMA CapacityPositive == Capacity \in Nat /\ Capacity >= 1
  BY AffinityCapAssumption DEF Capacity

(* The empty map is in order. *)
LEMMA NoPinsInOrder ==
  ASSUME NEW ids, NEW keys
  PROVE  InOrder(NoPins, ids, keys)
  <1>1. Pinned(NoPins) = {} /\ ToSet(NoPins.lru) = {}
    BY DEF Pinned, NoPins, ToSet
  <1>2. IsInjective(NoPins.lru) /\ NoPins.map \in [{} -> keys] /\ NoPins.lru \in Seq(ids)
    BY DEF NoPins, IsInjective
  <1>3. NoPins = [map |-> NoPins.map, lru |-> NoPins.lru]
    BY DEF NoPins
  <1> QED
    BY <1>1, <1>2, <1>3, FS_EmptySet, CapacityPositive DEF InOrder

(* Adding an entry to a function. *)
LEMMA InsertedType ==
  ASSUME NEW D, NEW R, NEW f \in [D -> R], NEW x, NEW y \in R
  PROVE  /\ Inserted(f, x, y) \in [D \cup {x} -> R]
         /\ DOMAIN Inserted(f, x, y) = D \cup {x}
  BY DEF Inserted

(* Putting an element that is there at the back. *)
LEMMA TouchProperties ==
  ASSUME NEW S, NEW s \in Seq(S), IsInjective(s), NEW e \in S, e \in ToSet(s)
  PROVE  /\ Touch(s, e) \in Seq(S) /\ IsInjective(Touch(s, e))
         /\ ToSet(Touch(s, e)) = ToSet(s)
  <1>1. /\ RemoveFirst(s, e) \in Seq(S) /\ IsInjective(RemoveFirst(s, e))
        /\ ToSet(RemoveFirst(s, e)) = ToSet(s) \ {e}
    BY RemoveFirstProperties
  <1> DEFINE r == RemoveFirst(s, e)
  <1>2. Touch(s, e) = Append(r, e)
    BY DEF Touch
  <1> HIDE DEF r
  <1>3. /\ Append(r, e) \in Seq(S) /\ IsInjective(Append(r, e))
        /\ ToSet(Append(r, e)) = ToSet(r) \cup {e}
    BY <1>1, AppendKeepsOrder DEF r
  <1> QED
    BY <1>1, <1>2, <1>3 DEF r

(* get *)
LEMMA GetInOrder ==
  ASSUME NEW ids, NEW keys, NEW p, InOrder(p, ids, keys), NEW id
  PROVE  InOrder(AfterGet(p, id), ids, keys)
  <1>1. CASE id \in Pinned(p)
    <2>1. AfterGet(p, id) = [map |-> p.map, lru |-> Touch(p.lru, id)]
      BY <1>1 DEF AfterGet, InOrder
    <2>2. /\ Touch(p.lru, id) \in Seq(ids) /\ IsInjective(Touch(p.lru, id))
          /\ ToSet(Touch(p.lru, id)) = ToSet(p.lru)
      BY <1>1, TouchProperties DEF InOrder
    <2> QED
      BY <2>1, <2>2 DEF InOrder, Pinned
  <1>2. CASE id \notin Pinned(p)
    BY <1>2 DEF AfterGet
  <1> QED
    BY <1>1, <1>2

(* The first part of put frees a place. *)
LEMMA EvictedInOrder ==
  ASSUME NEW ids, NEW keys, NEW p, InOrder(p, ids, keys), Full(p)
  PROVE  /\ InOrder(Evicted(p), ids, keys)
         /\ Cardinality(Pinned(Evicted(p))) = Cardinality(Pinned(p)) - 1
         /\ p.lru # <<>> /\ Head(p.lru) \in Pinned(p)
         /\ Evicted(p) = [map |-> Restrict(p.map, Pinned(p) \ {Head(p.lru)}), lru |-> Tail(p.lru)]
  <1> DEFINE h == Head(p.lru)
  <1>1. p.lru # <<>>
    <2>1. Pinned(p) # {}
      BY CapacityPositive, FS_EmptySet DEF Full, InOrder
    <2> QED
      BY <2>1 DEF InOrder, ToSet
  <1>2. /\ h \in ToSet(p.lru) /\ Tail(p.lru) \in Seq(ids) /\ IsInjective(Tail(p.lru))
        /\ ToSet(Tail(p.lru)) = ToSet(p.lru) \ {h}
    BY <1>1, TailProperties DEF InOrder
  <1>3. h \in Pinned(p)
    BY <1>2 DEF InOrder
  <1>4. Evicted(p) = [map |-> Restrict(p.map, Pinned(p) \ {h}), lru |-> Tail(p.lru)]
    BY <1>1, <1>3 DEF Evicted
  <1>5. /\ Restrict(p.map, Pinned(p) \ {h}) \in [Pinned(p) \ {h} -> keys]
        /\ Pinned(Evicted(p)) = Pinned(p) \ {h}
    BY <1>4 DEF InOrder, Restrict, Pinned
  <1>6. /\ IsFiniteSet(Pinned(p) \ {h})
        /\ Cardinality(Pinned(p) \ {h}) = Cardinality(Pinned(p)) - 1
        /\ Cardinality(Pinned(p)) \in Nat
    BY <1>3, FS_RemoveElement, FS_CardinalityType DEF InOrder
  <1> DEFINE D == Pinned(p) \ {h}
             f == Restrict(p.map, D)
             s == Tail(p.lru)
  <1>7. /\ D \subseteq ids /\ f \in [D -> keys] /\ s \in Seq(ids) /\ IsInjective(s)
        /\ ToSet(s) = D /\ IsFiniteSet(D) /\ Evicted(p) = [map |-> f, lru |-> s]
    BY <1>2, <1>4, <1>5, <1>6 DEF InOrder
  <1>8. Cardinality(D) <= Capacity
    BY <1>6, CapacityPositive DEF InOrder
  <1> HIDE DEF D, f, s
  <1>9. InOrder(Evicted(p), ids, keys)
    BY <1>7, <1>8, InOrderParts
  <1> QED
    BY <1>1, <1>3, <1>4, <1>5, <1>6, <1>9

(* put *)
LEMMA PutInOrder ==
  ASSUME NEW ids, NEW keys, NEW p, InOrder(p, ids, keys), NEW id \in ids, NEW key \in keys
  PROVE  /\ InOrder(AfterPut(p, id, key), ids, keys)
         /\ Pinned(AfterPut(p, id, key)) \subseteq Pinned(p) \cup {id}
  <1> DEFINE q == IF id \notin Pinned(p) /\ Full(p) THEN Evicted(p) ELSE p
             r == AfterPut(p, id, key)
  <1>1. /\ InOrder(q, ids, keys) /\ Pinned(q) \subseteq Pinned(p)
        /\ id \in Pinned(q) \/ Cardinality(Pinned(q)) < Capacity
    <2>1. CASE id \notin Pinned(p) /\ Full(p)
      <3>0. /\ InOrder(Evicted(p), ids, keys) /\ Cardinality(Pinned(Evicted(p))) = Cardinality(Pinned(p)) - 1
            /\ Evicted(p) = [map |-> Restrict(p.map, Pinned(p) \ {Head(p.lru)}), lru |-> Tail(p.lru)]
        BY <2>1, EvictedInOrder
      <3>1. Pinned(Evicted(p)) = Pinned(p) \ {Head(p.lru)}
        BY <3>0 DEF Pinned, Restrict
      <3>2. Cardinality(Pinned(p)) \in Nat /\ Cardinality(Pinned(p)) <= Capacity
        BY FS_CardinalityType DEF InOrder
      <3>3. Cardinality(Pinned(Evicted(p))) < Capacity
        BY <3>0, <3>2, CapacityPositive
      <3> QED
        BY <2>1, <3>0, <3>1, <3>3
    <2>2. CASE id \in Pinned(p) \/ ~Full(p)
      <3>1. Cardinality(Pinned(p)) \in Nat /\ q = p
        BY <2>2, FS_CardinalityType DEF InOrder
      <3> QED
        BY <2>2, <3>1, CapacityPositive DEF Full
    <2> QED
      BY <2>1, <2>2
  <1> DEFINE l == IF id \in Pinned(q) THEN Touch(q.lru, id) ELSE Append(q.lru, id)
  <1>2. r = [map |-> Inserted(q.map, id, key), lru |-> l]
    BY DEF AfterPut
  <1> HIDE DEF q, r
  <1>3. /\ l \in Seq(ids) /\ IsInjective(l) /\ ToSet(l) = ToSet(q.lru) \cup {id}
    <2>1. CASE id \in Pinned(q)
      BY <1>1, <2>1, TouchProperties DEF InOrder
    <2>2. CASE id \notin Pinned(q)
      BY <1>1, <2>2, AppendKeepsOrder DEF InOrder
    <2> QED
      BY <2>1, <2>2
  <1> HIDE DEF l
  <1> DEFINE D == Pinned(q) \cup {id}
             f == Inserted(q.map, id, key)
  <1>4. f \in [D -> keys] /\ D \subseteq ids /\ ToSet(l) = D
    BY <1>1, <1>3, InsertedType DEF InOrder
  <1>5. IsFiniteSet(D) /\ Cardinality(D) <= Capacity
    <2>1. /\ IsFiniteSet(Pinned(q)) /\ Cardinality(Pinned(q)) \in Nat
          /\ Cardinality(Pinned(q)) <= Capacity
      BY <1>1, FS_CardinalityType DEF InOrder
    <2>2. /\ IsFiniteSet(D)
          /\ Cardinality(D) = IF id \in Pinned(q) THEN Cardinality(Pinned(q)) ELSE Cardinality(Pinned(q)) + 1
      BY <2>1, FS_AddElement
    <2> QED
      BY <1>1, <2>1, <2>2, CapacityPositive
  <1>6. D \subseteq Pinned(p) \cup {id}
    BY <1>1
  <1>7. r = [map |-> f, lru |-> l]
    BY <1>2
  <1> HIDE DEF D, f
  <1>8. InOrder(r, ids, keys) /\ Pinned(r) = D
    BY <1>3, <1>4, <1>5, <1>7, InOrderParts
  <1> QED
    BY <1>6, <1>8 DEF r

(* A put only costs the coldest conversation its pin, to make room. *)
LEMMA PutLoses ==
  ASSUME NEW ids, NEW keys, NEW p, InOrder(p, ids, keys), NEW id \in ids, NEW key \in keys,
         NEW c \in Pinned(p), c \notin Pinned(AfterPut(p, id, key))
  PROVE  /\ Full(p) /\ c = Head(p.lru)
         /\ id \in Pinned(AfterPut(p, id, key)) \ Pinned(p)
  <1> DEFINE q == IF id \notin Pinned(p) /\ Full(p) THEN Evicted(p) ELSE p
  <1>1. Pinned(AfterPut(p, id, key)) = Pinned(q) \cup {id}
    BY DEF AfterPut, Pinned, Inserted
  <1>2. c \notin Pinned(q)
    BY <1>1
  <1>3. id \notin Pinned(p) /\ Full(p)
    BY <1>2
  <1>4. Evicted(p) = [map |-> Restrict(p.map, Pinned(p) \ {Head(p.lru)}), lru |-> Tail(p.lru)]
    BY <1>3, EvictedInOrder
  <1>5. Pinned(Evicted(p)) = Pinned(p) \ {Head(p.lru)}
    BY <1>4 DEF Pinned, Restrict
  <1> QED
    BY <1>1, <1>2, <1>3, <1>5

(* remove_if *)
LEMMA RemoveIfInOrder ==
  ASSUME NEW ids, NEW keys, NEW p, InOrder(p, ids, keys), NEW id, NEW key
  PROVE  InOrder(AfterRemoveIf(p, id, key), ids, keys)
  <1> DEFINE r == AfterRemoveIf(p, id, key)
  <1>1. CASE id \in Pinned(p) /\ p.map[id] = key
    <2>1. r = [map |-> Restrict(p.map, Pinned(p) \ {id}), lru |-> RemoveFirst(p.lru, id)]
      BY <1>1 DEF AfterRemoveIf
    <2>2. /\ RemoveFirst(p.lru, id) \in Seq(ids) /\ IsInjective(RemoveFirst(p.lru, id))
          /\ ToSet(RemoveFirst(p.lru, id)) = ToSet(p.lru) \ {id}
      BY RemoveFirstProperties DEF InOrder
    <2> DEFINE D == Pinned(p) \ {id}
               f == Restrict(p.map, D)
               s == RemoveFirst(p.lru, id)
    <2>3. f \in [D -> keys] /\ D \subseteq ids /\ ToSet(s) = D
      BY <2>2 DEF InOrder, Restrict
    <2>4. IsFiniteSet(D) /\ Cardinality(D) <= Capacity
      <3>1. Cardinality(Pinned(p)) \in Nat /\ IsFiniteSet(Pinned(p)) /\ Cardinality(Pinned(p)) <= Capacity
        BY FS_CardinalityType DEF InOrder
      <3>2. IsFiniteSet(D) /\ Cardinality(D) = Cardinality(Pinned(p)) - 1
        BY <1>1, <3>1, FS_RemoveElement
      <3> QED
        BY <3>1, <3>2, CapacityPositive
    <2>5. r = [map |-> f, lru |-> s] /\ s \in Seq(ids) /\ IsInjective(s)
      BY <2>1, <2>2
    <2> HIDE DEF r, D, f, s
    <2>6. InOrder(r, ids, keys)
      BY <2>3, <2>4, <2>5, InOrderParts
    <2> QED
      BY <2>6 DEF r
  <1>2. CASE ~(id \in Pinned(p) /\ p.map[id] = key)
    BY <1>2 DEF AfterRemoveIf
  <1> QED
    BY <1>1, <1>2
=============================================================================

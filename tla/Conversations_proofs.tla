------------------------ MODULE Conversations_proofs ------------------------
(***************************************************************************)
(* Theorems about the pin map (AffinityMap) and the conversations it pins  *)
(* (Conversations), for any requests, keys and capacity: the map is in     *)
(* order for ever and implements a map with an order of recency            *)
(* (RecencyMap), a conversation keeps its identity, and conversations that *)
(* differ in what their users say first have different ones.               *)
(***************************************************************************)
EXTENDS Conversations, Affinity_proofs, WellFoundedInduction

IInv == InOrder(pins, Ids, Keys)

LEMMA Initially == Init => IInv
  BY NoPinsInOrder DEF Init, IInv

LEMMA Invariance == IInv /\ [Next]_pins => IInv'
  <1> SUFFICES ASSUME IInv, [Next]_pins
               PROVE  IInv'
    OBVIOUS
  <1>1. ASSUME NEW id \in Ids, Get(id)
        PROVE  IInv'
    BY <1>1, GetInOrder DEF IInv, Get
  <1>2. ASSUME NEW id \in Ids, NEW key \in Keys, Put(id, key)
        PROVE  IInv'
    BY <1>2, PutInOrder DEF IInv, Put
  <1>3. ASSUME NEW id \in Ids, NEW key \in Keys, RemoveIf(id, key)
        PROVE  IInv'
    BY <1>3, RemoveIfInOrder DEF IInv, RemoveIf
  <1>4. CASE UNCHANGED pins
    BY <1>4 DEF IInv
  <1> QED
    BY <1>1, <1>2, <1>3, <1>4 DEF Next, Operation

THEOREM InOrderAlways == Spec => []IInv
  BY Initially, Invariance, PTL DEF Spec

(* The map takes conversations to keys, the deque holds conversations.     *)
THEOREM MapTypeCorrect == Spec => []TypeOK
  <1>1. IInv => TypeOK
    BY DEF IInv, InOrder, TypeOK
  <1> QED
    BY <1>1, InOrderAlways, PTL

(* Map and deque cannot diverge, and the map keeps its bound.              *)
THEOREM MapInStep == Spec => []InStep
  <1>1. IInv => InStep
    BY DEF IInv, InOrder, InStep
  <1> QED
    BY <1>1, InOrderAlways, PTL
-----------------------------------------------------------------------------
(***************************************************************************)
(* The order of recency that a deque stands for.                           *)
(***************************************************************************)
Pairs(s) == {pair \in ToSet(s) \X ToSet(s) :
               \E i, j \in DOMAIN s : i < j /\ s[i] = pair[1] /\ s[j] = pair[2]}

(* Which pairs are in the order. *)
LEMMA PairsOf ==
  ASSUME NEW S, NEW s \in Seq(S), NEW a, NEW b
  PROVE  <<a, b>> \in Pairs(s) <=> \E i, j \in 1..Len(s) : i < j /\ s[i] = a /\ s[j] = b
  <1>1. DOMAIN s = 1..Len(s)
    OBVIOUS
  <1> QED
    BY <1>1 DEF Pairs, ToSet

(* Pairs are pairs: two orders with the same pairs are equal. *)
LEMMA PairsEqual ==
  ASSUME NEW P, NEW Q, NEW A, NEW B, P \subseteq A \X A, Q \subseteq B \X B,
         \A a, b : <<a, b>> \in P <=> <<a, b>> \in Q
  PROVE  P = Q
  OBVIOUS

(* Taking an element out takes out its pairs. *)
LEMMA PairsRemoveFirst ==
  ASSUME NEW S, NEW s \in Seq(S), IsInjective(s), NEW e
  PROVE  Pairs(RemoveFirst(s, e)) = Recency!Without(Pairs(s), e)
  <1> DEFINE r == RemoveFirst(s, e)
  <1>1. CASE \E i \in 1..Len(s) : s[i] = e
    <2>1. PICK i \in 1..Len(s) : s[i] = e
      BY <1>1
    <2>2. r = RemoveAt(s, i)
      BY <2>1, RemoveFirstIs
    <2>3. /\ r \in Seq(S) /\ Len(r) = Len(s) - 1 /\ DOMAIN s = 1..Len(s)
          /\ \A j \in 1..Len(r) : r[j] = IF j < i THEN s[j] ELSE s[j + 1]
      BY <2>2, RemoveAtProperties
    <2> HIDE DEF r
    <2>4. ASSUME NEW a, NEW b, <<a, b>> \in Pairs(r)
          PROVE  <<a, b>> \in Pairs(s) /\ a # e /\ b # e
      <3>1. PICK j \in 1..Len(r), k \in 1..Len(r) : j < k /\ r[j] = a /\ r[k] = b
        BY <2>3, <2>4, PairsOf
      <3> DEFINE Of(n) == IF n < i THEN n ELSE n + 1
      <3>2. /\ Of(j) \in 1..Len(s) /\ s[Of(j)] = a /\ Of(j) # i
            /\ Of(k) \in 1..Len(s) /\ s[Of(k)] = b /\ Of(k) # i
            /\ Of(j) < Of(k)
        BY <2>3, <3>1
      <3> HIDE DEF Of
      <3>3. a # e /\ b # e
        BY <2>1, <2>3, <3>2 DEF IsInjective
      <3> QED
        BY <3>2, <3>3, PairsOf
    <2>5. ASSUME NEW a, NEW b, <<a, b>> \in Pairs(s), a # e, b # e
          PROVE  <<a, b>> \in Pairs(r)
      <3>1. PICK j \in 1..Len(s), k \in 1..Len(s) : j < k /\ s[j] = a /\ s[k] = b
        BY <2>5, PairsOf
      <3> DEFINE To(n) == IF n < i THEN n ELSE n - 1
      <3>2. j # i /\ k # i
        BY <2>1, <2>5, <3>1
      <3>3. ASSUME NEW n \in 1..Len(s), n # i
            PROVE  To(n) \in 1..Len(r) /\ r[To(n)] = s[n]
        <4>1. CASE n < i
          BY <2>3, <3>3, <4>1
        <4>2. CASE n > i
          <5>1. n - 1 \in 1..Len(r) /\ ~(n - 1 < i) /\ (n - 1) + 1 = n
            BY <2>3, <4>2
          <5>2. r[n - 1] = s[n]
            BY <2>3, <5>1
          <5> QED
            BY <4>2, <5>1, <5>2
        <4> QED
          BY <3>3, <4>1, <4>2
      <3>4. To(j) < To(k)
        BY <3>1, <3>2
      <3>5. /\ To(j) \in 1..Len(r) /\ r[To(j)] = a
            /\ To(k) \in 1..Len(r) /\ r[To(k)] = b
        BY <3>1, <3>2, <3>3
      <3> HIDE DEF To
      <3> QED
        BY <2>3, <3>4, <3>5, PairsOf
    <2> DEFINE W == Recency!Without(Pairs(s), e)
    <2>6. \A a, b : <<a, b>> \in Pairs(r) <=> <<a, b>> \in W
      BY <2>4, <2>5 DEF Recency!Without
    <2>7. /\ Pairs(r) \subseteq ToSet(r) \X ToSet(r)
          /\ W \subseteq ToSet(s) \X ToSet(s)
      BY DEF Pairs, Recency!Without
    <2> HIDE DEF W
    <2>8. Pairs(r) = W
      BY <2>6, <2>7, PairsEqual
    <2> QED
      BY <2>8 DEF r, W
  <1>2. CASE ~\E i \in 1..Len(s) : s[i] = e
    <2>1. r = s
      BY <1>2 DEF RemoveFirst
    <2>2. e \notin ToSet(s)
      BY <1>2 DEF ToSet
    <2> QED
      BY <2>1, <2>2 DEF Pairs, Recency!Without
  <1> QED
    BY <1>1, <1>2

(* An element at the back is after every other. *)
LEMMA PairsAppend ==
  ASSUME NEW S, NEW s \in Seq(S), IsInjective(s), NEW e \in S, e \notin ToSet(s)
  PROVE  Pairs(Append(s, e)) = Recency!Latest(Pairs(s), ToSet(s), e)
  <1> DEFINE t == Append(s, e)
  <1>1. /\ t \in Seq(S) /\ Len(t) = Len(s) + 1 /\ t[Len(s) + 1] = e
        /\ \A i \in 1..Len(s) : t[i] = s[i]
        /\ DOMAIN s = 1..Len(s) /\ Len(s) \in Nat
    OBVIOUS
  <1> HIDE DEF t
  <1>2. ASSUME NEW a, NEW b
        PROVE  <<a, b>> \in Pairs(t) <=> <<a, b>> \in Pairs(s) \/ (a \in ToSet(s) /\ b = e)
    <2>1. ASSUME <<a, b>> \in Pairs(t)
          PROVE  <<a, b>> \in Pairs(s) \/ (a \in ToSet(s) /\ b = e)
      <3>1. PICK j \in 1..Len(t), k \in 1..Len(t) : j < k /\ t[j] = a /\ t[k] = b
        BY <1>1, <2>1, PairsOf
      <3>2. j \in 1..Len(s) /\ s[j] = a /\ a \in ToSet(s)
        BY <1>1, <3>1 DEF ToSet
      <3>3. CASE k \in 1..Len(s)
        <4>1. s[k] = b
          BY <1>1, <3>1, <3>3
        <4> QED
          BY <3>1, <3>2, <3>3, <4>1, PairsOf
      <3>4. CASE k = Len(s) + 1
        BY <1>1, <3>1, <3>2, <3>4
      <3> QED
        BY <1>1, <3>3, <3>4
    <2>2. ASSUME <<a, b>> \in Pairs(s)
          PROVE  <<a, b>> \in Pairs(t)
      <3>1. PICK j \in 1..Len(s), k \in 1..Len(s) : j < k /\ s[j] = a /\ s[k] = b
        BY <2>2, PairsOf
      <3>2. j \in 1..Len(t) /\ k \in 1..Len(t) /\ t[j] = a /\ t[k] = b
        BY <1>1, <3>1
      <3> QED
        BY <1>1, <3>1, <3>2, PairsOf
    <2>3. ASSUME a \in ToSet(s), b = e
          PROVE  <<a, b>> \in Pairs(t)
      <3>1. PICK j \in 1..Len(s) : s[j] = a
        BY <1>1, <2>3 DEF ToSet
      <3>2. j \in 1..Len(t) /\ Len(s) + 1 \in 1..Len(t) /\ j < Len(s) + 1 /\ t[j] = a /\ t[Len(s) + 1] = b
        BY <1>1, <2>3, <3>1
      <3> QED
        BY <1>1, <3>2, PairsOf
    <2> QED
      BY <2>1, <2>2, <2>3
  <1> DEFINE L == Recency!Latest(Pairs(s), ToSet(s), e)
  <1>3. \A a, b : <<a, b>> \in Pairs(s) => a # e /\ b # e
    BY DEF Pairs
  <1>4. \A a, b : <<a, b>> \in L <=> <<a, b>> \in Pairs(s) \/ (a \in ToSet(s) /\ b = e)
    BY <1>3 DEF Recency!Latest, Recency!Without
  <1>5. /\ Pairs(t) \subseteq ToSet(t) \X ToSet(t)
        /\ L \subseteq (ToSet(s) \cup {e}) \X (ToSet(s) \cup {e})
    BY DEF Pairs, Recency!Latest, Recency!Without
  <1> HIDE DEF L
  <1>6. Pairs(t) = L
    BY <1>2, <1>4, <1>5, PairsEqual
  <1> QED
    BY <1>6 DEF t, L

(* A use puts the conversation last. *)
LEMMA PairsTouch ==
  ASSUME NEW S, NEW s \in Seq(S), IsInjective(s), NEW e \in S, e \in ToSet(s)
  PROVE  Pairs(Touch(s, e)) = Recency!Latest(Pairs(s), ToSet(s), e)
  <1> DEFINE r == RemoveFirst(s, e)
  <1>1. r \in Seq(S) /\ IsInjective(r) /\ ToSet(r) = ToSet(s) \ {e}
    BY RemoveFirstProperties
  <1>2. Pairs(r) = Recency!Without(Pairs(s), e)
    BY PairsRemoveFirst
  <1>3. Touch(s, e) = Append(r, e)
    BY DEF Touch
  <1> HIDE DEF r
  <1>4. Pairs(Append(r, e)) = Recency!Latest(Pairs(r), ToSet(r), e)
    BY <1>1, PairsAppend
  <1>5. Recency!Latest(Pairs(r), ToSet(r), e) = Recency!Latest(Pairs(s), ToSet(s), e)
    BY <1>1, <1>2 DEF Recency!Latest, Recency!Without
  <1> QED
    BY <1>3, <1>4, <1>5

(* The front of the deque is before every other, and nothing is before it: *)
(* taking it off takes out its pairs.                                      *)
LEMMA PairsTail ==
  ASSUME NEW S, NEW s \in Seq(S), IsInjective(s), s # <<>>
  PROVE  /\ Pairs(Tail(s)) = Recency!Without(Pairs(s), Head(s))
         /\ \A a \in ToSet(s) \ {Head(s)} : <<Head(s), a>> \in Pairs(s)
         /\ \A a : <<a, Head(s)>> \notin Pairs(s)
  <1> DEFINE t == Tail(s)
             h == Head(s)
  <1>1. /\ t \in Seq(S) /\ Len(t) = Len(s) - 1 /\ Len(s) >= 1 /\ Len(s) \in Nat
        /\ \A i \in 1..(Len(s) - 1) : t[i] = s[i + 1]
        /\ h = s[1] /\ DOMAIN s = 1..Len(s)
    OBVIOUS
  <1> HIDE DEF t, h
  <1>2. \A a \in ToSet(s) \ {h} : <<h, a>> \in Pairs(s)
    <2> SUFFICES ASSUME NEW a \in ToSet(s) \ {h}
                 PROVE  <<h, a>> \in Pairs(s)
      OBVIOUS
    <2>1. PICK j \in 1..Len(s) : s[j] = a
      BY <1>1 DEF ToSet
    <2>2. 1 \in 1..Len(s) /\ 1 < j
      BY <1>1, <2>1
    <2> QED
      BY <1>1, <2>1, <2>2, PairsOf
  <1>3. \A a : <<a, h>> \notin Pairs(s)
    BY <1>1, PairsOf DEF IsInjective
  <1>4. ASSUME NEW a, NEW b, <<a, b>> \in Pairs(t)
        PROVE  <<a, b>> \in Pairs(s) /\ a # h /\ b # h
    <2>1. PICK j \in 1..Len(t), k \in 1..Len(t) : j < k /\ t[j] = a /\ t[k] = b
      BY <1>1, <1>4, PairsOf
    <2>2. /\ j + 1 \in 2..Len(s) /\ s[j + 1] = a
          /\ k + 1 \in 2..Len(s) /\ s[k + 1] = b /\ j + 1 < k + 1
      BY <1>1, <2>1
    <2>4. /\ j + 1 \in 1..Len(s) /\ k + 1 \in 1..Len(s) /\ 1 \in 1..Len(s)
          /\ j + 1 # 1 /\ k + 1 # 1
      BY <1>1, <2>2
    <2>3. s[j + 1] # s[1] /\ s[k + 1] # s[1]
      BY <1>1, <2>4 DEF IsInjective
    <2> QED
      BY <1>1, <2>2, <2>3, <2>4, PairsOf
  <1>5. ASSUME NEW a, NEW b, <<a, b>> \in Pairs(s), a # h, b # h
        PROVE  <<a, b>> \in Pairs(t)
    <2>1. PICK j \in 1..Len(s), k \in 1..Len(s) : j < k /\ s[j] = a /\ s[k] = b
      BY <1>5, PairsOf
    <2>2. /\ j - 1 \in 1..Len(t) /\ t[j - 1] = a
          /\ k - 1 \in 1..Len(t) /\ t[k - 1] = b /\ j - 1 < k - 1
      BY <1>1, <1>5, <2>1
    <2> QED
      BY <1>1, <2>2, PairsOf
  <1> DEFINE W == Recency!Without(Pairs(s), h)
  <1>6. \A a, b : <<a, b>> \in Pairs(t) <=> <<a, b>> \in W
    BY <1>4, <1>5 DEF Recency!Without
  <1>7. Pairs(t) \subseteq ToSet(t) \X ToSet(t) /\ W \subseteq ToSet(s) \X ToSet(s)
    BY DEF Pairs, Recency!Without
  <1> HIDE DEF W
  <1>8. Pairs(t) = W
    BY <1>6, <1>7, PairsEqual
  <1> QED
    BY <1>2, <1>3, <1>8 DEF t, h, W
-----------------------------------------------------------------------------
(* In a map that is in order, recency is what the deque says. *)
LEMMA BeforeIsPairs ==
  /\ IInv  => Before = Pairs(pins.lru)
  /\ IInv' => Before' = Pairs(pins'.lru)
  BY DEF IInv, InOrder, Before, Pairs

LEMMA MapsInit == Init => Recency!Init
  <1> SUFFICES ASSUME Init PROVE pins.map = <<>> /\ Before = {}
    BY DEF Recency!Init
  <1>1. pins.map = <<>> /\ pins.lru = <<>>
    BY DEF Init, NoPins
  <1>2. DOMAIN pins.lru = {}
    BY <1>1
  <1> QED
    BY <1>1, <1>2 DEF Before

(* A get is a use of a pinned conversation, or nothing. *)
LEMMA MapsGet ==
  ASSUME IInv, IInv', NEW id \in Ids, Get(id)
  PROVE  [Recency!Next]_(Recency!recency)
  <1> USE DEF IInv
  <1>1. CASE id \in Pinned(pins)
    <2>1. pins'.map = pins.map /\ pins'.lru = Touch(pins.lru, id)
      BY <1>1 DEF Get, AfterGet, InOrder
    <2>2. Pairs(Touch(pins.lru, id)) = Recency!Latest(Pairs(pins.lru), Pinned(pins), id)
      BY <1>1, PairsTouch DEF InOrder
    <2>3. Before' = Recency!Latest(Before, Pinned(pins), id)
      BY <2>1, <2>2, BeforeIsPairs
    <2>4. Recency!Use(id)
      BY <1>1, <2>1, <2>3 DEF Recency!Use, Recency!Entries, Pinned
    <2> QED
      BY <2>4 DEF Recency!Next
  <1>2. CASE id \notin Pinned(pins)
    BY <1>2 DEF Get, AfterGet, Recency!recency, Before, Pinned
  <1> QED
    BY <1>1, <1>2

(* A removal is an unpinning, or nothing. *)
LEMMA MapsRemoveIf ==
  ASSUME IInv, IInv', NEW id \in Ids, NEW key \in Keys, RemoveIf(id, key)
  PROVE  [Recency!Next]_(Recency!recency)
  <1>1. CASE id \in Pinned(pins) /\ pins.map[id] = key
    <2>1. pins'.map = Restrict(pins.map, Pinned(pins) \ {id}) /\ pins'.lru = RemoveFirst(pins.lru, id)
      BY <1>1 DEF RemoveIf, AfterRemoveIf
    <2>2. Pairs(RemoveFirst(pins.lru, id)) = Recency!Without(Pairs(pins.lru), id)
      BY PairsRemoveFirst DEF IInv, InOrder
    <2>3. Before' = Recency!Without(Before, id)
      BY <2>1, <2>2, BeforeIsPairs
    <2>4. Recency!Unpin(id)
      BY <1>1, <2>1, <2>3 DEF Recency!Unpin, Recency!Entries, Pinned, Restrict, Recency!Restrict
    <2> QED
      BY <2>4 DEF Recency!Next
  <1>2. CASE ~(id \in Pinned(pins) /\ pins.map[id] = key)
    BY <1>2 DEF RemoveIf, AfterRemoveIf, Recency!recency, Before, Pinned
  <1> QED
    BY <1>1, <1>2

(* The conversation that makes room is the front of the deque. *)
LEMMA ColdestIsHead ==
  ASSUME IInv, pins.lru # <<>>
  PROVE  Recency!Coldest = Head(pins.lru)
  <1> DEFINE h == Head(pins.lru)
  <1>1. h \in Pinned(pins) /\ Before = Pairs(pins.lru) /\ Pinned(pins) = ToSet(pins.lru)
    BY TailProperties, BeforeIsPairs DEF IInv, InOrder
  <1>2. /\ \A a \in Pinned(pins) \ {h} : <<h, a>> \in Before
        /\ \A a : <<a, h>> \notin Before
    BY <1>1, PairsTail DEF IInv, InOrder
  <1> HIDE DEF h
  <1>3. \A a \in Pinned(pins) : (\A b \in Pinned(pins) \ {a} : <<a, b>> \in Before) <=> a = h
    BY <1>1, <1>2
  <1>4. Recency!Coldest = h
    BY <1>1, <1>3 DEF Recency!Coldest, Recency!Entries, Pinned
  <1> QED
    BY <1>4 DEF h

(* A put is a pinning that makes room when it must. *)
LEMMA MapsPut ==
  ASSUME IInv, IInv', NEW id \in Ids, NEW key \in Keys, Put(id, key)
  PROVE  [Recency!Next]_(Recency!recency)
  <1> DEFINE p == pins
             q == IF id \notin Pinned(p) /\ Full(p) THEN Evicted(p) ELSE p
             gone == IF id \notin Recency!Entries /\ Cardinality(Recency!Entries) = Capacity
                     THEN {Recency!Coldest} ELSE {}
             kept == Recency!Entries \ gone
  <1>1. Cardinality(Pinned(p)) \in Nat /\ Cardinality(Pinned(p)) <= Capacity /\ Capacity \in Nat
    BY FS_CardinalityType, CapacityPositive DEF IInv, InOrder
  <1>2. /\ Pinned(q) = kept
        /\ q.map = Restrict(pins.map, kept)
        /\ Pairs(q.lru) = {pair \in Before : pair[1] \in kept /\ pair[2] \in kept}
        /\ InOrder(q, Ids, Keys)
    <2>1. CASE id \notin Pinned(p) /\ Full(p)
      <3>1. /\ q = Evicted(p) /\ InOrder(Evicted(p), Ids, Keys)
            /\ p.lru # <<>>
            /\ Evicted(p) = [map |-> Restrict(p.map, Pinned(p) \ {Head(p.lru)}), lru |-> Tail(p.lru)]
        BY <2>1, EvictedInOrder DEF IInv
      <3>2. kept = Pinned(p) \ {Head(p.lru)}
        BY <1>1, <2>1, <3>1, ColdestIsHead DEF Full, Recency!Entries, Pinned
      <3> HIDE DEF q, kept, gone
      <3>3. q.map = Restrict(p.map, kept) /\ q.lru = Tail(p.lru)
        BY <3>1, <3>2
      <3>4. Pinned(q) = kept
        BY <3>3 DEF Pinned, Restrict
      <3>5. Pairs(q.lru) = Recency!Without(Before, Head(p.lru))
        BY <3>1, <3>3, PairsTail, BeforeIsPairs DEF IInv, InOrder
      <3>6. Recency!Without(Before, Head(p.lru)) = {pair \in Before : pair[1] \in kept /\ pair[2] \in kept}
        BY <3>2 DEF Recency!Without, Before
      <3> QED
        BY <3>1, <3>3, <3>4, <3>5, <3>6
    <2>2. CASE id \in Pinned(p) \/ ~Full(p)
      <3>1. q = p /\ kept = Pinned(p)
        BY <1>1, <2>2 DEF Full, Recency!Entries, Pinned
      <3>2. Restrict(p.map, Pinned(p)) = p.map
        BY DEF IInv, InOrder, Restrict
      <3>3. Before = {pair \in Before : pair[1] \in Pinned(p) /\ pair[2] \in Pinned(p)}
        BY DEF Before
      <3>4. Pairs(p.lru) = Before
        BY BeforeIsPairs
      <3> QED
        BY <3>1, <3>2, <3>3, <3>4 DEF IInv
    <2> QED
      BY <2>1, <2>2
  <1> DEFINE l == IF id \in Pinned(q) THEN Touch(q.lru, id) ELSE Append(q.lru, id)
             older == {pair \in Before : pair[1] \in kept /\ pair[2] \in kept}
  <1>3. pins'.map = Inserted(q.map, id, key) /\ pins'.lru = l
    BY DEF Put, AfterPut
  <1> HIDE DEF q, gone, kept
  <1>4. Pairs(l) = Recency!Latest(Pairs(q.lru), Pinned(q), id)
    <2>1. CASE id \in Pinned(q)
      BY <1>2, <2>1, PairsTouch DEF InOrder
    <2>2. CASE id \notin Pinned(q)
      BY <1>2, <2>2, PairsAppend DEF InOrder
    <2> QED
      BY <2>1, <2>2
  <1>5. Before' = Recency!Latest(older, kept, id)
    <2>1. Before' = Pairs(l)
      BY <1>3, BeforeIsPairs
    <2> QED
      BY <1>2, <1>4, <2>1
  <1>6. pins.map' = [c \in kept \cup {id} |-> IF c = id THEN key ELSE pins.map[c]]
    <2>1. DOMAIN q.map = kept /\ \A c \in kept : q.map[c] = pins.map[c]
      BY <1>2 DEF Pinned, Restrict
    <2> QED
      BY <1>3, <2>1 DEF Inserted
  <1>7. Recency!Cardinality(Recency!Entries) = Cardinality(Recency!Entries)
    BY DEF Recency!Cardinality, Cardinality
  <1>8. Recency!Pin(id, key)
    BY <1>5, <1>6, <1>7 DEF Recency!Pin, kept, gone
  <1> QED
    BY <1>8 DEF Recency!Next

(***************************************************************************)
(* The map with its deque implements the map with an order of recency: it  *)
(* forgets only on request or to make room, and then the conversation used *)
(* the longest ago, for any conversations, keys and capacity.              *)
(***************************************************************************)
THEOREM MapImplemented == Spec => ImplementsRecencyMap
  <1>1. IInv /\ IInv' /\ [Next]_pins => [Recency!Next]_(Recency!recency)
    <2> SUFFICES ASSUME IInv, IInv', [Next]_pins
                 PROVE  [Recency!Next]_(Recency!recency)
      OBVIOUS
    <2>1. CASE UNCHANGED pins
      BY <2>1 DEF Recency!recency, Before, Pinned
    <2> QED
      BY <2>1, MapsGet, MapsPut, MapsRemoveIf DEF Next, Operation
  <1> QED
    BY <1>1, MapsInit, InOrderAlways, PTL DEF Spec, ImplementsRecencyMap, Recency!Spec
-----------------------------------------------------------------------------
(***************************************************************************)
(* What a request can be: an opening, with replies at its end.             *)
(***************************************************************************)
ReachedFrom(r, b, n) == /\ b.messages = NoMessages => n = 0
                        /\ \E replies \in [1..n -> Replies] : r = Extended(b, replies)

Reachable(r) == \E b \in Openings, n \in 0..MaxMessages : ReachedFrom(r, b, n)

Reached == Reachable(body)

(* The replies are a sequence, and so they are with one more. *)
LEMMA Appended ==
  ASSUME NEW S, NEW n \in Nat, NEW r \in [1..n -> S]
  PROVE  /\ r \in Seq(S) /\ Len(r) = n
         /\ \A e \in S : Append(r, e) \in [1..(n + 1) -> S]
  <1>1. r \in Seq(S) /\ Len(r) = n
    BY SeqDef, LenProperties
  <1>2. ASSUME NEW e \in S
        PROVE  Append(r, e) \in [1..(n + 1) -> S]
    <2>1. Append(r, e) \in Seq(S) /\ Len(Append(r, e)) = n + 1
      BY <1>1, AppendProperties
    <2> QED
      BY <2>1, LenProperties, ElementOfSeq
  <1> QED
    BY <1>1, <1>2

(* An opening is reached, with no reply yet. *)
LEMMA OpeningReached == \A b \in Openings : Reachable(b)
  <1>1. ASSUME NEW b \in Openings
        PROVE  0 \in 0..MaxMessages /\ \E replies \in [1..0 -> Replies] : b = Extended(b, replies)
    <2>1. b \in Requests /\ b.messages \in Seq(Messages) /\ MaxMessages \in Nat
      BY RequestsAssumption DEF Requests
    <2>2. b.messages \o <<>> = b.messages
      BY <2>1, ConcatEmptySeq
    <2>3. b = Extended(b, <<>>)
      BY <2>1, <2>2 DEF Extended, Request, Requests
    <2>4. 0 \in 0..MaxMessages /\ <<>> \in [1..0 -> Replies]
      BY <2>1
    <2> QED
      BY <2>3, <2>4
  <1> QED
    BY <1>1 DEF Reachable, ReachedFrom

LEMMA ReachedInit == ConversationsInit => Reached
  <1> SUFFICES ASSUME ConversationsInit PROVE Reached
    OBVIOUS
  <1>1. body \in Openings /\ body \in Requests /\ body.messages \in Seq(Messages)
    BY RequestsAssumption DEF ConversationsInit, Requests
  <1> QED
    BY <1>1, OpeningReached DEF Reached

LEMMA ReachedStep == Reached /\ [ConversationsNext]_vars => Reached'
  <1> SUFFICES ASSUME Reached, [ConversationsNext]_vars
               PROVE  Reached'
    OBVIOUS
  <1>1. CASE NewConversation
    <2>1. body' \in Openings
      BY <1>1 DEF NewConversation
    <2> QED
      BY <2>1, OpeningReached DEF Reached
  <1>2. CASE NextTurn
    <2>1. PICK m \in Replies : body' = [body EXCEPT !.messages = Append(@, m)]
      BY <1>2 DEF NextTurn
    <2>2. /\ body.messages # NoMessages /\ Len(body.messages) < MaxMessages
          /\ MaxMessages \in Nat /\ Replies \subseteq Messages /\ Openings \subseteq Requests
      BY <1>2, RequestsAssumption DEF NextTurn
    <2>0. PICK b \in Openings, n \in 0..MaxMessages : ReachedFrom(body, b, n)
      BY DEF Reached, Reachable
    <2>3. PICK replies \in [1..n -> Replies] : body = Extended(b, replies)
      BY <2>0 DEF ReachedFrom
    <2>4. b \in Requests /\ b.messages \in Seq(Messages) /\ n \in Nat /\ replies \in [1..n -> Messages]
      <3>1. n \in Nat
        BY <2>2, <2>3
      <3> QED
        BY <2>2, <2>3, <3>1 DEF Requests
    <2>5. /\ body.messages = b.messages \o replies
          /\ body = Request(b.path, b.model, b.messages \o replies, b.prompt)
      BY <2>3 DEF Extended, Request
    <2>6. /\ Len(b.messages \o replies) = Len(b.messages) + n /\ Len(b.messages) \in Nat
          /\ Append(b.messages \o replies, m) = b.messages \o Append(replies, m)
          /\ Append(replies, m) \in [1..(n + 1) -> Replies]
      <3>1. replies \in Seq(Messages) /\ Len(replies) = n /\ m \in Messages
        BY <2>2, <2>4, Appended
      <3>2. Append(replies, m) \in [1..(n + 1) -> Replies]
        BY <2>1, <2>3, <2>4, Appended
      <3>3. Len(b.messages \o replies) = Len(b.messages) + n /\ Len(b.messages) \in Nat
        BY <2>4, <3>1, ConcatProperties, LenProperties
      <3>4. Append(b.messages \o replies, m) = b.messages \o Append(replies, m)
        <4>1. PICK s \in Seq(Messages) : s = b.messages
          BY <2>4
        <4>2. <<m>> \in Seq(Messages) /\ Append(replies, m) = replies \o <<m>>
          BY <3>1, AppendIsConcat
        <4>3. s \o replies \in Seq(Messages)
          BY <3>1, ConcatProperties
        <4>4. Append(s \o replies, m) = (s \o replies) \o <<m>>
          BY <3>1, <4>3, AppendIsConcat
        <4>5. (s \o replies) \o <<m>> = s \o (replies \o <<m>>)
          BY <3>1, <4>2, ConcatAssociative
        <4> QED
          BY <4>1, <4>2, <4>4, <4>5
      <3> QED
        BY <3>2, <3>3, <3>4
    <2>7. b.messages # NoMessages
      <3> SUFFICES ASSUME b.messages = NoMessages PROVE FALSE
        OBVIOUS
      <3>1. n = 0 /\ replies \in Seq(Messages) /\ Len(replies) = 0
        BY <2>1, <2>2, <2>0, <2>4, Appended DEF ReachedFrom
      <3>2. replies = <<>>
        BY <3>1, EmptySeq
      <3> QED
        BY <2>2, <2>4, <2>5, <3>2, ConcatEmptySeq
    <2>8. n + 1 \in 0..MaxMessages
      BY <2>2, <2>4, <2>5, <2>6
    <2>9. body' = Extended(b, Append(replies, m))
      <3>1. body' = Request(b.path, b.model, b.messages \o Append(replies, m), b.prompt)
        BY <2>1, <2>5, <2>6 DEF Request
      <3> QED
        BY <3>1 DEF Extended
    <2> QED
      BY <2>6, <2>7, <2>8, <2>9 DEF Reached, Reachable, ReachedFrom
  <1>3. CASE Route
    BY <1>3 DEF Route, Reached
  <1>4. CASE UNCHANGED vars
    BY <1>4 DEF vars, Reached, ReachedFrom
  <1> QED
    BY <1>1, <1>2, <1>3, <1>4 DEF ConversationsNext

LEMMA ReachedAlways == ConversationsSpec => []Reached
  BY ReachedInit, ReachedStep, PTL DEF ConversationsSpec

(* Requests stay what clients send. *)
LEMMA ReachableType ==
  ASSUME NEW r, Reachable(r)
  PROVE  r \in Requests
  <1>0. PICK b \in Openings, n \in 0..MaxMessages : ReachedFrom(r, b, n)
    BY DEF Reachable
  <1>1. PICK replies \in [1..n -> Replies] : r = Extended(b, replies)
    BY <1>0 DEF ReachedFrom
  <1>2. b \in Requests /\ b.messages \in Seq(Messages) /\ n \in Nat /\ replies \in [1..n -> Messages]
    <2>1. n \in Nat
      BY <1>1, RequestsAssumption
    <2> QED
      BY <1>1, <2>1, RequestsAssumption DEF Requests
  <1>3. b.messages \o replies \in Seq(Messages)
    <2>1. replies \in Seq(Messages)
      BY <1>2, SeqDef
    <2> QED
      BY <1>2, <2>1, ConcatProperties
  <1> QED
    BY <1>1, <1>2, <1>3 DEF Requests, Extended, Request
-----------------------------------------------------------------------------
(***************************************************************************)
(* The first message that is not the system's.                             *)
(***************************************************************************)
LEMMA CutFirst ==
  ASSUME NEW messages \in Seq(Messages), Cuts(messages) # {}
  PROVE  /\ CutOf(messages) \in Cuts(messages)
         /\ \A i \in Cuts(messages) : CutOf(messages) <= i
         /\ CutOf(messages) \in 1..Len(messages)
  <1> DEFINE R == {p \in Nat \X Nat : p[1] < p[2]}
             cuts == Cuts(messages)
  <1>1. cuts \subseteq 1..Len(messages) /\ 1..Len(messages) \subseteq Nat
    BY DEF Cuts
  <1>2. IsWellFoundedOn(R, Nat)
    BY NatLessThanWellFounded DEF OpToRel
  <1>3. \E i \in cuts : \A j \in cuts : i <= j
    <2>1. cuts \subseteq Nat /\ cuts # {}
      BY <1>1
    <2> HIDE DEF cuts, R
    <2>2. PICK i \in cuts : \A j \in cuts : ~(<<j, i>> \in R)
      BY <1>2, <2>1, WFMin
    <2>3. \A j \in Nat, k \in Nat : j < k => <<j, k>> \in R
      BY DEF R
    <2>4. ASSUME NEW j \in cuts, ~(i <= j)
          PROVE  FALSE
      <3>1. i \in Nat /\ j \in Nat
        BY <2>1
      <3>2. j < i
        BY <2>4, <3>1
      <3> QED
        BY <2>2, <2>3, <3>1, <3>2
    <2> QED
      BY <2>4
  <1>4. CutOf(messages) \in cuts /\ \A i \in cuts : CutOf(messages) <= i
    BY <1>3 DEF CutOf
  <1> QED
    BY <1>1, <1>4

(* It is the only one with nothing but system messages before it. *)
LEMMA SpokenIsCut ==
  ASSUME NEW messages \in Seq(Messages), Cuts(messages) # {}
  PROVE  FirstSpoken(messages) = {CutOf(messages)}
  <1> DEFINE cut == CutOf(messages)
  <1>1. /\ cut \in 1..Len(messages) /\ cut \in Cuts(messages)
        /\ \A i \in Cuts(messages) : cut <= i
        /\ Cuts(messages) \subseteq 1..Len(messages) /\ Len(messages) \in Nat
    BY CutFirst DEF Cuts
  <1>2. \A i \in 1..Len(messages) : i \in Cuts(messages) <=> messages[i].role # "system"
    BY DEF Cuts
  <1> HIDE DEF cut
  <1>3. cut \in FirstSpoken(messages)
    BY <1>1, <1>2 DEF FirstSpoken
  <1>4. ASSUME NEW i \in FirstSpoken(messages)
        PROVE  i = cut
    BY <1>1, <1>2 DEF FirstSpoken
  <1> QED
    BY <1>3, <1>4 DEF cut

(* Where an identity comes from. *)
LEMMA IdentityFrom ==
  ASSUME NEW b \in Requests, IdentityOf(b) # NoIdentity
  PROVE  /\ Named(b)
         /\ \/ /\ b.path \in ChatPaths /\ b.path \notin PromptPaths /\ HasPrefix(b.messages)
               /\ IdentityOf(b) = IdentityBy(b, Prefix(b.messages))
            \/ /\ b.path \in PromptPaths /\ b.path \notin ChatPaths /\ b.prompt # NoText
               /\ IdentityOf(b) = IdentityBy(b, <<<<b.prompt.head>>>>)
  <1>1. b.path \in PromptPaths => b.path \notin ChatPaths
    BY DEF PromptPaths, ChatPaths
  <1>2. CASE Named(b) /\ b.path \in ChatPaths /\ HasPrefix(b.messages)
    BY <1>1, <1>2 DEF IdentityOf
  <1>3. CASE Named(b) /\ b.path \in PromptPaths /\ b.prompt # NoText
    BY <1>1, <1>3 DEF IdentityOf
  <1>4. CASE /\ ~(Named(b) /\ b.path \in ChatPaths /\ HasPrefix(b.messages))
             /\ ~(Named(b) /\ b.path \in PromptPaths /\ b.prompt # NoText)
    BY <1>4 DEF IdentityOf
  <1> QED
    BY <1>2, <1>3, <1>4

(* A later turn has the same first messages, and so the same prefix. *)
LEMMA PrefixKept ==
  ASSUME NEW old \in Seq(Messages), NEW new \in Seq(Messages), IsStrictPrefix(old, new), HasPrefix(old)
  PROVE  HasPrefix(new) /\ Prefix(new) = Prefix(old)
  <1>1. /\ Len(old) <= Len(new) /\ \A i \in 1..Len(old) : new[i] = old[i]
        /\ Len(old) \in Nat /\ Len(new) \in Nat /\ old # new
    <2>1. Len(old) <= Len(new) /\ SubSeq(old, 1, Len(old)) = SubSeq(new, 1, Len(old)) /\ old # new
      BY DEF IsStrictPrefix, IsPrefix
    <2>2. \A i \in 1..Len(old) : SubSeq(new, 1, Len(old))[i] = new[i]
      BY <2>1
    <2>3. SubSeq(old, 1, Len(old)) = old
      BY SubSeqFull
    <2> QED
      BY <2>1, <2>2, <2>3
  <1>2. \A i \in 1..Len(old) : i \in Cuts(new) <=> i \in Cuts(old)
    BY <1>1 DEF Cuts
  <1>3. /\ CutOf(old) \in 1..Len(old) /\ CutOf(old) \in Cuts(old)
        /\ \A i \in Cuts(old) : CutOf(old) <= i
    BY CutFirst DEF HasPrefix
  <1>4. CutOf(old) \in Cuts(new)
    BY <1>2, <1>3
  <1>5. /\ CutOf(new) \in 1..Len(new) /\ CutOf(new) \in Cuts(new)
        /\ \A i \in Cuts(new) : CutOf(new) <= i
    BY <1>4, CutFirst
  <1>6. CutOf(new) = CutOf(old)
    BY <1>1, <1>2, <1>3, <1>4, <1>5
  <1>7. Prefix(new) = Prefix(old)
    BY <1>1, <1>3, <1>6 DEF Prefix
  <1>8. new # NoMessages
    <2>1. Len(old) # Len(new)
      BY <1>1, SeqEqual
    <2>2. Len(NoMessages) = 1
      BY DEF NoMessages
    <2> QED
      BY <1>1, <1>3, <2>1, <2>2
  <1> QED
    BY <1>4, <1>7, <1>8 DEF HasPrefix

LEMMA IdentityKept ==
  ASSUME NEW b \in Requests, NEW next \in Requests, Continues(next, b), IdentityOf(b) # NoIdentity
  PROVE  IdentityOf(next) = IdentityOf(b)
  <1>1. /\ next.path = b.path /\ next.model = b.model /\ next.prompt = b.prompt
        /\ IsStrictPrefix(b.messages, next.messages)
        /\ b.messages \in Seq(Messages) /\ next.messages \in Seq(Messages)
    BY DEF Continues, Requests
  <1>2. Named(b) /\ Named(next)
    BY <1>1, IdentityFrom DEF Named
  <1>3. ChatPaths \cap PromptPaths = {}
    BY DEF ChatPaths, PromptPaths
  <1>4. CASE /\ b.path \in ChatPaths /\ HasPrefix(b.messages)
             /\ IdentityOf(b) = IdentityBy(b, Prefix(b.messages))
    <2>1. HasPrefix(next.messages) /\ Prefix(next.messages) = Prefix(b.messages)
      BY <1>1, <1>4, PrefixKept
    <2>2. IdentityOf(next) = IdentityBy(next, Prefix(next.messages))
      BY <1>1, <1>2, <1>3, <1>4, <2>1 DEF IdentityOf
    <2> QED
      BY <1>1, <1>4, <2>1, <2>2 DEF IdentityBy
  <1>5. CASE /\ b.path \in PromptPaths /\ b.prompt # NoText
             /\ IdentityOf(b) = IdentityBy(b, <<<<b.prompt.head>>>>)
    <2>1. IdentityOf(next) = IdentityBy(next, <<<<next.prompt.head>>>>)
      BY <1>1, <1>2, <1>3, <1>5 DEF IdentityOf
    <2> QED
      BY <1>1, <1>5, <2>1 DEF IdentityBy
  <1> QED
    BY <1>4, <1>5, IdentityFrom

(* What the user of a request with an identity said first is in it. *)
LEMMA SaidInIdentity ==
  ASSUME NEW b \in Requests, IdentityOf(b) # NoIdentity
  PROVE  /\ IdentityOf(b).family = FamilyOf(b.path) /\ IdentityOf(b).model = b.model
         /\ FirstSaid(b) = {IdentityOf(b).parts[Len(IdentityOf(b).parts)][1]}
  <1>1. CASE /\ b.path \in ChatPaths /\ b.path \notin PromptPaths /\ HasPrefix(b.messages)
             /\ IdentityOf(b) = IdentityBy(b, Prefix(b.messages))
    <2> DEFINE cut == CutOf(b.messages)
    <2>1. b.messages \in Seq(Messages) /\ Cuts(b.messages) # {}
      BY <1>1 DEF Requests, HasPrefix
    <2>2. cut \in 1..Len(b.messages) /\ FirstSpoken(b.messages) = {cut}
      BY <2>1, CutFirst, SpokenIsCut
    <2>3. FirstSaid(b) = {b.messages[cut].text.head}
      BY <1>1, <2>2 DEF FirstSaid
    <2>4. Len(Prefix(b.messages)) = cut /\ Prefix(b.messages)[cut] = PartOf(b.messages[cut])
      BY <2>2 DEF Prefix
    <2>5. PartOf(b.messages[cut])[1] = b.messages[cut].text.head
      BY DEF PartOf
    <2>6. IdentityOf(b) = [family |-> FamilyOf(b.path), model |-> b.model, parts |-> Prefix(b.messages)]
      BY <1>1 DEF IdentityBy
    <2> QED
      BY <2>3, <2>4, <2>5, <2>6
  <1>2. CASE /\ b.path \in PromptPaths
             /\ IdentityOf(b) = IdentityBy(b, <<<<b.prompt.head>>>>)
    BY <1>2 DEF IdentityBy, FirstSaid
  <1> QED
    BY <1>1, <1>2, IdentityFrom

(***************************************************************************)
(* Once a conversation has an identity every later turn has the same, for  *)
(* any requests: whatever is said first, and whatever the replies are.     *)
(***************************************************************************)
THEOREM IdentityCorrect == ConversationsSpec => IdentityStable
  <1>1. ASSUME Reached, Reached', Continues(body', body), IdentityOf(body) # NoIdentity
        PROVE  IdentityOf(body') = IdentityOf(body)
    <2>1. body \in Requests /\ body' \in Requests
      BY <1>1, ReachableType DEF Reached
    <2> QED
      BY <1>1, <2>1, IdentityKept
  <1> QED
    BY <1>1, ReachedAlways, PTL DEF ConversationsSpec, IdentityStable

(***************************************************************************)
(* Requests with one identity agree on the model, on the API and on what   *)
(* their users said first, for any requests.                               *)
(***************************************************************************)
THEOREM ApartCorrect == ConversationsSpec => ConversationsApart
  <1> DEFINE old == IdentityOf(body)
             new == IdentityOf(body')
  <1>1. ASSUME Reached, Reached', old = new, old # NoIdentity
        PROVE  /\ FirstSaid(body') = FirstSaid(body) /\ body'.model = body.model
               /\ FamilyOf(body'.path) = FamilyOf(body.path)
    <2>1. body \in Requests /\ body' \in Requests
      BY <1>1, ReachableType DEF Reached
    <2> QED
      BY <1>1, <2>1, SaidInIdentity
  <1> QED
    BY <1>1, ReachedAlways, PTL DEF ConversationsSpec, ConversationsApart
-----------------------------------------------------------------------------
(***************************************************************************)
(* Requests use the pin map as its own specification says, for each is of  *)
(* a conversation the map knows of.  So what holds of the map by itself    *)
(* holds of the map the requests use.                                      *)
(***************************************************************************)
LEMMA IdentityInIds ==
  ASSUME Reached, IdentityOf(body) # NoIdentity
  PROVE  IdentityOf(body) \in Ids
  <1>1. PICK b \in Openings, n \in 0..MaxMessages : ReachedFrom(body, b, n)
    BY DEF Reached, Reachable
  <1>2. PICK replies \in [1..n -> Replies] : body = Extended(b, replies)
    BY <1>1 DEF ReachedFrom
  <1>3. n \in (IF b.messages = NoMessages THEN {0} ELSE 0..MaxMessages)
    BY <1>1 DEF ReachedFrom
  <1>4. IdentityOf(Extended(b, replies)) \in Ids \cup {NoIdentity}
    BY <1>2, <1>3, IdsAssumption
  <1> QED
    BY <1>2, <1>4

THEOREM MapUsed == ConversationsSpec => Spec
  <1>1. ConversationsInit => Init
    BY DEF ConversationsInit
  <1>2. Reached /\ [ConversationsNext]_vars => [Next]_pins
    <2> SUFFICES ASSUME Reached, [ConversationsNext]_vars
                 PROVE  [Next]_pins
      OBVIOUS
    <2>1. CASE NewConversation \/ NextTurn \/ UNCHANGED vars
      BY <2>1 DEF NewConversation, NextTurn, vars
    <2>2. CASE Route
      BY <2>2, IdentityInIds DEF Route, Next
    <2> QED
      BY <2>1, <2>2 DEF ConversationsNext
  <1> QED
    BY <1>1, <1>2, ReachedAlways, PTL DEF ConversationsSpec, Spec

(* Of the map the requests use: conversations are taken to keys.           *)
THEOREM TypeCorrect == ConversationsSpec => []TypeOK
  BY MapUsed, MapTypeCorrect, PTL

(* Of the map the requests use: map and deque cannot diverge.              *)
THEOREM InStepCorrect == ConversationsSpec => []InStep
  BY MapUsed, MapInStep, PTL

(* The map the requests use implements the map with an order of recency.   *)
THEOREM RecencyImplemented == ConversationsSpec => ImplementsRecencyMap
  BY MapUsed, MapImplemented, PTL
=============================================================================

---------------------------- MODULE Proxy_proofs ----------------------------
(***************************************************************************)
(* Proofs about Proxy for any workers, keys, limits, conversations and     *)
(* answers of the upstream: types, the account of slots and lines, the     *)
(* strikes that admission keeps, why a pin may be lost, and that each key  *)
(* is a Semaphore and has the life of a KeyHealth.                         *)
(***************************************************************************)
EXTENDS Proxy, Affinity_proofs

Ranked == {"scan", "join", "waiting", "served"}

(***************************************************************************)
(* The inductive invariant.  The types are not enough: `cands[next]` is a  *)
(* key only while there are candidates left to try, the slot given back is *)
(* one that is held, and an eviction keeps the bound of the pin map only   *)
(* if its deque is in order.                                               *)
(***************************************************************************)
LocalOK == /\ pc \in [Workers -> Places]
           /\ conv \in [Workers -> Ids \cup {NoId}]
           /\ key \in [Workers -> Keys \cup {NoKey}]
           /\ cands \in [Workers -> Seq(Keys)]
           /\ next \in [Workers -> 1..(NumKeys + 1)]
           /\ retries \in [Workers -> 0..(MaxAttempts - 1)]

KeysKnown == \A w \in Workers : pc[w] \in Owning \cup {"pinned"} => key[w] \in Keys

CandsKnown == \A w \in Workers : /\ Len(cands[w]) <= NumKeys
                                 /\ pc[w] \in Ranked => Len(cands[w]) >= 1
                                 /\ pc[w] = "scan" => next[w] <= Len(cands[w])
                                 /\ pc[w] = "served" => key[w] = cands[w][1]
                                 /\ pc[w] \notin Ranked \cup {"rejected"} => cands[w] = <<>>

HealthOK == health \in [Keys -> HealthRecord]
RoutingOK == rr \in Keys \cup {0} /\ over \subseteq Keys
PinsOK   == InOrder(pins, Ids, Keys)
SlotsOK  == held \in [Keys -> Nat] /\ waiters \in [Keys -> Nat] /\ SlotsReturned

Placed == LocalOK /\ KeysKnown /\ CandsKnown

IInv == Placed /\ HealthOK /\ RoutingOK /\ PinsOK /\ SlotsOK
-----------------------------------------------------------------------------
(* Keys are numbers, apart from NoKey.                                     *)
LEMMA KeysAreIntegers == \A k \in Keys : k \in Nat /\ k < NumKeys /\ k # NoKey
  BY NumKeysAssumption DEF Keys, NoKey

(* The key of a pin is a key. *)
LEMMA PinOfKey == PinsOK => \A c : PinOf(c) \in Keys \cup {NoKey}
  BY DEF PinsOK, InOrder, PinOf

(* A ranking is a sequence of at most all keys, and of one if one is Up. *)
LEMMA RankingsAreSequences ==
  ASSUME NEW s \in Rankings, UpKeys # {}
  PROVE  s \in Seq(Keys) /\ Len(s) >= 1 /\ Len(s) <= NumKeys
  <1>1. IsFiniteSet(Keys) /\ Cardinality(Keys) = NumKeys
    BY NumKeysAssumption, FS_Interval DEF Keys
  <1>2. /\ UpKeys \subseteq Keys /\ IsFiniteSet(UpKeys) /\ Cardinality(UpKeys) \in Nat
        /\ Cardinality(UpKeys) <= NumKeys /\ Cardinality(UpKeys) # 0
    <2>1. UpKeys \subseteq Keys
      BY DEF UpKeys
    <2> QED
      BY <1>1, <2>1, FS_Subset, FS_CardinalityType, FS_EmptySet
  <1> DEFINE n == Cardinality(UpKeys)
  <1>3. s \in [1..n -> UpKeys]
    BY DEF Rankings
  <1>4. s \in [1..n -> Keys]
    BY <1>2, <1>3
  <1> HIDE DEF n
  <1>5. n \in Nat
    BY <1>2 DEF n
  <1>6. s \in Seq(Keys) /\ Len(s) = n
    BY <1>4, <1>5
  <1> QED
    BY <1>2, <1>6 DEF n

LEMMA InitIInv == Init => IInv
  <1> SUFFICES ASSUME Init PROVE IInv
    OBVIOUS
  <1>1. LocalOK
    BY NumKeysAssumption, BoundsAssumption DEF Init, LocalOK, Places, NoKey
  <1>2. KeysKnown /\ CandsKnown
    BY NumKeysAssumption DEF Init, KeysKnown, CandsKnown, Owning, Ranked
  <1>3. HealthOK /\ RoutingOK /\ PinsOK
    BY NoPinsInOrder DEF Init, HealthOK, RoutingOK, PinsOK, HealthRecord, Fresh, NoDeadline
  <1>4. SlotsOK
    <2> SUFFICES ASSUME NEW k \in Keys
                 PROVE  /\ Owners(k) = {} /\ Line(k) = {}
                        /\ 0 <= Limit(k) /\ 0 <= WaiterCap
      BY FS_EmptySet DEF Init, SlotsOK, SlotsReturned
    <2>1. Limit(k) \in Nat
      BY LimitsAssumption, KeysAreIntegers, NumKeysAssumption DEF Limit
    <2> QED
      BY <2>1, BoundsAssumption DEF Init, Owners, Line, Owning
  <1> QED
    BY <1>1, <1>2, <1>3, <1>4 DEF IInv, Placed
-----------------------------------------------------------------------------
(* The places and the local variables: every step of a worker. *)
LEMMA PlacedArrival ==
  ASSUME Placed, PinsOK, NEW w \in Workers, Arrival(w) \/ AnswerNoAuth(w)
  PROVE  Placed'
  <1> USE DEF Placed, LocalOK, KeysKnown, CandsKnown, Go, Goto
  <1>1. ASSUME NEW c \in Ids \cup {NoId}, Arrive(w, c)
        PROVE  Placed'
    BY <1>1 DEF Arrive, Places, Owning, Ranked
  <1>2. CASE ArriveNoAuth(w)
    BY <1>2 DEF ArriveNoAuth, Places, Owning, Ranked
  <1>3. CASE AnswerNoAuth(w)
    BY <1>3 DEF AnswerNoAuth, Places, Owning, Ranked
  <1> QED
    BY <1>1, <1>2, <1>3 DEF Arrival

(* A worker whose list of candidates is forgotten, at a place without one. *)
LEMMA PlacedForgets ==
  ASSUME Placed, NEW w \in Workers, NEW to \in Places \ (Ranked \cup {"pinned"}), Goto(w, to), Forget(w),
         conv' \in [Workers -> Ids \cup {NoId}], retries' \in [Workers -> 0..(MaxAttempts - 1)],
         NEW k \in Keys \cup {NoKey}, key' = [key EXCEPT ![w] = k], to \in Owning => k \in Keys
  PROVE  Placed'
  <1> USE DEF Placed
  <1>1. cands' = [cands EXCEPT ![w] = <<>>] /\ next' = [next EXCEPT ![w] = 1] /\ pc' = [pc EXCEPT ![w] = to]
    BY DEF Forget, Goto
  <1>2. 1 \in 1..(NumKeys + 1) /\ <<>> \in Seq(Keys) /\ Len(<<>>) = 0
    BY NumKeysAssumption
  <1>3. LocalOK'
    BY <1>1, <1>2 DEF LocalOK
  <1>4. KeysKnown'
    BY <1>1 DEF KeysKnown, LocalOK
  <1>5. CandsKnown'
    <2>1. Len(cands'[w]) = 0 /\ cands'[w] = <<>> /\ pc'[w] \notin Ranked /\ pc'[w] # "scan"
      BY <1>1, <1>2 DEF LocalOK, Ranked
    <2>2. \A v \in Workers \ {w} : /\ cands'[v] = cands[v] /\ next'[v] = next[v]
                                   /\ pc'[v] = pc[v] /\ key'[v] = key[v]
      BY <1>1 DEF LocalOK
    <2>3. pc'[w] # "served"
      BY <2>1 DEF Ranked
    <2> QED
      BY <2>1, <2>2, <2>3, NumKeysAssumption DEF CandsKnown
  <1> QED
    BY <1>3, <1>4, <1>5

LEMMA PlacedAdmission ==
  ASSUME Placed, PinsOK, NEW w \in Workers, Admission(w)
  PROVE  Placed'
  <1> USE DEF Placed, LocalOK, KeysKnown, CandsKnown, Go, Goto
  <1>1. CASE Lookup(w)
    <2>1. CASE Usable(PinOf(conv[w]))
      <3>1. PinOf(conv[w]) \in Keys
        BY <2>1, PinOfKey DEF Usable
      <3> QED
        BY <1>1, <2>1, <3>1 DEF Lookup, choice, Places, Owning, Ranked
    <2>2. CASE ~Usable(PinOf(conv[w]))
      BY <1>1, <2>2 DEF Lookup, choice, Places, Owning, Ranked
    <2> QED
      BY <2>1, <2>2
  <1>2. CASE TakePinned(w)
    BY <1>2 DEF TakePinned, choice, Places, Owning, Ranked
  <1>3. CASE Admit(w)
    <2>1. CASE UpKeys = {}
      BY <1>3, <2>1 DEF Admit, Places, Owning, Ranked
    <2>2. CASE UpKeys # {}
      <3>1. PICK s \in Rankings : cands' = [cands EXCEPT ![w] = s]
        BY <1>3, <2>2 DEF Admit
      <3>2. s \in Seq(Keys) /\ Len(s) >= 1 /\ Len(s) <= NumKeys
        BY <2>2, RankingsAreSequences
      <3>3. next' = [next EXCEPT ![w] = 1] /\ pc' = [pc EXCEPT ![w] = "scan"] /\ UNCHANGED <<conv, key, retries>>
        BY <1>3, <2>2 DEF Admit
      <3> QED
        BY <3>1, <3>2, <3>3, NumKeysAssumption DEF Places, Owning, Ranked
    <2> QED
      BY <2>1, <2>2
  <1>4. CASE Scan(w)
    <2> DEFINE n == next[w]
               k == cands[w][n]
    <2>1. k \in Keys /\ n \in Nat /\ n >= 1 /\ n <= Len(cands[w]) /\ Len(cands[w]) \in Nat
      BY <1>4 DEF Scan, Ranked
    <2>2. CASE Free(k)
      <3>1. /\ Goto(w, "pin") /\ Forget(w) /\ UNCHANGED <<conv, retries>>
            /\ key' = [key EXCEPT ![w] = k]
        BY <1>4, <2>2 DEF Scan
      <3> HIDE DEF k
      <3>2. "pin" \in Places \ (Ranked \cup {"pinned"})
        BY DEF Places, Owning, Ranked
      <3> QED
        BY <2>1, <3>1, <3>2, PlacedForgets DEF Owning
    <2>3. CASE ~Free(k)
      <3>1. UNCHANGED <<conv, retries, key, cands>>
        BY <1>4, <2>3 DEF Scan
      <3> HIDE DEF k
      <3>2. CASE n < Len(cands[w])
        <4>1. next' = [next EXCEPT ![w] = n + 1] /\ UNCHANGED pc
          BY <1>4, <2>3, <3>2 DEF Scan, k
        <4>2. n + 1 \in 1..(NumKeys + 1) /\ n + 1 <= Len(cands[w])
          BY <2>1, <3>2, NumKeysAssumption
        <4> HIDE DEF n
        <4> QED
          BY <3>1, <4>1, <4>2
      <3>3. CASE ~(n < Len(cands[w]))
        <4>1. next' = [next EXCEPT ![w] = 1] /\ pc' = [pc EXCEPT ![w] = "join"]
          BY <1>4, <2>3, <3>3 DEF Scan, k
        <4>2. 1 \in 1..(NumKeys + 1) /\ Len(cands[w]) >= 1
          BY <2>1, NumKeysAssumption
        <4> QED
          BY <3>1, <4>1, <4>2 DEF Places, Owning, Ranked
      <3> QED
        BY <3>2, <3>3
    <2> QED
      BY <2>2, <2>3
  <1>5. CASE Join(w)
    <2>1. CASE waiters[cands[w][1]] >= WaiterCap
      BY <1>5, <2>1 DEF Join, choice, Places, Owning, Ranked
    <2>2. CASE ~(waiters[cands[w][1]] >= WaiterCap)
      BY <1>5, <2>2 DEF Join, choice, Places, Owning, Ranked
    <2> QED
      BY <2>1, <2>2
  <1>6. CASE WaitServed(w)
    <2>1. cands[w][1] \in Keys
      BY <1>6 DEF WaitServed, Ranked
    <2> QED
      BY <1>6, <2>1 DEF WaitServed, choice, Places, Owning, Ranked
  <1>7. CASE LeaveLine(w)
    <2>1. CASE Go(w, "served", "pin")
      <3>1. Goto(w, "pin") /\ Forget(w) /\ UNCHANGED <<conv, retries, key>> /\ key[w] \in Keys
        BY <1>7, <2>1 DEF LeaveLine, Owning
      <3>2. key' = [key EXCEPT ![w] = key[w]] /\ "pin" \in Places \ (Ranked \cup {"pinned"})
        BY <3>1 DEF Places, Owning, Ranked
      <3> QED
        BY <3>1, <3>2, PlacedForgets
    <2>2. CASE Go(w, "waiting", "rejected")
      BY <1>7, <2>2 DEF LeaveLine, choice, Places, Owning, Ranked
    <2> QED
      BY <1>7, <2>1, <2>2 DEF LeaveLine
  <1>8. CASE PinAdmitted(w)
    BY <1>8 DEF PinAdmitted, choice, Places, Owning, Ranked
  <1> QED
    BY <1>1, <1>2, <1>3, <1>4, <1>5, <1>6, <1>7, <1>8 DEF Admission

LEMMA PlacedAnswer ==
  ASSUME Placed, NEW w \in Workers, Answer(w)
  PROVE  Placed'
  <1> USE DEF Placed, LocalOK, KeysKnown, CandsKnown, Go, Goto
  <1>1. PICK to \in {"repin", "done", "failed", "cooling"} :
          /\ pc[w] = "upstream" /\ pc' = [pc EXCEPT ![w] = to]
          /\ UNCHANGED <<conv, choice, key, retries>>
    BY DEF Answer, SettleOk, SettleError, MarkDead, MarkCooldown, MarkStrike, NetworkError, Verdict
  <1> QED
    BY <1>1 DEF choice, Places, Owning, Ranked

LEMMA PlacedEnding ==
  ASSUME Placed, NEW w \in Workers, Ending(w)
  PROVE  Placed'
  <1> USE DEF Placed, LocalOK, KeysKnown, CandsKnown, Go, Goto
  <1>1. CASE StrikeCools(w)
    BY <1>1 DEF StrikeCools, choice, Places, Owning, Ranked
  <1>2. CASE StrikeClears(w)
    BY <1>2 DEF StrikeClears, choice, Places, Owning, Ranked
  <1>3. CASE Repin(w)
    BY <1>3 DEF Repin, choice, Places, Owning, Ranked
  <1>4. CASE Fail(w)
    <2>1. CASE retries[w] + 1 >= MaxAttempts
      BY <1>4, <2>1 DEF Fail, choice, Places, Owning, Ranked
    <2>2. CASE ~(retries[w] + 1 >= MaxAttempts)
      <3>1. retries[w] + 1 \in 0..(MaxAttempts - 1)
        BY <2>2, BoundsAssumption
      <3>2. /\ pc' = [pc EXCEPT ![w] = "drop"] /\ retries' = [retries EXCEPT ![w] = retries[w] + 1]
            /\ pc[w] = "failed" /\ UNCHANGED <<conv, cands, next, key>>
        BY <1>4, <2>2 DEF Fail, choice
      <3> QED
        BY <3>1, <3>2 DEF Places, Owning, Ranked
    <2> QED
      BY <2>1, <2>2
  <1>5. CASE Drop(w)
    BY <1>5 DEF Drop, choice, Places, Owning, Ranked
  <1>6. CASE Finish(w)
    <2>1. /\ Goto(w, "idle") /\ Forget(w) /\ key' = [key EXCEPT ![w] = NoKey]
          /\ conv' = [conv EXCEPT ![w] = NoId] /\ retries' = [retries EXCEPT ![w] = 0]
      BY <1>6 DEF Finish
    <2>2. conv' \in [Workers -> Ids \cup {NoId}] /\ retries' \in [Workers -> 0..(MaxAttempts - 1)]
      BY <2>1, BoundsAssumption
    <2>3. "idle" \in Places \ (Ranked \cup {"pinned"}) /\ "idle" \notin Owning
      BY DEF Places, Owning, Ranked
    <2> QED
      BY <2>1, <2>2, <2>3, PlacedForgets
  <1> QED
    BY <1>1, <1>2, <1>3, <1>4, <1>5, <1>6 DEF Ending

(* The records of health, the routing and the pins keep their types. *)
LEMMA RecordSteps ==
  ASSUME NEW h \in HealthRecord, NEW d \in Nat
  PROVE  /\ Observed(h) \in HealthRecord /\ Observed(h).strikes = h.strikes
         /\ Elapsed(h) \in HealthRecord /\ Elapsed(h).strikes = h.strikes
         /\ Cooled(h, d) \in HealthRecord /\ Cooled(h, d).strikes = h.strikes
         /\ Struck(h) \in HealthRecord /\ Struck(h).strikes = h.strikes + 1
         /\ Killed(h) \in HealthRecord /\ Settled(h) \in HealthRecord /\ Unstruck(h) \in HealthRecord
  <1>1. Killed(h) \in HealthRecord /\ Settled(h) \in HealthRecord
    BY DEF HealthRecord, Killed, Settled
  <1>2. Observed(h) \in HealthRecord /\ Observed(h).strikes = h.strikes
    BY DEF HealthRecord, Observed
  <1>3. Elapsed(h) \in HealthRecord /\ Elapsed(h).strikes = h.strikes
    <2>1. (IF h.left > 0 THEN h.left - 1 ELSE h.left) \in Nat \cup {NoDeadline}
      BY DEF HealthRecord, NoDeadline
    <2> QED
      BY <2>1 DEF HealthRecord, Elapsed
  <1>4. Cooled(h, d) \in HealthRecord /\ Cooled(h, d).strikes = h.strikes
    BY DEF HealthRecord, Cooled
  <1>5. Struck(h) \in HealthRecord /\ Struck(h).strikes = h.strikes + 1 /\ Unstruck(h) \in HealthRecord
    BY DEF HealthRecord, Struck, Unstruck
  <1> QED
    BY <1>1, <1>2, <1>3, <1>4, <1>5

(***************************************************************************)
(* What a step can do to the health of the keys: nothing, a look at some   *)
(* of them, a tick, or the verdict of one worker on its own key.           *)
(***************************************************************************)
Judges(w, k) ==
  \/ /\ pc[w] = "upstream"
     /\ \/ health' = [health EXCEPT ![k] = Settled(health[k])]
        \/ health' = [health EXCEPT ![k] = Killed(health[k])]
        \/ health' = [health EXCEPT ![k] = Struck(health[k])]
        \/ health' = [health EXCEPT ![k] = Cooled(health[k], Cooldown429)]
  \/ pc[w] = "cooling" /\ health' = [health EXCEPT ![k] = Cooled(health[k], Cooldown429)]
  \/ pc[w] = "clearing" /\ health' = [health EXCEPT ![k] = Unstruck(health[k])]

LEMMA HealthSteps ==
  ASSUME Placed, HealthOK, Next
  PROVE  \/ UNCHANGED health
         \/ \E S : LookAt(S)
         \/ Tick
         \/ \E w \in Workers : Judges(w, key[w]) /\ key[w] \in Keys /\ pc[w] \in Owning /\ pc'[w] # pc[w]
  <1>1. CASE PublishUsage \/ Tick
    BY <1>1 DEF PublishUsage
  <1>2. ASSUME NEW w \in Workers, Arrival(w) \/ AnswerNoAuth(w)
        PROVE  UNCHANGED health \/ \E S : LookAt(S)
    BY <1>2 DEF Arrival, AnswerNoAuth, Arrive, ArriveNoAuth, pool
  <1>3. ASSUME NEW w \in Workers, Admission(w)
        PROVE  UNCHANGED health \/ \E S : LookAt(S)
    BY <1>3 DEF Admission, Lookup, TakePinned, Admit, Scan, Join, WaitServed, LeaveLine, PinAdmitted
  <1>4. ASSUME NEW w \in Workers, Answer(w)
        PROVE  /\ key[w] \in Keys /\ pc[w] \in Owning /\ pc'[w] # pc[w]
               /\ UNCHANGED health \/ Judges(w, key[w])
    <2>1. pc[w] = "upstream" /\ key[w] \in Keys /\ pc[w] \in Owning
      BY <1>4 DEF Answer, SettleOk, SettleError, MarkDead, MarkCooldown, MarkStrike, NetworkError,
                  Verdict, Go, Placed, KeysKnown, Owning
    <2>2. pc'[w] # pc[w]
      BY <1>4, <2>1 DEF Answer, SettleOk, SettleError, MarkDead, MarkCooldown, MarkStrike, NetworkError,
                  Verdict, Go, Goto, Placed, LocalOK
    <2>3. [health EXCEPT ![key[w]] = health[key[w]]] = health
      BY <2>1 DEF HealthOK
    <2>4. CooldownOf(NoRetryAfter) = Cooldown429
      BY DEF CooldownOf
    <2> QED
      BY <1>4, <2>1, <2>2, <2>3, <2>4
      DEF Answer, SettleOk, SettleError, MarkDead, MarkCooldown, MarkStrike, NetworkError, Verdict, Judges
  <1>5. ASSUME NEW w \in Workers, Ending(w)
        PROVE  \/ UNCHANGED health
               \/ Judges(w, key[w]) /\ key[w] \in Keys /\ pc[w] \in Owning /\ pc'[w] # pc[w]
    <2>1. CASE StrikeCools(w) \/ StrikeClears(w)
      <3>1. pc[w] \in {"cooling", "clearing"} /\ key[w] \in Keys /\ pc[w] \in Owning
        BY <2>1 DEF StrikeCools, StrikeClears, Go, Placed, KeysKnown, Owning
      <3>2. pc'[w] # pc[w]
        BY <2>1 DEF StrikeCools, StrikeClears, Go, Goto, Placed, LocalOK
      <3> QED
        BY <2>1, <3>1, <3>2 DEF StrikeCools, StrikeClears, Go, Judges
    <2>2. CASE Repin(w) \/ Fail(w) \/ Drop(w) \/ Finish(w)
      BY <2>2 DEF Repin, Fail, Drop, Finish
    <2> QED
      BY <1>5, <2>1, <2>2 DEF Ending
  <1> QED
    BY <1>1, <1>2, <1>3, <1>4, <1>5 DEF Next

LEMMA HealthStep ==
  ASSUME Placed, HealthOK, Next
  PROVE  /\ HealthOK'
         /\ \A k \in Keys : health'[k].strikes < health[k].strikes =>
              \E w \in Owners(k) : /\ pc[w] \in {"upstream", "clearing"}
                                   /\ pc'[w] # pc[w]
  <1>1. CASE UNCHANGED health
    BY <1>1 DEF HealthOK, HealthRecord
  <1>2. ASSUME NEW S, LookAt(S)
        PROVE  HealthOK' /\ \A k \in Keys : health'[k].strikes = health[k].strikes
    <2>1. \A k \in Keys : /\ health[k] \in HealthRecord /\ Observed(health[k]) \in HealthRecord
                          /\ Observed(health[k]).strikes = health[k].strikes
      BY RecordSteps DEF HealthOK
    <2> QED
      BY <1>2, <2>1 DEF LookAt, HealthOK
  <1>3. CASE Tick
    <2>1. \A k \in Keys : /\ Elapsed(health[k]) \in HealthRecord
                          /\ Elapsed(health[k]).strikes = health[k].strikes
      BY RecordSteps DEF HealthOK
    <2>2. HealthOK' /\ \A k \in Keys : health'[k].strikes = health[k].strikes
      BY <1>3, <2>1 DEF Tick, HealthOK
    <2> QED
      BY <2>2 DEF HealthOK, HealthRecord
  <1>4. ASSUME NEW w \in Workers, Judges(w, key[w]), key[w] \in Keys, pc[w] \in Owning, pc'[w] # pc[w]
        PROVE  /\ HealthOK'
               /\ \A k \in Keys : health'[k].strikes < health[k].strikes =>
                    w \in Owners(k) /\ pc[w] \in {"upstream", "clearing"}
    <2> DEFINE k0 == key[w]
               h  == health[k0]
    <2>1. h \in HealthRecord /\ h.strikes \in Nat
      BY <1>4 DEF HealthOK, HealthRecord
    <2>2. Cooldown429 \in Nat
      BY Cooldown429Assumption
    <2>3. PICK g \in HealthRecord :
            /\ health' = [health EXCEPT ![k0] = g]
            /\ g.strikes < h.strikes => pc[w] \in {"upstream", "clearing"}
      BY <1>4, <2>1, <2>2, RecordSteps DEF Judges
    <2>4. HealthOK'
      BY <1>4, <2>3 DEF HealthOK
    <2>5. \A k \in Keys : health'[k] = IF k = k0 THEN g ELSE health[k]
      BY <1>4, <2>3 DEF HealthOK
    <2>6. \A k \in Keys : health[k].strikes \in Nat
      BY DEF HealthOK, HealthRecord
    <2> QED
      BY <1>4, <2>3, <2>4, <2>5, <2>6 DEF Owners
  <1> QED
    BY <1>1, <1>2, <1>3, <1>4, HealthSteps DEF HealthOK, HealthRecord

LEMMA RoutingStep ==
  ASSUME Placed, RoutingOK, Next
  PROVE  RoutingOK'
  <1>1. CASE PublishUsage
    BY <1>1, DemotionAssumption DEF PublishUsage, RoutingOK
  <1>2. CASE Tick
    BY <1>2 DEF Tick, RoutingOK
  <1>3. ASSUME NEW w \in Workers, Arrival(w) \/ AnswerNoAuth(w)
        PROVE  RoutingOK'
    BY <1>3 DEF Arrival, AnswerNoAuth, Arrive, ArriveNoAuth, pool, RoutingOK
  <1>4. ASSUME NEW w \in Workers, Admission(w)
        PROVE  RoutingOK'
    BY <1>4 DEF Admission, Lookup, TakePinned, Admit, Scan, Join, WaitServed, LeaveLine, PinAdmitted, RoutingOK
  <1>5. ASSUME NEW w \in Workers, Answer(w)
        PROVE  RoutingOK'
    <2>1. key[w] \in Keys
      BY <1>5 DEF Answer, SettleOk, SettleError, MarkDead, MarkCooldown, MarkStrike, NetworkError,
                  Verdict, Go, Placed, KeysKnown, Owning
    <2> QED
      BY <1>5, <2>1 DEF Answer, SettleOk, SettleError, MarkDead, MarkCooldown, MarkStrike, NetworkError,
                        Verdict, RoutingOK
  <1>6. ASSUME NEW w \in Workers, Ending(w)
        PROVE  RoutingOK'
    BY <1>6 DEF Ending, StrikeCools, StrikeClears, Repin, Fail, Drop, Finish, RoutingOK
  <1> QED
    BY <1>1, <1>2, <1>3, <1>4, <1>5, <1>6 DEF Next
-----------------------------------------------------------------------------
(***************************************************************************)
(* What a step can do to the pins: a look, a pin for the conversation of a *)
(* worker to its key, or the removal of that pin after a failure.          *)
(***************************************************************************)
Unpins(w) == /\ pc[w] = "failed" /\ pc'[w] # "failed" /\ key[w] \in Keys
             /\ pins' = AfterRemoveIf(pins, conv[w], key[w])

LEMMA PinsSteps ==
  ASSUME Placed, Next
  PROVE  \/ UNCHANGED pins
         \/ \E c : pins' = AfterGet(pins, c)
         \/ \E c \in Ids, k \in Keys : pins' = AfterPut(pins, c, k)
         \/ \E w \in Workers : Unpins(w)
  <1>1. CASE PublishUsage \/ Tick
    BY <1>1 DEF PublishUsage, Tick
  <1>2. ASSUME NEW w \in Workers, Arrival(w) \/ AnswerNoAuth(w)
        PROVE  UNCHANGED pins \/ \E c : pins' = AfterGet(pins, c)
    BY <1>2 DEF Arrival, AnswerNoAuth, Arrive, ArriveNoAuth, LookAtPin, pool
  <1>3. ASSUME NEW w \in Workers, PinTo(conv[w], key[w]), key[w] \in Keys
        PROVE  UNCHANGED pins \/ \E c \in Ids, k \in Keys : pins' = AfterPut(pins, c, k)
    <2>1. conv[w] \in Ids \cup {NoId}
      BY DEF Placed, LocalOK
    <2> QED
      BY <1>3, <2>1 DEF PinTo
  <1>4. ASSUME NEW w \in Workers, PinAdmitted(w) \/ Repin(w)
        PROVE  PinTo(conv[w], key[w]) /\ key[w] \in Keys
    BY <1>4 DEF PinAdmitted, Repin, Go, Placed, KeysKnown, Owning
  <1>5. ASSUME NEW w \in Workers, Admission(w), ~PinAdmitted(w)
        PROVE  UNCHANGED pins \/ \E c : pins' = AfterGet(pins, c)
    BY <1>5 DEF Admission, Lookup, TakePinned, Admit, Scan, Join, WaitServed, LeaveLine, LookAtPin
  <1>6. ASSUME NEW w \in Workers, Answer(w)
        PROVE  UNCHANGED pins
    BY <1>6 DEF Answer, SettleOk, SettleError, MarkDead, MarkCooldown, MarkStrike, NetworkError, Verdict
  <1>7. ASSUME NEW w \in Workers, Fail(w)
        PROVE  UNCHANGED pins \/ Unpins(w)
    <2>1. pc[w] = "failed" /\ key[w] \in Keys
      BY <1>7 DEF Fail, Placed, KeysKnown, Owning
    <2>2. pc'[w] # "failed"
      BY <1>7 DEF Fail, Goto, Placed, LocalOK
    <2> QED
      BY <1>7, <2>1, <2>2 DEF Fail, Unpin, Unpins
  <1>8. ASSUME NEW w \in Workers, Ending(w), ~Repin(w), ~Fail(w)
        PROVE  UNCHANGED pins
    BY <1>8 DEF Ending, StrikeCools, StrikeClears, Drop, Finish
  <1> QED
    BY <1>1, <1>2, <1>3, <1>4, <1>5, <1>6, <1>7, <1>8 DEF Next, Admission, Ending

LEMMA PinsStep ==
  ASSUME Placed, PinsOK, Next
  PROVE  /\ PinsOK'
         /\ \A c \in Pinned(pins) \ Pinned(pins)' :
              \/ \E w \in Owners(pins.map[c]) : pc[w] = "failed" /\ pc'[w] # "failed" /\ conv[w] = c
              \/ Full(pins) /\ Head(pins.lru) = c /\ Pinned(pins)' \ Pinned(pins) # {}
  <1>1. CASE UNCHANGED pins
    BY <1>1 DEF PinsOK
  <1>2. ASSUME NEW c, pins' = AfterGet(pins, c)
        PROVE  PinsOK' /\ Pinned(pins)' = Pinned(pins)
    <2>1. PinsOK'
      BY <1>2, GetInOrder DEF PinsOK
    <2>2. pins'.map = pins.map
      BY <1>2 DEF AfterGet, PinsOK, InOrder
    <2> QED
      BY <2>1, <2>2 DEF Pinned
  <1>3. ASSUME NEW id \in Ids, NEW k \in Keys, pins' = AfterPut(pins, id, k)
        PROVE  /\ PinsOK'
               /\ \A c \in Pinned(pins) \ Pinned(pins)' :
                    Full(pins) /\ Head(pins.lru) = c /\ Pinned(pins)' \ Pinned(pins) # {}
    <2>1. PinsOK'
      BY <1>3, PutInOrder DEF PinsOK
    <2>2. ASSUME NEW c \in Pinned(pins), c \notin Pinned(AfterPut(pins, id, k))
          PROVE  Full(pins) /\ c = Head(pins.lru) /\ id \in Pinned(AfterPut(pins, id, k)) \ Pinned(pins)
      BY <2>2, PutLoses DEF PinsOK
    <2> QED
      BY <1>3, <2>1, <2>2
  <1>4. ASSUME NEW w \in Workers, Unpins(w)
        PROVE  /\ PinsOK'
               /\ \A c \in Pinned(pins) \ Pinned(pins)' :
                    w \in Owners(pins.map[c]) /\ pc[w] = "failed" /\ pc'[w] # "failed" /\ conv[w] = c
    <2>1. PinsOK'
      BY <1>4, RemoveIfInOrder DEF PinsOK, Unpins
    <2>2. ASSUME NEW c \in Pinned(pins), c \notin Pinned(AfterRemoveIf(pins, conv[w], key[w]))
          PROVE  conv[w] = c /\ pins.map[c] = key[w]
      BY <2>2 DEF AfterRemoveIf, Pinned, Restrict
    <2> QED
      BY <1>4, <2>1, <2>2 DEF Unpins, Owners, Owning
  <1> QED
    BY <1>1, <1>2, <1>3, <1>4, PinsSteps
-----------------------------------------------------------------------------
(***************************************************************************)
(* How many members of a finite set a program counter puts in given        *)
(* places, and how that number changes when one member moves.              *)
(***************************************************************************)

(* The members of S that the function f puts in the places P. *)
In(S, f, P) == {x \in S : f[x] \in P}

(* From f to g nobody but x changes place. *)
OnlyMoves(S, f, g, x) == \A y \in S \ {x} : g[y] = f[y]

(* How much a move from one place to another changes the population of P. *)
Delta(from, to, P) == (IF to \in P THEN 1 ELSE 0) - (IF from \in P THEN 1 ELSE 0)

(* The population of any set of places is a finite set with a natural size. *)
LEMMA InFinite ==
  ASSUME NEW S, IsFiniteSet(S), NEW f, NEW P
  PROVE  IsFiniteSet(In(S, f, P)) /\ Cardinality(In(S, f, P)) \in Nat
  <1>1. In(S, f, P) \subseteq S
    BY DEF In
  <1> QED
    BY <1>1, FS_Subset, FS_CardinalityType

(* A set of places that somebody is in has a positive population. *)
LEMMA InPopulated ==
  ASSUME NEW S, IsFiniteSet(S), NEW f, NEW P, NEW x \in S, f[x] \in P
  PROVE  Cardinality(In(S, f, P)) >= 1
  <1>1. x \in In(S, f, P)
    BY DEF In
  <1>2. Cardinality(In(S, f, P)) # 0
    BY <1>1, InFinite, FS_EmptySet
  <1> QED
    BY <1>2, InFinite

(* When one member moves, every population changes by Delta. *)
LEMMA MoveOne ==
  ASSUME NEW S, IsFiniteSet(S), NEW f, NEW g, NEW x \in S, NEW P,
         OnlyMoves(S, f, g, x)
  PROVE  Cardinality(In(S, g, P)) = Cardinality(In(S, f, P)) + Delta(f[x], g[x], P)
  <1> DEFINE A  == In(S, f, P)
             B  == In(S, g, P)
             to == g[x]
  <1>1. IsFiniteSet(A) /\ IsFiniteSet(B) /\ Cardinality(A) \in Nat /\ Cardinality(B) \in Nat
    BY InFinite
  <1>2. CASE to \in P /\ f[x] \in P
    <2>1. B = A
      BY <1>2 DEF In, OnlyMoves
    <2> QED
      BY <1>1, <1>2, <2>1 DEF Delta
  <1>3. CASE to \in P /\ f[x] \notin P
    <2>1. B = A \cup {x} /\ x \notin A
      BY <1>3 DEF In, OnlyMoves
    <2>2. Cardinality(B) = Cardinality(A) + 1
      BY <1>1, <2>1, FS_AddElement
    <2> QED
      BY <1>1, <1>3, <2>2 DEF Delta
  <1>4. CASE to \notin P /\ f[x] \in P
    <2>1. B = A \ {x} /\ x \in A
      BY <1>4 DEF In, OnlyMoves
    <2>2. Cardinality(B) = Cardinality(A) - 1
      BY <1>1, <2>1, FS_RemoveElement
    <2> QED
      BY <1>1, <1>4, <2>2 DEF Delta
  <1>5. CASE to \notin P /\ f[x] \notin P
    <2>1. B = A
      BY <1>5 DEF In, OnlyMoves
    <2> QED
      BY <1>1, <1>5, <2>1 DEF Delta
  <1> QED
    BY <1>2, <1>3, <1>4, <1>5
-----------------------------------------------------------------------------
(***************************************************************************)
(* The account of slots.  The key that a worker occupies a slot of, and    *)
(* the key that it stands in line for, change for one worker in a step, so *)
(* the numbers of owners and of those in line change by Delta.             *)
(***************************************************************************)
Owned == [w \in Workers |-> IF pc[w] \in Owning THEN key[w] ELSE NoKey]
Lined == [w \in Workers |-> IF pc[w] \in {"waiting", "served"} THEN cands[w][1] ELSE NoKey]

(* What a step of worker w may change: nothing of the other workers. *)
Alone(w) == \A v \in Workers \ {w} : pc'[v] = pc[v] /\ key'[v] = key[v] /\ cands'[v] = cands[v]

LEMMA OwnersMove ==
  ASSUME NEW w \in Workers, Alone(w), NEW k \in Keys
  PROVE  /\ Cardinality(Owners(k)) \in Nat
         /\ Cardinality(Owners(k)') = Cardinality(Owners(k)) + Delta(Owned[w], Owned'[w], {k})
         /\ Owned[w] = k => Cardinality(Owners(k)) >= 1
  <1>1. Owners(k) = In(Workers, Owned, {k}) /\ Owners(k)' = In(Workers, Owned', {k})
    BY KeysAreIntegers DEF Owners, In, Owned
  <1>2. OnlyMoves(Workers, Owned, Owned', w)
    BY DEF Alone, OnlyMoves, Owned
  <1> QED
    BY <1>1, <1>2, WorkersAssumption, InFinite, InPopulated, MoveOne

LEMMA LineMove ==
  ASSUME NEW w \in Workers, Alone(w), NEW k \in Keys
  PROVE  /\ Cardinality(Line(k)) \in Nat
         /\ Cardinality(Line(k)') = Cardinality(Line(k)) + Delta(Lined[w], Lined'[w], {k})
         /\ Lined[w] = k => Cardinality(Line(k)) >= 1
  <1>1. Line(k) = In(Workers, Lined, {k}) /\ Line(k)' = In(Workers, Lined', {k})
    BY KeysAreIntegers DEF Line, In, Lined
  <1>2. OnlyMoves(Workers, Lined, Lined', w)
    BY DEF Alone, OnlyMoves, Lined
  <1> QED
    BY <1>1, <1>2, WorkersAssumption, InFinite, InPopulated, MoveOne

HeldRight    == held \in [Keys -> Nat] /\ \A k \in Keys : held[k] = Cardinality(Owners(k)) /\ held[k] <= Limit(k)
WaitersRight == waiters \in [Keys -> Nat] /\ \A k \in Keys : waiters[k] = Cardinality(Line(k)) /\ waiters[k] <= WaiterCap

LEMMA SlotsOKIs == /\ SlotsOK <=> HeldRight /\ WaitersRight
                   /\ SlotsOK' <=> HeldRight' /\ WaitersRight'
  BY DEF SlotsOK, SlotsReturned, HeldRight, WaitersRight

(***************************************************************************)
(* Three ways a step treats the slots: it leaves them, takes one of a key  *)
(* that has one free, or gives one back.                                   *)
(***************************************************************************)
LEMMA SlotKept ==
  ASSUME HeldRight, NEW w \in Workers, Alone(w), Owned'[w] = Owned[w], UNCHANGED held
  PROVE  HeldRight'
  <1> SUFFICES ASSUME NEW k \in Keys PROVE Cardinality(Owners(k)') = Cardinality(Owners(k))
    BY DEF HeldRight, Limit
  <1>1. Delta(Owned[w], Owned'[w], {k}) = 0
    BY DEF Delta
  <1> QED
    BY <1>1, OwnersMove

LEMMA SlotTaken ==
  ASSUME HeldRight, NEW w \in Workers, Alone(w), NEW k0 \in Keys, Free(k0),
         Owned[w] = NoKey, Owned'[w] = k0, held' = [held EXCEPT ![k0] = @ + 1]
  PROVE  HeldRight'
  <1>1. ASSUME NEW k \in Keys
        PROVE  held'[k] \in Nat /\ held'[k] = Cardinality(Owners(k)') /\ held'[k] <= Limit(k)
    <2>1. /\ Cardinality(Owners(k)) \in Nat
          /\ Cardinality(Owners(k)') = Cardinality(Owners(k)) + (IF k = k0 THEN 1 ELSE 0)
      BY OwnersMove, KeysAreIntegers DEF Delta
    <2>2. Limit(k) \in Nat
      BY LimitsAssumption, KeysAreIntegers, NumKeysAssumption DEF Limit
    <2> QED
      BY <2>1, <2>2 DEF HeldRight, Free
  <1>2. held' \in [Keys -> Nat]
    BY <1>1 DEF HeldRight
  <1> QED
    BY <1>1, <1>2 DEF HeldRight, Limit

LEMMA SlotGiven ==
  ASSUME HeldRight, NEW w \in Workers, Alone(w), NEW k0 \in Keys,
         Owned[w] = k0, Owned'[w] = NoKey, held' = [held EXCEPT ![k0] = @ - 1]
  PROVE  HeldRight'
  <1>1. ASSUME NEW k \in Keys
        PROVE  held'[k] \in Nat /\ held'[k] = Cardinality(Owners(k)') /\ held'[k] <= Limit(k)
    <2>1. /\ Cardinality(Owners(k)) \in Nat
          /\ Cardinality(Owners(k)') = Cardinality(Owners(k)) - (IF k = k0 THEN 1 ELSE 0)
          /\ k = k0 => Cardinality(Owners(k)) >= 1
      BY OwnersMove, KeysAreIntegers DEF Delta
    <2>2. Limit(k) \in Nat
      BY LimitsAssumption, KeysAreIntegers, NumKeysAssumption DEF Limit
    <2> QED
      BY <2>1, <2>2 DEF HeldRight
  <1>2. held' \in [Keys -> Nat]
    BY <1>1 DEF HeldRight
  <1> QED
    BY <1>1, <1>2 DEF HeldRight, Limit

(* The same for the places in line. *)
LEMMA PlaceKept ==
  ASSUME WaitersRight, NEW w \in Workers, Alone(w), Lined'[w] = Lined[w], UNCHANGED waiters
  PROVE  WaitersRight'
  <1> SUFFICES ASSUME NEW k \in Keys PROVE Cardinality(Line(k)') = Cardinality(Line(k))
    BY DEF WaitersRight
  <1>1. Delta(Lined[w], Lined'[w], {k}) = 0
    BY DEF Delta
  <1> QED
    BY <1>1, LineMove

LEMMA PlaceTaken ==
  ASSUME WaitersRight, NEW w \in Workers, Alone(w), NEW k0 \in Keys, waiters[k0] < WaiterCap,
         Lined[w] = NoKey, Lined'[w] = k0, waiters' = [waiters EXCEPT ![k0] = @ + 1]
  PROVE  WaitersRight'
  <1>1. ASSUME NEW k \in Keys
        PROVE  waiters'[k] \in Nat /\ waiters'[k] = Cardinality(Line(k)') /\ waiters'[k] <= WaiterCap
    <2>1. /\ Cardinality(Line(k)) \in Nat
          /\ Cardinality(Line(k)') = Cardinality(Line(k)) + (IF k = k0 THEN 1 ELSE 0)
      BY LineMove, KeysAreIntegers DEF Delta
    <2> QED
      BY <2>1, BoundsAssumption DEF WaitersRight
  <1>2. waiters' \in [Keys -> Nat]
    BY <1>1 DEF WaitersRight
  <1> QED
    BY <1>1, <1>2 DEF WaitersRight

LEMMA PlaceGiven ==
  ASSUME WaitersRight, NEW w \in Workers, Alone(w), NEW k0 \in Keys,
         Lined[w] = k0, Lined'[w] = NoKey, waiters' = [waiters EXCEPT ![k0] = @ - 1]
  PROVE  WaitersRight'
  <1>1. ASSUME NEW k \in Keys
        PROVE  waiters'[k] \in Nat /\ waiters'[k] = Cardinality(Line(k)') /\ waiters'[k] <= WaiterCap
    <2>1. /\ Cardinality(Line(k)) \in Nat
          /\ Cardinality(Line(k)') = Cardinality(Line(k)) - (IF k = k0 THEN 1 ELSE 0)
          /\ k = k0 => Cardinality(Line(k)) >= 1
      BY LineMove, KeysAreIntegers DEF Delta
    <2> QED
      BY <2>1, BoundsAssumption DEF WaitersRight
  <1>2. waiters' \in [Keys -> Nat]
    BY <1>1 DEF WaitersRight
  <1> QED
    BY <1>1, <1>2 DEF WaitersRight
-----------------------------------------------------------------------------
(* A step at the end of which a worker has the slots and places it had. *)
LEMMA NothingMoves ==
  ASSUME SlotsOK, NEW w \in Workers, Alone(w), Owned'[w] = Owned[w], Lined'[w] = Lined[w], UNCHANGED slots
  PROVE  SlotsOK'
  <1>1. UNCHANGED held /\ UNCHANGED waiters
    BY DEF slots
  <1> QED
    BY <1>1, SlotsOKIs, SlotKept, PlaceKept

LEMMA SlotsArrival ==
  ASSUME Placed, SlotsOK, NEW w \in Workers, Arrival(w) \/ AnswerNoAuth(w)
  PROVE  SlotsOK'
  <1>1. /\ Alone(w) /\ UNCHANGED slots
        /\ Owned[w] = NoKey /\ Owned'[w] = NoKey /\ Lined[w] = NoKey /\ Lined'[w] = NoKey
    BY DEF Arrival, Arrive, ArriveNoAuth, AnswerNoAuth, Go, Goto, pool, slots, Placed, LocalOK,
           Alone, Owned, Lined, Owning
  <1> QED
    BY <1>1, NothingMoves

(* Try to take a slot of the pinned key. *)
LEMMA SlotsTakePinned ==
  ASSUME Placed, SlotsOK, NEW w \in Workers, TakePinned(w)
  PROVE  SlotsOK'
  <1>1. /\ Alone(w) /\ UNCHANGED waiters /\ key[w] \in Keys
        /\ Owned[w] = NoKey /\ Lined[w] = NoKey /\ Lined'[w] = NoKey
    BY DEF TakePinned, Goto, Placed, LocalOK, KeysKnown, choice, Alone, Owned, Lined, Owning
  <1>2. CASE Free(key[w])
    <2>1. Owned'[w] = key[w] /\ held' = [held EXCEPT ![key[w]] = @ + 1]
      BY <1>2 DEF TakePinned, Goto, Placed, LocalOK, Owned, Owning
    <2> QED
      BY <1>1, <1>2, <2>1, SlotsOKIs, SlotTaken, PlaceKept
  <1>3. CASE ~Free(key[w])
    <2>1. Owned'[w] = NoKey /\ UNCHANGED slots
      BY <1>3 DEF TakePinned, Goto, Placed, LocalOK, Owned, Owning, slots
    <2> QED
      BY <1>1, <2>1, NothingMoves
  <1> QED
    BY <1>2, <1>3

(* Try to take a slot of the next candidate. *)
LEMMA SlotsScan ==
  ASSUME Placed, SlotsOK, NEW w \in Workers, Scan(w)
  PROVE  SlotsOK'
  <1> DEFINE k == cands[w][next[w]]
  <1>1. k \in Keys /\ Owned[w] = NoKey /\ Lined[w] = NoKey /\ pc[w] = "scan" /\ UNCHANGED waiters
    BY DEF Scan, Placed, LocalOK, CandsKnown, Ranked, Owned, Lined, Owning
  <1>2. CASE Free(k)
    <2>1. /\ pc' = [pc EXCEPT ![w] = "pin"] /\ cands' = [cands EXCEPT ![w] = <<>>]
          /\ key' = [key EXCEPT ![w] = k] /\ held' = [held EXCEPT ![k] = @ + 1]
      BY <1>2 DEF Scan, Goto, Forget
    <2> HIDE DEF k
    <2>2. Alone(w) /\ Owned'[w] = k /\ Lined'[w] = NoKey
      BY <2>1 DEF Placed, LocalOK, Alone, Owned, Lined, Owning
    <2> QED
      BY <1>1, <1>2, <2>1, <2>2, SlotsOKIs, SlotTaken, PlaceKept
  <1>3. CASE ~Free(k)
    <2>1. UNCHANGED <<key, cands, held>> /\ (UNCHANGED pc \/ pc' = [pc EXCEPT ![w] = "join"])
      BY <1>3 DEF Scan, Goto
    <2> HIDE DEF k
    <2>2. Alone(w) /\ Owned'[w] = NoKey /\ Lined'[w] = NoKey /\ UNCHANGED slots
      BY <1>1, <2>1 DEF Placed, LocalOK, Alone, Owned, Lined, Owning, slots
    <2> QED
      BY <1>1, <2>2, NothingMoves
  <1> QED
    BY <1>2, <1>3

(* Join the line of the best candidate. *)
LEMMA SlotsJoin ==
  ASSUME Placed, SlotsOK, NEW w \in Workers, Join(w)
  PROVE  SlotsOK'
  <1> DEFINE k == cands[w][1]
  <1>1. k \in Keys /\ Owned[w] = NoKey /\ Lined[w] = NoKey /\ UNCHANGED held
    BY DEF Join, Placed, LocalOK, CandsKnown, Ranked, Owned, Lined, Owning
  <1>2. CASE waiters[k] >= WaiterCap
    <2>1. Alone(w) /\ Owned'[w] = NoKey /\ Lined'[w] = NoKey /\ UNCHANGED slots
      BY <1>2 DEF Join, Goto, choice, Placed, LocalOK, Alone, Owned, Lined, Owning, slots
    <2> QED
      BY <1>1, <2>1, NothingMoves
  <1>3. CASE ~(waiters[k] >= WaiterCap)
    <2>1. /\ Alone(w) /\ Owned'[w] = NoKey /\ Lined'[w] = k
          /\ waiters' = [waiters EXCEPT ![k] = @ + 1]
      BY <1>3 DEF Join, Goto, choice, Placed, LocalOK, Alone, Owned, Lined, Owning
    <2>2. waiters[k] < WaiterCap
      BY <1>1, <1>3, BoundsAssumption DEF SlotsOK
    <2> HIDE DEF k
    <2> QED
      BY <1>1, <2>1, <2>2, SlotsOKIs, SlotKept, PlaceTaken
  <1> QED
    BY <1>2, <1>3

(* A slot is served to the line; the place in line comes back afterwards. *)
LEMMA SlotsWaitServed ==
  ASSUME Placed, SlotsOK, NEW w \in Workers, WaitServed(w)
  PROVE  SlotsOK'
  <1> DEFINE k == cands[w][1]
  <1>1. /\ k \in Keys /\ Free(k) /\ UNCHANGED waiters
        /\ Owned[w] = NoKey /\ Lined[w] = k
    BY DEF WaitServed, Go, Placed, LocalOK, CandsKnown, Ranked, Owned, Lined, Owning
  <1>2. /\ pc' = [pc EXCEPT ![w] = "served"] /\ UNCHANGED cands
        /\ key' = [key EXCEPT ![w] = k] /\ held' = [held EXCEPT ![k] = @ + 1]
    BY DEF WaitServed, Go, Goto, choice
  <1>3. Lined'[w] = k
    BY <1>2 DEF Placed, LocalOK, Lined
  <1> HIDE DEF k
  <1>4. Alone(w) /\ Owned'[w] = k
    BY <1>2 DEF Placed, LocalOK, Alone, Owned, Owning
  <1> QED
    BY <1>1, <1>2, <1>3, <1>4, SlotsOKIs, SlotTaken, PlaceKept

LEMMA SlotsLeaveLine ==
  ASSUME Placed, SlotsOK, NEW w \in Workers, LeaveLine(w)
  PROVE  SlotsOK'
  <1> DEFINE k == cands[w][1]
  <1>1. k \in Keys /\ Lined[w] = k /\ UNCHANGED held /\ waiters' = [waiters EXCEPT ![k] = @ - 1]
    BY DEF LeaveLine, Go, Placed, LocalOK, CandsKnown, Ranked, Lined
  <1>2. Alone(w) /\ Owned'[w] = Owned[w] /\ Lined'[w] = NoKey
    <2>1. /\ \/ pc[w] = "served" /\ pc' = [pc EXCEPT ![w] = "pin"]
             \/ pc[w] = "waiting" /\ pc' = [pc EXCEPT ![w] = "rejected"]
          /\ UNCHANGED key /\ (UNCHANGED cands \/ cands' = [cands EXCEPT ![w] = <<>>])
      BY DEF LeaveLine, Go, Goto, Forget, choice
    <2> QED
      BY <2>1 DEF Placed, LocalOK, Alone, Owned, Lined, Owning
  <1> HIDE DEF k
  <1> QED
    BY <1>1, <1>2, SlotsOKIs, SlotKept, PlaceGiven

LEMMA SlotsAdmission ==
  ASSUME Placed, SlotsOK, NEW w \in Workers, Admission(w)
  PROVE  SlotsOK'
  <1>1. CASE Lookup(w)
    <2>1. /\ Alone(w) /\ UNCHANGED slots
          /\ Owned[w] = NoKey /\ Owned'[w] = NoKey /\ Lined[w] = NoKey /\ Lined'[w] = NoKey
      BY <1>1 DEF Lookup, Goto, choice, Placed, LocalOK, Alone, Owned, Lined, Owning
    <2> QED
      BY <2>1, NothingMoves
  <1>2. CASE Admit(w)
    <2>1. /\ UNCHANGED slots /\ UNCHANGED key /\ pc[w] = "admit"
          /\ \/ pc' = [pc EXCEPT ![w] = "rejected"] /\ UNCHANGED cands
             \/ pc' = [pc EXCEPT ![w] = "scan"] /\ \E s : cands' = [cands EXCEPT ![w] = s]
      BY <1>2 DEF Admit, Goto
    <2>2. /\ Alone(w)
          /\ Owned[w] = NoKey /\ Owned'[w] = NoKey /\ Lined[w] = NoKey /\ Lined'[w] = NoKey
      BY <2>1 DEF Placed, LocalOK, Alone, Owned, Lined, Owning
    <2> QED
      BY <2>1, <2>2, NothingMoves
  <1>3. CASE PinAdmitted(w)
    <2>1. Alone(w) /\ UNCHANGED slots /\ Owned'[w] = Owned[w] /\ Lined'[w] = Lined[w]
      BY <1>3 DEF PinAdmitted, Go, Goto, choice, Placed, LocalOK, Alone, Owned, Lined, Owning
    <2> QED
      BY <2>1, NothingMoves
  <1> QED
    BY <1>1, <1>2, <1>3, SlotsTakePinned, SlotsScan, SlotsJoin, SlotsWaitServed, SlotsLeaveLine DEF Admission

(* A verdict leaves the slot with the request. *)
LEMMA SlotsAnswer ==
  ASSUME Placed, SlotsOK, NEW w \in Workers, Answer(w)
  PROVE  SlotsOK'
  <1>1. PICK to \in {"repin", "done", "failed", "cooling"} :
          /\ pc[w] = "upstream" /\ pc' = [pc EXCEPT ![w] = to]
          /\ UNCHANGED <<key, choice, slots>>
    BY DEF Answer, SettleOk, SettleError, MarkDead, MarkCooldown, MarkStrike, NetworkError, Verdict, Go, Goto
  <1>2. Alone(w) /\ Owned'[w] = Owned[w] /\ Lined'[w] = Lined[w]
    BY <1>1 DEF choice, Placed, LocalOK, Alone, Owned, Lined, Owning
  <1> QED
    BY <1>1, <1>2, NothingMoves

LEMMA SlotsEnding ==
  ASSUME Placed, SlotsOK, NEW w \in Workers, Ending(w)
  PROVE  SlotsOK'
  <1>1. CASE StrikeCools(w) \/ StrikeClears(w) \/ Repin(w) \/ Fail(w)
    <2>1. /\ UNCHANGED slots /\ UNCHANGED key /\ UNCHANGED cands
          /\ pc[w] \in {"cooling", "clearing", "repin", "failed"}
          /\ \E to \in {"clearing", "failed", "done", "drop"} : pc' = [pc EXCEPT ![w] = to]
      BY <1>1 DEF StrikeCools, StrikeClears, Repin, Fail, Go, Goto, choice
    <2>2. Alone(w) /\ Owned'[w] = Owned[w] /\ Lined'[w] = Lined[w]
      BY <2>1 DEF Placed, LocalOK, Alone, Owned, Lined, Owning
    <2> QED
      BY <2>1, <2>2, NothingMoves
  <1>2. CASE Drop(w) \/ (Finish(w) /\ pc[w] = "done")
    <2>1. /\ UNCHANGED waiters /\ pc[w] \in {"drop", "done"}
          /\ UNCHANGED cands \/ cands' = [cands EXCEPT ![w] = <<>>]
          /\ held' = [held EXCEPT ![key[w]] = @ - 1]
          /\ \E to \in {"admit", "idle"} : pc' = [pc EXCEPT ![w] = to]
          /\ UNCHANGED key \/ key' = [key EXCEPT ![w] = NoKey]
      BY <1>2 DEF Drop, Finish, Go, Goto, Forget, choice
    <2>2. /\ key[w] \in Keys /\ Owned[w] = key[w] /\ Owned'[w] = NoKey
          /\ Alone(w) /\ Lined[w] = NoKey /\ Lined'[w] = NoKey
      BY <2>1 DEF Placed, LocalOK, KeysKnown, Alone, Owned, Lined, Owning
    <2> QED
      BY <2>1, <2>2, SlotsOKIs, SlotGiven, PlaceKept
  <1>3. CASE Finish(w) /\ pc[w] # "done"
    <2>1. /\ UNCHANGED slots /\ cands' = [cands EXCEPT ![w] = <<>>] /\ pc[w] = "rejected"
          /\ pc' = [pc EXCEPT ![w] = "idle"] /\ key' = [key EXCEPT ![w] = NoKey]
      BY <1>3 DEF Finish, Goto, Forget, slots
    <2>2. /\ Alone(w) /\ Owned[w] = NoKey /\ Owned'[w] = NoKey
          /\ Lined[w] = NoKey /\ Lined'[w] = NoKey
      BY <2>1 DEF Placed, LocalOK, Alone, Owned, Lined, Owning
    <2> QED
      BY <2>1, <2>2, NothingMoves
  <1> QED
    BY <1>1, <1>2, <1>3 DEF Ending
-----------------------------------------------------------------------------
(* Steps that leave the requests and the slots alone. *)
LEMMA Surroundings ==
  ASSUME Placed, SlotsOK, UNCHANGED local, UNCHANGED slots
  PROVE  Placed' /\ SlotsOK'
  <1>1. Placed'
    BY DEF Placed, LocalOK, KeysKnown, CandsKnown, local
  <1>2. SlotsOK'
    BY DEF SlotsOK, SlotsReturned, Owners, Line, Limit, local, slots
  <1> QED
    BY <1>1, <1>2

(* Nothing of the invariant changes in a step that changes nothing. *)
LEMMA Stuttering == IInv /\ UNCHANGED vars => IInv'
  <1> SUFFICES ASSUME IInv, UNCHANGED vars PROVE IInv'
    OBVIOUS
  <1>1. UNCHANGED <<local, slots, health, rr, over, pins>>
    BY DEF vars, pool, slots
  <1>2. Placed' /\ SlotsOK'
    BY <1>1, Surroundings DEF IInv
  <1>3. HealthOK' /\ RoutingOK' /\ PinsOK'
    BY <1>1 DEF IInv, HealthOK, RoutingOK, PinsOK
  <1> QED
    BY <1>2, <1>3 DEF IInv

LEMMA Invariance == IInv /\ [Next]_vars => IInv'
  <1> SUFFICES ASSUME IInv, Next PROVE IInv'
    BY Stuttering
  <1>1. HealthOK' /\ RoutingOK' /\ PinsOK'
    BY HealthStep, RoutingStep, PinsStep DEF IInv
  <1>0. PublishUsage \/ Tick => UNCHANGED local /\ UNCHANGED slots
    BY DEF PublishUsage, Tick
  <1>2. Placed' /\ SlotsOK'
    BY <1>0, Surroundings, PlacedArrival, PlacedAdmission, PlacedAnswer, PlacedEnding,
       SlotsArrival, SlotsAdmission, SlotsAnswer, SlotsEnding DEF IInv, Next
  <1> QED
    BY <1>1, <1>2 DEF IInv

THEOREM IInvAlways == Spec => []IInv
  BY InitIInv, Invariance, PTL DEF Spec

(* Every variable keeps its type, for any workers, keys and answers.       *)
THEOREM TypeCorrect == Spec => []TypeOK
  <1>1. IInv => TypeOK
    BY DEF IInv, Placed, LocalOK, HealthOK, RoutingOK, PinsOK, SlotsOK, InOrder, TypeOK
  <1> QED
    BY <1>1, IInvAlways, PTL

(***************************************************************************)
(* However requests end, the slots and places in line that are taken are   *)
(* those of the requests that use them, and the limits hold (Permit::drop, *)
(* Server::proxy, acquire_on).                                             *)
(***************************************************************************)
THEOREM SlotsCorrect == Spec => []SlotsReturned
  <1>1. IInv => SlotsReturned
    BY DEF IInv, SlotsOK
  <1> QED
    BY <1>1, IInvAlways, PTL

(* Admission never resets a strike counter (Pool::admit, KeyState::state). *)
THEOREM StrikesCorrect == Spec => StrikesKept
  <1> DEFINE Kept == \A k \in Keys : health'[k].strikes < health[k].strikes =>
                       \E w \in Owners(k) : /\ pc[w] \in {"upstream", "clearing"}
                                            /\ pc'[w] # pc[w]
  <1>1. IInv /\ [Next]_vars => [Kept]_vars
    BY HealthStep DEF IInv
  <1> QED
    BY <1>1, IInvAlways, PTL DEF Spec, StrikesKept

(* A pin is lost to a failure on its own key, or as the coldest to make    *)
(* room (Pool::unpin, AffinityMap::put and remove_if).                     *)
THEOREM PinLossCorrect == Spec => PinLossJustified
  <1> DEFINE Justified ==
        \A c \in Pinned(pins) \ Pinned(pins)' :
          \/ \E w \in Owners(pins.map[c]) : pc[w] = "failed" /\ pc'[w] # "failed" /\ conv[w] = c
          \/ Full(pins) /\ Head(pins.lru) = c /\ Pinned(pins)' \ Pinned(pins) # {}
  <1>1. IInv /\ [Next]_vars => [Justified]_vars
    BY PinsStep DEF IInv
  <1> QED
    BY <1>1, IInvAlways, PTL DEF Spec, PinLossJustified
-----------------------------------------------------------------------------
(***************************************************************************)
(* Each key is a Semaphore.  What a worker has at a key is its being an    *)
(* owner, in line or refused there; a step changes that for one worker     *)
(* only, in one of the ways of the actions of Semaphore.                   *)
(***************************************************************************)
Owns(w, k)   == pc[w] \in Owning /\ key[w] = k
Stands(w, k) == pc[w] \in {"waiting", "served"} /\ cands[w][1] = k
Turned(w, k) == pc[w] = "rejected" /\ cands[w] # <<>> /\ cands[w][1] = k

Nowhere(w, k) == ~Owns(w, k) /\ ~Stands(w, k) /\ ~Turned(w, k)

SemaphoreMoves(k) == [SlotsOf(k)!Next]_(SlotsOf(k)!semaphore)

LEMMA OneMoves ==
  ASSUME NEW w \in Workers, Alone(w), NEW k
  PROVE  /\ w \in Owners(k) <=> Owns(w, k)
         /\ w \in Line(k) <=> Stands(w, k)
         /\ w \in Refused(k) <=> Turned(w, k)
         /\ Owners(k)'  = IF Owns(w, k)' THEN Owners(k) \cup {w} ELSE Owners(k) \ {w}
         /\ Line(k)'    = IF Stands(w, k)' THEN Line(k) \cup {w} ELSE Line(k) \ {w}
         /\ Refused(k)' = IF Turned(w, k)' THEN Refused(k) \cup {w} ELSE Refused(k) \ {w}
  <1>1. \A v \in Workers \ {w} : pc'[v] = pc[v] /\ key'[v] = key[v] /\ cands'[v] = cands[v]
    BY DEF Alone
  <1>2. Owners(k)' = IF Owns(w, k)' THEN Owners(k) \cup {w} ELSE Owners(k) \ {w}
    BY <1>1 DEF Owners, Owns
  <1>3. Line(k)' = IF Stands(w, k)' THEN Line(k) \cup {w} ELSE Line(k) \ {w}
    BY <1>1 DEF Line, Stands
  <1>4. Refused(k)' = IF Turned(w, k)' THEN Refused(k) \cup {w} ELSE Refused(k) \ {w}
    BY <1>1 DEF Refused, Turned
  <1> QED
    BY <1>2, <1>3, <1>4 DEF Owners, Owns, Line, Stands, Refused, Turned

(* A step that leaves what the worker has at a key. *)
LEMMA SemaphoreKept ==
  ASSUME NEW w \in Workers, Alone(w), NEW k,
         Owns(w, k)' <=> Owns(w, k), Stands(w, k)' <=> Stands(w, k), Turned(w, k)' <=> Turned(w, k)
  PROVE  SemaphoreMoves(k)
  <1>1. Owners(k)' = Owners(k) /\ Line(k)' = Line(k) /\ Refused(k)' = Refused(k)
    BY OneMoves
  <1> QED
    BY <1>1 DEF SemaphoreMoves, SlotsOf!semaphore

(* Cardinality is the same operator in the instance. *)
LEMMA SameCardinality == \A k, S : SlotsOf(k)!Cardinality(S) = Cardinality(S)
  BY DEF SlotsOf!Cardinality, Cardinality

LEMMA OutIsNowhere ==
  ASSUME NEW w \in Workers, Alone(w), NEW k, Nowhere(w, k)
  PROVE  w \in SlotsOf(k)!Out
  BY OneMoves DEF Nowhere, SlotsOf!Out

(* A slot without waiting. *)
LEMMA SemaphoreGrab ==
  ASSUME SlotsOK, NEW w \in Workers, Alone(w), NEW k \in Keys, Nowhere(w, k), Free(k),
         Owns(w, k)', ~Stands(w, k)', ~Turned(w, k)'
  PROVE  SemaphoreMoves(k)
  <1>1. Owners(k)' = Owners(k) \cup {w} /\ Line(k)' = Line(k) /\ Refused(k)' = Refused(k)
    BY OneMoves DEF Nowhere
  <1>2. SlotsOf(k)!Cardinality(Owners(k)) < Limit(k)
    BY SameCardinality DEF Free, SlotsOK, SlotsReturned
  <1>3. SlotsOf(k)!Grab(w)
    BY <1>1, <1>2, OutIsNowhere DEF SlotsOf!Grab
  <1> QED
    BY <1>3 DEF SemaphoreMoves, SlotsOf!Next

(* Into the line, or turned away because it is full. *)
LEMMA SemaphoreJoin ==
  ASSUME SlotsOK, NEW w \in Workers, Alone(w), NEW k \in Keys, Nowhere(w, k), waiters[k] < WaiterCap,
         ~Owns(w, k)', Stands(w, k)', ~Turned(w, k)'
  PROVE  SemaphoreMoves(k)
  <1>1. Owners(k)' = Owners(k) /\ Line(k)' = Line(k) \cup {w} /\ Refused(k)' = Refused(k)
    BY OneMoves DEF Nowhere
  <1>2. SlotsOf(k)!Cardinality(Line(k)) < WaiterCap
    BY SameCardinality DEF SlotsOK, SlotsReturned
  <1>3. SlotsOf(k)!Join(w)
    BY <1>1, <1>2, OutIsNowhere DEF SlotsOf!Join
  <1> QED
    BY <1>3 DEF SemaphoreMoves, SlotsOf!Next

LEMMA SemaphoreOverflow ==
  ASSUME SlotsOK, NEW w \in Workers, Alone(w), NEW k \in Keys, Nowhere(w, k), waiters[k] >= WaiterCap,
         ~Owns(w, k)', ~Stands(w, k)', Turned(w, k)'
  PROVE  SemaphoreMoves(k)
  <1>1. Owners(k)' = Owners(k) /\ Line(k)' = Line(k) /\ Refused(k)' = Refused(k) \cup {w}
    BY OneMoves DEF Nowhere
  <1>2. SlotsOf(k)!Cardinality(Line(k)) >= WaiterCap
    BY SameCardinality DEF SlotsOK, SlotsReturned
  <1>3. SlotsOf(k)!Overflow(w)
    BY <1>1, <1>2, OutIsNowhere DEF SlotsOf!Overflow
  <1> QED
    BY <1>3 DEF SemaphoreMoves, SlotsOf!Next

(* Served in the line, and out of it with the slot or without. *)
LEMMA SemaphoreServe ==
  ASSUME SlotsOK, NEW w \in Workers, Alone(w), NEW k \in Keys,
         ~Owns(w, k), Stands(w, k), ~Turned(w, k), Free(k),
         Owns(w, k)', Stands(w, k)', ~Turned(w, k)'
  PROVE  SemaphoreMoves(k)
  <1>1. /\ Owners(k)' = Owners(k) \cup {w} /\ Line(k)' = Line(k) /\ Refused(k)' = Refused(k)
        /\ w \in Line(k) \ Owners(k)
    BY OneMoves
  <1>2. SlotsOf(k)!Cardinality(Owners(k)) < Limit(k)
    BY SameCardinality DEF Free, SlotsOK, SlotsReturned
  <1>3. SlotsOf(k)!Serve(w)
    BY <1>1, <1>2 DEF SlotsOf!Serve
  <1> QED
    BY <1>3 DEF SemaphoreMoves, SlotsOf!Next

LEMMA SemaphoreDepart ==
  ASSUME NEW w \in Workers, Alone(w), NEW k \in Keys,
         Stands(w, k), ~Turned(w, k), Owns(w, k)' <=> Owns(w, k),
         ~Stands(w, k)', Turned(w, k)' <=> ~Owns(w, k)
  PROVE  SemaphoreMoves(k)
  <1>1. /\ Owners(k)' = Owners(k) /\ Line(k)' = Line(k) \ {w} /\ w \in Line(k)
        /\ Refused(k)' = IF w \in Owners(k) THEN Refused(k) ELSE Refused(k) \cup {w}
    BY OneMoves
  <1>2. SlotsOf(k)!Depart(w)
    BY <1>1 DEF SlotsOf!Depart
  <1> QED
    BY <1>2 DEF SemaphoreMoves, SlotsOf!Next

(* The slot comes back; a request that was turned away goes on. *)
LEMMA SemaphoreGiveBack ==
  ASSUME NEW w \in Workers, Alone(w), NEW k \in Keys,
         Owns(w, k), ~Stands(w, k), ~Turned(w, k), Nowhere(w, k)'
  PROVE  SemaphoreMoves(k)
  <1>1. /\ Owners(k)' = Owners(k) \ {w} /\ Line(k)' = Line(k) /\ Refused(k)' = Refused(k)
        /\ w \in Owners(k) \ Line(k)
    BY OneMoves DEF Nowhere
  <1>2. SlotsOf(k)!GiveBack(w)
    BY <1>1 DEF SlotsOf!GiveBack
  <1> QED
    BY <1>2 DEF SemaphoreMoves, SlotsOf!Next

LEMMA SemaphoreGoOn ==
  ASSUME NEW w \in Workers, Alone(w), NEW k \in Keys,
         ~Owns(w, k), ~Stands(w, k), Turned(w, k), Nowhere(w, k)'
  PROVE  SemaphoreMoves(k)
  <1>1. /\ Owners(k)' = Owners(k) /\ Line(k)' = Line(k) /\ Refused(k)' = Refused(k) \ {w}
        /\ w \in Refused(k)
    BY OneMoves DEF Nowhere
  <1>2. SlotsOf(k)!GoOn(w)
    BY <1>1 DEF SlotsOf!GoOn
  <1> QED
    BY <1>2 DEF SemaphoreMoves, SlotsOf!Next

(***************************************************************************)
(* The actions.  A worker outside its owning places, the line and the      *)
(* refusals has nothing at any key.                                        *)
(***************************************************************************)
LEMMA OutOfPlaces ==
  ASSUME NEW w, NEW k
  PROVE  /\ pc[w] \notin Owning => ~Owns(w, k)
         /\ pc[w] \notin {"waiting", "served"} => ~Stands(w, k)
         /\ (pc[w] # "rejected" \/ cands[w] = <<>>) => ~Turned(w, k)
         /\ pc'[w] \notin Owning => ~Owns(w, k)'
         /\ pc'[w] \notin {"waiting", "served"} => ~Stands(w, k)'
         /\ (pc'[w] # "rejected" \/ cands'[w] = <<>>) => ~Turned(w, k)'
  BY DEF Owns, Stands, Turned

(* From one place without a slot, a line or a refusal to another. *)
LEMMA SemaphoreIdles ==
  ASSUME NEW w \in Workers, Alone(w), NEW k \in Keys, pc[w] \notin Owning \cup {"waiting", "served", "rejected"},
         pc'[w] \notin Owning \cup {"waiting", "served"}, pc'[w] # "rejected" \/ cands'[w] = <<>>
  PROVE  SemaphoreMoves(k)
  BY OutOfPlaces, SemaphoreKept

(* With the slot from one place to another. *)
LEMMA SemaphoreGoes ==
  ASSUME NEW w \in Workers, Alone(w), NEW k \in Keys, pc[w] \in Owning \ {"served"}, pc'[w] \in Owning \ {"served"},
         UNCHANGED key
  PROVE  SemaphoreMoves(k)
  <1>1. ~Stands(w, k) /\ ~Stands(w, k)' /\ ~Turned(w, k) /\ ~Turned(w, k)'
    BY OutOfPlaces DEF Owning
  <1>2. Owns(w, k)' <=> Owns(w, k)
    BY DEF Owns
  <1> QED
    BY <1>1, <1>2, SemaphoreKept

LEMMA SemaphoreArrival ==
  ASSUME Placed, NEW w \in Workers, Arrival(w) \/ AnswerNoAuth(w), NEW k \in Keys
  PROVE  SemaphoreMoves(k)
  <1>1. /\ Alone(w) /\ pc[w] \notin Owning \cup {"waiting", "served", "rejected"}
        /\ pc'[w] \notin Owning \cup {"waiting", "served", "rejected"}
    BY DEF Arrival, Arrive, ArriveNoAuth, AnswerNoAuth, Go, Goto, Placed, LocalOK, Alone, Owning
  <1> QED
    BY <1>1, SemaphoreIdles

(* A slot of a key, taken at a place outside the line. *)
LEMMA SemaphoreTakes ==
  ASSUME Placed, SlotsOK, NEW w \in Workers, Alone(w), NEW j \in Keys, Free(j),
         pc[w] \in {"pinned", "scan"}, pc'[w] = "pin", key'[w] = j, NEW k \in Keys
  PROVE  SemaphoreMoves(k)
  <1>1. Nowhere(w, k) /\ ~Stands(w, k)' /\ ~Turned(w, k)'
    BY OutOfPlaces DEF Nowhere, Owning
  <1>2. Owns(w, k)' <=> j = k
    BY DEF Owns, Owning
  <1>3. CASE j = k
    BY <1>1, <1>2, <1>3, SemaphoreGrab
  <1>4. CASE j # k
    BY <1>1, <1>2, <1>4, SemaphoreKept DEF Nowhere
  <1> QED
    BY <1>3, <1>4

LEMMA SemaphoreTakePinned ==
  ASSUME Placed, SlotsOK, NEW w \in Workers, TakePinned(w), NEW k \in Keys
  PROVE  SemaphoreMoves(k)
  <1>1. Alone(w) /\ pc[w] = "pinned" /\ key[w] \in Keys
    BY DEF TakePinned, Goto, Placed, LocalOK, KeysKnown, choice, Alone, Owning
  <1>2. CASE Free(key[w])
    <2>1. pc'[w] = "pin" /\ key'[w] = key[w]
      BY <1>2 DEF TakePinned, Goto, Placed, LocalOK
    <2> QED
      BY <1>1, <1>2, <2>1, SemaphoreTakes
  <1>3. CASE ~Free(key[w])
    <2>1. pc'[w] = "admit"
      BY <1>3 DEF TakePinned, Goto, Placed, LocalOK
    <2> QED
      BY <1>1, <2>1, SemaphoreIdles DEF Owning
  <1> QED
    BY <1>2, <1>3

LEMMA SemaphoreScan ==
  ASSUME Placed, SlotsOK, NEW w \in Workers, Scan(w), NEW k \in Keys
  PROVE  SemaphoreMoves(k)
  <1> DEFINE j == cands[w][next[w]]
  <1>1. j \in Keys /\ pc[w] = "scan"
    BY DEF Scan, Placed, LocalOK, CandsKnown, Ranked
  <1>2. CASE Free(j)
    <2>1. pc' = [pc EXCEPT ![w] = "pin"] /\ key' = [key EXCEPT ![w] = j] /\ cands' = [cands EXCEPT ![w] = <<>>]
      BY <1>2 DEF Scan, Goto, Forget
    <2> HIDE DEF j
    <2>2. Alone(w) /\ pc'[w] = "pin" /\ key'[w] = j
      BY <2>1 DEF Placed, LocalOK, Alone
    <2> QED
      BY <1>1, <1>2, <2>2, SemaphoreTakes
  <1>3. CASE ~Free(j)
    <2>1. (UNCHANGED pc \/ pc' = [pc EXCEPT ![w] = "join"]) /\ UNCHANGED <<key, cands>>
      BY <1>3 DEF Scan, Goto
    <2>2. Alone(w) /\ pc'[w] \in {"scan", "join"}
      BY <1>1, <2>1 DEF Placed, LocalOK, Alone
    <2> QED
      BY <1>1, <2>2, SemaphoreIdles DEF Owning
  <1> QED
    BY <1>2, <1>3

LEMMA SemaphoreJoins ==
  ASSUME Placed, SlotsOK, NEW w \in Workers, Join(w), NEW k \in Keys
  PROVE  SemaphoreMoves(k)
  <1> DEFINE j == cands[w][1]
  <1>1. j \in Keys /\ pc[w] = "join" /\ UNCHANGED <<cands, key>> /\ cands[w] # <<>>
    BY DEF Join, choice, Placed, LocalOK, CandsKnown, Ranked
  <1>2. Nowhere(w, k)
    BY <1>1, OutOfPlaces DEF Nowhere, Owning
  <1>3. CASE waiters[j] >= WaiterCap
    <2>1. pc' = [pc EXCEPT ![w] = "rejected"]
      BY <1>3 DEF Join, Goto
    <2>2. Alone(w) /\ ~Owns(w, k)' /\ ~Stands(w, k)' /\ (Turned(w, k)' <=> j = k)
      BY <1>1, <2>1 DEF Placed, LocalOK, Alone, Owns, Stands, Turned, Owning
    <2> QED
      BY <1>2, <1>3, <2>2, SemaphoreOverflow, SemaphoreKept DEF Nowhere
  <1>4. CASE ~(waiters[j] >= WaiterCap)
    <2>1. pc' = [pc EXCEPT ![w] = "waiting"]
      BY <1>4 DEF Join, Goto
    <2>2. Alone(w) /\ ~Owns(w, k)' /\ (Stands(w, k)' <=> j = k) /\ ~Turned(w, k)'
      BY <1>1, <2>1 DEF Placed, LocalOK, Alone, Owns, Stands, Turned, Owning
    <2>3. waiters[j] < WaiterCap
      BY <1>1, <1>4, BoundsAssumption DEF SlotsOK
    <2> QED
      BY <1>2, <2>2, <2>3, SemaphoreJoin, SemaphoreKept DEF Nowhere
  <1> QED
    BY <1>3, <1>4

LEMMA SemaphoreWaitServed ==
  ASSUME Placed, SlotsOK, NEW w \in Workers, WaitServed(w), NEW k \in Keys
  PROVE  SemaphoreMoves(k)
  <1> DEFINE j == cands[w][1]
  <1>1. j \in Keys /\ pc[w] = "waiting" /\ UNCHANGED cands /\ Free(j)
    BY DEF WaitServed, Go, choice, Placed, LocalOK, CandsKnown, Ranked
  <1>2. pc' = [pc EXCEPT ![w] = "served"] /\ key' = [key EXCEPT ![w] = j]
    BY DEF WaitServed, Go, Goto
  <1>3. ~Owns(w, k) /\ (Stands(w, k) <=> j = k) /\ ~Turned(w, k)
    BY <1>1 DEF Owns, Stands, Turned, Owning
  <1>4. Stands(w, k)' <=> j = k
    BY <1>1, <1>2 DEF Placed, LocalOK, Stands
  <1> HIDE DEF j
  <1>5. Alone(w) /\ (Owns(w, k)' <=> j = k) /\ ~Turned(w, k)'
    BY <1>1, <1>2 DEF Placed, LocalOK, Alone, Owns, Turned, Owning
  <1> QED
    BY <1>1, <1>3, <1>4, <1>5, SemaphoreServe, SemaphoreKept

LEMMA SemaphoreLeaveLine ==
  ASSUME Placed, SlotsOK, NEW w \in Workers, LeaveLine(w), NEW k \in Keys
  PROVE  SemaphoreMoves(k)
  <1> DEFINE j == cands[w][1]
  <1>1. CASE pc[w] = "served"
    <2>1. /\ pc' = [pc EXCEPT ![w] = "pin"] /\ cands' = [cands EXCEPT ![w] = <<>>] /\ UNCHANGED key
          /\ key[w] = j
      BY <1>1 DEF LeaveLine, Go, Goto, Forget, Placed, LocalOK, CandsKnown
    <2>2. (Owns(w, k) <=> j = k) /\ (Stands(w, k) <=> j = k) /\ ~Turned(w, k)
      BY <1>1, <2>1 DEF Owns, Stands, Turned, Owning
    <2> HIDE DEF j
    <2>3. Alone(w) /\ (Owns(w, k)' <=> j = k) /\ ~Stands(w, k)' /\ ~Turned(w, k)'
      BY <2>1 DEF Placed, LocalOK, Alone, Owns, Stands, Turned, Owning
    <2> QED
      BY <2>2, <2>3, SemaphoreDepart, SemaphoreKept
  <1>2. CASE pc[w] = "waiting"
    <2>1. /\ pc' = [pc EXCEPT ![w] = "rejected"] /\ UNCHANGED <<cands, key>> /\ cands[w] # <<>>
      BY <1>2 DEF LeaveLine, Go, Goto, choice, Placed, LocalOK, CandsKnown, Ranked
    <2>2. ~Owns(w, k) /\ (Stands(w, k) <=> j = k) /\ ~Turned(w, k)
      BY <1>2 DEF Owns, Stands, Turned, Owning
    <2>3. Alone(w) /\ ~Owns(w, k)' /\ ~Stands(w, k)' /\ (Turned(w, k)' <=> j = k)
      BY <2>1 DEF Placed, LocalOK, Alone, Owns, Stands, Turned, Owning
    <2> QED
      BY <2>2, <2>3, SemaphoreDepart, SemaphoreKept
  <1> QED
    BY <1>1, <1>2 DEF LeaveLine, Go

LEMMA SemaphoreAdmission ==
  ASSUME Placed, SlotsOK, NEW w \in Workers, Admission(w), NEW k \in Keys
  PROVE  SemaphoreMoves(k)
  <1>1. CASE Lookup(w)
    <2>1. Alone(w) /\ pc[w] = "lookup" /\ pc'[w] \in {"pinned", "admit"}
      BY <1>1 DEF Lookup, Goto, choice, Placed, LocalOK, Alone
    <2> QED
      BY <2>1, SemaphoreIdles DEF Owning
  <1>2. CASE Admit(w)
    <2>1. /\ UNCHANGED key /\ pc[w] = "admit" /\ cands[w] = <<>>
          /\ \/ pc' = [pc EXCEPT ![w] = "rejected"] /\ UNCHANGED cands
             \/ pc' = [pc EXCEPT ![w] = "scan"] /\ \E s : cands' = [cands EXCEPT ![w] = s]
      BY <1>2 DEF Admit, Goto, Placed, CandsKnown, Ranked
    <2>2. /\ Alone(w)
          /\ pc'[w] = "scan" \/ (pc'[w] = "rejected" /\ cands'[w] = <<>>)
      BY <2>1 DEF Placed, LocalOK, Alone
    <2> QED
      BY <2>1, <2>2, SemaphoreIdles DEF Owning
  <1>3. CASE PinAdmitted(w)
    <2>1. Alone(w) /\ UNCHANGED key /\ pc[w] = "pin" /\ pc'[w] = "upstream"
      BY <1>3 DEF PinAdmitted, Go, Goto, choice, Placed, LocalOK, Alone
    <2> QED
      BY <2>1, SemaphoreGoes DEF Owning
  <1> QED
    BY <1>1, <1>2, <1>3, SemaphoreTakePinned, SemaphoreScan, SemaphoreJoins, SemaphoreWaitServed,
       SemaphoreLeaveLine DEF Admission

LEMMA SemaphoreAnswer ==
  ASSUME Placed, NEW w \in Workers, Answer(w), NEW k \in Keys
  PROVE  SemaphoreMoves(k)
  <1>1. PICK to \in {"repin", "done", "failed", "cooling"} :
          /\ pc[w] = "upstream" /\ pc' = [pc EXCEPT ![w] = to]
          /\ UNCHANGED <<key, choice>>
    BY DEF Answer, SettleOk, SettleError, MarkDead, MarkCooldown, MarkStrike, NetworkError, Verdict, Go, Goto
  <1>2. Alone(w) /\ UNCHANGED key /\ pc'[w] \in Owning \ {"served"} /\ pc[w] \in Owning \ {"served"}
    BY <1>1 DEF choice, Placed, LocalOK, Alone, Owning
  <1> QED
    BY <1>2, SemaphoreGoes

LEMMA SemaphoreEnding ==
  ASSUME Placed, NEW w \in Workers, Ending(w), NEW k \in Keys
  PROVE  SemaphoreMoves(k)
  <1>1. CASE StrikeCools(w) \/ StrikeClears(w) \/ Repin(w) \/ Fail(w)
    <2>1. /\ UNCHANGED key /\ UNCHANGED cands
          /\ pc[w] \in {"cooling", "clearing", "repin", "failed"}
          /\ \E to \in {"clearing", "failed", "done", "drop"} : pc' = [pc EXCEPT ![w] = to]
      BY <1>1 DEF StrikeCools, StrikeClears, Repin, Fail, Go, Goto, choice
    <2>2. Alone(w) /\ pc[w] \in Owning \ {"served"} /\ pc'[w] \in Owning \ {"served"}
      BY <2>1 DEF Placed, LocalOK, Alone, Owning
    <2> QED
      BY <2>1, <2>2, SemaphoreGoes
  <1>2. CASE Drop(w) \/ (Finish(w) /\ pc[w] = "done")
    <2>1. /\ pc[w] \in {"drop", "done"}
          /\ UNCHANGED cands \/ cands' = [cands EXCEPT ![w] = <<>>]
          /\ \E to \in {"admit", "idle"} : pc' = [pc EXCEPT ![w] = to]
          /\ UNCHANGED key \/ key' = [key EXCEPT ![w] = NoKey]
      BY <1>2 DEF Drop, Finish, Go, Goto, Forget, choice
    <2>2. Alone(w) /\ (Owns(w, k) <=> key[w] = k) /\ ~Stands(w, k) /\ ~Turned(w, k)
      BY <2>1 DEF Placed, LocalOK, Alone, Owns, Stands, Turned, Owning
    <2>3. Nowhere(w, k)'
      BY <2>1 DEF Placed, LocalOK, Nowhere, Owns, Stands, Turned, Owning
    <2> QED
      BY <2>2, <2>3, SemaphoreGiveBack, SemaphoreKept DEF Nowhere
  <1>3. CASE Finish(w) /\ pc[w] # "done"
    <2>1. /\ cands' = [cands EXCEPT ![w] = <<>>] /\ pc[w] = "rejected"
          /\ pc' = [pc EXCEPT ![w] = "idle"] /\ key' = [key EXCEPT ![w] = NoKey]
      BY <1>3 DEF Finish, Goto, Forget
    <2>2. Alone(w) /\ ~Owns(w, k) /\ ~Stands(w, k)
      BY <2>1 DEF Placed, LocalOK, Alone, Owns, Stands, Owning
    <2>3. Nowhere(w, k)'
      BY <2>1 DEF Placed, LocalOK, Nowhere, Owns, Stands, Turned, Owning
    <2> QED
      BY <2>2, <2>3, SemaphoreGoOn, SemaphoreKept DEF Nowhere
  <1> QED
    BY <1>1, <1>2, <1>3 DEF Ending

(* Steps of nobody. *)
LEMMA SemaphoreSurroundings ==
  ASSUME UNCHANGED local, NEW k
  PROVE  SemaphoreMoves(k)
  BY DEF local, Owners, Line, Refused, SemaphoreMoves, SlotsOf!semaphore

LEMMA SemaphoreInit == Init => \A k \in Keys : SlotsOf(k)!Init
  <1> SUFFICES ASSUME Init, NEW k \in Keys PROVE Owners(k) = {} /\ Line(k) = {} /\ Refused(k) = {}
    BY DEF SlotsOf!Init
  <1> QED
    BY DEF Init, Owners, Line, Refused, Owning

LEMMA SemaphoreNext == IInv /\ [Next]_vars => \A k \in Keys : SemaphoreMoves(k)
  <1> SUFFICES ASSUME IInv, [Next]_vars, NEW k \in Keys PROVE SemaphoreMoves(k)
    OBVIOUS
  <1>1. CASE UNCHANGED vars
    <2>1. UNCHANGED local
      BY <1>1 DEF vars
    <2> QED
      BY <2>1, SemaphoreSurroundings
  <1>2. CASE PublishUsage \/ Tick
    <2>1. UNCHANGED local
      BY <1>2 DEF PublishUsage, Tick
    <2> QED
      BY <2>1, SemaphoreSurroundings
  <1>3. ASSUME NEW w \in Workers, Arrival(w) \/ Admission(w) \/ Answer(w) \/ Ending(w) \/ AnswerNoAuth(w)
        PROVE  SemaphoreMoves(k)
    BY <1>3, SemaphoreArrival, SemaphoreAdmission, SemaphoreAnswer, SemaphoreEnding DEF IInv
  <1> QED
    BY <1>1, <1>2, <1>3 DEF Next

(***************************************************************************)
(* Every key is a Semaphore for the requests: what KeySlots promises of    *)
(* one key (acquire_on, Permit::drop) the whole proxy keeps for each key,  *)
(* whatever the requests do with the others.                               *)
(***************************************************************************)
THEOREM SemaphoresImplemented == Spec => EachKeyASemaphore
  <1>1. IInv /\ [Next]_vars => [\A k \in Keys : SemaphoreMoves(k)]_vars
    BY SemaphoreNext
  <1> QED
    BY <1>1, SemaphoreInit, IInvAlways, PTL DEF Spec, EachKeyASemaphore, SemaphoreMoves
-----------------------------------------------------------------------------
(***************************************************************************)
(* The health of each key is a KeyHealth.  A worker uses a key while it    *)
(* waits for the end of mark_strike there, or while the key is its pin,    *)
(* one of its candidates or the key of its attempt.                        *)
(***************************************************************************)
Strikes(w, k) == pc[w] \in {"cooling", "clearing"} /\ key[w] = k

Uses(w, k) == \/ pc[w] \in {"pinned", "pin", "upstream"} /\ key[w] = k
              \/ pc[w] \in Ranked /\ k \in ToSet(cands[w])

HealthMoves(k) == [HealthOf(k)!Next]_(HealthOf(k)!vars)

(* The operators on the record of a key are the same in the instance. *)
LEMMA SameHealth ==
  \A k, h, d : /\ HealthOf(k)!Observed(h) = Observed(h) /\ HealthOf(k)!Elapsed(h) = Elapsed(h)
               /\ HealthOf(k)!Settled(h) = Settled(h) /\ HealthOf(k)!Killed(h) = Killed(h)
               /\ HealthOf(k)!Struck(h) = Struck(h) /\ HealthOf(k)!Unstruck(h) = Unstruck(h)
               /\ HealthOf(k)!Cooled(h, d) = Cooled(h, d)
               /\ HealthOf(k)!CooldownOf(d) = CooldownOf(d)
               /\ HealthOf(k)!IsUp(h) <=> IsUp(h)
               /\ HealthOf(k)!Fresh = Fresh
  BY DEF HealthOf!Observed, Observed, HealthOf!Elapsed, Elapsed, HealthOf!Settled, Settled,
         HealthOf!Killed, Killed, HealthOf!Struck, Struck, HealthOf!Unstruck, Unstruck,
         HealthOf!Cooled, Cooled, HealthOf!IsUp, IsUp, HealthOf!CooldownOf, CooldownOf,
         HealthOf!NoRetryAfter, NoRetryAfter, HealthOf!Fresh, Fresh, HealthOf!NoDeadline, NoDeadline

LEMMA PlaceIs ==
  ASSUME NEW w \in Workers, NEW k
  PROVE  /\ Strikes(w, k) => PlacesAt(k)[w] = pc[w]
         /\ Uses(w, k) => PlacesAt(k)[w] = "inflight"
         /\ ~Strikes(w, k) /\ ~Uses(w, k) => PlacesAt(k)[w] = "away"
         /\ Strikes(w, k)' => PlacesAt(k)'[w] = pc'[w]
         /\ Uses(w, k)' => PlacesAt(k)'[w] = "inflight"
         /\ ~Strikes(w, k)' /\ ~Uses(w, k)' => PlacesAt(k)'[w] = "away"
  BY DEF PlacesAt, Strikes, Uses, Ranked

LEMMA PlacesMove ==
  ASSUME NEW w \in Workers, Alone(w), NEW k
  PROVE  PlacesAt(k)' = [PlacesAt(k) EXCEPT ![w] = PlacesAt(k)'[w]]
  <1>1. \A v \in Workers \ {w} : PlacesAt(k)'[v] = PlacesAt(k)[v]
    BY DEF PlacesAt, Alone
  <1>2. /\ PlacesAt(k) = [v \in Workers |-> PlacesAt(k)[v]]
        /\ PlacesAt(k)' = [v \in Workers |-> PlacesAt(k)'[v]]
    BY DEF PlacesAt
  <1> HIDE DEF PlacesAt
  <1> QED
    BY <1>1, <1>2

(* A step that leaves the key alone, or looks at it. *)
LEMMA HealthLook ==
  ASSUME NEW w \in Workers, Alone(w), NEW k \in Keys, PlacesAt(k)'[w] = PlacesAt(k)[w],
         health'[k] \in {health[k], Observed(health[k])}
  PROVE  HealthMoves(k)
  <1>1. PlacesAt(k)' = PlacesAt(k)
    <2>1. PlacesAt(k) = [PlacesAt(k) EXCEPT ![w] = PlacesAt(k)[w]]
      BY DEF PlacesAt
    <2> QED
      BY <2>1, PlacesMove
  <1>2. CASE health'[k] = health[k]
    BY <1>1, <1>2 DEF HealthMoves, HealthOf!vars
  <1>3. CASE health'[k] = Observed(health[k])
    <2>1. HealthOf(k)!Look
      BY <1>1, <1>3, SameHealth DEF HealthOf!Look
    <2> QED
      BY <2>1 DEF HealthMoves, HealthOf!Next
  <1> QED
    BY <1>2, <1>3

LEMMA HealthGo ==
  ASSUME NEW w \in Workers, Alone(w), NEW k \in Keys, NEW from, NEW to,
         PlacesAt(k)[w] = from, PlacesAt(k)'[w] = to
  PROVE  HealthOf(k)!Go(w, from, to)
  BY PlacesMove DEF HealthOf!Go

(* The key is seen Up and used. *)
LEMMA HealthAdmitted ==
  ASSUME NEW w \in Workers, Alone(w), NEW k \in Keys, IsUp(health[k]), health'[k] = Observed(health[k]),
         PlacesAt(k)[w] = "away", PlacesAt(k)'[w] = "inflight"
  PROVE  HealthMoves(k)
  <1>1. HealthOf(k)!Admitted(w)
    BY HealthGo, SameHealth DEF HealthOf!Admitted
  <1> QED
    BY <1>1 DEF HealthMoves, HealthOf!Next

(* The request goes on without the key. *)
LEMMA HealthNoVerdict ==
  ASSUME NEW w \in Workers, Alone(w), NEW k \in Keys, health'[k] = health[k],
         PlacesAt(k)[w] = "inflight", PlacesAt(k)'[w] = "away"
  PROVE  HealthMoves(k)
  <1>1. HealthOf(k)!NoVerdict(w)
    BY HealthGo DEF HealthOf!NoVerdict
  <1> QED
    BY <1>1 DEF HealthMoves, HealthOf!Next, HealthOf!Verdict

(* The request keeps the key or goes on without it; the health stays. *)
LEMMA HealthPasses ==
  ASSUME NEW w \in Workers, Alone(w), NEW k \in Keys, health'[k] = health[k],
         ~Strikes(w, k), ~Strikes(w, k)', Uses(w, k)' => Uses(w, k)
  PROVE  HealthMoves(k)
  <1>1. CASE Uses(w, k)' <=> Uses(w, k)
    BY <1>1, PlaceIs, HealthLook
  <1>2. CASE Uses(w, k) /\ ~Uses(w, k)'
    BY <1>2, PlaceIs, HealthNoVerdict
  <1> QED
    BY <1>1, <1>2

(* The places at which a worker uses no key. *)
LEMMA NotAKey ==
  ASSUME NEW w, NEW k
  PROVE  /\ pc[w] \notin {"cooling", "clearing"} => ~Strikes(w, k)
         /\ pc[w] \notin Ranked \cup {"pinned", "pin", "upstream"} => ~Uses(w, k)
         /\ pc'[w] \notin {"cooling", "clearing"} => ~Strikes(w, k)'
         /\ pc'[w] \notin Ranked \cup {"pinned", "pin", "upstream"} => ~Uses(w, k)'
  BY DEF Strikes, Uses

(* The looks of LookAt. *)
LEMMA LookAtKey ==
  ASSUME NEW S, LookAt(S), NEW k \in Keys
  PROVE  /\ k \in S => health'[k] = Observed(health[k])
         /\ k \notin S => health'[k] = health[k]
  BY DEF LookAt

LEMMA HealthArrival ==
  ASSUME Placed, NEW w \in Workers, Arrival(w) \/ AnswerNoAuth(w), NEW k \in Keys
  PROVE  HealthMoves(k)
  <1>1. /\ Alone(w) /\ pc[w] \in {"idle", "noauth"} /\ pc'[w] \in {"lookup", "noauth", "idle"}
    BY DEF Arrival, Arrive, ArriveNoAuth, AnswerNoAuth, Go, Goto, Placed, LocalOK, Alone
  <1>2. ~Strikes(w, k) /\ ~Uses(w, k) /\ ~Strikes(w, k)' /\ ~Uses(w, k)'
    BY <1>1, NotAKey DEF Ranked
  <1>3. UNCHANGED health \/ \E S : LookAt(S)
    BY DEF Arrival, Arrive, ArriveNoAuth, AnswerNoAuth, pool
  <1>4. health'[k] \in {health[k], Observed(health[k])}
    BY <1>3, LookAtKey
  <1> QED
    BY <1>1, <1>2, <1>4, PlaceIs, HealthLook

(* Admission by a pin, and among the candidates. *)
LEMMA HealthLookup ==
  ASSUME Placed, PinsOK, NEW w \in Workers, Lookup(w), NEW k \in Keys
  PROVE  HealthMoves(k)
  <1> DEFINE j == PinOf(conv[w])
  <1>1. Alone(w) /\ pc[w] = "lookup" /\ LookAt({j})
    BY DEF Lookup, Goto, choice, Placed, LocalOK, Alone
  <1>2. ~Strikes(w, k) /\ ~Uses(w, k)
    BY <1>1, NotAKey DEF Ranked
  <1>3. CASE Usable(j)
    <2>1. pc'[w] = "pinned" /\ key'[w] = j /\ IsUp(health[j])
      BY <1>3 DEF Lookup, Goto, Placed, LocalOK, Usable
    <2>2. ~Strikes(w, k)' /\ (Uses(w, k)' <=> j = k)
      BY <2>1 DEF Strikes, Uses, Ranked
    <2> HIDE DEF j
    <2>3. CASE j = k
      BY <1>1, <1>2, <2>1, <2>2, <2>3, LookAtKey, PlaceIs, HealthAdmitted
    <2>4. CASE j # k
      BY <1>1, <1>2, <2>2, <2>4, LookAtKey, PlaceIs, HealthLook
    <2> QED
      BY <2>3, <2>4
  <1>4. CASE ~Usable(j)
    <2>1. pc'[w] = "admit"
      BY <1>4 DEF Lookup, Goto, Placed, LocalOK
    <2>2. ~Strikes(w, k)' /\ ~Uses(w, k)'
      BY <2>1, NotAKey DEF Ranked
    <2> HIDE DEF j
    <2> QED
      BY <1>1, <1>2, <2>2, LookAtKey, PlaceIs, HealthLook
  <1> QED
    BY <1>3, <1>4

(* The candidates of a ranking are Up. *)
LEMMA RankedAreUp ==
  ASSUME NEW s \in Rankings, UpKeys # {}, NEW k \in ToSet(s)
  PROVE  IsUp(health[k])
  <1>1. s \in [1..Cardinality(UpKeys) -> UpKeys]
    BY DEF Rankings
  <1>2. PICK i \in DOMAIN s : k = s[i]
    BY DEF ToSet
  <1>3. k \in UpKeys
    BY <1>1, <1>2
  <1> QED
    BY <1>3 DEF UpKeys

LEMMA HealthAdmit ==
  ASSUME Placed, NEW w \in Workers, Admit(w), NEW k \in Keys
  PROVE  HealthMoves(k)
  <1>1. pc[w] = "admit" /\ LookAt(Keys) /\ UNCHANGED key
    BY DEF Admit
  <1>2. ~Strikes(w, k) /\ ~Uses(w, k) /\ health'[k] = Observed(health[k])
    BY <1>1, NotAKey, LookAtKey DEF Ranked
  <1>3. CASE UpKeys = {}
    <2>1. Alone(w) /\ pc'[w] = "rejected"
      BY <1>1, <1>3 DEF Admit, Goto, Placed, LocalOK, Alone
    <2>2. ~Strikes(w, k)' /\ ~Uses(w, k)'
      BY <2>1, NotAKey DEF Ranked
    <2> QED
      BY <1>2, <2>1, <2>2, PlaceIs, HealthLook
  <1>4. CASE UpKeys # {}
    <2>1. pc' = [pc EXCEPT ![w] = "scan"]
      BY <1>4 DEF Admit, Goto
    <2>2. PICK s \in Rankings : cands' = [cands EXCEPT ![w] = s]
      BY <1>4 DEF Admit
    <2>3. Alone(w) /\ pc'[w] = "scan" /\ cands'[w] = s
      BY <1>1, <2>1, <2>2 DEF Placed, LocalOK, Alone
    <2>4. ~Strikes(w, k)' /\ (Uses(w, k)' <=> k \in ToSet(s))
      BY <2>3 DEF Strikes, Uses, Ranked
    <2>5. CASE k \in ToSet(s)
      BY <1>2, <1>4, <2>3, <2>4, <2>5, RankedAreUp, PlaceIs, HealthAdmitted
    <2>6. CASE k \notin ToSet(s)
      BY <1>2, <2>3, <2>4, <2>6, PlaceIs, HealthLook
    <2> QED
      BY <2>5, <2>6
  <1> QED
    BY <1>3, <1>4

LEMMA HealthTakePinned ==
  ASSUME Placed, NEW w \in Workers, TakePinned(w), NEW k \in Keys
  PROVE  HealthMoves(k)
  <1>1. Alone(w) /\ pc[w] = "pinned" /\ UNCHANGED health
    BY DEF TakePinned, Goto, choice, Placed, LocalOK, Alone
  <1>2. \/ pc'[w] = "pin" /\ key'[w] = key[w]
        \/ pc'[w] = "admit"
    BY DEF TakePinned, Goto, Placed, LocalOK
  <1>3. ~Strikes(w, k) /\ ~Strikes(w, k)' /\ (Uses(w, k)' => Uses(w, k))
    BY <1>1, <1>2 DEF Strikes, Uses, Ranked
  <1> QED
    BY <1>1, <1>3, HealthPasses

LEMMA HealthScan ==
  ASSUME Placed, NEW w \in Workers, Scan(w), NEW k \in Keys
  PROVE  HealthMoves(k)
  <1> DEFINE n == next[w]
             j == cands[w][n]
  <1>1. j \in ToSet(cands[w]) /\ pc[w] = "scan" /\ UNCHANGED health
    <2>1. cands[w] \in Seq(Keys) /\ n \in 1..Len(cands[w]) /\ pc[w] = "scan" /\ UNCHANGED health
      BY DEF Scan, Placed, LocalOK, CandsKnown, Ranked
    <2> QED
      BY <2>1 DEF ToSet
  <1> HIDE DEF n
  <1>2. CASE Free(j)
    <2>1. pc' = [pc EXCEPT ![w] = "pin"] /\ key' = [key EXCEPT ![w] = j] /\ cands' = [cands EXCEPT ![w] = <<>>]
      BY <1>2 DEF Scan, Goto, Forget, n
    <2> HIDE DEF j
    <2>2. Alone(w) /\ pc'[w] = "pin" /\ key'[w] = j
      BY <2>1 DEF Placed, LocalOK, Alone
    <2>3. ~Strikes(w, k) /\ ~Strikes(w, k)' /\ (Uses(w, k)' => Uses(w, k))
      BY <1>1, <2>2 DEF Strikes, Uses, Ranked
    <2> QED
      BY <1>1, <2>2, <2>3, HealthPasses
  <1>3. CASE ~Free(j)
    <2>1. (UNCHANGED pc \/ pc' = [pc EXCEPT ![w] = "join"]) /\ UNCHANGED <<key, cands>>
      BY <1>3 DEF Scan, Goto, n
    <2> HIDE DEF j
    <2>2. Alone(w) /\ pc'[w] \in {"scan", "join"} /\ cands'[w] = cands[w]
      BY <1>1, <2>1 DEF Placed, LocalOK, Alone
    <2>3. ~Strikes(w, k) /\ ~Strikes(w, k)' /\ (Uses(w, k)' => Uses(w, k))
      BY <1>1, <2>2 DEF Strikes, Uses, Ranked
    <2> QED
      BY <1>1, <2>2, <2>3, HealthPasses
  <1> QED
    BY <1>2, <1>3

LEMMA HealthLine ==
  ASSUME Placed, NEW w \in Workers, Join(w) \/ WaitServed(w) \/ LeaveLine(w), NEW k \in Keys
  PROVE  HealthMoves(k)
  <1>1. pc[w] \in Ranked /\ UNCHANGED health
    BY DEF Join, WaitServed, LeaveLine, Go, Ranked
  <1>2. CASE Join(w) \/ WaitServed(w) \/ (LeaveLine(w) /\ pc[w] = "waiting")
    <2>1. /\ \E to \in {"waiting", "served", "rejected"} : pc' = [pc EXCEPT ![w] = to]
          /\ UNCHANGED cands
          /\ UNCHANGED key \/ \E j : key' = [key EXCEPT ![w] = j]
      BY <1>2 DEF Join, WaitServed, LeaveLine, Go, Goto, choice
    <2>2. Alone(w) /\ pc'[w] \in {"waiting", "served", "rejected"} /\ cands'[w] = cands[w]
      BY <2>1 DEF Placed, LocalOK, Alone
    <2>3. ~Strikes(w, k) /\ ~Strikes(w, k)' /\ (Uses(w, k)' => Uses(w, k))
      BY <1>1, <2>2 DEF Strikes, Uses, Ranked
    <2> QED
      BY <1>1, <2>2, <2>3, HealthPasses
  <1>3. CASE LeaveLine(w) /\ pc[w] = "served"
    <2>1. pc' = [pc EXCEPT ![w] = "pin"] /\ UNCHANGED key /\ cands' = [cands EXCEPT ![w] = <<>>]
      BY <1>3 DEF LeaveLine, Go, Goto, Forget
    <2>2. Alone(w) /\ pc'[w] = "pin" /\ key'[w] = key[w]
      BY <2>1 DEF Placed, LocalOK, Alone
    <2>3. key[w] \in ToSet(cands[w])
      <3>1. cands[w] \in Seq(Keys) /\ Len(cands[w]) >= 1 /\ key[w] = cands[w][1]
        BY <1>3 DEF Placed, LocalOK, CandsKnown, Ranked
      <3> QED
        BY <3>1 DEF ToSet
    <2>4. ~Strikes(w, k) /\ ~Strikes(w, k)' /\ (Uses(w, k)' => Uses(w, k))
      BY <1>1, <2>2, <2>3 DEF Strikes, Uses, Ranked
    <2> QED
      BY <1>1, <2>2, <2>4, HealthPasses
  <1> QED
    BY <1>2, <1>3 DEF LeaveLine, Go

LEMMA HealthAdmission ==
  ASSUME Placed, PinsOK, NEW w \in Workers, Admission(w), NEW k \in Keys
  PROVE  HealthMoves(k)
  <1>1. CASE PinAdmitted(w)
    <2>1. Alone(w) /\ pc[w] = "pin" /\ pc'[w] = "upstream" /\ UNCHANGED <<key, health>>
      BY <1>1 DEF PinAdmitted, Go, Goto, choice, Placed, LocalOK, Alone
    <2>2. ~Strikes(w, k) /\ ~Strikes(w, k)' /\ (Uses(w, k)' => Uses(w, k))
      BY <2>1 DEF Strikes, Uses, Ranked
    <2> QED
      BY <2>1, <2>2, HealthPasses
  <1> QED
    BY <1>1, HealthLookup, HealthTakePinned, HealthAdmit, HealthScan, HealthLine DEF Admission

(***************************************************************************)
(* The verdicts.  The key of the attempt takes the verdict, and any other  *)
(* key is not touched.                                                     *)
(***************************************************************************)
LEMMA VerdictIs ==
  ASSUME Placed, HealthOK, NEW w \in Workers, NEW to, NEW h, Verdict(w, to, h)
  PROVE  /\ Alone(w) /\ pc[w] = "upstream" /\ pc'[w] = to /\ key[w] \in Keys /\ key'[w] = key[w]
         /\ \A k \in Keys : health'[k] = IF k = key[w] THEN h ELSE health[k]
  BY DEF Verdict, Go, Goto, choice, Placed, LocalOK, KeysKnown, HealthOK, Alone, Owning

LEMMA VerdictElsewhere ==
  ASSUME Placed, HealthOK, NEW w \in Workers, NEW to, NEW h, Verdict(w, to, h), to \notin Ranked \cup {"pinned"},
         NEW k \in Keys, k # key[w]
  PROVE  HealthMoves(k)
  <1>1. Alone(w) /\ pc[w] = "upstream" /\ pc'[w] = to /\ key'[w] = key[w] /\ health'[k] = health[k]
    BY VerdictIs
  <1>2. ~Strikes(w, k) /\ ~Strikes(w, k)' /\ (Uses(w, k)' => Uses(w, k))
    BY <1>1 DEF Strikes, Uses, Ranked
  <1> QED
    BY <1>1, <1>2, HealthPasses

(* At the key itself: from its use to mark_strike or away. *)
LEMMA VerdictHere ==
  ASSUME Placed, HealthOK, NEW w \in Workers, NEW to \in {"repin", "done", "failed", "cooling"}, NEW h,
         Verdict(w, to, h), NEW k \in Keys, k = key[w]
  PROVE  /\ HealthOf(k)!Go(w, "inflight", IF to = "cooling" THEN "cooling" ELSE "away")
         /\ health'[k] = h
  <1>1. Alone(w) /\ pc[w] = "upstream" /\ pc'[w] = to /\ key'[w] = k /\ health'[k] = h
    BY VerdictIs
  <1>2. Uses(w, k) /\ ~Uses(w, k)' /\ (Strikes(w, k)' <=> to = "cooling")
    BY <1>1 DEF Strikes, Uses, Ranked
  <1>3. PlacesAt(k)[w] = "inflight" /\ PlacesAt(k)'[w] = IF to = "cooling" THEN "cooling" ELSE "away"
    BY <1>1, <1>2, PlaceIs
  <1> QED
    BY <1>1, <1>3, HealthGo

LEMMA HealthAnswer ==
  ASSUME Placed, HealthOK, NEW w \in Workers, Answer(w), NEW k \in Keys
  PROVE  HealthMoves(k)
  <1> SUFFICES ASSUME k = key[w] PROVE HealthMoves(k)
    <2>1. PICK to \in {"repin", "done", "failed", "cooling"} : \E h : Verdict(w, to, h)
      BY DEF Answer, SettleOk, SettleError, MarkDead, MarkCooldown, MarkStrike, NetworkError
    <2>2. to \notin Ranked \cup {"pinned"}
      BY DEF Ranked
    <2> QED
      BY <2>1, <2>2, VerdictElsewhere
  <1>1. CASE SettleOk(w)
    <2>1. PICK to \in {"repin", "done"} : Verdict(w, to, Settled(health[k]))
      BY <1>1 DEF SettleOk
    <2>2. HealthOf(k)!SettleOk(w)
      BY <2>1, VerdictHere, SameHealth DEF HealthOf!SettleOk
    <2> QED
      BY <2>2 DEF HealthMoves, HealthOf!Next, HealthOf!Verdict
  <1>2. CASE SettleError(w) \/ NetworkError(w)
    <2>1. PICK to \in {"done", "failed"} : Verdict(w, to, health[k])
      BY <1>2 DEF SettleError, NetworkError
    <2>2. HealthOf(k)!NoVerdict(w)
      BY <2>1, VerdictHere DEF HealthOf!NoVerdict
    <2> QED
      BY <2>2 DEF HealthMoves, HealthOf!Next, HealthOf!Verdict
  <1>3. CASE MarkDead(w)
    <2>1. Verdict(w, "failed", Killed(health[k]))
      BY <1>3 DEF MarkDead
    <2>2. HealthOf(k)!MarkDead(w)
      BY <2>1, VerdictHere, SameHealth DEF HealthOf!MarkDead
    <2> QED
      BY <2>2 DEF HealthMoves, HealthOf!Next, HealthOf!Verdict
  <1>4. CASE MarkCooldown(w)
    <2>1. Verdict(w, "failed", Cooled(health[k], CooldownOf(NoRetryAfter)))
      BY <1>4 DEF MarkCooldown
    <2>2. HealthOf(k)!MarkCooldown(w)
      BY <2>1, VerdictHere, SameHealth DEF HealthOf!MarkCooldown
    <2> QED
      BY <2>2 DEF HealthMoves, HealthOf!Next, HealthOf!Verdict
  <1>5. CASE MarkStrike(w)
    <2> DEFINE h  == Struck(health[k])
               to == IF h.strikes >= StrikesToCool THEN "cooling" ELSE "failed"
    <2>1. Verdict(w, to, h)
      BY <1>5 DEF MarkStrike
    <2>2. /\ HealthOf(k)!Go(w, "inflight", IF to = "cooling" THEN "cooling" ELSE "away")
          /\ health'[k] = h
      BY <2>1, VerdictHere
    <2>3. (IF to = "cooling" THEN "cooling" ELSE "away")
            = IF health'[k].strikes >= StrikesToCool THEN "cooling" ELSE "away"
      BY <2>2
    <2>4. HealthOf(k)!MarkStrike(w)
      BY <2>2, <2>3, SameHealth DEF HealthOf!MarkStrike
    <2> QED
      BY <2>4 DEF HealthMoves, HealthOf!Next, HealthOf!Verdict
  <1> QED
    BY <1>1, <1>2, <1>3, <1>4, <1>5 DEF Answer

(* The second and the third part of mark_strike. *)
LEMMA HealthStrikeEnds ==
  ASSUME Placed, HealthOK, NEW w \in Workers, StrikeCools(w) \/ StrikeClears(w), NEW k \in Keys
  PROVE  HealthMoves(k)
  <1>1. /\ Alone(w) /\ key'[w] = key[w]
        /\ \/ pc[w] = "cooling" /\ pc'[w] = "clearing"
           \/ pc[w] = "clearing" /\ pc'[w] = "failed"
    BY DEF StrikeCools, StrikeClears, Go, Goto, choice, Placed, LocalOK, Alone
  <1>2. key[w] \in Keys
    BY <1>1 DEF Placed, KeysKnown, Owning
  <1>3. CASE k # key[w]
    <2>1. health'[k] = health[k]
      BY <1>2, <1>3 DEF StrikeCools, StrikeClears, HealthOK
    <2>2. ~Strikes(w, k) /\ ~Strikes(w, k)' /\ (Uses(w, k)' => Uses(w, k))
      BY <1>1, <1>3 DEF Strikes, Uses, Ranked
    <2> QED
      BY <1>1, <2>1, <2>2, HealthPasses
  <1>4. CASE k = key[w] /\ StrikeCools(w)
    <2>1. pc[w] = "cooling" /\ pc'[w] = "clearing" /\ health'[k] = Cooled(health[k], Cooldown429)
      BY <1>1, <1>4 DEF StrikeCools, Go, HealthOK
    <2>2. Strikes(w, k) /\ Strikes(w, k)'
      BY <1>1, <1>4, <2>1 DEF Strikes
    <2>3. HealthOf(k)!Go(w, "cooling", "clearing")
      BY <1>1, <2>1, <2>2, PlaceIs, HealthGo
    <2>4. HealthOf(k)!StrikeCools(w)
      BY <2>1, <2>3, SameHealth DEF HealthOf!StrikeCools
    <2> QED
      BY <2>4 DEF HealthMoves, HealthOf!Next
  <1>5. CASE k = key[w] /\ StrikeClears(w)
    <2>1. pc[w] = "clearing" /\ pc'[w] = "failed" /\ health'[k] = Unstruck(health[k])
      BY <1>1, <1>5 DEF StrikeClears, Go, HealthOK
    <2>2. Strikes(w, k) /\ ~Strikes(w, k)' /\ ~Uses(w, k)'
      BY <1>1, <1>5, <2>1, NotAKey DEF Strikes, Ranked
    <2>3. HealthOf(k)!Go(w, "clearing", "away")
      BY <1>1, <2>1, <2>2, PlaceIs, HealthGo
    <2>4. HealthOf(k)!StrikeClears(w)
      BY <2>1, <2>3, SameHealth DEF HealthOf!StrikeClears
    <2> QED
      BY <2>4 DEF HealthMoves, HealthOf!Next
  <1> QED
    BY <1>3, <1>4, <1>5

LEMMA HealthEnding ==
  ASSUME Placed, HealthOK, NEW w \in Workers, Ending(w), NEW k \in Keys
  PROVE  HealthMoves(k)
  <1>1. CASE Repin(w) \/ Fail(w) \/ Drop(w) \/ Finish(w)
    <2>1. /\ UNCHANGED health
          /\ pc[w] \in {"repin", "failed", "drop", "done", "rejected"}
          /\ \E to \in {"done", "drop", "admit", "idle"} : pc' = [pc EXCEPT ![w] = to]
          /\ UNCHANGED key \/ key' = [key EXCEPT ![w] = NoKey]
          /\ UNCHANGED cands \/ cands' = [cands EXCEPT ![w] = <<>>]
      BY <1>1 DEF Repin, Fail, Drop, Finish, Go, Goto, Forget, choice
    <2>2. Alone(w) /\ pc'[w] \in {"done", "drop", "admit", "idle"}
      BY <2>1 DEF Placed, LocalOK, Alone
    <2>3. ~Strikes(w, k) /\ ~Strikes(w, k)' /\ ~Uses(w, k)'
      BY <2>1, <2>2, NotAKey DEF Ranked
    <2> QED
      BY <2>1, <2>2, <2>3, HealthPasses
  <1> QED
    BY <1>1, HealthStrikeEnds DEF Ending

(* Steps of nobody: time, and the mask of the usage tracker. *)
LEMMA HealthSurroundings ==
  ASSUME UNCHANGED local, NEW k \in Keys, UNCHANGED health \/ Tick
  PROVE  HealthMoves(k)
  <1>1. PlacesAt(k)' = PlacesAt(k)
    BY DEF local, PlacesAt
  <1>2. CASE UNCHANGED health
    BY <1>1, <1>2 DEF HealthMoves, HealthOf!vars
  <1>3. CASE Tick
    <2>1. health'[k] = Elapsed(health[k])
      BY <1>3 DEF Tick
    <2>2. HealthOf(k)!Tick
      BY <1>1, <2>1, SameHealth DEF HealthOf!Tick
    <2> QED
      BY <2>2 DEF HealthMoves, HealthOf!Next
  <1> QED
    BY <1>2, <1>3

LEMMA HealthInit == Init => \A k \in Keys : HealthOf(k)!Init
  <1> SUFFICES ASSUME Init, NEW k \in Keys
               PROVE  health[k] = Fresh /\ PlacesAt(k) = [w \in Workers |-> "away"]
    BY SameHealth DEF HealthOf!Init
  <1>1. \A w \in Workers : PlacesAt(k)[w] = "away"
    BY PlaceIs, NotAKey DEF Init, Ranked
  <1>2. PlacesAt(k) = [w \in Workers |-> PlacesAt(k)[w]]
    BY DEF PlacesAt
  <1>3. health[k] = Fresh
    BY DEF Init
  <1> HIDE DEF PlacesAt
  <1> QED
    BY <1>1, <1>2, <1>3

LEMMA HealthNext == IInv /\ [Next]_vars => \A k \in Keys : HealthMoves(k)
  <1> SUFFICES ASSUME IInv, [Next]_vars, NEW k \in Keys PROVE HealthMoves(k)
    OBVIOUS
  <1>1. CASE UNCHANGED vars \/ PublishUsage \/ Tick
    <2>1. UNCHANGED local /\ (UNCHANGED health \/ Tick)
      BY <1>1 DEF vars, pool, PublishUsage, Tick
    <2> QED
      BY <2>1, HealthSurroundings
  <1>2. ASSUME NEW w \in Workers, Arrival(w) \/ Admission(w) \/ Answer(w) \/ Ending(w) \/ AnswerNoAuth(w)
        PROVE  HealthMoves(k)
    BY <1>2, HealthArrival, HealthAdmission, HealthAnswer, HealthEnding DEF IInv
  <1> QED
    BY <1>1, <1>2 DEF Next

(***************************************************************************)
(* The health of every key is led as KeyHealth says (admit, admit_affine,  *)
(* settle, mark_dead, mark_cooldown, mark_strike), whatever the requests   *)
(* do with the others.                                                     *)
(***************************************************************************)
THEOREM HealthsImplemented == Spec => EachKeyAsKeyHealth
  <1>1. IInv /\ [Next]_vars => [\A k \in Keys : HealthMoves(k)]_vars
    BY HealthNext
  <1> QED
    BY <1>1, HealthInit, IInvAlways, PTL DEF Spec, EachKeyAsKeyHealth, HealthMoves

(***************************************************************************)
(* The same, key by key: with a refinement mapping for each key, the proxy *)
(* implements the safety part of Semaphore and of KeyHealth.               *)
(***************************************************************************)
THEOREM EachKeySafe ==
  ASSUME NEW k \in Keys
  PROVE  Spec => SlotsOf(k)!Safe /\ HealthOf(k)!Safe
  <1>1. Init => SlotsOf(k)!Init /\ HealthOf(k)!Init
    BY SemaphoreInit, HealthInit
  <1>2. IInv /\ [Next]_vars => /\ [SlotsOf(k)!Next]_(SlotsOf(k)!semaphore)
                               /\ [HealthOf(k)!Next]_(HealthOf(k)!vars)
    BY SemaphoreNext, HealthNext DEF SemaphoreMoves, HealthMoves
  <1> QED
    BY <1>1, <1>2, IInvAlways, PTL DEF Spec, SlotsOf!Safe, HealthOf!Safe
=============================================================================

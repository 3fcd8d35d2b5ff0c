-------------------------- MODULE KeyHealth_proofs --------------------------
(***************************************************************************)
(* Proofs about KeyHealth for every finite set of requests, every length   *)
(* of the cooldowns and every number of strikes: type correctness, the     *)
(* deadline of a cooldown, the bound on the strikes, what is left of "dead *)
(* until restart", and that a cooldown is not cut short.  They need no     *)
(* fairness: they hold of Safe, hence of Spec, and of each key of Proxy,   *)
(* which implements Safe (EachKeySafe in Proxy_proofs).                    *)
(***************************************************************************)
EXTENDS KeyHealth, FiniteSetTheorems, TLAPS

Pending == {"cooling", "clearing"}

IInv == TypeOK /\ StrikesBounded
-----------------------------------------------------------------------------
(* A cooldown asked for by a 429 is a length of time. *)
LEMMA CooldownIsNat == \A ra \in RetryAfters : CooldownOf(ra) \in Nat
  BY RetryAftersAssumption, Cooldown429Assumption, RetryAfterCapAssumption
  DEF CooldownOf, NoRetryAfter

(* The requests in any set of places are finitely many. *)
LEMMA AtFinite ==
  ASSUME NEW P
  PROVE  IsFiniteSet(At(P)) /\ Cardinality(At(P)) \in Nat
  <1>1. At(P) \subseteq Requests
    BY DEF At
  <1> QED
    BY <1>1, RequestsAssumption, FS_Subset, FS_CardinalityType

(* How much a move from one place to another changes the population of P. *)
Delta(from, to, P) == (IF to \in P THEN 1 ELSE 0) - (IF from \in P THEN 1 ELSE 0)

(* A step of one request changes every population by Delta. *)
LEMMA GoMoves ==
  ASSUME Typed, NEW r \in Requests, NEW from, NEW to, Go(r, from, to), NEW P
  PROVE  /\ Cardinality(At(P)') = Cardinality(At(P)) + Delta(from, to, P)
         /\ Cardinality(At(P)) \in Nat
         /\ Delta(from, to, P) \in Int
  <1>1. pc[r] = from /\ \A q \in Requests : pc'[q] = IF q = r THEN to ELSE pc[q]
    BY DEF Typed, Go
  <1>2. At(P)' = {q \in Requests : pc'[q] \in P} /\ At(P) = {q \in Requests : pc[q] \in P}
    BY DEF At
  <1>3. CASE from \in P <=> to \in P
    <2>1. At(P)' = At(P)
      BY <1>1, <1>2, <1>3
    <2> QED
      BY <1>3, <2>1, AtFinite DEF Delta
  <1>4. CASE from \in P /\ to \notin P
    <2>1. At(P)' = At(P) \ {r} /\ r \in At(P)
      BY <1>1, <1>2, <1>4
    <2>2. Cardinality(At(P)') = Cardinality(At(P)) - 1
      BY <2>1, AtFinite, FS_RemoveElement
    <2> QED
      BY <1>4, <2>2, AtFinite DEF Delta
  <1>5. CASE from \notin P /\ to \in P
    <2>1. At(P)' = At(P) \cup {r} /\ r \notin At(P)
      BY <1>1, <1>2, <1>5
    <2>2. Cardinality(At(P)') = Cardinality(At(P)) + 1
      BY <2>1, AtFinite, FS_AddElement
    <2> QED
      BY <1>5, <2>2, AtFinite DEF Delta
  <1> QED
    BY <1>3, <1>4, <1>5

(* The key starts fresh. *)
LEMMA InitIInv == Init => IInv
  <1> SUFFICES ASSUME Init PROVE IInv
    OBVIOUS
  <1>1. At(Pending) = {}
    BY DEF Init, At, Pending
  <1>2. Cardinality(At(Pending)) = 0
    BY <1>1, FS_EmptySet
  <1>3. health.strikes = 0 /\ StrikesToCool - 1 >= 0
    BY StrikesAssumption DEF Init, Fresh
  <1>4. StrikesBounded
    BY <1>2, <1>3, StrikesAssumption DEF StrikesBounded, Pending
  <1> QED
    BY <1>4 DEF Init, IInv, TypeOK, Typed, DeadlineWhileCooling, HealthRecord, Fresh, NoDeadline, Places

(* What the critical sections do to a well-formed record. *)
LEMMA RecordSteps ==
  ASSUME NEW h \in HealthRecord, NEW d \in Nat
  PROVE  /\ Observed(h) \in HealthRecord /\ Elapsed(h) \in HealthRecord
         /\ Killed(h) \in HealthRecord /\ Settled(h) \in HealthRecord
         /\ Cooled(h, d) \in HealthRecord
         /\ Struck(h) \in HealthRecord /\ Unstruck(h) \in HealthRecord
  <1>1. Killed(h) \in HealthRecord /\ Settled(h) \in HealthRecord
    BY DEF HealthRecord, Killed, Settled
  <1>2. Observed(h) \in HealthRecord
    BY DEF HealthRecord, Observed
  <1>3. Elapsed(h) \in HealthRecord
    <2>1. (IF h.left > 0 THEN h.left - 1 ELSE h.left) \in Nat \cup {NoDeadline}
      BY DEF HealthRecord, NoDeadline
    <2> QED
      BY <2>1 DEF HealthRecord, Elapsed
  <1>4. Cooled(h, d) \in HealthRecord
    BY DEF HealthRecord, Cooled
  <1>5. Struck(h) \in HealthRecord /\ Unstruck(h) \in HealthRecord
    BY DEF HealthRecord, Struck, Unstruck
  <1> QED
    BY <1>1, <1>2, <1>3, <1>4, <1>5

(* Type correctness and the deadline are kept by every step. *)
LEMMA RecordStep ==
  ASSUME Typed, DeadlineWhileCooling, [Next]_vars
  PROVE  Typed' /\ DeadlineWhileCooling'
  <1> USE DEF Typed, DeadlineWhileCooling
  <1>1. CASE UNCHANGED vars
    BY <1>1 DEF vars
  <1>2. CASE Look \/ Tick
    <2>1. Typed'
      BY <1>2, RecordSteps DEF Look, Tick
    <2>2. CASE Look
      <3>1. health' = health \/ (health'.left = NoDeadline /\ health'.state = "up")
        BY <2>2 DEF Look, Observed, HealthRecord
      <3> QED
        BY <2>1, <3>1
    <2>3. CASE Tick
      <3>1. /\ health'.state = health.state
            /\ health'.left = IF health.left > 0 THEN health.left - 1 ELSE health.left
        BY <2>3 DEF Tick, Elapsed, HealthRecord
      <3>2. health'.left = NoDeadline <=> health.left = NoDeadline
        BY <3>1 DEF HealthRecord, NoDeadline
      <3> QED
        BY <2>1, <3>1, <3>2
    <2> QED
      BY <1>2, <2>1, <2>2, <2>3
  <1>3. ASSUME NEW r \in Requests,
               Admitted(r) \/ Verdict(r) \/ StrikeCools(r) \/ StrikeClears(r)
        PROVE  Typed' /\ DeadlineWhileCooling'
    <2>1. Cooldown429 \in Nat /\ \A ra \in RetryAfters : CooldownOf(ra) \in Nat
      BY CooldownIsNat, Cooldown429Assumption
    <2>2. CASE Admitted(r)
      <3>1. Typed'
        BY <2>2, RecordSteps DEF Admitted, Go, Places
      <3>2. DeadlineWhileCooling'
        BY <2>2 DEF Admitted, Observed, HealthRecord, NoDeadline
      <3> QED
        BY <3>1, <3>2
    <2>3. CASE SettleOk(r) \/ NoVerdict(r) \/ MarkDead(r)
      <3>1. Typed'
        BY <2>3, RecordSteps DEF SettleOk, NoVerdict, MarkDead, Go, Places
      <3>2. DeadlineWhileCooling'
        BY <2>3 DEF SettleOk, NoVerdict, MarkDead, Settled, Killed
      <3> QED
        BY <3>1, <3>2
    <2>4. CASE MarkCooldown(r)
      <3>1. PICK d \in Nat : health' = Cooled(health, d)
        BY <2>1, <2>4 DEF MarkCooldown
      <3>2. Typed'
        BY <2>4, <3>1, RecordSteps DEF MarkCooldown, Go, Places
      <3>3. DeadlineWhileCooling'
        BY <3>1 DEF Cooled, HealthRecord, NoDeadline
      <3> QED
        BY <3>2, <3>3
    <2>5. CASE MarkStrike(r)
      <3>1. Typed'
        BY <2>5, RecordSteps DEF MarkStrike, Go, Places
      <3>2. DeadlineWhileCooling'
        BY <2>5 DEF MarkStrike, Struck, HealthRecord
      <3> QED
        BY <3>1, <3>2
    <2>6. CASE StrikeCools(r)
      <3>1. Typed'
        BY <2>1, <2>6, RecordSteps DEF StrikeCools, Go, Places
      <3>2. DeadlineWhileCooling'
        BY <2>1, <2>6 DEF StrikeCools, Cooled, HealthRecord, NoDeadline
      <3> QED
        BY <3>1, <3>2
    <2>7. CASE StrikeClears(r)
      <3>1. Typed'
        BY <2>7, RecordSteps DEF StrikeClears, Go, Places
      <3>2. DeadlineWhileCooling'
        BY <2>7 DEF StrikeClears, Unstruck, HealthRecord
      <3> QED
        BY <3>1, <3>2
    <2> QED
      BY <1>3, <2>2, <2>3, <2>4, <2>5, <2>6, <2>7 DEF Verdict
  <1> QED
    BY <1>1, <1>2, <1>3 DEF Next

(* The bound on the strikes is kept by every step. *)
LEMMA StrikesStep ==
  ASSUME IInv, [Next]_vars
  PROVE  StrikesBounded'
  <1> DEFINE pending == Cardinality(At(Pending))
  <1>1. /\ Typed /\ health.strikes \in Nat /\ health \in HealthRecord
        /\ health.strikes <= (StrikesToCool - 1) + pending
        /\ StrikesToCool \in Nat /\ StrikesToCool >= 1
    BY StrikesAssumption DEF IInv, TypeOK, Typed, HealthRecord, StrikesBounded, Pending
  <1>2. SUFFICES health'.strikes <= (StrikesToCool - 1) + pending'
    BY DEF StrikesBounded, Pending
  <1>3. CASE health'.strikes = health.strikes /\ pending' = pending
    BY <1>1, <1>3
  <1>4. CASE UNCHANGED vars
    BY <1>3, <1>4 DEF vars, At
  <1>5. CASE Look \/ Tick
    <2>1. health'.strikes = health.strikes
      BY <1>1, <1>5 DEF Look, Tick, Observed, Elapsed, HealthRecord
    <2>2. pending' = pending
      BY <1>5 DEF Look, Tick, At
    <2> QED
      BY <1>3, <2>1, <2>2
  <1>6. ASSUME NEW r \in Requests,
               Admitted(r) \/ Verdict(r) \/ StrikeCools(r) \/ StrikeClears(r)
        PROVE  health'.strikes <= (StrikesToCool - 1) + pending'
    <2>1. ASSUME NEW from, NEW to, Go(r, from, to)
          PROVE  pending' = pending + Delta(from, to, Pending) /\ pending \in Nat
      BY <1>1, <2>1, GoMoves
    <2>2. CASE Admitted(r)
      <3>1. Go(r, "away", "inflight")
        BY <2>2 DEF Admitted
      <3>2. pending' = pending
        BY <2>1, <3>1 DEF Delta, Pending
      <3>3. health'.strikes = health.strikes
        BY <1>1, <2>2 DEF Admitted, Observed, HealthRecord
      <3> QED
        BY <1>3, <3>2, <3>3
    <2>3. CASE NoVerdict(r) \/ MarkCooldown(r)
      <3>1. Go(r, "inflight", "away")
        BY <2>3 DEF NoVerdict, MarkCooldown
      <3>2. pending' = pending
        BY <2>1, <3>1 DEF Delta, Pending
      <3>3. health'.strikes = health.strikes
        BY <1>1, <2>3 DEF NoVerdict, MarkCooldown, Cooled, HealthRecord
      <3> QED
        BY <1>3, <3>2, <3>3
    <2>4. CASE SettleOk(r) \/ MarkDead(r)
      <3>1. Go(r, "inflight", "away") /\ health'.strikes = 0
        BY <2>4 DEF SettleOk, MarkDead, Settled, Killed
      <3>2. pending' = pending /\ pending \in Nat
        BY <2>1, <3>1 DEF Delta, Pending
      <3> QED
        BY <1>1, <3>1, <3>2
    <2>5. CASE MarkStrike(r)
      <3>1. health'.strikes = health.strikes + 1
        BY <1>1, <2>5 DEF MarkStrike, Struck, HealthRecord
      <3>2. CASE health'.strikes >= StrikesToCool
        <4>1. Go(r, "inflight", "cooling")
          BY <2>5, <3>2 DEF MarkStrike
        <4>2. pending' = pending + 1 /\ pending \in Nat
          BY <2>1, <4>1 DEF Delta, Pending
        <4> QED
          BY <1>1, <3>1, <4>2
      <3>3. CASE ~(health'.strikes >= StrikesToCool)
        <4>1. Go(r, "inflight", "away")
          BY <2>5, <3>3 DEF MarkStrike
        <4>2. pending' = pending /\ pending \in Nat
          BY <2>1, <4>1 DEF Delta, Pending
        <4> QED
          BY <1>1, <3>1, <3>3, <4>2
      <3> QED
        BY <3>2, <3>3
    <2>6. CASE StrikeCools(r)
      <3>1. Go(r, "cooling", "clearing")
        BY <2>6 DEF StrikeCools
      <3>2. pending' = pending
        BY <2>1, <3>1 DEF Delta, Pending
      <3>3. health'.strikes = health.strikes
        BY <1>1, <2>6 DEF StrikeCools, Cooled, HealthRecord
      <3> QED
        BY <1>3, <3>2, <3>3
    <2>7. CASE StrikeClears(r)
      <3>1. Go(r, "clearing", "away")
        BY <2>7 DEF StrikeClears
      <3>2. pending' = pending - 1 /\ pending \in Nat
        BY <2>1, <3>1 DEF Delta, Pending
      <3>3. pending >= 1
        <4>1. r \in At(Pending)
          BY <2>7 DEF StrikeClears, Go, Pending, At
        <4>2. pending # 0
          BY <4>1, AtFinite, FS_EmptySet
        <4> QED
          BY <3>2, <4>2
      <3>4. health'.strikes = 0
        BY <1>1, <2>7 DEF StrikeClears, Unstruck, HealthRecord
      <3> QED
        BY <1>1, <3>2, <3>3, <3>4
    <2> QED
      BY <1>6, <2>2, <2>3, <2>4, <2>5, <2>6, <2>7 DEF Verdict
  <1> QED
    BY <1>4, <1>5, <1>6 DEF Next

(* The invariant is inductive. *)
LEMMA NextIInv == IInv /\ [Next]_vars => IInv'
  BY RecordStep, StrikesStep DEF IInv, TypeOK

(***************************************************************************)
(* Every variable keeps its type in every run, and a key has a deadline    *)
(* exactly while it cools down, in any order of verdicts.                  *)
(***************************************************************************)
THEOREM TypeCorrect == Safe => []TypeOK
  <1>1. IInv => TypeOK
    BY DEF IInv
  <1> QED
    BY <1>1, InitIInv, NextIInv, PTL DEF Safe

(***************************************************************************)
(* Strikes reach the limit only while a request that will cool the key or  *)
(* reset the count is inside mark_strike, for any number of requests.      *)
(***************************************************************************)
THEOREM StrikesCorrect == Safe => []StrikesBounded
  <1>1. IInv => StrikesBounded
    BY DEF IInv
  <1> QED
    BY <1>1, InitIInv, NextIInv, PTL DEF Safe

(***************************************************************************)
(* With no verdict on its way, a dead key stays dead and admits nobody.    *)
(***************************************************************************)
THEOREM DeadCorrect == Safe => DeadWhenQuiet
  <1> DEFINE Quiet == health.state = "dead" /\ At({"inflight", "cooling"}) = {}
             Still == health'.state = "dead" /\ At({"inflight"})' = {}
  <1>1. TypeOK /\ [Next]_vars => [Quiet => Still]_vars
    <2> SUFFICES ASSUME TypeOK, Next, Quiet PROVE Still
      OBVIOUS
    <2>1. \A r \in Requests : pc[r] # "inflight" /\ pc[r] # "cooling"
      BY DEF At
    <2>2. health \in HealthRecord
      BY DEF TypeOK, Typed
    <2>3. CASE Look \/ Tick
      BY <2>1, <2>2, <2>3 DEF Look, Tick, Observed, Elapsed, At, HealthRecord
    <2>4. ASSUME NEW r \in Requests,
                 Admitted(r) \/ Verdict(r) \/ StrikeCools(r) \/ StrikeClears(r)
          PROVE  Still
      <3>1. ~Admitted(r)
        BY DEF Admitted, IsUp, Observed
      <3>2. ~Verdict(r)
        BY <2>1 DEF Verdict, SettleOk, NoVerdict, MarkDead, MarkCooldown, MarkStrike, Go
      <3>3. ~StrikeCools(r)
        BY <2>1 DEF StrikeCools, Go
      <3>4. StrikeClears(r)
        BY <2>4, <3>1, <3>2, <3>3
      <3>5. health'.state = "dead"
        BY <2>2, <3>4 DEF StrikeClears, Unstruck, HealthRecord
      <3>6. At({"inflight"})' = {}
        BY <2>1, <3>4 DEF StrikeClears, Go, At, TypeOK, Typed
      <3> QED
        BY <3>5, <3>6
    <2> QED
      BY <2>3, <2>4 DEF Next
  <1> QED
    BY <1>1, TypeCorrect, PTL DEF Safe, DeadWhenQuiet

(***************************************************************************)
(* A cooldown with time left ends only by the verdict of a request that    *)
(* used the key, a success or a death, and then without strikes.           *)
(***************************************************************************)
THEOREM CooldownCorrect == Safe => CooldownHolds
  <1> DEFINE Early  == /\ health.state = "cooldown" /\ health.left > 0
                       /\ health'.state # "cooldown"
             Judged == At({"inflight"})' # At({"inflight"}) /\ health'.strikes = 0
  <1>1. TypeOK /\ [Next]_vars => [Early => Judged]_vars
    <2> SUFFICES ASSUME TypeOK, Next, Early PROVE Judged
      OBVIOUS
    <2>1. health \in HealthRecord
      BY DEF TypeOK, Typed
    <2>2. Observed(health) = health
      <3>1. ~(health.left <= 0)
        BY <2>1 DEF HealthRecord, NoDeadline
      <3> QED
        BY <3>1 DEF Observed
    <2>3. ~Look /\ ~Tick
      BY <2>1, <2>2 DEF Look, Tick, Elapsed, HealthRecord
    <2>4. ASSUME NEW r \in Requests,
                 Admitted(r) \/ Verdict(r) \/ StrikeCools(r) \/ StrikeClears(r)
          PROVE  Judged
      <3>1. ~Admitted(r)
        BY <2>2 DEF Admitted, IsUp
      <3>2. ~StrikeCools(r) /\ ~StrikeClears(r)
        BY <2>1 DEF StrikeCools, StrikeClears, Cooled, Unstruck, HealthRecord
      <3>3. ~NoVerdict(r) /\ ~MarkCooldown(r) /\ ~MarkStrike(r)
        <4>1. \A d : Cooled(health, d).state = "cooldown"
          BY <2>1 DEF Cooled, HealthRecord
        <4>2. Struck(health).state = health.state
          BY <2>1 DEF Struck, HealthRecord
        <4> QED
          BY <4>1, <4>2 DEF NoVerdict, MarkCooldown, MarkStrike
      <3>4. SettleOk(r) \/ MarkDead(r)
        BY <2>4, <3>1, <3>2, <3>3 DEF Verdict
      <3>5. Go(r, "inflight", "away") /\ health'.strikes = 0
        BY <3>4 DEF SettleOk, MarkDead, Settled, Killed
      <3>6. r \in At({"inflight"}) /\ r \notin At({"inflight"})'
        BY <3>5 DEF Go, At, TypeOK, Typed
      <3> QED
        BY <3>5, <3>6
    <2> QED
      BY <2>3, <2>4 DEF Next
  <1> QED
    BY <1>1, TypeCorrect, PTL DEF Safe, CooldownHolds
=============================================================================

--------------------------- MODULE Refusal_proofs ---------------------------
(***************************************************************************)
(* Proofs about Refusal for any number of keys, any cooldowns and any      *)
(* length of a second: a key that is up all along is found, and the        *)
(* Retry-After of a refusal brackets the first recovery.                   *)
(***************************************************************************)
EXTENDS Refusal, TLAPS

(* A key has a deadline just while it cools down. *)
Record == {h \in HealthRecord : h.left # NoDeadline <=> h.state = "cooldown"}

Dead(h)         == h.state = "dead"
UpWithin(h, t)  == h.state = "up" \/ (h.state = "cooldown" /\ h.left <= t)
NotBefore(h, t) == h.state = "dead" \/ (h.state = "cooldown" /\ t <= h.left)

TypesOK ==
  /\ health \in [Keys -> Record]
  /\ pc \in {"idle", "refused"} \cup Looking /\ at \in Keys /\ up \subseteq Keys
  /\ soonest \in Nat \cup {NoDeadline}
  /\ refusal \in [status : {0, 403, 429}, retryAfter : Nat]
  /\ pc = "refused" => refusal.status # 0
  /\ steadyUp \subseteq Keys /\ calm \in BOOLEAN /\ wait \in Nat /\ upThen \subseteq Keys

(***************************************************************************)
(* A key that is up all along is ahead of the first look, and found by the *)
(* second.                                                                 *)
(***************************************************************************)
SteadyFound ==
  /\ \A k \in steadyUp : IsUp(health[k])
  /\ pc = "alldead" => \A k \in steadyUp : at <= k
  /\ pc = "candidates" => \A k \in steadyUp : k < at => k \in up
  /\ NoFalseRefusal

(* Without verdicts the keys that a look has passed as dead are dead. *)
DeadBehind == calm /\ pc \in {"alldead", "reread"} => \A k \in Keys : k < at => Dead(health[k])

(***************************************************************************)
(* next_retry_in: of the keys behind it none recovers before `soonest`,    *)
(* and some key is up by then.                                             *)
(***************************************************************************)
Passed(h) == h.state = "up" \/ Dead(h) \/ (soonest # NoDeadline /\ NotBefore(h, soonest))

SoonestRight ==
  /\ pc \in {"alldead", "candidates", "reread"} => soonest = NoDeadline
  /\ calm /\ pc = "retryin" =>
       /\ \E k \in Keys : ~Dead(health[k])
       /\ \A k \in Keys : k < at => Passed(health[k])
       /\ soonest # NoDeadline => \E k \in Keys : UpWithin(health[k], soonest)

(* The refusal: for good, or with a wait that brackets the first recovery. *)
RefusalRight ==
  pc = "refused" /\ calm =>
    IF refusal.status = 403 THEN \A k \in Keys : Dead(health[k])
    ELSE /\ \E k \in Keys : UpWithin(health[k], wait)
         /\ refusal.retryAfter > 1 /\ wait > Second =>
              \A k \in Keys \ upThen : NotBefore(health[k], wait - Second)

IInv == TypesOK /\ SteadyFound /\ DeadBehind /\ SoonestRight /\ RefusalRight
-----------------------------------------------------------------------------
(* The first and the last of the keys. *)
LEMMA KeysRange ==
  /\ 0 \in Keys /\ LastKey \in Keys
  /\ \A k \in Keys : k \in Int /\ 0 <= k /\ k <= LastKey /\ (k < LastKey => k + 1 \in Keys)
  BY RefusalAssumption DEF Keys, LastKey

LEMMA MaxOfTwo ==
  ASSUME NEW a \in Int, NEW b \in Int
  PROVE  Max({a, b}) = IF a < b THEN b ELSE a
  BY DEF Max

(* The Retry-After, in seconds: no longer than the deadline, if above one. *)
LEMMA RetryAfterBounds ==
  ASSUME NEW left \in Nat \cup {NoDeadline}
  PROVE  LET seconds == RetryAfterOf(left) IN
         /\ seconds \in Nat /\ (seconds + 1) * Second \in Nat
         /\ left # NoDeadline => /\ left <= (seconds + 1) * Second
                                 /\ seconds > 1 => (seconds + 1) * Second - Second <= left
  <1>1. CASE left = NoDeadline
    <2>1. RetryAfterOf(left) = 2
      BY <1>1 DEF RetryAfterOf
    <2> QED
      BY <1>1, <2>1, RefusalAssumption
  <1>2. CASE left # NoDeadline
    <2> DEFINE q == left \div Second
               s == RetryAfterOf(left)
    <2>1. left \in Nat /\ Second \in Nat /\ Second > 0
      BY <1>2, RefusalAssumption
    <2>2. q \in Nat /\ q * Second <= left /\ left < (q + 1) * Second
      BY <2>1
    <2>3. s = IF q < 1 THEN 1 ELSE q
      <3>1. s = Max({q, 1})
        BY <1>2 DEF RetryAfterOf
      <3> QED
        BY <2>2, <3>1, MaxOfTwo
    <2> HIDE DEF q, s
    <2>4. s \in Nat /\ s >= q
      BY <2>2, <2>3
    <2>5. (s + 1) * Second \in Nat /\ (q + 1) * Second \in Nat /\ (q + 1) * Second <= (s + 1) * Second
      BY <2>1, <2>2, <2>4
    <2>6. s > 1 => s = q /\ (s + 1) * Second - Second = q * Second
      BY <2>1, <2>2, <2>3
    <2> QED
      BY <1>2, <2>1, <2>2, <2>4, <2>5, <2>6 DEF s
  <1> QED
    BY <1>1, <1>2

(* A record by its parts. *)
LEMMA RecordIs ==
  /\ \A h \in Record : /\ h.state \in {"up", "cooldown", "dead"} /\ h.strikes \in Nat
                       /\ h.state = "cooldown" => h.left \in Nat
                       /\ h.state # "cooldown" => h.left = NoDeadline
  /\ \A s \in {"up", "dead"}, n \in Nat : [state |-> s, left |-> NoDeadline, strikes |-> n] \in Record
  /\ \A left \in Nat, n \in Nat : [state |-> "cooldown", left |-> left, strikes |-> n] \in Record
  BY DEF Record, HealthRecord, NoDeadline

(* What the critical sections make of a record. *)
LEMMA ObservedIs ==
  ASSUME NEW h \in Record
  PROVE  IF h.state = "cooldown" /\ h.left <= 0
         THEN Observed(h) \in Record /\ Observed(h).state = "up"
         ELSE Observed(h) = h
  <1>1. h \in HealthRecord
    BY DEF Record
  <1>2. CASE h.state = "cooldown" /\ h.left <= 0
    <2>1. Observed(h) = [h EXCEPT !.state = "up", !.left = NoDeadline]
      BY <1>2 DEF Observed
    <2>2. /\ Observed(h) \in HealthRecord
          /\ Observed(h).state = "up" /\ Observed(h).left = NoDeadline
      BY <1>1, <2>1 DEF HealthRecord
    <2> QED
      BY <1>2, <2>2 DEF Record
  <1> QED
    BY <1>2 DEF Observed

LEMMA ElapsedIs ==
  ASSUME NEW h \in Record
  PROVE  Elapsed(h) = [state |-> h.state, left |-> IF h.left > 0 THEN h.left - 1 ELSE h.left,
                       strikes |-> h.strikes]
  BY DEF Elapsed, Record, HealthRecord

LEMMA VerdictTypes ==
  ASSUME NEW h \in Record, NEW d \in Nat
  PROVE  Settled(h) \in Record /\ Killed(h) \in Record /\ Cooled(h, d) \in Record
  <1>1. Settled(h) \in Record /\ Killed(h) \in Record
    BY RecordIs DEF Settled, Killed
  <1>2. h \in HealthRecord
    BY DEF Record
  <1>3. Cooled(h, d) \in HealthRecord /\ Cooled(h, d).state = "cooldown" /\ Cooled(h, d).left = d
    BY <1>2 DEF Cooled, HealthRecord
  <1> QED
    BY <1>1, <1>3 DEF Record, NoDeadline

(* A look at a key ends a cooldown that is over, and changes nothing else. *)
LEMMA Looked ==
  ASSUME NEW h \in Record, NEW g \in {h, Observed(h)}
  PROVE  /\ g \in Record
         /\ Dead(g) <=> Dead(h)
         /\ IsUp(h) => IsUp(g)
         /\ h.state = "up" => g.state = "up"
         /\ \A t \in Nat : UpWithin(h, t) => UpWithin(g, t)
         /\ \A t \in Nat : NotBefore(h, t) => NotBefore(g, t) \/ (t = 0 /\ g.state = "up")
  <1>1. CASE h.state = "cooldown" /\ h.left <= 0
    <2> DEFINE o == Observed(h)
    <2>1. h.left = 0
      BY <1>1, RecordIs
    <2>2. o \in Record /\ o.state = "up"
      BY <1>1, ObservedIs
    <2>3. IsUp(o)
      BY <2>2, ObservedIs DEF IsUp
    <2> HIDE DEF o
    <2> QED
      BY <1>1, <2>1, <2>2, <2>3 DEF Dead, UpWithin, NotBefore, o
  <1>2. CASE ~(h.state = "cooldown" /\ h.left <= 0)
    <2>1. g = h
      BY <1>2, ObservedIs
    <2> QED
      BY <2>1
  <1> QED
    BY <1>1, <1>2

(* What is left of a time after a tick. *)
After(t) == IF t > 0 THEN t - 1 ELSE t

(* A tick brings every recovery nearer by itself. *)
LEMMA Ticked ==
  ASSUME NEW h \in Record
  PROVE  /\ Elapsed(h) \in Record
         /\ Dead(Elapsed(h)) <=> Dead(h)
         /\ IsUp(h) => IsUp(Elapsed(h))
         /\ Elapsed(h).state = h.state
         /\ \A t \in Nat : UpWithin(h, t) => UpWithin(Elapsed(h), After(t))
         /\ \A t \in Nat : NotBefore(h, t) => NotBefore(Elapsed(h), After(t))
  <1> DEFINE e == [state |-> h.state, left |-> IF h.left > 0 THEN h.left - 1 ELSE h.left,
                   strikes |-> h.strikes]
  <1>1. Elapsed(h) = e /\ e.state = h.state /\ e.left = IF h.left > 0 THEN h.left - 1 ELSE h.left
    BY ElapsedIs
  <1>2. e \in Record
    BY RecordIs DEF NoDeadline
  <1> HIDE DEF e
  <1>3. \A g \in Record : IsUp(g) <=> UpWithin(g, 0)
    BY ObservedIs, RecordIs DEF IsUp, UpWithin
  <1>4. \A t \in Nat : UpWithin(h, t) => UpWithin(e, After(t))
    BY <1>1, RecordIs DEF UpWithin, After
  <1>5. \A t \in Nat : NotBefore(h, t) => NotBefore(e, After(t))
    BY <1>1, RecordIs DEF NotBefore, After
  <1>6. IsUp(h) => IsUp(e)
    BY <1>2, <1>3, <1>4 DEF After
  <1> QED
    BY <1>1, <1>2, <1>4, <1>5, <1>6 DEF Dead

LEMMA InitIInv == Init => IInv
  <1> SUFFICES ASSUME Init PROVE IInv
    OBVIOUS
  <1>1. Fresh \in Record
    BY DEF Fresh, Record, HealthRecord, NoDeadline
  <1>2. TypesOK
    BY <1>1, KeysRange DEF Init, TypesOK, Nobody, NoDeadline
  <1> QED
    BY <1>2 DEF Init, IInv, SteadyFound, NoFalseRefusal, DeadBehind, SoonestRight, RefusalRight

LEMMA BeginStep ==
  ASSUME IInv, Begin
  PROVE  IInv'
  <1>1. TypesOK'
    BY KeysRange DEF IInv, TypesOK, Begin, Goto, Looking, Nobody, NoDeadline
  <1>2. /\ pc' = "alldead" /\ at' = 0 /\ soonest' = NoDeadline /\ health' = health
        /\ steadyUp' = {k \in Keys : IsUp(health[k])}
    BY DEF Begin, Goto
  <1> QED
    BY <1>1, <1>2, KeysRange
    DEF IInv, SteadyFound, NoFalseRefusal, DeadBehind, SoonestRight, RefusalRight

(***************************************************************************)
(* A look at one key, by whomever.                                         *)
(***************************************************************************)
LEMMA LookKeeps ==
  ASSUME TypesOK, NEW k \in Keys, Look(k)
  PROVE  /\ health' \in [Keys -> Record]
         /\ \A j \in Keys : health'[j] \in {health[j], Observed(health[j])}
         /\ health'[k] = Observed(health[k])
  BY Looked DEF TypesOK, Look

LEMMA ReportStep ==
  ASSUME IInv, NEW k \in Keys, Report(k)
  PROVE  IInv'
  <1>1. /\ health' \in [Keys -> Record]
        /\ \A j \in Keys : health[j] \in Record /\ health'[j] \in {health[j], Observed(health[j])}
    BY LookKeeps DEF Report, IInv, TypesOK
  <1>2. UNCHANGED <<pc, at, up, soonest, refusal, steadyUp, calm, wait, upThen>>
    BY DEF Report, request, since
  <1>3. TypesOK'
    BY <1>1, <1>2 DEF IInv, TypesOK
  <1>4. SteadyFound'
    BY <1>1, <1>2, Looked DEF IInv, TypesOK, SteadyFound, NoFalseRefusal
  <1>5. DeadBehind'
    BY <1>1, <1>2, Looked DEF IInv, DeadBehind
  <1>6. SoonestRight'
    <2>1. SUFFICES ASSUME calm, pc = "retryin"
                   PROVE  /\ \E j \in Keys : ~Dead(health'[j])
                          /\ \A j \in Keys : j < at => Passed(health[j])'
                          /\ soonest # NoDeadline => \E j \in Keys : UpWithin(health'[j], soonest)
      BY <1>2 DEF IInv, SoonestRight, Passed
    <2>2. \E j \in Keys : ~Dead(health'[j])
      BY <1>1, <2>1, Looked DEF IInv, SoonestRight
    <2>3. ASSUME NEW j \in Keys, j < at PROVE Passed(health[j])'
      <3>1. Passed(health[j])
        BY <2>1, <2>3 DEF IInv, SoonestRight
      <3>2. soonest # NoDeadline => soonest \in Nat
        BY DEF IInv, TypesOK
      <3> QED
        BY <1>1, <1>2, <3>1, <3>2, Looked DEF Passed
    <2>4. soonest # NoDeadline => \E j \in Keys : UpWithin(health'[j], soonest)
      BY <1>1, <2>1, Looked DEF IInv, SoonestRight, TypesOK
    <2> QED
      BY <2>2, <2>3, <2>4
  <1>7. RefusalRight'
    <2>1. SUFFICES ASSUME calm, pc = "refused"
                   PROVE  RefusalRight'
      BY <1>2 DEF RefusalRight
    <2>2. CASE refusal.status = 403
      BY <1>1, <1>2, <2>1, <2>2, Looked DEF IInv, RefusalRight
    <2>3. CASE refusal.status # 403
      <3>1. \E j \in Keys : UpWithin(health'[j], wait)
        BY <1>1, <2>1, <2>3, Looked DEF IInv, RefusalRight, TypesOK
      <3>2. ASSUME refusal.retryAfter > 1, wait > Second, NEW j \in Keys \ upThen
            PROVE  NotBefore(health'[j], wait - Second)
        <4>1. NotBefore(health[j], wait - Second)
          BY <2>1, <2>3, <3>2 DEF IInv, RefusalRight
        <4>2. wait - Second \in Nat /\ wait - Second # 0
          BY <3>2, RefusalAssumption DEF IInv, TypesOK
        <4> QED
          BY <1>1, <4>1, <4>2, Looked
      <3> QED
        BY <1>2, <2>3, <3>1, <3>2 DEF RefusalRight
    <2> QED
      BY <2>2, <2>3
  <1> QED
    BY <1>3, <1>4, <1>5, <1>6, <1>7 DEF IInv

(* Time passes. *)
LEMMA TickStep ==
  ASSUME IInv, Tick
  PROVE  IInv'
  <1>1. /\ health' \in [Keys -> Record]
        /\ \A k \in Keys : health[k] \in Record /\ health'[k] = Elapsed(health[k])
    BY Ticked DEF Tick, IInv, TypesOK
  <1>2. /\ UNCHANGED <<pc, at, up, refusal, steadyUp, calm, upThen>>
        /\ soonest' = After(soonest) /\ wait' = After(wait)
    BY DEF Tick, After, IInv, TypesOK
  <1>3. TypesOK'
    BY <1>1, <1>2 DEF IInv, TypesOK, After, NoDeadline
  <1>4. SteadyFound'
    BY <1>1, <1>2, Ticked DEF IInv, TypesOK, SteadyFound, NoFalseRefusal
  <1>5. DeadBehind'
    BY <1>1, <1>2, Ticked DEF IInv, DeadBehind
  <1>6. SoonestRight'
    <2>1. soonest = NoDeadline <=> soonest' = NoDeadline
      BY <1>2 DEF After, NoDeadline, IInv, TypesOK
    <2>2. soonest # NoDeadline => soonest \in Nat
      BY DEF IInv, TypesOK
    <2>3. SUFFICES ASSUME calm, pc = "retryin"
                   PROVE  /\ \E k \in Keys : ~Dead(health'[k])
                          /\ \A k \in Keys : k < at => Passed(health[k])'
                          /\ soonest # NoDeadline => \E k \in Keys : UpWithin(health'[k], After(soonest))
      BY <1>2, <2>1 DEF IInv, SoonestRight, Passed
    <2>4. \E k \in Keys : ~Dead(health'[k])
      BY <1>1, <2>3, Ticked DEF IInv, SoonestRight
    <2>5. ASSUME NEW k \in Keys, k < at PROVE Passed(health[k])'
      <3>1. Passed(health[k])
        BY <2>3, <2>5 DEF IInv, SoonestRight
      <3>2. soonest # NoDeadline /\ NotBefore(health[k], soonest) => NotBefore(health'[k], soonest')
        BY <1>1, <1>2, <2>2, Ticked
      <3> QED
        BY <1>1, <2>1, <3>1, <3>2, Ticked DEF Passed
    <2>6. soonest # NoDeadline => \E k \in Keys : UpWithin(health'[k], After(soonest))
      BY <1>1, <2>2, <2>3, Ticked DEF IInv, SoonestRight
    <2> QED
      BY <2>4, <2>5, <2>6
  <1>7. RefusalRight'
    <2>1. SUFFICES ASSUME calm, pc = "refused"
                   PROVE  RefusalRight'
      BY <1>2 DEF RefusalRight
    <2>2. CASE refusal.status = 403
      BY <1>1, <1>2, <2>1, <2>2, Ticked DEF IInv, RefusalRight
    <2>3. CASE refusal.status # 403
      <3>0. wait \in Nat
        BY DEF IInv, TypesOK
      <3>1. \E k \in Keys : UpWithin(health'[k], wait')
        <4>1. PICK k \in Keys : UpWithin(health[k], wait)
          BY <2>1, <2>3 DEF IInv, RefusalRight
        <4> QED
          BY <1>1, <1>2, <3>0, <4>1, Ticked
      <3>2. ASSUME refusal.retryAfter > 1, wait' > Second, NEW k \in Keys \ upThen
            PROVE  NotBefore(health'[k], wait' - Second)
        <4>1. wait > Second /\ wait' = wait - 1 /\ wait - Second \in Nat
          BY <1>2, <3>0, <3>2, RefusalAssumption DEF After
        <4>2. NotBefore(health[k], wait - Second)
          BY <2>1, <2>3, <3>2, <4>1 DEF IInv, RefusalRight
        <4>3. After(wait - Second) = wait' - Second
          BY <3>0, <4>1, RefusalAssumption DEF After
        <4> QED
          BY <1>1, <4>1, <4>2, <4>3, Ticked
      <3> QED
        BY <1>2, <2>3, <3>1, <3>2 DEF RefusalRight
    <2> QED
      BY <2>2, <2>3
  <1> QED
    BY <1>3, <1>4, <1>5, <1>6, <1>7 DEF IInv

(* A verdict ends the calm, and takes from the steady what it took down. *)
LEMMA VerdictStep ==
  ASSUME IInv, NEW k \in Keys, Verdict(k)
  PROVE  IInv'
  <1>1. PICK h \in Record : Write(k, h)
    <2>1. health[k] \in Record
      BY DEF IInv, TypesOK
    <2>2. \A left \in RetryAfters \cup {Cooldown429} : left \in Nat
      BY RefusalAssumption, Cooldown429Assumption
    <2> QED
      BY <2>1, <2>2, VerdictTypes, RefusalAssumption DEF Verdict
  <1>2. /\ health' = [health EXCEPT ![k] = h] /\ calm' = FALSE
        /\ steadyUp' = {j \in steadyUp : IsUp(health'[j])}
        /\ UNCHANGED <<pc, at, up, soonest, refusal, wait, upThen>>
    BY <1>1 DEF Write, StillUp, request, since
  <1>3. TypesOK'
    BY <1>2 DEF IInv, TypesOK
  <1>4. SteadyFound'
    BY <1>2 DEF IInv, SteadyFound, NoFalseRefusal
  <1> QED
    BY <1>2, <1>3, <1>4 DEF IInv, DeadBehind, SoonestRight, RefusalRight

(***************************************************************************)
(* The request itself.                                                     *)
(***************************************************************************)
LEMMA AllDeadStep ==
  ASSUME IInv, AllDead
  PROVE  IInv'
  <1>1. /\ at \in Keys /\ pc \in {"alldead", "reread"}
        /\ health' \in [Keys -> Record]
        /\ \A j \in Keys : health[j] \in Record /\ health'[j] \in {health[j], Observed(health[j])}
        /\ UNCHANGED <<up, soonest, steadyUp, calm>>
    BY LookKeeps DEF AllDead, IInv, TypesOK
  <1>2. \A j \in Keys : /\ Dead(health'[j]) <=> Dead(health[j])
                        /\ IsUp(health[j]) => IsUp(health'[j])
    BY <1>1, Looked
  <1>3. ~Dead(health[at]) \/ at \notin steadyUp
    <2>1. IsUp(health[at]) => ~Dead(health[at])
      BY <1>1, ObservedIs DEF IsUp, Dead
    <2> QED
      BY <2>1 DEF IInv, SteadyFound
  <1>7. \A k \in steadyUp : k \in Keys /\ k \in Int /\ IsUp(health'[k])
    BY <1>2, KeysRange DEF IInv, TypesOK, SteadyFound
  <1>8. pc = "alldead" => \A k \in steadyUp : at <= k
    BY DEF IInv, SteadyFound
  <1>9. pc = "reread" => steadyUp = {}
    BY DEF IInv, SteadyFound, NoFalseRefusal
  <1>10. at \in Int /\ 0 <= at /\ at <= LastKey /\ LastKey \in Int
    BY <1>1, KeysRange
  <1>4. CASE /\ ~Dead(health'[at])
             /\ Goto(IF pc = "alldead" THEN "candidates" ELSE "retryin")
             /\ UNCHANGED <<refusal, since>>
    <2>1. /\ at' = 0 /\ pc' = IF pc = "alldead" THEN "candidates" ELSE "retryin"
          /\ UNCHANGED <<refusal, wait, upThen>>
      BY <1>4 DEF Goto, since
    <2>2. TypesOK'
      BY <1>1, <2>1, KeysRange DEF IInv, TypesOK, Looking
    <2>3. SteadyFound'
      <3>1. \A k \in steadyUp : ~(k < 0)
        BY <1>7, KeysRange
      <3>2. \/ pc' = "candidates"
            \/ pc' = "retryin" /\ steadyUp = {}
        BY <1>1, <1>9, <2>1
      <3> QED
        BY <1>1, <1>7, <2>1, <3>1, <3>2 DEF SteadyFound, NoFalseRefusal
    <2>4. SoonestRight'
      <3>1. soonest = NoDeadline
        BY <1>1 DEF IInv, SoonestRight
      <3>2. \A k \in Keys : ~(k < 0)
        BY KeysRange
      <3> QED
        BY <1>1, <1>4, <2>1, <3>1, <3>2 DEF SoonestRight
    <2> QED
      BY <1>1, <2>1, <2>2, <2>3, <2>4 DEF IInv, DeadBehind, RefusalRight
  <1>5. CASE /\ Dead(health'[at]) /\ at < LastKey /\ at' = at + 1
             /\ UNCHANGED <<pc, refusal, since>>
    <2>1. at + 1 \in Keys /\ UNCHANGED <<wait, upThen>>
      BY <1>1, <1>5, KeysRange DEF since
    <2>2. TypesOK'
      BY <1>1, <1>5, <2>1 DEF IInv, TypesOK
    <2>3. SteadyFound'
      <3>1. at \notin steadyUp
        BY <1>1, <1>2, <1>3, <1>5
      <3>2. pc = "alldead" => \A k \in steadyUp : at + 1 <= k
        BY <1>7, <1>8, <1>10, <3>1
      <3> QED
        BY <1>1, <1>5, <1>7, <1>9, <3>2 DEF SteadyFound, NoFalseRefusal
    <2>4. DeadBehind'
      <3>1. ASSUME calm, NEW k \in Keys, k < at + 1 PROVE Dead(health'[k])
        <4>1. k < at \/ k = at
          BY <1>10, <3>1, KeysRange
        <4>2. k < at => Dead(health[k])
          BY <1>1, <3>1 DEF IInv, DeadBehind
        <4> QED
          BY <1>2, <1>5, <4>1, <4>2
      <3> QED
        BY <1>1, <1>5, <3>1 DEF DeadBehind
    <2>5. SoonestRight'
      BY <1>1, <1>5 DEF IInv, SoonestRight
    <2> QED
      BY <1>1, <1>5, <2>2, <2>3, <2>4, <2>5 DEF IInv, RefusalRight
  <1>6. CASE Dead(health'[at]) /\ at = LastKey /\ Refuse(403, 0)
    <2>1. /\ pc' = "refused" /\ at' = 0 /\ refusal' = [status |-> 403, retryAfter |-> 0]
          /\ wait' = (0 + 1) * Second /\ upThen' \subseteq Keys
      BY <1>6 DEF Refuse, Goto
    <2>2. wait' \in Nat
      BY <2>1, RefusalAssumption
    <2>3. TypesOK'
      BY <1>1, <2>1, <2>2, KeysRange DEF IInv, TypesOK
    <2>4. steadyUp = {}
      <3>1. at \notin steadyUp
        BY <1>1, <1>2, <1>3, <1>6
      <3>2. \A k \in steadyUp : k <= at
        BY <1>6, <1>7, KeysRange
      <3>3. pc = "alldead" => steadyUp = {}
        BY <1>7, <1>8, <1>10, <3>1, <3>2
      <3> QED
        BY <1>1, <1>9, <3>3
    <2>5. SteadyFound'
      BY <1>1, <2>1, <2>4 DEF SteadyFound, NoFalseRefusal
    <2>6. calm => \A k \in Keys : Dead(health'[k])
      <3>1. ASSUME calm, NEW k \in Keys PROVE Dead(health'[k])
        <4>1. k < at \/ k = at
          BY <1>6, <1>10, KeysRange
        <4>2. k < at => Dead(health[k])
          BY <1>1, <3>1 DEF IInv, DeadBehind
        <4> QED
          BY <1>2, <1>6, <4>1, <4>2
      <3> QED
        BY <3>1
    <2> QED
      BY <1>1, <2>1, <2>3, <2>5, <2>6 DEF IInv, DeadBehind, SoonestRight, RefusalRight
  <1> QED
    BY <1>4, <1>5, <1>6 DEF AllDead, Dead

LEMMA CandidatesStep ==
  ASSUME IInv, Candidates
  PROVE  IInv'
  <1>1. /\ at \in Keys /\ pc = "candidates"
        /\ health' \in [Keys -> Record]
        /\ \A j \in Keys : health[j] \in Record /\ health'[j] \in {health[j], Observed(health[j])}
        /\ health'[at] = Observed(health[at])
        /\ UNCHANGED <<soonest, refusal, steadyUp, calm, wait, upThen>>
    BY LookKeeps DEF Candidates, IInv, TypesOK, since
  <1>2. /\ up' = up \cup {k \in {at} : health'[k].state = "up"}
        /\ \/ at < LastKey /\ at' = at + 1 /\ pc' = pc
           \/ ~(at < LastKey) /\ at' = 0 /\ pc' = IF up' = {} THEN "reread" ELSE "idle"
    BY DEF Candidates, Goto
  <1>3. TypesOK'
    BY <1>1, <1>2, KeysRange DEF IInv, TypesOK, Looking
  <1>4. ASSUME NEW k \in steadyUp, k <= at PROVE k \in up'
    <2>1. CASE k = at
      BY <1>1, <1>2, <1>4, <2>1 DEF IInv, SteadyFound, IsUp
    <2>2. CASE k < at
      BY <1>1, <1>2, <1>4, <2>2 DEF IInv, SteadyFound
    <2> QED
      BY <1>1, <1>4, <2>1, <2>2, KeysRange DEF IInv, TypesOK
  <1>5. SteadyFound'
    <2>1. \A k \in steadyUp : k \in Keys /\ IsUp(health'[k])
      BY <1>1, Looked DEF IInv, TypesOK, SteadyFound
    <2>2. CASE at < LastKey
      <3>1. ASSUME NEW k \in steadyUp, k < at + 1 PROVE k \in up'
        <4>1. k \in Int /\ at \in Int /\ k <= at
          BY <1>1, <2>1, <3>1, KeysRange
        <4> QED
          BY <1>4, <4>1
      <3> QED
        BY <1>1, <1>2, <2>1, <2>2, <3>1 DEF SteadyFound, NoFalseRefusal
    <2>3. CASE ~(at < LastKey)
      <3>1. \A k \in steadyUp : k \in up'
        BY <1>1, <1>4, <2>3, KeysRange DEF IInv, TypesOK
      <3> QED
        BY <1>1, <1>2, <2>1, <2>3, <3>1 DEF SteadyFound, NoFalseRefusal
    <2> QED
      BY <2>2, <2>3
  <1>6. pc' \in {"candidates", "reread", "idle"} /\ (pc' = "reread" => at' = 0)
    BY <1>1, <1>2
  <1>7. soonest' = NoDeadline
    BY <1>1 DEF IInv, SoonestRight
  <1>8. \A k \in Keys : ~(k < 0)
    BY KeysRange
  <1> QED
    BY <1>3, <1>5, <1>6, <1>7, <1>8 DEF IInv, DeadBehind, SoonestRight, RefusalRight

(***************************************************************************)
(* next_retry_in, of one key more: the sooner of two deadlines is one that *)
(* some key recovers by, and none of the keys so far recovers before it.   *)
(***************************************************************************)
LEMMA NextRetryInStep ==
  ASSUME IInv, NextRetryIn
  PROVE  IInv'
  <1> DEFINE h    == health[at]
             best == IF h.state = "cooldown" THEN SoonerOf(h.left) ELSE soonest
  <1>1. /\ at \in Keys /\ pc = "retryin" /\ h \in Record /\ soonest \in Nat \cup {NoDeadline}
        /\ soonest' = best /\ UNCHANGED <<health, up, steadyUp, calm>>
    BY DEF NextRetryIn, IInv, TypesOK
  <1>2. /\ best \in Nat \cup {NoDeadline}
        /\ soonest # NoDeadline => best # NoDeadline /\ best <= soonest
        /\ h.state = "cooldown" => best # NoDeadline /\ best <= h.left
        /\ best # NoDeadline => \/ soonest # NoDeadline /\ best = soonest
                                \/ h.state = "cooldown" /\ best = h.left
    BY <1>1, RecordIs DEF SoonerOf, NoDeadline
  <1> HIDE DEF best
  <1>3. steadyUp = {}
    BY <1>1 DEF IInv, SteadyFound, NoFalseRefusal
  <1> DEFINE Over(g) == g.state = "up" \/ Dead(g) \/ (best # NoDeadline /\ NotBefore(g, best))
  <1>4. ASSUME calm, NEW k \in Keys, k <= at PROVE Over(health[k])
    <2>1. health[k] \in Record
      BY DEF IInv, TypesOK
    <2>2. CASE k = at
      <3>1. h.state \in {"up", "cooldown", "dead"}
        BY <1>1, RecordIs
      <3>2. h.state = "cooldown" => best # NoDeadline /\ NotBefore(h, best)
        BY <1>2 DEF NotBefore
      <3>3. Over(h)
        BY <3>1, <3>2 DEF Dead
      <3> QED
        BY <2>2, <3>3
    <2>3. CASE k < at
      <3>1. Passed(health[k])
        BY <1>1, <1>4, <2>3 DEF IInv, SoonestRight
      <3>2. CASE soonest # NoDeadline /\ NotBefore(health[k], soonest)
        <4>1. best \in Nat /\ soonest \in Nat /\ best <= soonest /\ best # NoDeadline
          BY <1>1, <1>2, <3>2
        <4>2. health[k].state = "cooldown" => health[k].left \in Nat
          BY <2>1, RecordIs
        <4> QED
          BY <3>2, <4>1, <4>2 DEF NotBefore
      <3> QED
        BY <3>1, <3>2 DEF Passed
    <2>4. k = at \/ k < at
      <3>1. k \in Int /\ at \in Int
        BY <1>1, KeysRange
      <3> QED
        BY <1>4, <3>1
    <2> HIDE DEF Over
    <2> QED
      BY <2>2, <2>3, <2>4
  <1>5. calm => \E k \in Keys : ~Dead(health[k])
    BY <1>1 DEF IInv, SoonestRight
  <1>6. calm /\ best # NoDeadline => \E k \in Keys : UpWithin(health[k], best)
    <2>1. CASE soonest # NoDeadline /\ best = soonest
      BY <1>1, <2>1 DEF IInv, SoonestRight
    <2>2. CASE h.state = "cooldown" /\ best = h.left
      <3>1. h.left \in Nat
        BY <1>1, <2>2, RecordIs
      <3> QED
        BY <1>1, <2>2, <3>1 DEF UpWithin
    <2> QED
      BY <1>2, <2>1, <2>2
  <1>7. CASE at < LastKey /\ at' = at + 1 /\ UNCHANGED <<pc, refusal, since>>
    <2>1. at + 1 \in Keys /\ UNCHANGED <<wait, upThen>>
      BY <1>1, <1>7, KeysRange DEF since
    <2>2. TypesOK'
      BY <1>1, <1>2, <1>7, <2>1 DEF IInv, TypesOK
    <2>3. SteadyFound'
      BY <1>1, <1>3, <1>7 DEF SteadyFound, NoFalseRefusal
    <2>4. ASSUME calm, NEW k \in Keys, k < at + 1 PROVE Passed(health[k])'
      <3>1. k <= at
        BY <1>1, <2>4, KeysRange
      <3> QED
        BY <1>1, <1>4, <2>4, <3>1 DEF Passed
    <2>5. SoonestRight'
      BY <1>1, <1>5, <1>6, <1>7, <2>4 DEF SoonestRight
    <2> QED
      BY <1>1, <1>7, <2>2, <2>3, <2>5 DEF IInv, DeadBehind, RefusalRight
  <1>8. CASE ~(at < LastKey) /\ Refuse(429, RetryAfterOf(best))
    <2> DEFINE seconds == RetryAfterOf(best)
    <2>1. /\ pc' = "refused" /\ at' = 0 /\ refusal' = [status |-> 429, retryAfter |-> seconds]
          /\ wait' = (seconds + 1) * Second /\ upThen' = {k \in Keys : health[k].state = "up"}
      BY <1>8 DEF Refuse, Goto
    <2>2. /\ seconds \in Nat /\ wait' \in Nat
          /\ best # NoDeadline => /\ best <= wait'
                                  /\ seconds > 1 => wait' - Second <= best
      BY <1>2, <2>1, RetryAfterBounds
    <2> HIDE DEF seconds
    <2>3. TypesOK'
      BY <1>1, <1>2, <2>1, <2>2, KeysRange DEF IInv, TypesOK
    <2>4. SteadyFound'
      BY <1>1, <1>3, <2>1 DEF SteadyFound, NoFalseRefusal
    <2>5. ASSUME calm, NEW k \in Keys PROVE Over(health[k])
      <3>1. k <= at
        BY <1>1, <1>8, KeysRange
      <3> QED
        BY <1>4, <2>5, <3>1
    <2>6. ASSUME calm PROVE \E k \in Keys : UpWithin(health[k], wait')
      <3>1. CASE best # NoDeadline
        <4>1. PICK k \in Keys : UpWithin(health[k], best)
          BY <1>6, <2>6, <3>1
        <4>2. health[k].state = "cooldown" => health[k].left \in Nat
          BY RecordIs DEF IInv, TypesOK
        <4>3. best \in Nat /\ best <= wait' /\ wait' \in Nat
          BY <1>2, <2>2, <3>1
        <4> QED
          BY <4>1, <4>2, <4>3 DEF UpWithin
      <3>2. CASE best = NoDeadline
        <4>1. PICK k \in Keys : ~Dead(health[k])
          BY <1>5, <2>6
        <4>2. health[k].state = "up"
          BY <2>5, <2>6, <3>2, <4>1
        <4> QED
          BY <4>2 DEF UpWithin
      <3> QED
        BY <3>1, <3>2
    <2>7. ASSUME calm, seconds > 1, NEW k \in Keys \ upThen'
          PROVE  NotBefore(health[k], wait' - Second)
      <3>1. health[k].state # "up"
        BY <2>1, <2>7
      <3>2. Dead(health[k]) \/ (best # NoDeadline /\ NotBefore(health[k], best))
        BY <2>5, <2>7, <3>1
      <3>3. CASE Dead(health[k])
        BY <3>3 DEF NotBefore, Dead
      <3>4. CASE best # NoDeadline /\ NotBefore(health[k], best)
        <4>1. best \in Nat /\ wait' - Second \in Int /\ wait' - Second <= best
          <5>1. best \in Nat
            BY <1>2, <3>4
          <5>2. wait' - Second \in Int
            BY <2>2, RefusalAssumption
          <5>3. wait' - Second <= best
            BY <2>2, <2>7, <3>4
          <5> QED
            BY <5>1, <5>2, <5>3
        <4>2. health[k].state = "cooldown" => health[k].left \in Nat
          BY RecordIs DEF IInv, TypesOK
        <4> QED
          BY <3>4, <4>1, <4>2 DEF NotBefore
      <3> QED
        BY <3>2, <3>3, <3>4
    <2>8. RefusalRight'
      BY <1>1, <2>1, <2>6, <2>7 DEF RefusalRight
    <2> QED
      BY <2>1, <2>3, <2>4, <2>8 DEF IInv, DeadBehind, SoonestRight
  <1> QED
    BY <1>7, <1>8 DEF NextRetryIn, best

LEMMA NextIInv == IInv /\ [Next]_vars => IInv'
  <1>1. CASE UNCHANGED vars
    BY <1>1 DEF vars, IInv, TypesOK, SteadyFound, NoFalseRefusal, DeadBehind, SoonestRight, Passed, RefusalRight
  <1> QED
    BY <1>1, BeginStep, AllDeadStep, CandidatesStep, NextRetryInStep, TickStep, VerdictStep, ReportStep
    DEF Next

LEMMA Invariance == Spec => []IInv
  BY InitIInv, NextIInv, PTL DEF Spec
-----------------------------------------------------------------------------
(***************************************************************************)
(* No request is refused for the health of the keys while a key could have *)
(* served it all along, however the looks of others, the verdicts and the  *)
(* clock fall between its own looks.                                       *)
(***************************************************************************)
THEOREM RefusalsCorrect == Spec => []NoFalseRefusal
  <1>1. IInv => NoFalseRefusal
    BY DEF IInv, SteadyFound
  <1> QED
    BY <1>1, Invariance, PTL

(***************************************************************************)
(* Without new verdicts a 403 means that every key is dead, and the        *)
(* Retry-After of a 429 brackets the first recovery to a second.           *)
(***************************************************************************)
THEOREM RetryAfterCorrect == Spec => []RetryAfterHonest
  <1>1. IInv => RetryAfterHonest
    <2> SUFFICES ASSUME IInv, pc = "refused", calm PROVE RetryAfterHonest
      BY DEF RetryAfterHonest
    <2>1. CASE refusal.status = 403
      BY <2>1 DEF IInv, RefusalRight, RetryAfterHonest, Dead
    <2>2. CASE refusal.status # 403
      <3>1. ASSUME wait = 0 PROVE \E k \in Keys : IsUp(health[k])
        <4>1. PICK k \in Keys : UpWithin(health[k], 0)
          BY <2>2, <3>1 DEF IInv, RefusalRight
        <4>2. health[k] \in Record
          BY DEF IInv, TypesOK
        <4>3. IsUp(health[k])
          BY <4>1, <4>2, ObservedIs DEF UpWithin, IsUp
        <4> QED
          BY <4>3
      <3>2. ASSUME refusal.retryAfter > 1, wait > Second, NEW k \in Keys \ upThen
            PROVE  ~IsUp(health[k])
        <4>1. NotBefore(health[k], wait - Second) /\ health[k] \in Record
          BY <2>2, <3>2 DEF IInv, TypesOK, RefusalRight
        <4>2. wait - Second > 0 /\ wait - Second \in Int
          BY <3>2, RefusalAssumption DEF IInv, TypesOK
        <4>3. health[k].state = "dead" \/ (health[k].state = "cooldown" /\ ~(health[k].left <= 0))
          BY <4>1, <4>2, RecordIs DEF NotBefore
        <4> QED
          BY <4>1, <4>3, ObservedIs DEF IsUp
      <3> QED
        BY <2>2, <3>1, <3>2 DEF RetryAfterHonest
    <2> QED
      BY <2>1, <2>2
  <1> QED
    BY <1>1, Invariance, PTL
=============================================================================

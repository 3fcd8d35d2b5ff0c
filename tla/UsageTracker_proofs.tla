------------------------ MODULE UsageTracker_proofs ------------------------
(***************************************************************************)
(* Proofs about UsageTracker for any callers, keys, responses and times:   *)
(* type correctness, the mask in step with the snapshot, honest ages,      *)
(* rounds that keep their distance, the demotions that only an answer of   *)
(* the key itself ends, and an honest aggregate.                           *)
(***************************************************************************)
EXTENDS UsageTracker, WellFoundedInduction, TLAPS

(* Rounds exclude each other. *)
OneRound == \A t \in Threads : pc[t] \in Guarded <=> guard = t

(* There was an attempt just if there is a snapshot: the first stores one. *)
AttemptLeavesSnapshot == attempt # NoAttempt <=> HasSnapshot

(* A row without numbers counts for no threshold. *)
RowsHonest == HasSnapshot => \A k \in Keys : ~snap.rows[k].ok => ~AtThreshold(snap.rows[k])

(* The mask agrees with the snapshot unless it is about to be stored. *)
Quiet == \A t \in Threads : pc[t] # "publishing"

MaskFollows == /\ ~HasSnapshot => over = {}
               /\ ~Quiet => HasSnapshot
               /\ HasSnapshot /\ Quiet => over = OverQuota(snap.rows)
               /\ over \subseteq {k \in Keys : k < MaskBits}

(* What the next Publish takes out of the mask has answered in this round. *)
LossExplained ==
  ~Quiet => \A k \in over : results[k] \in {"ok", "error"} \/ AtThreshold(snap.rows[k])

IInv == /\ TypeOK /\ OneRound /\ AttemptLeavesSnapshot /\ RowsHonest
        /\ MaskFollows /\ LossExplained /\ AgesHonest
-----------------------------------------------------------------------------
(* What the fraction of a window and the record of a row can be. *)
LEMMA UsageType ==
  ASSUME NEW window \in Windows
  PROVE  UsageOf(window) \in Usages
  <1>1. window.known \in BOOLEAN /\ window.remaining \in Int /\ window.reset \in Resets
    BY DEF Windows
  <1>2. UsedFraction(window) \in {Unknown} \cup 0..1000
    BY <1>1 DEF UsedFraction, Clamped
  <1> QED
    BY <1>1, <1>2 DEF UsageOf, Usages

LEMMA NoUsageType == NoUsage \in Usages /\ NoUsage.used = Unknown
  BY DEF NoUsage, UsageOf, UsedFraction, NoWindow, Usages, Resets, Unknown

LEMMA NoBodyType == NoBody \in Bodies
  BY DEF NoBody, Body, NoWindow, Bodies, Windows, Resets

(* What a fetch comes to: its kind, its Retry-After, its body. *)
Results == [kind : {"ok", "limited", "blip", "error", "skipped"},
            retryAfter : Nat \cup {NoRetryAfter}, body : Bodies]

LEMMA AnswersType == Answers \subseteq Results /\ Skipped \in Results
  <1>1. Skipped \in Results
    BY NoBodyType DEF Skipped, Result, Results, NoRetryAfter
  <1>2. ASSUME NEW r \in Responses PROVE FetchResult(r) \in Results
    <2>1. r.status \in Nat /\ r.retryAfter \in Nat \cup {NoRetryAfter} /\ r.body \in Bodies
      BY ResponsesAssumption
    <2> QED
      BY <2>1, NoBodyType DEF FetchResult, Result, Results
  <1> QED
    BY <1>1, <1>2 DEF Answers

(* A snapshot has an age and a row of every key. *)
LEMMA SnapshotType ==
  ASSUME TypeOK, HasSnapshot
  PROVE  snap.age \in Ages /\ \A k \in Keys : snap.rows[k] \in Rows
  BY DEF TypeOK, HasSnapshot

LEMMA ReplacedSnapshot ==
  ASSUME NEW age \in Ages, NEW rows, snap' = [age |-> age, rows |-> rows]
  PROVE  HasSnapshot' /\ snap'.age = age /\ snap'.rows = rows
  BY DEF HasSnapshot, NoSnapshot, Ages

(* The tracker starts without a snapshot. *)
LEMMA InitIInv == Init => IInv
  <1> SUFFICES ASSUME Init PROVE IInv
    OBVIOUS
  <1>1. TypeOK
    <2>1. results \in [Keys -> {a.kind : a \in Answers \cup {Skipped}}]
      BY DEF Init
    <2>2. backoff \in [Keys -> 0..MaxBackoff] /\ fetched \in [Keys -> Ages]
      BY TimesAssumption DEF Init, Ages
    <2>3. pc \in [Threads -> Places]
      BY DEF Init, Places
    <2> QED
      BY <2>1, <2>2, <2>3 DEF Init, TypeOK
  <1>2. OneRound
    BY NoOneAssumption
    DEF Init, OneRound, Guarded, Deciding
  <1>3. ~HasSnapshot /\ Quiet /\ over = {}
    BY DEF Init, HasSnapshot, Quiet
  <1> QED
    BY <1>1, <1>2, <1>3
    DEF Init, IInv, AttemptLeavesSnapshot, RowsHonest, MaskFollows, LossExplained, AgesHonest
-----------------------------------------------------------------------------
(* A thread that moves between places where nothing is written. *)
LEMMA MovesIInv ==
  ASSUME IInv, NEW t \in Threads, NEW place \in Places \ {"publishing"},
         pc[t] # "publishing", pc' = [pc EXCEPT ![t] = place],
         asked' \subseteq Keys, guard' \in Threads \cup {NoOne}, OneRound',
         UNCHANGED <<snap, attempt, backoff, results, over, fetched>>
  PROVE  IInv'
  <1>1. Quiet' <=> Quiet
    BY DEF IInv, TypeOK, Quiet
  <1>2. TypeOK'
    BY DEF IInv, TypeOK
  <1>3. /\ AttemptLeavesSnapshot' /\ RowsHonest' /\ MaskFollows'
        /\ LossExplained' /\ AgesHonest'
    BY <1>1 DEF IInv, AttemptLeavesSnapshot, RowsHonest, MaskFollows, LossExplained,
                AgesHonest, StatedAge, HasSnapshot
  <1> QED
    BY <1>2, <1>3 DEF IInv

(* The guard goes with its holder: it is kept, taken or given back. *)
LEMMA OneRoundKept ==
  ASSUME TypeOK, OneRound, NEW t \in Threads, NEW place \in Places,
         pc' = [pc EXCEPT ![t] = place],
         \/ guard' = guard /\ (pc[t] \in Guarded <=> place \in Guarded)
         \/ guard = NoOne /\ guard' = t /\ place \in Guarded
         \/ guard' = NoOne /\ pc[t] \in Guarded /\ place \notin Guarded
  PROVE  OneRound' /\ guard' \in Threads \cup {NoOne}
  BY NoOneAssumption DEF TypeOK, OneRound

(* Everything but the parts of a round that write: only places change. *)
LEMMA SmallStep ==
  ASSUME IInv, NEW t \in Threads,
         \/ Get(t) \/ Refresh(t) \/ Unguarded(t) \/ TakeGuard(t)
         \/ (PollTick /\ t = Poller) \/ BeginRound(t) \/ Serve(t)
  PROVE  IInv'
  <1> USE DEF Places, Guarded, Deciding, Go
  <1>1. TypeOK /\ OneRound /\ asked \subseteq Keys /\ Eligible \subseteq Keys
    BY DEF IInv, TypeOK, Eligible
  <1>2. CASE Get(t) \/ Refresh(t) \/ Contended(t) \/ (PollTick /\ t = Poller)
    <2>1. PICK place \in Places \ Guarded :
            pc[t] \notin Guarded /\ pc' = [pc EXCEPT ![t] = place]
      BY <1>2 DEF Get, Refresh, Contended, PollTick
    <2>2. guard' = guard /\ UNCHANGED data
      BY <1>2 DEF Get, Refresh, Contended, PollTick
    <2> QED
      BY <1>1, <2>1, <2>2, OneRoundKept, MovesIInv DEF data
  <1>3. CASE TryGuard(t)
    <2>1. PICK place \in Places \ {"publishing"} :
            /\ pc[t] \notin Guarded /\ pc' = [pc EXCEPT ![t] = place]
            /\ \/ guard' = guard /\ place \notin Guarded
               \/ guard = NoOne /\ guard' = t /\ place \in Guarded
      BY <1>3 DEF TryGuard
    <2>2. UNCHANGED data
      BY <1>3 DEF TryGuard
    <2> QED
      BY <1>1, <2>1, <2>2, OneRoundKept, MovesIInv DEF data
  <1>4. CASE TakeGuard(t)
    <2>1. PICK place \in Deciding :
            pc[t] \notin Guarded /\ pc' = [pc EXCEPT ![t] = place]
      BY <1>4 DEF TakeGuard
    <2>2. guard = NoOne /\ guard' = t /\ UNCHANGED data
      BY <1>4 DEF TakeGuard
    <2> QED
      BY <1>1, <2>1, <2>2, OneRoundKept, MovesIInv DEF data
  <1>5. CASE BeginRound(t)
    BY <1>1, <1>5, OneRoundKept, MovesIInv DEF BeginRound
  <1>6. CASE Serve(t)
    BY <1>1, <1>6, OneRoundKept, MovesIInv DEF Serve, data
  <1> QED
    BY <1>2, <1>3, <1>4, <1>5, <1>6 DEF Unguarded

(* Publish makes the mask agree with the snapshot. *)
LEMMA PublishStep ==
  ASSUME IInv, NEW t \in Threads, Publish(t)
  PROVE  IInv'
  <1>1. pc[t] = "publishing" /\ pc' = [pc EXCEPT ![t] = "idle"]
    BY DEF Publish, Go
  <1>2. OneRound' /\ guard' \in Threads \cup {NoOne}
    BY <1>1, OneRoundKept DEF Publish, IInv, Places, Guarded, Deciding
  <1>3. over' \subseteq Keys /\ over' \subseteq {k \in Keys : k < MaskBits}
    BY DEF Publish, OverQuota
  <1>4. TypeOK'
    BY <1>1, <1>2, <1>3 DEF Publish, IInv, TypeOK, Places
  <1>5. Quiet'
    BY <1>1 DEF Quiet, IInv, TypeOK, OneRound, Guarded
  <1>6. HasSnapshot
    BY <1>1 DEF IInv, MaskFollows, Quiet
  <1> QED
    BY <1>2, <1>3, <1>4, <1>5, <1>6
    DEF Publish, IInv, AttemptLeavesSnapshot, RowsHonest, MaskFollows, LossExplained,
        AgesHonest, StatedAge, HasSnapshot
-----------------------------------------------------------------------------
(* A backoff is within its cap. *)
LEMMA BackoffBounded ==
  ASSUME NEW retryAfter \in Nat \cup {NoRetryAfter}
  PROVE  BackoffOf(retryAfter) \in 0..MaxBackoff
  BY TimesAssumption DEF BackoffOf, NoRetryAfter

(* A row that failed has no numbers. *)
LEMMA FailedRowType == FailedRow \in Rows /\ ~FailedRow.ok /\ ~AtThreshold(FailedRow)
  BY NoUsageType DEF FailedRow, Rows, AtThreshold

LEMMA FreshRowType ==
  ASSUME NEW body \in Bodies
  PROVE  FreshRow(body) \in Rows /\ FreshRow(body).ok /\ FreshRow(body).asOf = ThisRound
  <1>1. UsageOf(body.session) \in Usages /\ UsageOf(body.weekly) \in Usages
    BY UsageType DEF Bodies
  <1> QED
    BY <1>1 DEF FreshRow, Rows

(***************************************************************************)
(* A carried row keeps its numbers, and with them its place with respect   *)
(* to the threshold, and states the age that the snapshot gave it.         *)
(***************************************************************************)
LEMMA CarriedRow ==
  ASSUME IInv, NEW k \in Keys
  PROVE  LET row == CarriedOrFailed(k) IN
         /\ row \in Rows
         /\ ~row.ok => ~AtThreshold(row)
         /\ row.ok => HasSnapshot /\ snap.rows[k].ok /\ row.asOf = StatedAge(k) /\ row.asOf # ThisRound
         /\ HasSnapshot /\ AtThreshold(snap.rows[k]) => AtThreshold(row)
  <1> DEFINE old == snap.rows[k]
             new == [old EXCEPT !.asOf = StatedAge(k)]
  <1>1. CASE HasSnapshot /\ old.ok
    <2>1. old \in Rows /\ snap.age \in Ages
      BY <1>1, SnapshotType DEF IInv
    <2>2. CarriedOrFailed(k) = new
      BY <1>1, <2>1 DEF CarriedOrFailed, StatedAge, Rows
    <2>3. StatedAge(k) \in Ages /\ StatedAge(k) # ThisRound
      BY <2>1 DEF StatedAge, Rows, Ages, ThisRound
    <2>4. new \in Rows /\ new.ok = old.ok /\ new.session = old.session /\ new.asOf = StatedAge(k)
      BY <2>1, <2>3 DEF Rows
    <2> QED
      BY <1>1, <2>2, <2>3, <2>4 DEF AtThreshold
  <1>2. CASE ~(HasSnapshot /\ old.ok)
    <2>1. CarriedOrFailed(k) = FailedRow
      BY <1>2 DEF CarriedOrFailed
    <2> QED
      BY <1>2, <2>1, FailedRowType DEF IInv, RowsHonest
  <1> QED
    BY <1>1, <1>2

(* Every key has an answer in a round, if only that it was not asked. *)
LEMMA RoundAnswersType ==
  ASSUME NEW a \in RoundAnswers, NEW k \in Keys
  PROVE  a[k] \in Results /\ a[k] \in Answers \cup {Skipped}
  <1>1. PICK f \in [asked -> Answers] : a = [j \in Keys |-> IF j \in asked THEN f[j] ELSE Skipped]
    BY DEF RoundAnswers
  <1> QED
    BY <1>1, AnswersType

(* The row of a key after a round. *)
LEMMA RowAfter ==
  ASSUME IInv, NEW k \in Keys, NEW answer \in Results
  PROVE  LET row == RowOf(k, answer) IN
         /\ row \in Rows
         /\ ~row.ok => ~AtThreshold(row)
         /\ IsOk(answer) => row.ok /\ row.asOf = ThisRound
         /\ row.ok /\ ~IsOk(answer) => HasSnapshot /\ snap.rows[k].ok /\ row.asOf = StatedAge(k)
                                       /\ row.asOf # ThisRound
         /\ answer.kind \in {"ok", "error"}
              \/ (HasSnapshot /\ AtThreshold(snap.rows[k]) => AtThreshold(row))
  <1>1. CASE IsOk(answer)
    <2>1. RowOf(k, answer) = FreshRow(answer.body)
      BY <1>1 DEF RowOf, IsOk
    <2>2. answer.body \in Bodies /\ answer.kind = "ok"
      BY <1>1 DEF Results, IsOk
    <2> QED
      BY <1>1, <2>1, <2>2, FreshRowType
  <1>2. CASE answer.kind = "error"
    <2>1. RowOf(k, answer) = FailedRow /\ ~IsOk(answer)
      BY <1>2 DEF RowOf, IsOk
    <2> QED
      BY <1>2, <2>1, FailedRowType
  <1>3. CASE answer.kind \in {"limited", "blip", "skipped"}
    <2>1. RowOf(k, answer) = CarriedOrFailed(k) /\ ~IsOk(answer)
      BY <1>3 DEF RowOf, IsOk
    <2> QED
      BY <2>1, CarriedRow
  <1> QED
    BY <1>1, <1>2, <1>3 DEF Results, IsOk

(* A round without a good answer leaves the snapshot, any other replaces it. *)
LEMMA CollectStep ==
  ASSUME IInv, NEW t \in Threads, Collect(t)
  PROVE  IInv'
  <1> DEFINE Good(a) == {k \in Keys : IsOk(a[k])}
  <1>1. PICK a \in RoundAnswers :
          /\ results' = [k \in Keys |-> a[k].kind]
          /\ attempt' = 0
          /\ backoff' = [k \in Keys |-> BackoffAfter(k, a[k])]
          /\ fetched' = [k \in Keys |-> IF k \in Good(a) THEN 0 ELSE fetched[k]]
          /\ IF Good(a) = {} /\ HasSnapshot
             THEN /\ pc' = [pc EXCEPT ![t] = "idle"]
                  /\ guard' = NoOne
                  /\ UNCHANGED snap
             ELSE /\ pc' = [pc EXCEPT ![t] = "publishing"]
                  /\ snap' = [age |-> 0, rows |-> [k \in Keys |-> RowOf(k, a[k])]]
                  /\ UNCHANGED guard
          /\ UNCHANGED <<asked, over>>
    BY DEF Collect
  <1>2. /\ pc[t] = "fetching" /\ guard = t
        /\ \A x \in Threads \ {t} : pc[x] \notin Guarded
    BY DEF Collect, IInv, OneRound, Guarded
  <1>3. Quiet
    BY <1>2 DEF Quiet, Guarded
  <1>4. /\ results' \in [Keys -> {x.kind : x \in Answers \cup {Skipped}}]
        /\ backoff' \in [Keys -> 0..MaxBackoff]
        /\ fetched' \in [Keys -> Ages]
        /\ attempt' \in Ages /\ attempt' # NoAttempt
    <2>1. \A k \in Keys : BackoffAfter(k, a[k]) \in 0..MaxBackoff
      BY RoundAnswersType, BackoffBounded DEF BackoffAfter, Results, IInv, TypeOK
    <2>2. 0 \in Ages
      BY TimesAssumption DEF Ages
    <2> QED
      BY <1>1, <2>1, <2>2, RoundAnswersType DEF IInv, TypeOK, NoAttempt
  <1>5. CASE Good(a) = {} /\ HasSnapshot
    <2>1. pc' = [pc EXCEPT ![t] = "idle"] /\ guard' = NoOne /\ snap' = snap
      BY <1>1, <1>5
    <2>2. OneRound' /\ guard' \in Threads \cup {NoOne}
      BY <1>2, <2>1, OneRoundKept DEF IInv, Places, Guarded, Deciding
    <2>3. TypeOK'
      BY <1>1, <1>4, <2>1, <2>2 DEF IInv, TypeOK, Places
    <2>4. HasSnapshot' /\ Quiet'
      BY <1>2, <1>5, <2>1 DEF HasSnapshot, Quiet, Guarded, IInv, TypeOK
    <2>5. fetched' = fetched
      BY <1>1, <1>5 DEF IInv, TypeOK
    <2> QED
      BY <1>1, <1>3, <1>4, <1>5, <2>1, <2>2, <2>3, <2>4, <2>5
      DEF IInv, AttemptLeavesSnapshot, RowsHonest, MaskFollows, LossExplained, AgesHonest, StatedAge
  <1>6. CASE ~(Good(a) = {} /\ HasSnapshot)
    <2>1. /\ pc' = [pc EXCEPT ![t] = "publishing"] /\ guard' = guard
          /\ snap' = [age |-> 0, rows |-> [k \in Keys |-> RowOf(k, a[k])]]
      BY <1>1, <1>6
    <2>2. OneRound'
      BY <1>2, <2>1, OneRoundKept DEF IInv, Places, Guarded, Deciding
    <2>3. 0 \in Ages
      BY TimesAssumption DEF Ages
    <2>4. /\ HasSnapshot' /\ snap'.age = 0
          /\ \A k \in Keys : snap'.rows[k] = RowOf(k, a[k])
      BY <2>1, <2>3, ReplacedSnapshot
    <2>5. TypeOK'
      <3>1. \A k \in Keys : snap'.rows[k] \in Rows
        BY <2>4, RowAfter, RoundAnswersType
      <3> QED
        BY <1>1, <1>4, <2>1, <2>3, <2>4, <3>1 DEF IInv, TypeOK, Places, Guarded
    <2>6. RowsHonest'
      BY <2>4, RowAfter, RoundAnswersType DEF RowsHonest, AtThreshold
    <2>7. AgesHonest'
      <3> SUFFICES ASSUME NEW k \in Keys, snap'.rows[k].ok
                   PROVE  StatedAge(k)' = fetched'[k]
        BY DEF AgesHonest
      <3>1. CASE IsOk(a[k])
        BY <1>1, <2>4, <3>1, RowAfter, RoundAnswersType DEF StatedAge
      <3>2. CASE ~IsOk(a[k])
        <4>1. HasSnapshot /\ snap.rows[k].ok /\ StatedAge(k)' = StatedAge(k)
          BY <2>4, <3>2, RowAfter, RoundAnswersType DEF StatedAge
        <4> QED
          BY <1>1, <3>2, <4>1 DEF IInv, AgesHonest
      <3> QED
        BY <3>1, <3>2
    <2>8. LossExplained'
      <3> SUFFICES ASSUME NEW k \in over, a[k].kind \notin {"ok", "error"}
                   PROVE  AtThreshold(snap'.rows[k])
        BY <1>1 DEF LossExplained, AtThreshold, IInv, TypeOK
      <3>1. k \in Keys /\ HasSnapshot /\ AtThreshold(snap.rows[k])
        BY <1>3 DEF IInv, MaskFollows, OverQuota
      <3> QED
        BY <2>4, <3>1, RowAfter, RoundAnswersType
    <2>9. ~Quiet' /\ AttemptLeavesSnapshot' /\ MaskFollows'
      BY <1>1, <1>4, <2>1, <2>4
      DEF Quiet, AttemptLeavesSnapshot, MaskFollows, IInv, TypeOK
    <2> QED
      BY <2>2, <2>5, <2>6, <2>7, <2>8, <2>9 DEF IInv
  <1> QED
    BY <1>5, <1>6

(* Time passes for every age at once, and does not touch a number. *)
LEMMA OlderRowType ==
  ASSUME NEW row \in Rows
  PROVE  /\ OlderRow(row) \in Rows /\ OlderRow(row).ok = row.ok
         /\ OlderRow(row).session = row.session
         /\ OlderRow(row).asOf = IF row.asOf = ThisRound THEN ThisRound ELSE Older(row.asOf)
         /\ OlderRow(row).asOf = ThisRound <=> row.asOf = ThisRound
  <1>1. \A age \in Ages : Older(age) \in Ages
    BY TimesAssumption DEF Older, Ages
  <1>2. ThisRound \notin Ages
    BY DEF ThisRound, Ages
  <1>3. row.asOf \in Ages \cup {ThisRound}
    BY DEF Rows
  <1> QED
    BY <1>1, <1>2, <1>3 DEF OlderRow, Rows

LEMMA TickStep ==
  ASSUME IInv, Tick
  PROVE  IInv'
  <1>1. \A age \in Ages : Older(age) \in Ages
    BY TimesAssumption DEF Older, Ages
  <1>2. /\ attempt' \in Ages \cup {NoAttempt} /\ (attempt' = NoAttempt <=> attempt = NoAttempt)
        /\ backoff' \in [Keys -> 0..MaxBackoff] /\ fetched' \in [Keys -> Ages]
    <2>1. NoAttempt \notin Ages
      BY DEF NoAttempt, Ages
    <2>2. attempt' \in Ages \cup {NoAttempt} /\ (attempt' = NoAttempt <=> attempt = NoAttempt)
      BY <1>1, <2>1 DEF Tick, IInv, TypeOK
    <2>3. fetched' \in [Keys -> Ages]
      BY <1>1 DEF Tick, IInv, TypeOK
    <2>4. \A n \in 0..MaxBackoff : (IF n > 0 THEN n - 1 ELSE 0) \in 0..MaxBackoff
      BY TimesAssumption
    <2>5. backoff' \in [Keys -> 0..MaxBackoff]
      BY <2>4 DEF Tick, IInv, TypeOK
    <2> QED
      BY <2>2, <2>3, <2>5
  <1>3. UNCHANGED <<pc, guard, asked, results, over>> /\ (Quiet' <=> Quiet)
    BY DEF Tick, Quiet
  <1>4. OneRound'
    BY <1>3 DEF IInv, OneRound
  <1>5. CASE ~HasSnapshot
    <2>1. snap' = snap /\ ~HasSnapshot' /\ snap = NoSnapshot
      BY <1>5 DEF Tick, HasSnapshot
    <2>2. TypeOK'
      BY <1>2, <1>3, <2>1 DEF IInv, TypeOK
    <2> QED
      BY <1>2, <1>3, <1>4, <1>5, <2>1, <2>2
      DEF IInv, AttemptLeavesSnapshot, RowsHonest, MaskFollows, LossExplained, AgesHonest
  <1>6. CASE HasSnapshot
    <2>1. snap.age \in Ages /\ \A k \in Keys : snap.rows[k] \in Rows
      BY <1>6, SnapshotType DEF IInv
    <2>2. snap' = [age |-> Older(snap.age), rows |-> [k \in Keys |-> OlderRow(snap.rows[k])]]
      BY <1>6 DEF Tick
    <2>3. /\ HasSnapshot' /\ snap'.age = Older(snap.age)
          /\ \A k \in Keys : snap'.rows[k] = OlderRow(snap.rows[k])
      BY <1>1, <2>1, <2>2, ReplacedSnapshot
    <2>4. TypeOK'
      <3>1. snap'.age \in Ages /\ \A k \in Keys : snap'.rows[k] \in Rows
        BY <1>1, <2>1, <2>3, OlderRowType
      <3> QED
        BY <1>2, <1>3, <3>1 DEF IInv, TypeOK
    <2>5. \A k \in Keys : /\ snap'.rows[k].ok = snap.rows[k].ok
                          /\ AtThreshold(snap'.rows[k]) <=> AtThreshold(snap.rows[k])
      BY <2>1, <2>3, OlderRowType DEF AtThreshold
    <2>6. RowsHonest' /\ LossExplained' /\ MaskFollows' /\ AttemptLeavesSnapshot'
      <3>1. OverQuota(snap'.rows) = OverQuota(snap.rows)
        BY <2>5 DEF OverQuota
      <3>2. \A k \in over : k \in Keys
        BY DEF IInv, TypeOK
      <3> QED
        BY <1>2, <1>3, <1>6, <2>3, <2>5, <3>1, <3>2
        DEF IInv, RowsHonest, LossExplained, MaskFollows, AttemptLeavesSnapshot
    <2>7. AgesHonest'
      <3> SUFFICES ASSUME NEW k \in Keys, snap'.rows[k].ok
                   PROVE  StatedAge(k)' = fetched'[k]
        BY DEF AgesHonest
      <3>1. StatedAge(k) = fetched[k]
        BY <1>6, <2>5 DEF IInv, AgesHonest
      <3>2. StatedAge(k)' = Older(StatedAge(k))
        BY <2>1, <2>3, OlderRowType DEF StatedAge
      <3>3. fetched'[k] = Older(fetched[k])
        BY DEF Tick
      <3> QED
        BY <3>1, <3>2, <3>3
    <2> QED
      BY <1>4, <2>4, <2>6, <2>7 DEF IInv
  <1> QED
    BY <1>5, <1>6

LEMMA NextIInv == IInv /\ [Next]_vars => IInv'
  <1> SUFFICES ASSUME IInv, [Next]_vars PROVE IInv'
    OBVIOUS
  <1>1. CASE Tick
    BY <1>1, TickStep
  <1>2. CASE PollTick
    BY <1>2, SmallStep DEF Threads
  <1>3. ASSUME NEW t \in Threads, Get(t) \/ Refresh(t) \/ Unguarded(t) \/ TakeGuard(t) \/ Round(t)
        PROVE  IInv'
    BY <1>3, SmallStep, CollectStep, PublishStep DEF Round
  <1>4. CASE UNCHANGED vars
    BY <1>4 DEF vars, IInv, TypeOK, OneRound, AttemptLeavesSnapshot, RowsHonest, MaskFollows,
                LossExplained, AgesHonest, StatedAge, HasSnapshot, Quiet
  <1> QED
    BY <1>1, <1>2, <1>3, <1>4 DEF Next

LEMMA Invariance == Spec => []IInv
  <1> QED
    BY InitIInv, NextIInv, PTL DEF Spec
-----------------------------------------------------------------------------
(* Induction: a set with 0 that is closed under successors has all numbers. *)
LEMMA SetInduction ==
  ASSUME NEW G, 0 \in G, \A n \in Nat : n \in G => n + 1 \in G
  PROVE  Nat \subseteq G
  <1> DEFINE R == {p \in Nat \X Nat : p[1] < p[2]}
             T == Nat \ G
  <1>1. IsWellFoundedOn(R, Nat)
    BY NatLessThanWellFounded DEF OpToRel
  <1>2. SUFFICES ASSUME T # {} PROVE FALSE
    OBVIOUS
  <1>3. PICK x \in T : \A y \in T : ~(<<y, x>> \in R)
    <2>1. T \subseteq Nat
      OBVIOUS
    <2> HIDE DEF R, T
    <2> QED
      BY <1>1, <1>2, <2>1, WFMin
  <1>4. x \in Nat \ {0} /\ x - 1 \in Nat /\ <<x - 1, x>> \in R
    OBVIOUS
  <1>5. x - 1 \in G
    BY <1>3, <1>4
  <1> QED
    BY <1>3, <1>4, <1>5

(* The sums of aggregate exist: the recursion has its one solution. *)
LEMMA TotalsDef ==
  ASSUME NEW rows, NEW window
  PROVE  Totals(rows, window) =
           [n \in 0..NumKeys |-> IF n = 0 THEN Nothing
                                 ELSE Plus(Totals(rows, window)[n - 1], rows[n - 1], window, n - 1)]
  <1> DEFINE After(total, n) == Plus(total, rows[n - 1], window, n - 1)
             Sums(g, m) == g = [n \in 0..m |-> IF n = 0 THEN Nothing ELSE After(g[n - 1], n)]
             G == {m \in Nat : \E g : Sums(g, m)}
  <1> HIDE DEF After
  <1>1. 0 \in G
    <2> DEFINE g == [n \in 0..0 |-> Nothing]
    <2>1. Sums(g, 0)
      OBVIOUS
    <2> QED
      BY <2>1
  <1>2. ASSUME NEW m \in Nat, m \in G PROVE m + 1 \in G
    <2>1. PICK g : Sums(g, m)
      BY <1>2
    <2> DEFINE h == [n \in 0..(m + 1) |-> IF n = m + 1 THEN After(g[m], n) ELSE g[n]]
    <2>2. ASSUME NEW n \in 0..(m + 1)
          PROVE  h[n] = IF n = 0 THEN Nothing ELSE After(h[n - 1], n)
      BY <2>1
    <2>3. Sums(h, m + 1)
      BY <2>2
    <2> HIDE DEF Sums, h
    <2> QED
      BY <2>3
  <1>3. NumKeys \in G
    BY <1>1, <1>2, SetInduction, NumKeysAssumption
  <1>4. PICK g : Sums(g, NumKeys)
    BY <1>3
  <1>5. Totals(rows, window) = CHOOSE f : Sums(f, NumKeys)
    BY DEF Totals, After
  <1>6. Sums(Totals(rows, window), NumKeys)
    <2> HIDE DEF Sums
    <2> QED
      BY <1>4, <1>5
  <1> QED
    BY <1>6 DEF After

(* A row has a record of each window. *)
LEMMA RowWindow ==
  ASSUME NEW row \in Rows, NEW window \in {"session", "weekly"}
  PROVE  row[window] \in Usages
  BY DEF Rows

(* A key that reports a window has used a fraction of it. *)
LEMMA ReportedUsed ==
  ASSUME NEW row \in Rows, NEW window \in {"session", "weekly"}, Reports(row, window)
  PROVE  row[window].used \in Nat /\ row[window].reset \in Resets
  <1>1. row[window] \in Usages /\ row[window].used # Unknown
    BY RowWindow DEF Reports
  <1> QED
    BY <1>1 DEF Usages

(* Every plan has a weight. *)
LEMMA WeightPositive ==
  ASSUME NEW k \in Keys
  PROVE  Weight(k) \in Nat \ {0}
  BY DEF Weight

(* A product grows with its factor; a quotient is bracketed. *)
LEMMA Monotone ==
  ASSUME NEW a \in Int, NEW b \in Int, a <= b, NEW w \in Nat
  PROVE  a * w <= b * w
  OBVIOUS

LEMMA Quotient ==
  ASSUME NEW a \in Int, NEW d \in Nat \ {0}
  PROVE  /\ a \div d \in Int
         /\ (a \div d) * d <= a
         /\ a < (a \div d + 1) * d
  OBVIOUS

(* The first n keys that report a window. *)
FirstReporting(rows, window, n) == {k \in 0..(n - 1) : Reports(rows[k], window)}

(* The used fractions of two keys bracket the mean. *)
Bracketed(total, rows, window, keys) ==
  \E j, k \in keys : /\ rows[j][window].used * total.weight <= total.sum
                     /\ total.sum <= rows[k][window].used * total.weight

(* A reset is stated just if all keys state it. *)
Unanimous(reset, rows, window, keys) ==
  \A r \in Resets \ {NoReset} : reset = r <=> \A k \in keys : rows[k][window].reset = r

(* What the first n keys add up to. *)
Sound(total, rows, window, n) ==
  LET keys == FirstReporting(rows, window, n) IN
  /\ total \in [sum : Nat, weight : Nat, reset : Resets \cup {Unseen}]
  /\ keys = {} => total = Nothing
  /\ keys # {} => /\ total.weight > 0 /\ total.reset \in Resets
                  /\ Bracketed(total, rows, window, keys)
                  /\ Unanimous(total.reset, rows, window, keys)

(* One key more. *)
LEMMA PlusSound ==
  ASSUME NEW rows, \A k \in Keys : rows[k] \in Rows, NEW window \in {"session", "weekly"},
         NEW n \in Keys, NEW total, Sound(total, rows, window, n)
  PROVE  Sound(Plus(total, rows[n], window, n), rows, window, n + 1)
  <1> DEFINE row   == rows[n]
             keys  == FirstReporting(rows, window, n)
             more  == FirstReporting(rows, window, n + 1)
             next  == Plus(total, row, window, n)
             u     == row[window].used
             w     == Weight(n)
             t     == total.sum
             v     == total.weight
  <1>1. n \in Nat /\ n < NumKeys /\ row \in Rows /\ row[window] \in Usages
    BY NumKeysAssumption, RowWindow DEF Keys
  <1>2. total \in [sum : Nat, weight : Nat, reset : Resets \cup {Unseen}]
    BY DEF Sound
  <1>3. CASE ~Reports(row, window)
    <2>1. more = keys /\ next = total
      BY <1>1, <1>3 DEF FirstReporting, Plus
    <2> QED
      BY <2>1 DEF Sound
  <1>4. CASE Reports(row, window)
    <2>1. more = keys \cup {n} /\ n \notin keys /\ more # {}
      BY <1>1, <1>4 DEF FirstReporting
    <2>2. u \in Nat /\ w \in Nat \ {0} /\ row[window].reset \in Resets
      <3>1. row[window].used \in Nat /\ row[window].reset \in Resets
        BY <1>1, <1>4, ReportedUsed
      <3> QED
        BY <3>1, WeightPositive
    <2>3. next = [sum |-> t + u * w, weight |-> v + w, reset |-> Unify(total.reset, row[window].reset)]
      BY <1>4 DEF Plus
    <2>4. t \in Nat /\ v \in Nat /\ total.reset \in Resets \cup {Unseen}
      BY <1>2
    <2>5. NoReset \in Resets
      BY DEF Resets
    <2>6. Unify(total.reset, row[window].reset) \in Resets
      BY <2>2, <2>5 DEF Unify
    <2>7. t + u * w \in Nat /\ v + w \in Nat /\ v + w > 0
      BY <2>2, <2>4
    <2>8. Bracketed(next, rows, window, more)
      <3> DEFINE Low(a)  == a * (v + w) <= t + u * w
                 High(a) == t + u * w <= a * (v + w)
      <3>1. SUFFICES \E j, k \in more : Low(rows[j][window].used) /\ High(rows[k][window].used)
        BY <2>3 DEF Bracketed
      <3>2. CASE keys = {}
        <4>1. t = 0 /\ v = 0
          BY <3>2 DEF Sound, Nothing
        <4>2. Low(u) /\ High(u)
          BY <2>2, <4>1
        <4> QED
          BY <2>1, <4>2
      <3>3. CASE keys # {}
        <4>1. PICK j, k \in keys : rows[j][window].used * v <= t /\ t <= rows[k][window].used * v
          BY <3>3 DEF Sound, Bracketed
        <4> DEFINE a == rows[j][window].used
                   b == rows[k][window].used
        <4>2. a \in Nat /\ b \in Nat
          <5>1. ASSUME NEW i \in keys PROVE rows[i][window].used \in Nat
            <6>1. i \in Keys /\ Reports(rows[i], window)
              BY <1>1, NumKeysAssumption DEF FirstReporting, Keys
            <6> QED
              BY <6>1, ReportedUsed
          <5> QED
            BY <4>1, <5>1
        <4>3. a * v <= t /\ t <= b * v
          BY <4>1
        <4> HIDE DEF a, b, t, v, u, w
        <4>4. \E l \in {a, u} : Low(l)
          <5>1. CASE a <= u
            <6>1. a * w <= u * w
              BY <2>2, <4>2, <5>1, Monotone
            <6>2. a * (v + w) = a * v + a * w
              BY <2>2, <2>4, <4>2
            <6>3. a * v \in Int /\ a * w \in Int /\ u * w \in Int
              BY <2>2, <2>4, <4>2
            <6> QED
              BY <2>4, <4>3, <6>1, <6>2, <6>3
          <5>2. CASE u <= a
            <6>1. u * v <= a * v
              BY <2>2, <2>4, <4>2, <5>2, Monotone
            <6>2. u * (v + w) = u * v + u * w
              BY <2>2, <2>4, <4>2
            <6>3. a * v \in Int /\ u * v \in Int /\ u * w \in Int
              BY <2>2, <2>4, <4>2
            <6> QED
              BY <2>4, <4>3, <6>1, <6>2, <6>3
          <5> QED
            BY <2>2, <4>2, <5>1, <5>2
        <4>5. \E h \in {b, u} : High(h)
          <5>1. CASE u <= b
            <6>1. u * w <= b * w
              BY <2>2, <4>2, <5>1, Monotone
            <6>2. b * (v + w) = b * v + b * w
              BY <2>2, <2>4, <4>2
            <6>3. b * v \in Int /\ b * w \in Int /\ u * w \in Int
              BY <2>2, <2>4, <4>2
            <6> QED
              BY <2>4, <4>3, <6>1, <6>2, <6>3
          <5>2. CASE b <= u
            <6>1. b * v <= u * v
              BY <2>2, <2>4, <4>2, <5>2, Monotone
            <6>2. u * (v + w) = u * v + u * w
              BY <2>2, <2>4, <4>2
            <6>3. b * v \in Int /\ u * v \in Int /\ u * w \in Int
              BY <2>2, <2>4, <4>2
            <6> QED
              BY <2>4, <4>3, <6>1, <6>2, <6>3
          <5> QED
            BY <2>2, <4>2, <5>1, <5>2
        <4> HIDE DEF Low, High
        <4> QED
          BY <2>1, <4>1, <4>4, <4>5 DEF a, b, u
      <3> QED
        BY <3>2, <3>3
    <2>9. Unanimous(next.reset, rows, window, more)
      <3>1. next.reset = Unify(total.reset, row[window].reset)
        BY <2>3
      <3>2. CASE keys = {}
        <4>1. next.reset = row[window].reset
          BY <3>1, <3>2 DEF Sound, Nothing, Unify
        <4> QED
          BY <2>1, <3>2, <4>1 DEF Unanimous
      <3>3. CASE keys # {}
        <4>1. Unanimous(total.reset, rows, window, keys) /\ total.reset \in Resets
          BY <3>3 DEF Sound
        <4>2. total.reset # Unseen
          BY <4>1, UnseenAssumption
        <4>3. next.reset = IF total.reset = row[window].reset THEN row[window].reset ELSE NoReset
          BY <3>1, <4>2 DEF Unify
        <4> QED
          BY <2>1, <2>2, <4>1, <4>3 DEF Unanimous
      <3> QED
        BY <3>2, <3>3
    <2> HIDE DEF u, w, t, v, row
    <2>10. next \in [sum : Nat, weight : Nat, reset : Resets \cup {Unseen}]
      BY <2>3, <2>6, <2>7 DEF row
    <2>11. next.weight > 0 /\ next.reset \in Resets
      BY <2>3, <2>6, <2>7 DEF row
    <2> HIDE DEF next
    <2> QED
      BY <2>1, <2>8, <2>9, <2>10, <2>11 DEF Sound, next, row
  <1> QED
    BY <1>3, <1>4

(* All keys. *)
LEMMA TotalsSound ==
  ASSUME NEW rows, \A k \in Keys : rows[k] \in Rows, NEW window \in {"session", "weekly"}
  PROVE  Sound(Totals(rows, window)[NumKeys], rows, window, NumKeys)
  <1> DEFINE total == Totals(rows, window)
             G == {n \in Nat : n <= NumKeys => Sound(total[n], rows, window, n)}
  <1>1. /\ total[0] = Nothing
        /\ \A n \in 1..NumKeys : total[n] = Plus(total[n - 1], rows[n - 1], window, n - 1)
    <2> HIDE DEF total
    <2>1. total = [n \in 0..NumKeys |-> IF n = 0 THEN Nothing
                                        ELSE Plus(total[n - 1], rows[n - 1], window, n - 1)]
      BY TotalsDef DEF total
    <2> DEFINE Sum(n) == IF n = 0 THEN Nothing ELSE Plus(total[n - 1], rows[n - 1], window, n - 1)
    <2>2. \A n \in 0..NumKeys : total[n] = Sum(n)
      <3> HIDE DEF Sum
      <3>1. total = [n \in 0..NumKeys |-> Sum(n)]
        BY <2>1 DEF Sum
      <3> QED
        BY <3>1
    <2>3. 0 \in 0..NumKeys
      BY NumKeysAssumption
    <2>4. total[0] = Nothing
      BY <2>2, <2>3
    <2>5. ASSUME NEW n \in 1..NumKeys
          PROVE  total[n] = Plus(total[n - 1], rows[n - 1], window, n - 1)
      <3>1. n \in 0..NumKeys /\ n # 0
        BY NumKeysAssumption
      <3>2. total[n] = Sum(n)
        BY <2>2, <3>1
      <3> QED
        BY <3>1, <3>2
    <2> QED
      BY <2>4, <2>5
  <1> HIDE DEF total
  <1>2. 0 \in G
    <2>1. FirstReporting(rows, window, 0) = {}
      BY DEF FirstReporting
    <2> QED
      BY <1>1, <2>1 DEF Sound, Nothing
  <1>3. ASSUME NEW n \in Nat, n \in G PROVE n + 1 \in G
    <2>1. SUFFICES ASSUME n + 1 <= NumKeys PROVE Sound(total[n + 1], rows, window, n + 1)
      OBVIOUS
    <2>2. n \in Keys /\ n <= NumKeys /\ n + 1 \in 1..NumKeys /\ (n + 1) - 1 = n
      BY <2>1, NumKeysAssumption DEF Keys
    <2>3. total[n + 1] = Plus(total[n], rows[n], window, n)
      BY <1>1, <2>2
    <2>4. Sound(total[n], rows, window, n)
      BY <1>3, <2>2
    <2> QED
      BY <2>2, <2>3, <2>4, PlusSound
  <1>4. NumKeys \in G
    <2> HIDE DEF G
    <2> QED
      BY <1>2, <1>3, SetInduction, NumKeysAssumption
  <1> QED
    BY <1>4, NumKeysAssumption DEF total

(* The rounded mean lies where the mean lies. *)
LEMMA RoundedMean ==
  ASSUME NEW sum \in Nat, NEW weight \in Nat \ {0}, NEW low \in Nat, NEW high \in Nat,
         low * weight <= sum, sum <= high * weight
  PROVE  LET mean == (2 * sum + weight) \div (2 * weight) IN low <= mean /\ mean <= high
  <1> DEFINE d == 2 * weight
             q == (2 * sum + weight) \div d
  <1>1. d \in Nat \ {0} /\ 2 * sum + weight \in Int
    OBVIOUS
  <1>2. q \in Int /\ q * d <= 2 * sum + weight /\ 2 * sum + weight < (q + 1) * d
    BY <1>1, Quotient
  <1>3. low * d <= 2 * sum /\ 2 * sum <= high * d /\ low * d \in Int /\ high * d \in Int
    <2>1. low * weight \in Int /\ high * weight \in Int
      OBVIOUS
    <2>2. low * d = 2 * (low * weight) /\ high * d = 2 * (high * weight)
      OBVIOUS
    <2> QED
      BY <2>1, <2>2
  <1> HIDE DEF q
  <1>4. low <= q
    <2>1. SUFFICES ASSUME q + 1 <= low PROVE FALSE
      BY <1>2
    <2>2. (q + 1) * d <= low * d /\ (q + 1) * d \in Int
      BY <1>1, <1>2, <2>1, Monotone
    <2> HIDE DEF d
    <2> QED
      BY <1>1, <1>2, <1>3, <2>2
  <1>5. q <= high
    <2>1. SUFFICES ASSUME high + 1 <= q PROVE FALSE
      BY <1>2
    <2>2. (high + 1) * d <= q * d /\ q * d \in Int
      BY <1>1, <1>2, <2>1, Monotone
    <2>3. (high + 1) * d = high * d + d
      OBVIOUS
    <2> QED
      BY <1>1, <1>2, <1>3, <2>2, <2>3
  <1> QED
    BY <1>4, <1>5 DEF q

(***************************************************************************)
(* What aggregate makes of well-typed rows: a fraction between those of    *)
(* the keys that report one, and a reset that all of them state.           *)
(***************************************************************************)
LEMMA AggregateSound ==
  ASSUME NEW rows, \A k \in Keys : rows[k] \in Rows, NEW window \in {"session", "weekly"}
  PROVE  LET all == Aggregate(rows, window)
             reporting == {k \in Keys : Reports(rows[k], window)}
         IN  /\ IF reporting = {} THEN all = NoUsage
                ELSE \E j, k \in reporting : /\ rows[j][window].used <= all.used
                                             /\ all.used <= rows[k][window].used
             /\ \A r \in Resets \ {NoReset} :
                  all.reset = r <=> reporting # {} /\ \A k \in reporting : rows[k][window].reset = r
  <1> DEFINE total == Totals(rows, window)[NumKeys]
             reporting == {k \in Keys : Reports(rows[k], window)}
             mean == (2 * total.sum + total.weight) \div (2 * total.weight)
             all == Aggregate(rows, window)
  <1>1. reporting = FirstReporting(rows, window, NumKeys)
    BY DEF FirstReporting, Keys
  <1>2. Sound(total, rows, window, NumKeys)
    BY TotalsSound
  <1>3. all = IF total.weight = 0 THEN NoUsage ELSE [used |-> mean, reset |-> total.reset]
    BY DEF Aggregate
  <1> HIDE DEF total
  <1>4. CASE reporting = {}
    <2>1. total.weight = 0
      BY <1>1, <1>2, <1>4 DEF Sound, Nothing
    <2>2. all = NoUsage /\ all.reset = NoReset
      BY <1>3, <2>1 DEF NoUsage, UsageOf, NoWindow
    <2> QED
      BY <1>4, <2>2
  <1>5. CASE reporting # {}
    <2>1. /\ total.sum \in Nat /\ total.weight \in Nat \ {0}
          /\ Bracketed(total, rows, window, reporting)
          /\ Unanimous(total.reset, rows, window, reporting)
      BY <1>1, <1>2, <1>5 DEF Sound
    <2>2. all.used = mean /\ all.reset = total.reset
      BY <1>3, <2>1
    <2>3. PICK j, k \in reporting : /\ rows[j][window].used * total.weight <= total.sum
                                    /\ total.sum <= rows[k][window].used * total.weight
      BY <2>1 DEF Bracketed
    <2>4. rows[j][window].used \in Nat /\ rows[k][window].used \in Nat
      BY ReportedUsed
    <2>5. rows[j][window].used <= mean /\ mean <= rows[k][window].used
      BY <2>1, <2>3, <2>4, RoundedMean
    <2> HIDE DEF all, reporting
    <2> QED
      BY <1>5, <2>1, <2>2, <2>5 DEF Unanimous, all, reporting
  <1> QED
    BY <1>4, <1>5
-----------------------------------------------------------------------------
(* Every variable keeps its type, and no backoff exceeds MAX_BACKOFF. *)
THEOREM TypeCorrect == Spec => []TypeOK
  <1>1. IInv => TypeOK
    BY DEF IInv
  <1> QED
    BY <1>1, Invariance, PTL

(* Rounds exclude each other, and the mask is that of the snapshot. *)
THEOREM MaskCorrect == Spec => []MaskInStep
  <1>1. IInv => MaskInStep
    BY DEF IInv, OneRound, MaskFollows, Quiet, OverQuota, MaskInStep, IsOverQuota
  <1> QED
    BY <1>1, Invariance, PTL

(* A row states the age of the answer that it stems from. *)
THEOREM AgesCorrect == Spec => []AgesHonest
  <1>1. IInv => AgesHonest
    BY DEF IInv
  <1> QED
    BY <1>1, Invariance, PTL

(***************************************************************************)
(* The aggregate is honest: it only depends on the rows being rows, which  *)
(* they are in every snapshot.                                             *)
(***************************************************************************)
THEOREM AggregateCorrect == Spec => []AggregateHonest
  <1>1. TypeOK => AggregateHonest
    <2> SUFFICES ASSUME TypeOK, HasSnapshot, NEW window \in {"session", "weekly"}
                 PROVE  LET all == Aggregate(snap.rows, window)
                            reporting == {k \in Keys : Reports(snap.rows[k], window)}
                        IN  /\ IF reporting = {} THEN all = NoUsage
                               ELSE \E j, k \in reporting :
                                      /\ snap.rows[j][window].used <= all.used
                                      /\ all.used <= snap.rows[k][window].used
                            /\ \A reset \in Resets \ {NoReset} :
                                 all.reset = reset
                                   <=> reporting # {} /\ \A k \in reporting :
                                                          snap.rows[k][window].reset = reset
      BY DEF AggregateHonest
    <2>1. \A k \in Keys : snap.rows[k] \in Rows
      BY SnapshotType
    <2> QED
      BY <2>1, AggregateSound
  <1> QED
    BY <1>1, TypeCorrect, PTL

(***************************************************************************)
(* Rounds keep their distance: whoever fetches without looking at the last *)
(* attempt has found no snapshot, and then there was no attempt.           *)
(***************************************************************************)
THEOREM RoundsCorrect == Spec => RoundsSpaced
  <1> DEFINE Begins(t) == pc[t] # "fetching" /\ pc'[t] = "fetching"
             Rested    == attempt = NoAttempt \/ attempt >= MinRefresh
  <1>1. IInv /\ [Next]_vars => [\A t \in Threads : Begins(t) => Rested]_vars
    <2> SUFFICES ASSUME IInv, Next, NEW t \in Threads, Begins(t) PROVE Rested
      OBVIOUS
    <2>1. PICK s \in Threads : BeginRound(s)
      <3>1. ~Tick /\ ~PollTick
        BY DEF Tick, PollTick, Go, IInv, TypeOK
      <3>2. PICK s \in Threads : Get(s) \/ Refresh(s) \/ Unguarded(s) \/ TakeGuard(s) \/ Round(s)
        BY <3>1 DEF Next
      <3>3. ~Get(s) /\ ~Refresh(s) /\ ~Unguarded(s) /\ ~TakeGuard(s)
        BY DEF Get, Refresh, Unguarded, TryGuard, Contended, TakeGuard, Go, IInv, TypeOK
      <3>4. ~Serve(s) /\ ~Collect(s) /\ ~Publish(s)
        BY DEF Serve, Collect, Publish, Go, IInv, TypeOK
      <3> QED
        BY <3>2, <3>3, <3>4 DEF Round
    <2>2. ~(InCooldown /\ HasSnapshot) \/ ~HasSnapshot
      BY <2>1 DEF BeginRound, StartsRound, Deciding
    <2>3. attempt \in Ages \cup {NoAttempt}
      BY DEF IInv, TypeOK
    <2> QED
      BY <2>2, <2>3, TimesAssumption
      DEF IInv, AttemptLeavesSnapshot, InCooldown, Ages, NoAttempt
  <1> QED
    BY <1>1, Invariance, PTL DEF Spec, RoundsSpaced

(* A demotion ends only by an answer of the key itself. *)
THEOREM DemotionsCorrect == Spec => MaskKept
  <1> DEFINE Kept == \A k \in over \ over' : results[k] \in {"ok", "error"}
  <1>1. IInv /\ [Next]_vars => [Kept]_vars
    <2> SUFFICES ASSUME IInv, Next, over' # over PROVE Kept
      OBVIOUS
    <2>1. PICK t \in Threads : Publish(t)
      <3>1. ~Tick /\ ~PollTick
        BY DEF Tick, PollTick, data
      <3>2. PICK t \in Threads : Get(t) \/ Refresh(t) \/ Unguarded(t) \/ TakeGuard(t) \/ Round(t)
        BY <3>1 DEF Next
      <3> QED
        BY <3>2 DEF Get, Refresh, Unguarded, TryGuard, Contended, TakeGuard,
                    Round, BeginRound, Serve, Collect, data
    <2>2. ~Quiet /\ over' = OverQuota(snap.rows)
      BY <2>1 DEF Publish, Go, Quiet
    <2> QED
      BY <2>2 DEF IInv, LossExplained, MaskFollows, OverQuota
  <1> QED
    BY <1>1, Invariance, PTL DEF Spec, MaskKept
=============================================================================

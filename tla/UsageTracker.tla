---------------------------- MODULE UsageTracker ----------------------------
(***************************************************************************)
(* The usage tracker (UsageTracker, src/src/usage.rs): rounds of fetches   *)
(* of every key's balance, guarded by one mutex, started by the threads    *)
(* that serve /_usage and by the poller of --usage-aware; the snapshot     *)
(* they leave; and the set of over-quota keys that the pool routes by.     *)
(*                                                                         *)
(* Times are ages in ticks: of the snapshot, of the last attempt, of each  *)
(* carried row.  What the upstream's responses say is in Balance.          *)
(***************************************************************************)
EXTENDS Balance

CONSTANTS Callers,          \* threads that serve /_usage
          Poller,           \* the poller of --usage-aware
          MaskBits,         \* bits of over_quota_mask
          Ttl,              \* USAGE_TTL
          MinRefresh,       \* MIN_REFRESH
          DefaultBackoff,   \* DEFAULT_BACKOFF
          MaxBackoff,       \* MAX_BACKOFF
          Responses,        \* what the upstream may answer a fetch
          AgeCap            \* bound: ages are not told apart from here on

ASSUME PollerAssumption  == Poller \notin Callers
ASSUME MaskAssumption    == MaskBits \in Nat \ {0}
ASSUME TimesAssumption   == /\ {Ttl, MinRefresh, DefaultBackoff, MaxBackoff} \subseteq Nat \ {0}
                            /\ AgeCap \in Nat /\ Ttl <= AgeCap /\ MinRefresh <= AgeCap
                            /\ DefaultBackoff <= MaxBackoff

Threads == Callers \cup {Poller}

NoOne      == "no one"
ASSUME NoOneAssumption == NoOne \notin Threads

NoSnapshot == [age |-> -1, rows |-> <<>>]
NoAttempt  == -1
ThisRound  == -1     \* as_of is absent: the row is as old as the snapshot

Ages   == 0..AgeCap
Resets == {NoReset} \cup UNION {{r.body.session.reset, r.body.weekly.reset} : r \in Responses}
ASSUME UnseenAssumption == Unseen \notin Resets

Usages == [used : {Unknown} \cup 0..1000, reset : Resets]
Rows   == [ok : BOOLEAN, session : Usages, weekly : Usages, asOf : Ages \cup {ThisRound}]

Windows == [known : BOOLEAN, remaining : Int, reset : Resets]
Bodies  == [decodes : BOOLEAN, session : Windows, weekly : Windows, amounts : BOOLEAN]

ASSUME ResponsesAssumption ==
  Responses \subseteq [status : Nat, retryAfter : Nat \cup {NoRetryAfter}, body : Bodies]

(* What a fetch may come to. *)
Answers == {FetchResult(r) : r \in Responses}

VARIABLES pc,        \* where each thread is
          guard,     \* the holder of fetch_mu
          snap,      \* the latest snapshot
          attempt,   \* age of the latest fetch attempt
          backoff,   \* per key: time left of its 429 backoff
          asked,     \* the keys that the current or latest round fetches
          results,   \* history: what the latest round got from each key
          over,      \* over_quota_mask
          fetched    \* history: age of each key's latest good answer

vars   == <<pc, guard, snap, attempt, backoff, asked, results, over, fetched>>
data   == <<snap, attempt, backoff, asked, results, over, fetched>>

(***************************************************************************)
(*   idle        not in the tracker                                        *)
(*   get, poll   found the snapshot not fresh, about to try the guard      *)
(*   contended   in get, without the guard                                 *)
(*   await       in wait_for_snapshot, about to block on the guard         *)
(*   refresh     in refresh, about to block on the guard                   *)
(*   got, polled, awaited, forced   with the guard, before its decision    *)
(*   fetching    with the guard, in fetch_all                              *)
(*   publishing  with the guard, snapshot stored, mask still to come       *)
(***************************************************************************)
Deciding == {"got", "polled", "awaited", "forced"}
Guarded  == Deciding \cup {"fetching", "publishing"}
Places   == Guarded \cup {"idle", "get", "poll", "contended", "await", "refresh"}

Go(t, from, to) == pc[t] = from /\ pc' = [pc EXCEPT ![t] = to]

HasSnapshot == snap # NoSnapshot
IsFresh     == HasSnapshot /\ snap.age < Ttl
InCooldown  == attempt # NoAttempt /\ attempt < MinRefresh

Init == /\ pc      = [t \in Threads |-> "idle"]
        /\ guard   = NoOne
        /\ snap    = NoSnapshot
        /\ attempt = NoAttempt
        /\ backoff = [k \in Keys |-> 0]
        /\ asked   = {}
        /\ results = [k \in Keys |-> Skipped.kind]
        /\ over    = {}
        /\ fetched = [k \in Keys |-> AgeCap]
-----------------------------------------------------------------------------
(* get and tick while the snapshot is fresh change nothing. *)
Get(t) == t # Poller /\ ~IsFresh /\ Go(t, "idle", "get") /\ UNCHANGED <<guard, data>>

PollTick == ~IsFresh /\ Go(Poller, "idle", "poll") /\ UNCHANGED <<guard, data>>

Refresh(t) == t # Poller /\ Go(t, "idle", "refresh") /\ UNCHANGED <<guard, data>>

(* try_lock_fetch: the poller that misses the guard gives up at once. *)
TryGuard(t) ==
  /\ \/ guard = NoOne /\ guard' = t  /\ (Go(t, "get", "got") \/ Go(t, "poll", "polled"))
     \/ guard # NoOne /\ UNCHANGED guard /\ (Go(t, "get", "contended") \/ Go(t, "poll", "idle"))
  /\ UNCHANGED data

(* get, without the guard: any snapshot will do, else wait for one. *)
Contended(t) == /\ Go(t, "contended", IF HasSnapshot THEN "idle" ELSE "await")
                /\ UNCHANGED <<guard, data>>

TakeGuard(t) == /\ guard = NoOne
                /\ guard' = t
                /\ Go(t, "await", "awaited") \/ Go(t, "refresh", "forced")
                /\ UNCHANGED data

(* Variant with a mistake: a forced refresh does not look at the last attempt. *)
StartsRoundForced(place) ==
  CASE place = "got"     -> ~IsFresh /\ ~(InCooldown /\ HasSnapshot)
    [] place = "polled"  -> ~IsFresh /\ ~InCooldown
    [] place = "forced"  -> TRUE
    [] place = "awaited" -> ~HasSnapshot

(***************************************************************************)
(* With the guard: does this thread start a round?  Within MIN_REFRESH of  *)
(* the last attempt, get and refresh fall back on wait_or_peek, which      *)
(* starts one only when there is no snapshot at all, and the poller gives  *)
(* up; get and the poller look again whether the snapshot is fresh.        *)
(***************************************************************************)
StartsRound(place) ==
  CASE place = "got"     -> ~IsFresh /\ ~(InCooldown /\ HasSnapshot)
    [] place = "polled"  -> ~IsFresh /\ ~InCooldown
    [] place = "forced"  -> ~(InCooldown /\ HasSnapshot)
    [] place = "awaited" -> ~HasSnapshot

(* eligible_keys: a key sits out while its backoff lasts. *)
Eligible == {k \in Keys : backoff[k] = 0}

BeginRound(t) == /\ pc[t] \in Deciding
                 /\ StartsRound(pc[t])
                 /\ pc' = [pc EXCEPT ![t] = "fetching"]
                 /\ asked' = Eligible
                 /\ UNCHANGED <<guard, snap, attempt, backoff, results, over, fetched>>

(* Variant with a mistake: the guard is not given back. *)
ServeKeepsGuard(t) == /\ pc[t] \in Deciding
                      /\ ~StartsRound(pc[t])
                      /\ pc' = [pc EXCEPT ![t] = "idle"]
                      /\ UNCHANGED <<guard, data>>

Serve(t) == /\ pc[t] \in Deciding
            /\ ~StartsRound(pc[t])
            /\ pc' = [pc EXCEPT ![t] = "idle"]
            /\ guard' = NoOne
            /\ UNCHANGED data
-----------------------------------------------------------------------------
(* One row of the new snapshot: fresh, carried forward, or failed. *)
FailedRow == [ok |-> FALSE, session |-> NoUsage, weekly |-> NoUsage, asOf |-> ThisRound]

FreshRow(body) == [ok |-> TRUE, session |-> UsageOf(body.session),
                   weekly |-> UsageOf(body.weekly), asOf |-> ThisRound]

(* Variant with a mistake: a row that is carried again is stamped again. *)
CarriedAnew(k) == IF HasSnapshot /\ snap.rows[k].ok
                  THEN [snap.rows[k] EXCEPT !.asOf = snap.age] ELSE FailedRow

CarriedOrFailed(k) ==
  IF HasSnapshot /\ snap.rows[k].ok
  THEN [snap.rows[k] EXCEPT !.asOf = IF @ = ThisRound THEN snap.age ELSE @]
  ELSE FailedRow

IsOk(answer) == answer.kind = "ok"

(* Variant with a mistake: a key that is rate limited loses its row. *)
RowOfUncarried(k, answer) ==
  IF IsOk(answer) THEN FreshRow(answer.body)
  ELSE IF answer.kind = "blip" THEN CarriedOrFailed(k) ELSE FailedRow

RowOf(k, answer) ==
  CASE IsOk(answer) -> FreshRow(answer.body)
    [] answer.kind = "error" -> FailedRow
    [] answer.kind \in {"limited", "blip", "skipped"} -> CarriedOrFailed(k)

(* Variant with a mistake: the Retry-After is not capped. *)
BackoffUncapped(retryAfter) == IF retryAfter = NoRetryAfter THEN DefaultBackoff ELSE retryAfter

(* clamp_backoff: a Retry-After, even of 0, or the default, up to the cap. *)
BackoffOf(retryAfter) ==
  LET wanted == IF retryAfter = NoRetryAfter THEN DefaultBackoff ELSE retryAfter
  IN  IF wanted < MaxBackoff THEN wanted ELSE MaxBackoff

(* Variant with a mistake: a key that sits out a round has its backoff renewed. *)
BackoffRenewed(k, answer) ==
  IF answer.kind \in {"limited", "skipped"} THEN BackoffOf(answer.retryAfter) ELSE backoff[k]

BackoffAfter(k, answer) ==
  IF answer.kind = "limited" THEN BackoffOf(answer.retryAfter) ELSE backoff[k]

RoundAnswers == {[k \in Keys |-> IF k \in asked THEN a[k] ELSE Skipped] : a \in [asked -> Answers]}

(***************************************************************************)
(* do_fetch_inner, once every fetch has answered: the attempt is stamped   *)
(* and the backoffs set whatever the answers are; the snapshot is replaced *)
(* if any answer was good or there was none before.  The stamp and the     *)
(* backoffs are only read under the guard, so one step may stand for all.  *)
(***************************************************************************)
Collect(t) ==
  /\ pc[t] = "fetching"
  /\ \E a \in RoundAnswers :
    LET good == {k \in Keys : IsOk(a[k])} IN
    /\ results' = [k \in Keys |-> a[k].kind]
    /\ attempt' = 0
    /\ backoff' = [k \in Keys |-> BackoffAfter(k, a[k])]
    /\ fetched' = [k \in Keys |-> IF k \in good THEN 0 ELSE fetched[k]]
    /\ IF good = {} /\ HasSnapshot
       THEN /\ pc' = [pc EXCEPT ![t] = "idle"]
            /\ guard' = NoOne
            /\ UNCHANGED snap
       ELSE /\ pc' = [pc EXCEPT ![t] = "publishing"]
            /\ snap' = [age |-> 0, rows |-> [k \in Keys |-> RowOf(k, a[k])]]
            /\ UNCHANGED guard
    /\ UNCHANGED <<asked, over>>

(* Variant with a mistake: the shift wraps around. *)
OverQuotaAliased(rows) == {k % MaskBits : k \in {j \in Keys : AtThreshold(rows[j])}}

(* publish_usage: the bits of the mask; keys without a bit are never demoted. *)
OverQuota(rows) == {k \in Keys : k < MaskBits /\ AtThreshold(rows[k])}

(* is_over_quota, with the bits of the mask. *)
IsOverQuota(k) == k < MaskBits /\ k \in over

Publish(t) == /\ Go(t, "publishing", "idle")
              /\ over' = OverQuota(snap.rows)
              /\ guard' = NoOne
              /\ UNCHANGED <<snap, attempt, backoff, asked, results, fetched>>
-----------------------------------------------------------------------------
Older(age) == IF age < AgeCap THEN age + 1 ELSE AgeCap

OlderRow(row) == [row EXCEPT !.asOf = IF @ = ThisRound THEN @ ELSE Older(@)]

Tick == /\ snap' = IF HasSnapshot
                   THEN [age |-> Older(snap.age), rows |-> [k \in Keys |-> OlderRow(snap.rows[k])]]
                   ELSE snap
        /\ attempt' = IF attempt = NoAttempt THEN attempt ELSE Older(attempt)
        /\ backoff' = [k \in Keys |-> IF backoff[k] > 0 THEN backoff[k] - 1 ELSE 0]
        /\ fetched' = [k \in Keys |-> Older(fetched[k])]
        /\ UNCHANGED <<pc, guard, asked, results, over>>

Unguarded(t) == TryGuard(t) \/ Contended(t)
Round(t)     == BeginRound(t) \/ Serve(t) \/ Collect(t) \/ Publish(t)

Next == \/ Tick \/ PollTick
        \/ \E t \in Threads : Get(t) \/ Refresh(t) \/ Unguarded(t) \/ TakeGuard(t) \/ Round(t)

(***************************************************************************)
(* Fairness.  Time passes; a thread in the tracker goes on (its fetches    *)
(* end by their timeouts) and the poller polls.  A thread blocked on the   *)
(* guard gets it if it is free again and again: holders keep it for a      *)
(* round at most, and rounds are MIN_REFRESH apart.                        *)
(***************************************************************************)
Spec == /\ Init /\ [][Next]_vars
        /\ WF_vars(Tick) /\ WF_vars(PollTick)
        /\ \A t \in Threads : WF_vars(Unguarded(t)) /\ WF_vars(Round(t)) /\ SF_vars(TakeGuard(t))
-----------------------------------------------------------------------------
(* Every variable has its type; no backoff exceeds MAX_BACKOFF.            *)
TypeOK == /\ pc \in [Threads -> Places]
          /\ guard \in Threads \cup {NoOne}
          /\ \/ snap = NoSnapshot
             \/ snap.age \in Ages /\ \A k \in Keys : snap.rows[k] \in Rows
          /\ attempt \in Ages \cup {NoAttempt}
          /\ backoff \in [Keys -> 0..MaxBackoff]
          /\ asked \subseteq Keys /\ over \subseteq Keys
          /\ results \in [Keys -> {a.kind : a \in Answers \cup {Skipped}}]
          /\ fetched \in [Keys -> Ages]

(***************************************************************************)
(* Rounds never overlap, and the pool demotes the very keys that have a    *)
(* bit in the mask and that the snapshot shows at the threshold, as the    *)
(* briefs of /_keys do, except while the round that stored the snapshot is *)
(* about to publish it: no key is demoted for the usage of another.        *)
(***************************************************************************)
MaskInStep ==
  /\ \A t \in Threads : pc[t] \in Guarded <=> guard = t
  /\ HasSnapshot /\ (\A t \in Threads : pc[t] # "publishing") =>
       \A k \in Keys : IsOverQuota(k) <=> k < MaskBits /\ AtThreshold(snap.rows[k])

(***************************************************************************)
(* "absent means fresh this round", else "the original fetch time, however *)
(* many rounds carried it": the age that a row states, by its as_of or by  *)
(* the age of the snapshot, is the age of the key's latest good answer.    *)
(***************************************************************************)
StatedAge(k) == IF snap.rows[k].asOf = ThisRound THEN snap.age ELSE snap.rows[k].asOf

AgesHonest == HasSnapshot => \A k \in Keys : snap.rows[k].ok => StatedAge(k) = fetched[k]

(***************************************************************************)
(* "the fraction of the pool's combined plan capacity that has been used": *)
(* whatever rows are fresh, carried, failed or without a window, the       *)
(* aggregate lies between the least and the most used of the keys that     *)
(* report the window (their own number, if they agree), is unknown only if *)
(* none does, and states a reset just if all of them do and agree.         *)
(***************************************************************************)
AggregateHonest ==
  HasSnapshot => \A window \in {"session", "weekly"} :
    LET all == Aggregate(snap.rows, window)
        row(k) == snap.rows[k][window]
        reporting == {k \in Keys : Reports(snap.rows[k], window)}
    IN  /\ IF reporting = {} THEN all = NoUsage
           ELSE \E j, k \in reporting : row(j).used <= all.used /\ all.used <= row(k).used
        /\ \A reset \in Resets \ {NoReset} :
             all.reset = reset <=> reporting # {} /\ \A k \in reporting : row(k).reset = reset

(***************************************************************************)
(* "at most one fetch attempt per 5 s": whichever way a round comes about  *)
(* (get, ?refresh=1, the poller, a wait for the first snapshot), it starts *)
(* MinRefresh or more after the end of the round before.                   *)
(***************************************************************************)
RoundsSpaced ==
  [][\A t \in Threads : pc[t] # "fetching" /\ pc'[t] = "fetching" =>
       attempt = NoAttempt \/ attempt >= MinRefresh]_vars

(***************************************************************************)
(* "a transient failure can't wipe the usage mask": a key loses its place  *)
(* among the over-quota keys only by an answer of its own in that round,   *)
(* good or a persistent error.                                             *)
(***************************************************************************)
MaskKept == [][\A k \in over \ over' : results[k] \in {"ok", "error"}]_vars

(* Every request for /_usage is answered, whoever holds the guard. *)
CallsReturn == \A t \in Threads : pc[t] = "get" \/ pc[t] = "refresh" ~> pc[t] = "idle"

(***************************************************************************)
(* "a hostile Retry-After can't shelve a key indefinitely": while the      *)
(* poller runs, every key is fetched again and again, whatever it answers. *)
(***************************************************************************)
NoKeyShelved == \A k \in Keys : []<>(k \in asked /\ \E t \in Threads : pc[t] = "fetching")
=============================================================================

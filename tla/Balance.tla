------------------------------ MODULE Balance ------------------------------
(***************************************************************************)
(* What a key's balance says (src/src/usage.rs): how an upstream response  *)
(* is read (fetch_balance_http, parse_payload), what a row of the snapshot *)
(* keeps of it, which keys are over the threshold (Pool::publish_usage)    *)
(* and what the pool as a whole has used (aggregate).                      *)
(*                                                                         *)
(* Fractions are in thousandths, as far as round3 keeps them.  Amounts in  *)
(* USD are passed on unread; of them matters whether there are any.        *)
(***************************************************************************)
EXTENDS Integers, Sequences

CONSTANTS NumKeys,          \* configured keys, numbered from 0
          Concurrencies,    \* Concurrencies[k + 1] is the limit of key k
          Threshold         \* usage_threshold_x10

ASSUME NumKeysAssumption == NumKeys \in Nat \ {0}
ASSUME ConcurrenciesAssumption == Concurrencies \in [1..NumKeys -> Nat \ {0}]
ASSUME ThresholdAssumption == Threshold \in 1..1000    \* 0 turns the feature off

Keys == 0..(NumKeys - 1)

Unknown == -1
NoReset == "no reset"

(* A window of a plan: what remains, and when it starts anew. *)
Window(remaining, reset) == [known |-> TRUE, remaining |-> remaining, reset |-> reset]
NoWindow                 == [known |-> FALSE, remaining |-> 0, reset |-> NoReset]

Body(session, weekly, amounts) ==
  [decodes |-> TRUE, session |-> session, weekly |-> weekly, amounts |-> amounts]
Undecodable == [Body(NoWindow, NoWindow, FALSE) EXCEPT !.decodes = FALSE]
NoBody      == Body(NoWindow, NoWindow, FALSE)

NoRetryAfter == -1
NoStatus     == 0    \* no response, or one whose body broke off

Response(status, retryAfter, body) == [status |-> status, retryAfter |-> retryAfter, body |-> body]
-----------------------------------------------------------------------------
(* plausible: purchased credits alone, which are not in `amounts`, do not count. *)
Plausible(body) == body.session.known \/ body.weekly.known \/ body.amounts

Result(kind, retryAfter, body) == [kind |-> kind, retryAfter |-> retryAfter, body |-> body]
Skipped == Result("skipped", NoRetryAfter, NoBody)

(***************************************************************************)
(* "ok", or a FetchError: "limited" is a 429, "blip" a failure that passes *)
(* (5xx, network), "error" one that stays (other statuses, drift).         *)
(***************************************************************************)
FetchResult(r) ==
  CASE r.status = NoStatus -> Result("blip", NoRetryAfter, NoBody)
    [] r.status = 429 -> Result("limited", r.retryAfter, NoBody)
    [] r.status \in 500..599 -> Result("blip", NoRetryAfter, NoBody)
    [] r.status = 200 /\ r.body.decodes /\ Plausible(r.body) -> Result("ok", NoRetryAfter, r.body)
    [] OTHER -> Result("error", NoRetryAfter, NoBody)

(* used_fraction: clamped against drift upstream. *)
Clamped(n, low, high) == IF n < low THEN low ELSE IF n > high THEN high ELSE n

UsedFraction(window) == IF window.known THEN Clamped(1000 - window.remaining, 0, 1000) ELSE Unknown

UsageOf(window) == [used |-> UsedFraction(window), reset |-> window.reset]
NoUsage         == UsageOf(NoWindow)
-----------------------------------------------------------------------------
(* publish_usage and usage_briefs: the session window alone decides. *)
AtThreshold(row) == row.session.used # Unknown /\ row.session.used >= Threshold

(* tier_for: the plan, in caps of the free plan. *)
Weight(k) == LET concurrency == Concurrencies[k + 1] IN
             IF concurrency = 1 THEN 1 ELSE IF concurrency \in 2..3 THEN 50 ELSE 250

Unseen == "unseen"

(* unify_reset: unanimous or nothing. *)
Unify(seen, reset) == IF seen \in {Unseen, reset} THEN reset ELSE NoReset

Nothing == [sum |-> 0, weight |-> 0, reset |-> Unseen]

Reports(row, window) == row.ok /\ row[window].used # Unknown

(* Variant with a mistake: a row without the window counts with its weight. *)
PlusDiluted(total, row, window, k) ==
  IF Reports(row, window)
  THEN [sum    |-> total.sum + row[window].used * Weight(k),
        weight |-> total.weight + Weight(k),
        reset  |-> Unify(total.reset, row[window].reset)]
  ELSE [total EXCEPT !.weight = @ + (IF row.ok /\ total.sum > 0 THEN Weight(k) ELSE 0)]

Plus(total, row, window, k) ==
  IF Reports(row, window)
  THEN [sum    |-> total.sum + row[window].used * Weight(k),
        weight |-> total.weight + Weight(k),
        reset  |-> Unify(total.reset, row[window].reset)]
  ELSE total

(* What aggregate has added up after the first n keys. *)
Totals(rows, window) ==
  LET total[n \in 0..NumKeys] ==
        IF n = 0 THEN Nothing ELSE Plus(total[n - 1], rows[n - 1], window, n - 1)
  IN  total

(* aggregate, of one window: the weighted mean of the keys that report it. *)
Aggregate(rows, window) ==
  LET total == Totals(rows, window)[NumKeys]
  IN  IF total.weight = 0 THEN NoUsage
      ELSE [used  |-> (2 * total.sum + total.weight) \div (2 * total.weight),
            reset |-> total.reset]
=============================================================================

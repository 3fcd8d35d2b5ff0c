----------------------------- MODULE KeyHealth -----------------------------
(***************************************************************************)
(* The life of ONE key's health while several requests use the key at      *)
(* once: each request is admitted when it sees the key Up, waits for the   *)
(* upstream, and then writes its verdict.  Verdicts come in the order of   *)
(* the answers, not of the requests, and mark_strike takes the health lock *)
(* three times, so the verdict of one request falls between the parts of   *)
(* another's.  Each action is one critical section.                        *)
(***************************************************************************)
EXTENDS Health, FiniteSets

CONSTANTS Requests,     \* requests that use this key
          RetryAfters   \* the Retry-After values of the upstream's 429s

ASSUME RequestsAssumption    == IsFiniteSet(Requests)
ASSUME RetryAftersAssumption == RetryAfters \subseteq Nat \cup {NoRetryAfter}

VARIABLES health,   \* the record behind KeyState.health
          pc        \* where each request is

vars == <<health, pc>>

(***************************************************************************)
(*   away       not using the key                                          *)
(*   inflight   admitted to the key; the upstream has not answered         *)
(*   cooling    in mark_strike, with strikes to cool, before mark_cooldown *)
(*   clearing   in mark_strike, after mark_cooldown, strikes not reset yet *)
(***************************************************************************)
Places == {"away", "inflight", "cooling", "clearing"}

At(places) == {r \in Requests : pc[r] \in places}

Go(r, from, to) == pc[r] = from /\ pc' = [pc EXCEPT ![r] = to]

Init == health = Fresh /\ pc = [r \in Requests |-> "away"]

(***************************************************************************)
(* candidates() and admit_affine() admit a request to a key they see Up.   *)
(***************************************************************************)
Admitted(r) == /\ IsUp(health)
               /\ Go(r, "away", "inflight")
               /\ health' = Observed(health)

(* Any other look at the state: /_keys, healthy_any, a key passed over. *)
Look == health' = Observed(health) /\ UNCHANGED pc

Tick == health' = Elapsed(health) /\ UNCHANGED pc

(* The answer was relayed with a status below 400. *)
SettleOk(r) == /\ Go(r, "inflight", "away")
               /\ health' = Settled(health)

(* Settled without credit, or a network error: the health is not touched. *)
NoVerdict(r) == /\ Go(r, "inflight", "away")
                /\ UNCHANGED health

MarkDead(r) == /\ Go(r, "inflight", "away")
               /\ health' = Killed(health)

MarkCooldown(r) == /\ Go(r, "inflight", "away")
                   /\ \E ra \in RetryAfters : health' = Cooled(health, CooldownOf(ra))

MarkStrike(r) == /\ health' = Struck(health)
                 /\ Go(r, "inflight", IF health'.strikes >= StrikesToCool
                                      THEN "cooling" ELSE "away")

StrikeCools(r) == /\ Go(r, "cooling", "clearing")
                  /\ health' = Cooled(health, Cooldown429)

StrikeClears(r) == /\ Go(r, "clearing", "away")
                   /\ health' = Unstruck(health)

Verdict(r) == SettleOk(r) \/ NoVerdict(r) \/ MarkDead(r) \/ MarkCooldown(r) \/ MarkStrike(r)

Next == \/ Look \/ Tick
        \/ \E r \in Requests : Admitted(r) \/ Verdict(r) \/ StrikeCools(r) \/ StrikeClears(r)

Safe == Init /\ [][Next]_vars

(* Time passes, and a thread inside mark_strike finishes it. *)
Spec == /\ Safe
        /\ WF_vars(Tick)
        /\ \A r \in Requests : WF_vars(StrikeCools(r) \/ StrikeClears(r))
-----------------------------------------------------------------------------
(* The health is a record of the code's type, every request in its place.  *)
Typed == health \in HealthRecord /\ pc \in [Requests -> Places]

(* A deadline exists exactly while the key cools down. *)
DeadlineWhileCooling == health.left # NoDeadline <=> health.state = "cooldown"

(***************************************************************************)
(* State and deadline are two fields in the code.  They stay well formed   *)
(* together, whatever the order of the verdicts: mark_cooldown's unwrap    *)
(* and the lazy expiry rely on it.                                         *)
(***************************************************************************)
TypeOK == Typed /\ DeadlineWhileCooling

(***************************************************************************)
(* Strikes are never stuck at or above the limit: each strike beyond       *)
(* StrikesToCool - 1 has a request in mark_strike that is about to cool    *)
(* the key or to reset the count, although the three parts of mark_strike  *)
(* interleave with other strikes, successes and verdicts.                  *)
(***************************************************************************)
StrikesBounded ==
  health.strikes <= (StrikesToCool - 1) + Cardinality(At({"cooling", "clearing"}))

(***************************************************************************)
(* What is left of "dead until restart": once no request is on its way, a  *)
(* dead key is never used again and never comes back.                      *)
(***************************************************************************)
DeadWhenQuiet ==
  [][health.state = "dead" /\ At({"inflight", "cooling"}) = {}
       => health'.state = "dead" /\ At({"inflight"})' = {}]_vars

(***************************************************************************)
(* A key leaves the cooldown before its time only by a verdict: success or *)
(* death.  No amount of looking at the key ends it early.                  *)
(***************************************************************************)
CooldownHolds ==
  [][health.state = "cooldown" /\ health.left > 0 /\ health'.state # "cooldown"
       => At({"inflight"})' # At({"inflight"}) /\ health'.strikes = 0]_vars

(***************************************************************************)
(* Keys recover by themselves: a key that cools down is selectable (or     *)
(* dead) after some time, though requests already in flight may extend it. *)
(***************************************************************************)
CooldownEnds == health.state = "cooldown" ~> Observed(health).state # "cooldown"

(***************************************************************************)
(* The documentation of mark_dead, "Invalid credential: dead until         *)
(* restart" (src/src/pool.rs:425, README "A dead key stays dead until      *)
(* restart"): no step brings a dead key back.  The code does not keep it.  *)
(***************************************************************************)
DeadUntilRestart == [][health.state = "dead" => health'.state = "dead"]_vars
=============================================================================

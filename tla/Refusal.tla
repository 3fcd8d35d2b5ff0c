------------------------------ MODULE Refusal ------------------------------
(***************************************************************************)
(* When the pool refuses a request for the health of its keys, and what    *)
(* Retry-After it gives (Pool::admit, candidates and next_retry_in,        *)
(* src/src/pool.rs).  admit looks at the keys four times, one lock after   *)
(* the other, while other requests write verdicts, other threads look (and *)
(* so end cooldowns) and time passes.  Proxy takes these looks in one step *)
(* and models what follows; here are the looks, and no slots.              *)
(*                                                                         *)
(* A tick is a fraction of a second, because the pool rounds to seconds.   *)
(***************************************************************************)
EXTENDS Health, FiniteSets, FiniteSetsExt

CONSTANTS NumKeys,       \* configured keys, numbered from 0
          Second,        \* ticks in a second
          RetryAfters    \* cooldowns of 429s, in ticks

ASSUME RefusalAssumption == /\ NumKeys \in Nat \ {0} /\ Second \in Nat \ {0}
                            /\ RetryAfters \subseteq Nat

Keys == 0..(NumKeys - 1)

VARIABLES health,     \* per key: the record of Health
          pc,         \* where the request is
          at,         \* the key it looks at next
          up,         \* the candidates it found
          soonest,    \* the soonest deadline it read, as the time left
          refusal,    \* status and Retry-After of the refusal
          steadyUp,   \* history: the keys that were up all through admit
          calm,       \* history: no verdict since admit began
          wait,       \* history: time until Retry-After and a second are over
          upThen      \* history: the keys that were up at the refusal

vars    == <<health, pc, at, up, soonest, refusal, steadyUp, calm, wait, upThen>>
since   == <<wait, upThen>>
request == <<pc, at, up, soonest, refusal>>

(***************************************************************************)
(*   idle        no request, or one that was admitted                      *)
(*   alldead     is every key dead?  stops at the first that is not        *)
(*   candidates  collects the Up keys                                      *)
(*   reread      none was: is every key dead by now?                       *)
(*   retryin     next_retry_in                                             *)
(*   refused     answered 403 or 429                                       *)
(***************************************************************************)
Nobody     == [status |-> 0, retryAfter |-> 0]
Looking    == {"alldead", "candidates", "reread", "retryin"}
LastKey    == NumKeys - 1

Init == /\ health = [k \in Keys |-> Fresh]
        /\ pc = "idle" /\ at = 0 /\ up = {} /\ soonest = NoDeadline /\ refusal = Nobody
        /\ steadyUp = {} /\ calm = FALSE /\ wait = 0 /\ upThen = {}

StillUp(h) == {k \in steadyUp : IsUp(h[k])}

Goto(place)  == pc' = place /\ at' = 0
Refuse(status, retryAfter) == /\ Goto("refused")
                              /\ refusal' = [status |-> status, retryAfter |-> retryAfter]
                              /\ wait' = (retryAfter + 1) * Second
                              /\ upThen' = {k \in Keys : health[k].state = "up"}

Begin == /\ pc \in {"idle", "refused"}
         /\ Goto("alldead") /\ up' = {} /\ soonest' = NoDeadline /\ refusal' = Nobody
         /\ steadyUp' = {k \in Keys : IsUp(health[k])} /\ calm' = TRUE /\ wait' = 0
         /\ upThen' = {} /\ UNCHANGED health
-----------------------------------------------------------------------------
(* Variant with a mistake: the state is read past the lazy expiry. *)
LookRaw(k) == UNCHANGED health

(* KeyState::state of one key, which ends a cooldown that has run out. *)
Look(k) == health' = [health EXCEPT ![k] = Observed(@)]

(* The two looks for a key that is not dead. *)
AllDead ==
  /\ pc \in {"alldead", "reread"}
  /\ Look(at)
  /\ \/ /\ health'[at].state # "dead"
        /\ Goto(IF pc = "alldead" THEN "candidates" ELSE "retryin")
        /\ UNCHANGED <<refusal, since>>
     \/ health'[at].state = "dead" /\ at < LastKey /\ at' = at + 1 /\ UNCHANGED <<pc, refusal, since>>
     \/ health'[at].state = "dead" /\ at = LastKey /\ Refuse(403, 0)
  /\ UNCHANGED <<up, soonest, steadyUp, calm>>

(* candidates; with any, the request goes on to a slot. *)
Candidates ==
  /\ pc = "candidates"
  /\ Look(at)
  /\ up' = up \cup {k \in {at} : health'[k].state = "up"}
  /\ IF at < LastKey THEN at' = at + 1 /\ UNCHANGED pc
     ELSE Goto(IF up' = {} THEN "reread" ELSE "idle")
  /\ UNCHANGED <<soonest, refusal, steadyUp, calm, since>>

(* Variant with a mistake: the longest cooldown. *)
LaterOf(left) == IF soonest = NoDeadline \/ left > soonest THEN left ELSE soonest

SoonerOf(left) == IF soonest = NoDeadline \/ left < soonest THEN left ELSE soonest

(* as_secs().max(1), or 2 without a deadline. *)
RetryAfterOf(left) == IF left = NoDeadline THEN 2 ELSE Max({left \div Second, 1})

(* next_retry_in reads the records as they are. *)
NextRetryIn ==
  LET h == health[at]
      best == IF h.state = "cooldown" THEN SoonerOf(h.left) ELSE soonest
  IN  /\ pc = "retryin"
      /\ soonest' = best
      /\ IF at < LastKey THEN at' = at + 1 /\ UNCHANGED <<pc, refusal, since>>
         ELSE Refuse(429, RetryAfterOf(best))
      /\ UNCHANGED <<health, up, steadyUp, calm>>
-----------------------------------------------------------------------------
(* What other requests and threads do meanwhile. *)
Write(k, h) == /\ health' = [health EXCEPT ![k] = h]
               /\ calm' = FALSE
               /\ steadyUp' = StillUp(health')
               /\ UNCHANGED <<request, since>>

Verdict(k) == \/ Write(k, Settled(health[k]))
              \/ Write(k, Killed(health[k]))
              \/ \E left \in RetryAfters \cup {Cooldown429} : Write(k, Cooled(health[k], left))

(* /_keys, /_health and other admissions look at every key. *)
Report(k) == Look(k) /\ UNCHANGED <<request, steadyUp, calm, since>>

Tick == /\ health' = [k \in Keys |-> Elapsed(health[k])]
        /\ soonest' = IF soonest > 0 THEN soonest - 1 ELSE soonest
        /\ wait' = IF wait > 0 THEN wait - 1 ELSE 0
        /\ UNCHANGED <<pc, at, up, refusal, steadyUp, calm, upThen>>

Next == \/ Begin \/ AllDead \/ Candidates \/ NextRetryIn \/ Tick
        \/ \E k \in Keys : Verdict(k) \/ Report(k)

Spec == Init /\ [][Next]_vars
-----------------------------------------------------------------------------
(***************************************************************************)
(* No request is refused while some key could have served it all along,    *)
(* whatever the other keys and the other requests did meanwhile; a key     *)
(* whose cooldown has run out counts, whether anyone looked or not.        *)
(***************************************************************************)
NoFalseRefusal == pc \in {"reread", "retryin", "refused"} => steadyUp = {}

(***************************************************************************)
(* "keys ... are cooling down and recover automatically; wait for the      *)
(* Retry-After header, then retry": without new verdicts, a client that    *)
(* waits a second more than it was told finds a key up, and none recovers  *)
(* before the time it was told, the first second apart; a refusal for good *)
(* (403) means that every key is dead.  A key that recovered during the    *)
(* looks does not count for the wait: the code may overlook it.            *)
(***************************************************************************)
RetryAfterHonest ==
  pc = "refused" /\ calm =>
    IF refusal.status = 403 THEN \A k \in Keys : health[k].state = "dead"
    ELSE /\ wait = 0 => \E k \in Keys : IsUp(health[k])
         /\ refusal.retryAfter > 1 /\ wait > Second => \A k \in Keys \ upThen : ~IsUp(health[k])
=============================================================================

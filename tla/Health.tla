------------------------------- MODULE Health -------------------------------
(***************************************************************************)
(* The health record of one key (struct Health, src/src/pool.rs) and what  *)
(* each critical section of the pool does to it.  The deadline of a        *)
(* cooldown is kept as the time left until it: 0 once it has passed.  The  *)
(* totals `fails` and `successes` and the text `last_error` only feed the  *)
(* report of /_keys and are left out.                                      *)
(***************************************************************************)
EXTENDS Integers

CONSTANTS Cooldown429,      \* the cooldown when no Retry-After was given
          RetryAfterCap,    \* the longest Retry-After that is believed
          StrikesToCool     \* consecutive failures before a cooldown

ASSUME Cooldown429Assumption   == Cooldown429 \in Nat \ {0}
ASSUME RetryAfterCapAssumption == RetryAfterCap \in Nat
ASSUME StrikesAssumption       == StrikesToCool \in Nat \ {0}

NoDeadline == -1

HealthRecord == [state   : {"up", "cooldown", "dead"},
                 left    : Nat \cup {NoDeadline},
                 strikes : Nat]

Fresh == [state |-> "up", left |-> NoDeadline, strikes |-> 0]

(* Variants with a mistake: whatever the state is; too early; too late. *)
ObservedAnyState(h) == IF h.left <= 0 THEN [h EXCEPT !.state = "up", !.left = NoDeadline] ELSE h
ObservedEarly(h)    == IF h.state = "cooldown" /\ h.left <= 1
                       THEN [h EXCEPT !.state = "up", !.left = NoDeadline] ELSE h
ObservedLate(h)     == IF h.state = "cooldown" /\ h.left < 0
                       THEN [h EXCEPT !.state = "up", !.left = NoDeadline] ELSE h

(* KeyState::state, which also writes: a cooldown ends when it is looked at. *)
Observed(h) == IF h.state = "cooldown" /\ h.left <= 0
               THEN [h EXCEPT !.state = "up", !.left = NoDeadline]
               ELSE h

IsUp(h) == Observed(h).state = "up"

Killed(h) == [state |-> "dead", left |-> NoDeadline, strikes |-> 0]

Cooled(h, duration) == [h EXCEPT !.state = "cooldown", !.left = duration]

(* classify: the cooldown that a 429 asks for, with or without Retry-After. *)
NoRetryAfter == -1

CooldownOf(retryAfter) ==
  IF retryAfter = NoRetryAfter THEN Cooldown429
  ELSE IF retryAfter < RetryAfterCap THEN retryAfter ELSE RetryAfterCap

(* Variant with a mistake: the reset is missing. *)
UnstruckNot(h) == h

(* mark_strike: its first and its last critical section. *)
Struck(h)   == [h EXCEPT !.strikes = @ + 1]
Unstruck(h) == [h EXCEPT !.strikes = 0]

(* Variant with a mistake: the deadline of the cooldown stays. *)
SettledKeepsDeadline(h) == [h EXCEPT !.state = "up", !.strikes = 0]

(* settle with ok = true; with ok = false it changes nothing. *)
Settled(h) == [state |-> "up", left |-> NoDeadline, strikes |-> 0]

(* One unit of time passes. *)
Elapsed(h) == [h EXCEPT !.left = IF @ > 0 THEN @ - 1 ELSE @]
=============================================================================

----------------------------- MODULE MCRefusal -----------------------------
(***************************************************************************)
(* A TLC instance of Refusal: three keys, seconds of two ticks, cooldowns  *)
(* of none, a half, one and a half and three seconds, so that one runs out *)
(* during the looks and the sooner of two differs from the later by more   *)
(* than the rounding.                                                      *)
(***************************************************************************)
EXTENDS Refusal

SomeRetryAfters == {0, 1, 3}
=============================================================================

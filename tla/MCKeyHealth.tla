---------------------------- MODULE MCKeyHealth ----------------------------
(***************************************************************************)
(* TLC instances of KeyHealth.  Five requests let three of them be in the  *)
(* parts of mark_strike while another strikes again and another succeeds   *)
(* or dies.  A unit of time is 30 s: a default cooldown is 2, the          *)
(* Retry-After values are absent, 0, one below and one above the cap.      *)
(***************************************************************************)
EXTENDS KeyHealth

SomeRetryAfters == {NoRetryAfter, 0, 3, 9}
=============================================================================

----------------------------- MODULE MCKeySlots -----------------------------
(***************************************************************************)
(* The TLC instance of KeySlots.  Four threads on one slot with a line of  *)
(* two: one can own the slot while two wait and the fourth is refused or   *)
(* overtakes a woken waiter, and two notify_one can be on their way while  *)
(* others sleep.  A configured limit of 0 is raised to 1.                  *)
(***************************************************************************)
EXTENDS KeySlots
=============================================================================

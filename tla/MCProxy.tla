------------------------------ MODULE MCProxy ------------------------------
(***************************************************************************)
(* TLC instances of Proxy.  Two workers on one key of one slot and one of  *)
(* two let a request find its pinned key taken, demoted, cooling or dead;  *)
(* two conversations in a pin map of one evict each other.  Three workers  *)
(* on one slot with one place in line fill the line and overflow it.       *)
(* Durations and counts are the smallest with every outcome: a cooldown of *)
(* one tick, two strikes, two attempts.  A 429 and a network error change  *)
(* the pins and slots as the end of a strike and a strike do, so the large *)
(* instance has the failures "broken" and "unauthorized" only.             *)
(***************************************************************************)
EXTENDS Proxy

OneSlot     == <<1>>
OneSlotEach == <<1, 1>>
UnevenSlots == <<1, 2>>

NeverDemoted == {{}}
OneDemotion  == {{}, {0}}

AllAnswers     == {"ok", "redirect", "error", "unauthorized", "limited", "broken", "network"}
FailureAnswers == {"ok", "broken", "unauthorized"}
OnlyOk         == {"ok"}
OnlyBroken     == {"broken"}

Symmetry == Permutations(Workers) \cup Permutations(Ids)
=============================================================================

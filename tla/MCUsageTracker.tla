--------------------------- MODULE MCUsageTracker ---------------------------
(***************************************************************************)
(* A TLC instance of UsageTracker.  A free and a pro key, of which the pro *)
(* key has no bit in the mask; a thread that serves /_usage, with or       *)
(* without ?refresh=1, beside the poller, so that each meets the other in  *)
(* a round.  A snapshot is fresh for two ticks, rounds are one tick apart  *)
(* and a backoff outlasts a round.  The sessions of good answers are at    *)
(* 20% and, drifted out of range, at 100%, or there is none.               *)
(***************************************************************************)
EXTENDS UsageTracker, TLC

FreeAndPro == <<1, 3>>

Good(session, weekly, amounts) == Response(200, NoRetryAfter, Body(session, weekly, amounts))

Monday == "Monday"
Friday == "Friday"

UnderQuota == Good(Window(800, Monday), Window(500, Friday), FALSE)
OverQuotas == Good(Window(-5, Friday), NoWindow, FALSE)
Credit     == Good(NoWindow, NoWindow, TRUE)
Drifted    == Good(NoWindow, NoWindow, FALSE)
Failed(status)      == Response(status, NoRetryAfter, NoBody)
Limited(retryAfter) == Response(429, retryAfter, NoBody)

AllResponses == {UnderQuota, OverQuotas, Credit, Drifted, Response(200, NoRetryAfter, Undecodable),
                 Failed(NoStatus), Failed(302), Failed(401), Failed(503),
                 Limited(NoRetryAfter), Limited(9)}
=============================================================================

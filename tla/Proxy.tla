------------------------------- MODULE Proxy -------------------------------
(***************************************************************************)
(* The life of requests in the proxy: Server::proxy with attempt and       *)
(* classify (src/src/proxy.rs) over the pool's admission, health and pins  *)
(* (src/src/pool.rs).  Worker threads each carry one request at a time:    *)
(* admission to a key, one or more upstream attempts with failover, the    *)
(* verdict on the key, the answer.  An action is one critical section of   *)
(* the pool, or one upstream answer together with the first verdict it     *)
(* leads to.  The wait for a slot has the grain of Semaphore, which        *)
(* KeySlots implements; health and pins are the records of Health and      *)
(* Affinity.  Three actions stand for several short critical sections in a *)
(* row: Arrive and Lookup look at the pin and then at its key, Admit looks *)
(* at one key after the other, and SettleOk stores `rr` after the health.  *)
(***************************************************************************)
EXTENDS Health, Affinity

CONSTANTS Workers,       \* worker threads of the server
          NumKeys,       \* configured keys, numbered from 0
          Limits,        \* Limits[k + 1] is the concurrency limit of key k
          WaiterCap,     \* waiters admitted per key
          MaxAttempts,   \* MAX_ATTEMPTS: upstream attempts per request
          AffinityOn,    \* FALSE under --no-affinity
          Ids,           \* conversations
          NoId,          \* a request without identity
          Answers,       \* what the upstream may do with an attempt
          OverQuotas     \* the sets of keys the usage tracker may demote

ASSUME NumKeysAssumption == NumKeys \in Nat
ASSUME LimitsAssumption  == Limits \in [1..NumKeys -> Nat \ {0}]
ASSUME AnswersAssumption ==
  Answers \subseteq {"ok", "redirect", "error", "unauthorized", "limited", "broken", "network"}

Keys == 0..(NumKeys - 1)
NoKey == -1

ASSUME WorkersAssumption  == IsFiniteSet(Workers)
ASSUME BoundsAssumption   == WaiterCap \in Nat /\ MaxAttempts \in Nat \ {0}
ASSUME DemotionAssumption == OverQuotas \subseteq SUBSET Keys

VARIABLES pc,       \* where each worker is
          conv,     \* the conversation of its request
          key,      \* the key of its current or latest permit, or NoKey
          cands,    \* the candidates of its current admission, best first
          next,     \* the position of the candidate to try next
          retries,  \* failed attempts of this request
          health,   \* per key: the record of Health
          held,     \* per key: slots taken
          waiters,  \* per key: requests in line
          rr,       \* the key of the latest success
          over,     \* the keys at or over the usage threshold
          pins      \* the pin map

local  == <<pc, conv, key, cands, next, retries>>
pool   == <<health, held, waiters, rr, over, pins>>
vars   == <<local, pool>>
choice == <<cands, next>>
slots  == <<held, waiters>>

(***************************************************************************)
(* The program counter of a worker.  It owns a slot in the Owning places.  *)
(*   idle        no request                                                *)
(*   noauth      upstream without a key, on a path that needs none         *)
(*   lookup      in admit_affine, before the pin map                       *)
(*   pinned      about to try a slot of the pinned key                     *)
(*   admit       in admit, before it looks at the keys                     *)
(*   scan        about to try cands[next]                                  *)
(*   join        every candidate was full; about to join the line          *)
(*   waiting     in line for cands[1]                                      *)
(*   served      got its slot, still counted in the line                   *)
(*   pin         admitted, about to pin                                    *)
(*   upstream    the attempt is with the upstream                          *)
(*   cooling, clearing   in mark_strike, as in KeyHealth                   *)
(*   failed      retryable failure, verdict written, pin not yet removed   *)
(*   repin       answered with a 2xx, key settled, about to pin            *)
(*   drop        about to give its slot back and be admitted elsewhere     *)
(*   done        answered, slot still to give back                         *)
(*   rejected    answered 403, 429 or 503 by the proxy itself; no slot     *)
(***************************************************************************)
Owning == {"served", "pin", "upstream", "cooling", "clearing", "failed",
           "repin", "drop", "done"}
Places == Owning \cup {"idle", "noauth", "lookup", "pinned", "admit", "scan", "join",
                       "waiting", "rejected"}

Limit(k) == Limits[k + 1]
Free(k)  == held[k] < Limit(k)

Forget(w) == cands' = [cands EXCEPT ![w] = <<>>] /\ next' = [next EXCEPT ![w] = 1]

Goto(w, place)     == pc' = [pc EXCEPT ![w] = place]
Go(w, from, place) == pc[w] = from /\ Goto(w, place)

Init == /\ pc      = [w \in Workers |-> "idle"]
        /\ conv    = [w \in Workers |-> NoId]
        /\ key     = [w \in Workers |-> NoKey]
        /\ cands   = [w \in Workers |-> <<>>]
        /\ next    = [w \in Workers |-> 1]
        /\ retries = [w \in Workers |-> 0]
        /\ health  = [k \in Keys |-> Fresh]
        /\ held    = [k \in Keys |-> 0]
        /\ waiters = [k \in Keys |-> 0]
        /\ rr      = 0
        /\ over    = {}
        /\ pins    = NoPins
-----------------------------------------------------------------------------
(* pinned_key, pin, unpin: the pin map as the pool uses it. *)
PinOf(c) == IF AffinityOn /\ c \in Pinned(pins) THEN pins.map[c] ELSE NoKey

LookAtPin(c) == pins' = IF AffinityOn THEN AfterGet(pins, c) ELSE pins

PinTo(c, k) == pins' = IF AffinityOn /\ c # NoId THEN AfterPut(pins, c, k) ELSE pins

(* Variant with a mistake: unpins whatever key the conversation has. *)
UnpinAny(c, k) == pins' = IF c \in Pinned(pins) THEN AfterRemoveIf(pins, c, pins.map[c]) ELSE pins

Unpin(c, k) == pins' = IF c = NoId THEN pins ELSE AfterRemoveIf(pins, c, k)

(* Variant with a mistake: looking at a key to admit to it clears its strikes. *)
LookAtForgives(S) ==
  health' = [k \in Keys |-> IF k \in S THEN Unstruck(Observed(health[k])) ELSE health[k]]

(* The states of the keys in S are looked at, which may end cooldowns. *)
LookAt(S) == health' = [k \in Keys |-> IF k \in S THEN Observed(health[k]) ELSE health[k]]

(* Variant with a mistake: a pinned key is used whatever its health is. *)
UsableUnhealthy(k) == k # NoKey /\ k \notin over

(* pin_usable, but for the slot: what admit_affine checks of a pinned key. *)
Usable(k) == k # NoKey /\ IsUp(health[k]) /\ k \notin over

(***************************************************************************)
(* candidates: the Up keys, those under quota first, then the least        *)
(* loaded, then in the order that the latest success rotates.              *)
(***************************************************************************)
Load(k)  == (held[k] * 1024) \div Limit(k)
Order(k) == (k + rr) % NumKeys
Rank(k)  == <<IF k \in over THEN 1 ELSE 0, Load(k), Order(k)>>

Better(j, k) == LET a == Rank(j)
                    b == Rank(k)
                IN  \E i \in 1..3 : a[i] < b[i] /\ \A h \in 1..(i - 1) : a[h] = b[h]

UpKeys   == {k \in Keys : IsUp(health[k])}
Rankings == {ranking \in [1..Cardinality(UpKeys) -> UpKeys] :
               \A i, j \in DOMAIN ranking : i < j => Better(ranking[i], ranking[j])}
-----------------------------------------------------------------------------
(***************************************************************************)
(* A request arrives: the body is buffered, the conversation identified,   *)
(* and pinned_before computed from a look at its pin.                      *)
(***************************************************************************)
Arrive(w, c) ==
  LET k == PinOf(c) IN
  /\ Go(w, "idle", "lookup")
  /\ conv' = [conv EXCEPT ![w] = c]
  /\ LookAtPin(c)
  /\ LookAt({k})
  /\ UNCHANGED <<key, cands, next, retries, slots, rr, over>>

(* A path that needs no credentials: no key, no slot, one attempt. *)
ArriveNoAuth(w) == Go(w, "idle", "noauth") /\ UNCHANGED <<conv, key, cands, next, retries, pool>>

AnswerNoAuth(w) == Go(w, "noauth", "idle") /\ UNCHANGED <<conv, key, cands, next, retries, pool>>

(* admit_affine: is there a pin, and could its key serve? *)
Lookup(w) ==
  LET k == PinOf(conv[w]) IN
  /\ pc[w] = "lookup"
  /\ IF Usable(k)
     THEN Goto(w, "pinned") /\ key' = [key EXCEPT ![w] = k]
     ELSE Goto(w, "admit") /\ UNCHANGED key
  /\ LookAtPin(conv[w])
  /\ LookAt({k})
  /\ UNCHANGED <<conv, choice, retries, slots, rr, over>>

(* try_acquire on the pinned key; without a slot, plain admission. *)
TakePinned(w) ==
  /\ pc[w] = "pinned"
  /\ IF Free(key[w])
     THEN Goto(w, "pin") /\ held' = [held EXCEPT ![key[w]] = @ + 1] /\ UNCHANGED key
     ELSE Goto(w, "admit") /\ key' = [key EXCEPT ![w] = NoKey] /\ UNCHANGED held
  /\ UNCHANGED <<conv, choice, retries, health, waiters, rr, over, pins>>

(***************************************************************************)
(* admit: reject at once without keys (503), when every key is dead (403)  *)
(* or none is Up (429), else rank the candidates.                          *)
(***************************************************************************)
Admit(w) ==
  /\ pc[w] = "admit"
  /\ IF UpKeys = {}
     THEN Goto(w, "rejected") /\ UNCHANGED <<cands, next>>
     ELSE /\ Goto(w, "scan")
          /\ \E ranking \in Rankings : cands' = [cands EXCEPT ![w] = ranking]
          /\ next'  = [next EXCEPT ![w] = 1]
  /\ LookAt(Keys)
  /\ UNCHANGED <<conv, key, retries, slots, rr, over, pins>>

(* admit: try_acquire on each candidate in turn. *)
Scan(w) ==
  LET k == cands[w][next[w]] IN
  /\ pc[w] = "scan"
  /\ \/ /\ Free(k)
        /\ Goto(w, "pin")
        /\ key'  = [key EXCEPT ![w] = k]
        /\ held' = [held EXCEPT ![k] = @ + 1]
        /\ Forget(w)
     \/ /\ ~Free(k)
        /\ IF next[w] < Len(cands[w])
           THEN next' = [next EXCEPT ![w] = @ + 1] /\ UNCHANGED pc
           ELSE next' = [next EXCEPT ![w] = 1] /\ Goto(w, "join")
        /\ UNCHANGED <<key, held, cands>>
  /\ UNCHANGED <<conv, retries, health, waiters, rr, over, pins>>

(* Variant with a mistake: the last place in line stays empty. *)
JoinShort(w) ==
  LET k == cands[w][1] IN
  /\ pc[w] = "join"
  /\ IF waiters[k] + 1 >= WaiterCap
     THEN Goto(w, "rejected") /\ UNCHANGED waiters
     ELSE Goto(w, "waiting") /\ waiters' = [waiters EXCEPT ![k] = @ + 1]
  /\ UNCHANGED <<conv, choice, key, retries, health, held, rr, over, pins>>

(* acquire_on the best candidate, with the grain of Semaphore. *)
Join(w) ==
  LET k == cands[w][1] IN
  /\ pc[w] = "join"
  /\ IF waiters[k] >= WaiterCap
     THEN Goto(w, "rejected") /\ UNCHANGED waiters
     ELSE Goto(w, "waiting") /\ waiters' = [waiters EXCEPT ![k] = @ + 1]
  /\ UNCHANGED <<conv, choice, key, retries, health, held, rr, over, pins>>

WaitServed(w) ==
  LET k == cands[w][1] IN
  /\ Go(w, "waiting", "served")
  /\ Free(k)
  /\ key'  = [key EXCEPT ![w] = k]
  /\ held' = [held EXCEPT ![k] = @ + 1]
  /\ UNCHANGED <<conv, choice, retries, health, waiters, rr, over, pins>>

LeaveLine(w) ==
  LET k == cands[w][1] IN
  /\ \/ Go(w, "served", "pin")
     \/ Go(w, "waiting", "rejected")     \* the deadline
  /\ waiters' = [waiters EXCEPT ![k] = @ - 1]
  /\ IF pc[w] = "served" THEN Forget(w) ELSE UNCHANGED choice
  /\ UNCHANGED <<conv, key, retries, health, held, rr, over, pins>>

(* The pin at admission, in admit_affine and after a rotation. *)
PinAdmitted(w) ==
  /\ Go(w, "pin", "upstream")
  /\ PinTo(conv[w], key[w])
  /\ UNCHANGED <<conv, choice, key, retries, health, slots, rr, over>>
-----------------------------------------------------------------------------
(***************************************************************************)
(* The upstream's answer and the verdict on the key.  settle(ok) also      *)
(* makes the key the latest success.  "error" stands for every relayed     *)
(* status of 400 or more and every relay that breaks off: no verdict.      *)
(***************************************************************************)
Verdict(w, to, h) == /\ Go(w, "upstream", to)
                     /\ health' = [health EXCEPT ![key[w]] = h]
                     /\ UNCHANGED <<conv, choice, key, retries, slots, over, pins>>

SettleOk(w) ==
  /\ \/ "ok" \in Answers       /\ Verdict(w, "repin", Settled(health[key[w]]))
     \/ "redirect" \in Answers /\ Verdict(w, "done", Settled(health[key[w]]))
  /\ rr' = key[w]

SettleError(w) ==
  "error" \in Answers /\ Verdict(w, "done", health[key[w]]) /\ UNCHANGED rr

MarkDead(w) ==
  "unauthorized" \in Answers /\ Verdict(w, "failed", Killed(health[key[w]])) /\ UNCHANGED rr

MarkCooldown(w) ==
  /\ "limited" \in Answers
  /\ Verdict(w, "failed", Cooled(health[key[w]], CooldownOf(NoRetryAfter)))
  /\ UNCHANGED rr

MarkStrike(w) ==
  LET struck == Struck(health[key[w]]) IN
  /\ "broken" \in Answers
  /\ Verdict(w, IF struck.strikes >= StrikesToCool THEN "cooling" ELSE "failed", struck)
  /\ UNCHANGED rr

NetworkError(w) ==
  "network" \in Answers /\ Verdict(w, "failed", health[key[w]]) /\ UNCHANGED rr

StrikeCools(w) ==
  /\ Go(w, "cooling", "clearing")
  /\ health' = [health EXCEPT ![key[w]] = Cooled(@, Cooldown429)]
  /\ UNCHANGED <<conv, choice, key, retries, slots, rr, over, pins>>

StrikeClears(w) ==
  /\ Go(w, "clearing", "failed")
  /\ health' = [health EXCEPT ![key[w]] = Unstruck(@)]
  /\ UNCHANGED <<conv, choice, key, retries, slots, rr, over, pins>>

(* A 2xx pins the conversation again. *)
Repin(w) ==
  /\ Go(w, "repin", "done")
  /\ PinTo(conv[w], key[w])
  /\ UNCHANGED <<conv, choice, key, retries, health, slots, rr, over>>

(* Variants with a mistake: one attempt too many; failures not counted. *)
FailAttempts(w, spent, counted) ==
  /\ pc[w] = "failed"
  /\ Unpin(conv[w], key[w])
  /\ IF spent THEN Goto(w, "done") /\ UNCHANGED retries
     ELSE Goto(w, "drop") /\ retries' = [retries EXCEPT ![w] = counted]
  /\ UNCHANGED <<conv, choice, key, health, slots, rr, over>>

FailOffByOne(w)   == FailAttempts(w, retries[w] + 1 > MaxAttempts, retries[w] + 1)
FailUncounted(w)  == FailAttempts(w, retries[w] + 1 >= MaxAttempts, retries[w])

(* A retryable failure: unpin, then another attempt or a 502. *)
Fail(w) ==
  /\ pc[w] = "failed"
  /\ Unpin(conv[w], key[w])
  /\ IF retries[w] + 1 >= MaxAttempts
     THEN Goto(w, "done") /\ UNCHANGED retries
     ELSE Goto(w, "drop") /\ retries' = [retries EXCEPT ![w] = @ + 1]
  /\ UNCHANGED <<conv, choice, key, health, slots, rr, over>>

(* Variant with a mistake: the next admission comes with the slot still held. *)
DropLeaks(w) == Go(w, "drop", "admit") /\ UNCHANGED <<conv, choice, key, retries, pool>>

(* drop(permit) comes before the admission of the next attempt. *)
Drop(w) ==
  /\ Go(w, "drop", "admit")
  /\ held' = [held EXCEPT ![key[w]] = @ - 1]
  /\ UNCHANGED <<conv, choice, key, retries, health, waiters, rr, over, pins>>

(* The request is over; a permit it still owns is dropped. *)
Finish(w) ==
  /\ \/ /\ pc[w] = "done"
        /\ held' = [held EXCEPT ![key[w]] = @ - 1]
     \/ pc[w] = "rejected" /\ UNCHANGED held
  /\ Goto(w, "idle")
  /\ conv'    = [conv EXCEPT ![w] = NoId]
  /\ key'     = [key EXCEPT ![w] = NoKey]
  /\ retries' = [retries EXCEPT ![w] = 0]
  /\ Forget(w)
  /\ UNCHANGED <<health, waiters, rr, over, pins>>
-----------------------------------------------------------------------------
(* publish_usage: the tracker stores a new mask of over-quota keys. *)
PublishUsage == /\ over' \in OverQuotas
                /\ UNCHANGED <<local, health, slots, rr, pins>>

Tick == /\ health' = [k \in Keys |-> Elapsed(health[k])]
        /\ UNCHANGED <<local, slots, rr, over, pins>>

Admission(w) == \/ Lookup(w) \/ TakePinned(w) \/ Admit(w) \/ Scan(w) \/ Join(w)
                \/ WaitServed(w) \/ LeaveLine(w) \/ PinAdmitted(w)

Answer(w) == \/ SettleOk(w) \/ SettleError(w) \/ MarkDead(w) \/ MarkCooldown(w)
             \/ MarkStrike(w) \/ NetworkError(w)

Ending(w) == StrikeCools(w) \/ StrikeClears(w) \/ Repin(w) \/ Fail(w) \/ Drop(w) \/ Finish(w)

Arrival(w) == ArriveNoAuth(w) \/ \E c \in Ids \cup {NoId} : Arrive(w, c)

Next == \/ PublishUsage \/ Tick
        \/ \E w \in Workers : Arrival(w) \/ Admission(w) \/ Answer(w) \/ Ending(w) \/ AnswerNoAuth(w)

(***************************************************************************)
(* Fairness: a worker with a request goes on (its waits are bounded by a   *)
(* deadline, and the HTTP client bounds the wait for the upstream), and    *)
(* time passes.  Requests may stop arriving; SpecBusy is for claims about  *)
(* a stream of requests that does not end.                                 *)
(***************************************************************************)
Goes(w) == Admission(w) \/ Answer(w) \/ Ending(w) \/ AnswerNoAuth(w)

Spec == Init /\ [][Next]_vars /\ WF_vars(Tick) /\ \A w \in Workers : WF_vars(Goes(w))

SpecBusy == Spec /\ \A w \in Workers : SF_vars(\E c \in Ids \cup {NoId} : Arrive(w, c))
-----------------------------------------------------------------------------
(* Every variable has its type; retries stay below MAX_ATTEMPTS.           *)
TypeOK == /\ pc \in [Workers -> Places]
          /\ conv \in [Workers -> Ids \cup {NoId}]
          /\ key \in [Workers -> Keys \cup {NoKey}]
          /\ cands \in [Workers -> Seq(Keys)] /\ next \in [Workers -> 1..(NumKeys + 1)]
          /\ retries \in [Workers -> 0..(MaxAttempts - 1)]
          /\ health \in [Keys -> HealthRecord]
          /\ held \in [Keys -> Nat] /\ waiters \in [Keys -> Nat]
          /\ rr \in Keys \cup {0} /\ over \subseteq Keys
          /\ Pinned(pins) \subseteq Ids /\ pins.lru \in Seq(Ids)
          /\ \A c \in Pinned(pins) : pins.map[c] \in Keys

Owners(k) == {w \in Workers : pc[w] \in Owning /\ key[w] = k}
Line(k)   == {w \in Workers : pc[w] \in {"waiting", "served"} /\ cands[w][1] = k}

(***************************************************************************)
(* However a request ends (an answer, a failover, an exhausted failover, a *)
(* refusal, a wait that timed out), its slot and its place in line come    *)
(* back exactly once, and no key serves more requests than its limit.      *)
(***************************************************************************)
SlotsReturned == \A k \in Keys : /\ held[k] = Cardinality(Owners(k))
                                 /\ held[k] <= Limit(k)
                                 /\ waiters[k] = Cardinality(Line(k))
                                 /\ waiters[k] <= WaiterCap

(***************************************************************************)
(* "Merely admitting a request to a key never resets its strike counter":  *)
(* the strikes of a key only fall by the verdict of a request that used    *)
(* that key (a success, its death, the end of mark_strike).                *)
(***************************************************************************)
StrikesKept ==
  [][\A k \in Keys : health'[k].strikes < health[k].strikes =>
       \E w \in Owners(k) : /\ pc[w] \in {"upstream", "clearing"}
                            /\ pc'[w] # pc[w]]_vars

(***************************************************************************)
(* A conversation loses its pin only to a failure on the very key it is    *)
(* pinned to, or, as the coldest of a full map, to make room for another   *)
(* that is pinned in the same step: a request that fails on one key does   *)
(* not undo the pin another request of its conversation set meanwhile.     *)
(***************************************************************************)
PinLossJustified ==
  [][\A c \in Pinned(pins) \ Pinned(pins)' :
       \/ \E w \in Owners(pins.map[c]) : pc[w] = "failed" /\ pc'[w] # "failed" /\ conv[w] = c
       \/ Full(pins) /\ Head(pins.lru) = c /\ Pinned(pins)' \ Pinned(pins) # {}]_vars

(***************************************************************************)
(* Each key's slots and line are a Semaphore, the one that KeySlots is     *)
(* shown to implement: a request is turned away only at the end of a wait  *)
(* or when the line is full, and whoever leaves the line served has the    *)
(* slot of that very key.                                                  *)
(***************************************************************************)
Refused(k) == {w \in Workers : pc[w] = "rejected" /\ cands[w] # <<>> /\ cands[w][1] = k}

SlotsOf(k) == INSTANCE Semaphore WITH Users <- Workers, Size <- Limit(k), LineCap <- WaiterCap,
                                      owners <- Owners(k), line <- Line(k), refused <- Refused(k)

EachKeyASemaphore ==
  /\ \A k \in Keys : SlotsOf(k)!Init
  /\ [][\A k \in Keys : [SlotsOf(k)!Next]_(SlotsOf(k)!semaphore)]_vars

(***************************************************************************)
(* Each key's health is led by the requests as KeyHealth says, so what is  *)
(* shown there holds of every key of the proxy: a request is with a key    *)
(* from the moment it saw the key Up, as a candidate or as its pin, until  *)
(* its verdict or until it goes on without the key.                        *)
(***************************************************************************)
PlacesAt(k) == [w \in Workers |->
  CASE pc[w] \in {"cooling", "clearing"} /\ key[w] = k -> pc[w]
    [] \/ pc[w] \in {"pinned", "pin", "upstream"} /\ key[w] = k
       \/ pc[w] \in {"scan", "join", "waiting", "served"} /\ k \in ToSet(cands[w]) -> "inflight"
    [] OTHER -> "away"]

HealthOf(k) == INSTANCE KeyHealth WITH Requests <- Workers, RetryAfters <- {NoRetryAfter},
                                       health <- health[k], pc <- PlacesAt(k)

EachKeyAsKeyHealth ==
  /\ \A k \in Keys : HealthOf(k)!Init
  /\ [][\A k \in Keys : [HealthOf(k)!Next]_(HealthOf(k)!vars)]_vars

(***************************************************************************)
(* A request that arrived is answered: with failover, waits in line and    *)
(* keys that cool down and die, no request is retried for ever or stuck.   *)
(***************************************************************************)
EveryRequestEnds == \A w \in Workers : pc[w] = "lookup" ~> pc[w] = "idle"
-----------------------------------------------------------------------------
(***************************************************************************)
(* What the documentation and the comments say, and the code does not do.  *)
(***************************************************************************)
(* "5xx / network errors: retry the next key" (README): after a failure,   *)
(* the next attempt uses another key if one is up and has a free slot.     *)
FailoverChangesKey ==
  [][\A w \in Workers :
       retries[w] > 0 /\ pc[w] \notin Owning /\ pc'[w] \in Owning /\ key'[w] = key[w] =>
         \A k \in UpKeys \ {key[w]} : ~Free(k)]_vars

(* "requests are spread across keys (round-robin, least-loaded first)"     *)
(* (README): in an endless stream of requests, every key gets its turns.   *)
KeysTakeTurns == \A k \in Keys : []<>(\E w \in Workers : key[w] = k)
=============================================================================

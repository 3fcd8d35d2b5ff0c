# A verification of ollamux in TLA+

ollamux (`src/`) is a reverse proxy for the Ollama Cloud API that serves several
API keys behind one endpoint. Each key has a limited number of concurrent
requests, a health (up, cooling down, dead), perhaps a usage that demotes it, and
conversations pinned to it. Worker threads share all of this through small
mutexes. This directory models that shared state and its protocols in TLA+, checks
the models with TLC and proves the central invariants with TLAPS.

## The system and its parts

| Part | Source | State | Operations |
|---|---|---|---|
| Slots of a key | `pool.rs` `KeyState`, `Permit` | `held`, `waiters` (a mutex each), a condition variable | `try_acquire`, `acquire_on`, `Permit::drop` |
| Health of a key | `pool.rs` `Health` | state, `cooldown_until`, `strikes` (one mutex) | `state` (which also expires a cooldown), `mark_dead`, `mark_cooldown`, `mark_strike`, `settle` |
| Selection and admission | `pool.rs` `Pool` | `rr`, `over_quota_mask` (atomics) | `candidates`, `admit`, `admit_affine`, `is_over_quota`, `next_retry_in` |
| Affinity pin map | `affinity.rs` `AffinityMap` | hash map and recency deque (one mutex) | `get`, `put`, `remove_if` |
| Conversation identity | `affinity.rs` | none | `identity_from`: a hash of a prefix of the body |
| Request life cycle | `proxy.rs` `Server::proxy`, `attempt`, `classify` | per request: the permit, the key, the number of failures | admission, attempts, verdict, failover, pinning |
| Relays, routing, reports | `proxy.rs` | none of their own | streaming and buffered relays, `/_keys`, `/_usage` |
| Usage tracker | `usage.rs` `UsageTracker` | snapshot, fetch guard, last attempt, backoff per key | `get`, `refresh`, `tick`, `wait_for_snapshot`, `do_fetch_inner`; it publishes the mask to the pool |
| Usage decoding and aggregate | `usage.rs` | none | `fetch_balance_http`, `parse_payload`, `used_fraction`, `aggregate` with weights by plan |
| Keys file | `config.rs` | the list of keys with their limits | `Keys::load`, `from_source`, `parse` of `KEY:N` lines |
| Command line, workers, shutdown | `main.rs` | stop flag, worker threads | `parse_args`, the receive loops, `sigint_thread`, the drain |

How they interact. A worker thread takes a request, looks at the pin of its
conversation, and asks the pool for a permit: first on the pinned key, else on the
ranked candidates, else in line for the best of them. The permit is held until the
answer has been relayed. The upstream's answer becomes a verdict on the key (health)
and on the pin (affinity). Beside the workers, threads that serve `/_usage` and the
poller of `--usage-aware` run rounds of fetches and store the set of over-quota keys
that routing reads. All calls are direct; every thread shares one `Pool`.

What is hard. No lock is held across two operations: state is read, the lock is
given up, and the decision is applied later. Verdicts arrive in the order of the
answers, not of the requests. `mark_strike` takes its lock three times. A slot is
returned before its waiter is notified. A waiter waits for one key chosen up to 30 s
before. A refusal is decided by four looks at keys that change in between. Rounds of the usage
tracker are started from four different places. The main thread, its workers and the signal thread
end in an order of their own. Nothing is persisted, so there is no crash recovery; a
restart is a fresh start.

What makes each part correct:

- slots: never more requests than slots, no slot lost, no wake-up lost, every wait ends;
- health: deadline and state agree, strikes are counted to a bound, cooldowns end;
- refusals: none past a key that could have served, a Retry-After that is true;
- admission and life cycle: every exit returns the slot and the place in line exactly
  once, admission never forgives strikes, every request is answered;
- pins: bounded, least recently used out first, lost only for a reason;
- conversations: one identity from the first user message on, and never another's;
- usage: one round at a time, rounds spaced, honest ages, a true mean, no demotion lost
  to a transient failure, no key shelved for ever;
- start and shutdown: no input passes unnoticed, requests are taken while a thread is
  free, the drain lasts as long as promised and ends.

## Modules

| Module | Models | Grain of a step |
|---|---|---|
| `Semaphore` | what a key promises its users (abstract) | an atomic grab, join, serve, depart |
| `KeySlots` | slots, waiters and condvar of one key | one critical section or one clock read |
| `Health` | the health record and its transitions, as operators | one critical section each |
| `KeyHealth` | one key's health under many requests | one critical section |
| `RecencyMap` | what the pin map promises (abstract) | one operation |
| `Affinity` | the operations of the pin map, as operators on a record of map and deque | one critical section each |
| `AffinityMap` | the pin map as a state machine | one operation |
| `Conversations` | requests of growing conversations and their identity; extends `AffinityMap` | one request |
| `Proxy` | requests over all keys; extends `Health` and `Affinity` | one critical section, or one answer with its first verdict |
| `Refusal` | the looks of `admit` at the health of the keys; extends `Health` | one critical section |
| `Balance` | what a response says of a key's usage, and the aggregate, as operators | |
| `UsageTracker` | rounds, snapshot, backoff, mask; extends `Balance` | one lock operation, or one part of a round |
| `Startup` | arguments, environment, keys | one argument or line |
| `Daemon` | the process from start to exit; extends `Startup` | one receive, one look at the stop flag, one signal |
| `KeySlots_proofs`, `KeyHealth_proofs`, `Affinity_proofs`, `Conversations_proofs`, `Proxy_proofs`, `Refusal_proofs`, `UsageTracker_proofs`, `Daemon_proofs` | theorems and their lemmas | |
| `MC*` | instances for TLC | |

### KeySlots

`pc[t]` is where a thread stands in `try_acquire`, `acquire_on` or `Permit::drop`;
`held` and `waiters` are the two counters; `expired` is the set of threads whose
deadline has passed. The loop of `acquire_on` is `TakeSlot | MissSlot`, then `GiveUp |
Park` (the clock read), then `Sleep`. `wait_timeout_while` looks at its condition under
the lock before the first sleep (`Sleep`) and after each wake-up (`Recheck`); the end of
the 250 ms chunk is `ChunkEnds`. `DropPermit` and `NotifyOne` are two steps because the
code releases the lock in between. `NotifyOne` wakes any sleeper: the code's comment says
FIFO, the platform does not promise it, and nothing here needs it.

### Health and KeyHealth

A deadline is the time left until it. `Observed` is `KeyState::state`, which writes when a
cooldown has run out. Requests are admitted when they see the key up and write one
verdict each. `MarkStrike`, `StrikeCools` and `StrikeClears` are the three lock sections
of `mark_strike`. The totals `fails` and `successes` and the text `last_error` are only
reported and are left out.

### Affinity and AffinityMap

A record of the map (a function on the pinned conversations) and the deque. The
defensive branch of `put` that clears everything is modelled (`NoPins` in `Evicted`); the
invariant `InStep` says it is never taken. `AffinityMap` maps the two to the order of last
uses of `RecencyMap`.

### Conversations

A text is its head, as much as the caps let into the hash, and the rest. `IdentityOf` is
`identity_from`: the family of the API, the model, and the heads of the messages up to
the first that is not a system message, or the head of the prompt. The role of a message
is part of the hash only if its text fits, because it is serialized after the text.
Clients send their conversation one message longer each time (`NextTurn`) or start
another. The
64-bit FNV-1a hash is taken to be injective, so what is shown is that the right data
enters the hash, not that 64 bits suffice. The identities are the keys of the pin map,
whose operations the module extends.

### Proxy

A worker carries one request; `pc` runs through admission, the upstream, the verdict,
pinning, failover and the return of the slot. The wait for a slot is taken at the grain of
`Semaphore` (join, served, leave), which `KeySlots` is shown to implement, and `Proxy` is
shown to implement `Semaphore` too, key by key (`SlotsOf`): whoever owns a slot, stands in
line or was turned away at a key is so in the one and in the other. In the same way the
health of each key is that of a `KeyHealth` (`HealthOf`), where a worker is `inflight` at a
key from the moment it saw the key up, as its pin or as a candidate, until its verdict or
until it goes on without the key. A request that was turned away keeps its candidates
until it ends, as the code does, so the key that refused it is known. Upstream
answers are classes: `ok` (2xx), `redirect` (3xx, which credits the key and does not
pin), `error` (any status relayed as 400 or more, and relays that break), `unauthorized`,
`limited` (429), `broken` (5xx), `network`. Retry-After values are left to `KeyHealth`.
`PublishUsage` stands for the usage tracker. Three actions take several short critical
sections in one step: the looks at pin and key (`Arrive`, `Lookup`), the looks at all
keys (`Admit`), and `settle` with its store of `rr`. The response header
`X-Ollamux-Affinity` changes no state and is left out; refusals are `Refusal`'s.
`Rankings` are the sorted sequences of the keys that are up: `sort_by_key` has one
result, because the rotated index breaks every tie, and the relation says what that
result is instead of computing it, which the prover can use.

### Refusal

The request walks over the keys one lock at a time: is every key dead (`alldead`), which
are up (`candidates`), is every key dead by now (`reread`), and when does the first
recover (`retryin`, which reads the records without expiring them). Verdicts of other
requests (`Verdict`), looks by reports and other admissions (`Report`) and time (`Tick`)
fall in between. A tick is a fraction of a second because `next_retry_in` is rounded down
to seconds. `steadyUp`, `calm`, `wait` and `upThen` are history. Slots are not here: a
request that finds candidates goes back to `idle`.

### UsageTracker

Times are ages: of the snapshot, of the last attempt, of each carried row. A row is
`ok`, the used fraction and reset of the session and the weekly window, and `as_of`.
The upstream answers with a response (status, Retry-After, body); `Balance!FetchResult`
makes of it a good answer, `limited`, a `blip` that passes (5xx, network) or an `error`
that stays (other statuses, drift). Fractions are in thousandths, the precision of
`round3`. Of amounts in USD only their presence counts. A thread tries or takes the guard,
decides (`StartsRound`), and either serves what there is or runs `BeginRound`,
`Collect`, `Publish`. The store of the snapshot and the store of the mask are two steps.
`MaskBits` is the width of the mask. `fetched` and `results` are history. The
snapshot and the pool's mask meet in `over`, the variable of the same name in `Proxy`.

### Startup and Daemon

An argument is a flag and a value, of which matters whether it reads as a number and as a
percentage. A line of keys is the names it lists and the tail after its last colon; the
code splits by lines only, so a line of two names is one key (`CommasSeparate`). `Daemon` goes on
with the bind, the workers (`WorkersFor` is the clamp to 4..64, scaled), the loops of main
thread and workers, the signal thread and the drain. tiny_http is a queue of requests and
receive errors: an error ends a worker for good, is logged by the main thread, and
breaks off the drain. A SIGINT is pending until `sigwait` takes it and does not queue; a
SIGTERM, which nothing masks or awaits, ends the process (`Terminate`). How
a request is handled is `Proxy`'s business: here it takes a while or for ever. Sums are
modulo `MaxU32 + 1`, as in the release build.

### Variants with a mistake

Operators commented "Variant with a mistake" are the definition after them with one
plausible bug: a missing reset, an off-by-one, a swapped order. They are not part of any
specification. Putting one in place of the definition must make TLC find the listed
property violated (`mutants` in `PROJECT.json`), which shows that the property depends on
the code it is about.

## Runs

| Run | Instance | Shows |
|---|---|---|
| `keyslots` | 4 threads, 1 slot (configured 0), line of 2; 99,144 states | `TypeOK`, `SlotsAccounted`, `WaitersAccounted`, `NoLostWakeup`; every wait ends; refinement of `Semaphore` with its liveness |
| `keyhealth` | 5 requests, 3 strikes, cooldown 2, Retry-After absent, 0, 3, 9 under a cap of 4; 31,139 states | `TypeOK` with `DeadlineWhileCooling`, `StrikesBounded`, `DeadWhenQuiet`, `CooldownHolds`, `CooldownEnds` |
| `proxy_failover` | 2 workers, keys of 1 and 2 slots, 2 conversations, 1 pin, 2 attempts, demotion of a key at any time; 2 million states | `TypeOK`, `SlotsReturned`, `StrikesKept`, `PinLossJustified`; each key refines `KeyHealth` (`EachKeyAsKeyHealth`) |
| `proxy_queue` | 3 workers, 1 slot, line of 1, all answers; 75,974 states | with a full line, the key refines `Semaphore` (`EachKeyASemaphore`); `EveryRequestEnds` |
| `refusal` | 3 keys, a second of 2 ticks, Retry-After of 0, 1 and 3 ticks and a cooldown of 6; 249,258 states | `NoFalseRefusal`, `RetryAfterHonest` |
| `conversations` | 10 openings, up to 3 messages, 6 identities, 2 keys, a map of 3; 89,424 states | `InStep`, `IdentityStable`, `ConversationsApart`; refinement of `RecencyMap` |
| `usage` | 1 caller and the poller, a free and a pro key, 1 mask bit, ages up to 2; 60,945 states | `MaskInStep`, `AgesHonest`, `AggregateHonest`, `RoundsSpaced`, `MaskKept`; `CallsReturn`, `NoKeyShelved` |
| `daemon` | argument lists up to 3, texts up to 2 lines, 2 workers, 2 requests, 2 receive errors, a drain of 2; 514,160 states | `ArgsAccounted`, `OneEntryPerKey`, `InFlightGetTheDrain`; `RequestsTaken`, `ShutdownEnds`, `ForceQuits` |
| `keyhealth_dead` | 2 requests | violation of `DeadUntilRestart` |
| `proxy_nextkey`, `proxy_turns` | 1 worker, 2 keys | violations of `FailoverChangesKey`, `KeysTakeTurns` |
| `daemon_commas` | as `daemon` | violation of `CommasSeparate` |

Bounds and why they are enough.

- `keyslots`: with four threads one owns the slot, two wait and the fourth is turned away
  or overtakes; two returns of a slot can be on their way to their notification at once.
  Larger instances differ in numbers only, and the safety part is proved for all of them.
- `keyhealth`: five requests exceed three strikes by two, so strikes fall between the
  parts of two other `mark_strike` calls. The record is finite without a cap because
  every duration is.
- `proxy_failover`: two requests are enough for one to undo or overtake what the other
  decided; capacity 1 makes eviction constant. 429 and network errors are left to
  `proxy_queue`: for slots and pins they are a strike with and without its cooldown.
  Workers are symmetric, and so are conversations: nothing but their pins tells them
  apart. The safety part is proved for all instances.
- `refusal`: three keys let one die, one recover and one cool while a fourth look is due;
  two ticks to the second make the rounding visible. The cooldown of 6 outlasts every
  Retry-After, so the soonest is not always the first or the last read.
- `conversations`: six identities on a map of three are constantly evicted; the openings
  share a system message, a head, a model or a text across APIs, pairwise.
- `usage`: of several callers only one holds the guard and the others are the poller's
  equals before it, so one caller and the poller meet in every way; that any number
  of threads is safe is proved. One mask bit for two keys is 64 bits for 65. `AgeCap` 2
  equals the fresh time, and a Retry-After of 9 exceeds `MAX_BACKOFF`, scaled to 2.
- `daemon`: three arguments show what a flag takes of the next one, two lines a
  duplicate. Two errors end both workers while a request is queued. `MaxU32` 7 lets
  limits of 3 and 5 sum to 0.

All specifications check for deadlock; in `Daemon` the end of the process is a stutter
(`Ended`), the only place where that system stops.

### Fairness

- `KeySlots`: threads inside pool code run on; so does the clock. Nothing is assumed of
  holders (an answer may stream for ever) or of arrivals. `ChunkEnds` is strongly fair
  because `wait_timeout_while` measures its 250 ms from its first wait, so going back to
  sleep does not start it again.
- `KeyHealth`: time passes and a thread in `mark_strike` finishes it.
- `Proxy`: a worker with a request goes on. Waits are bounded by `WAIT_TIMEOUT`; the
  HTTP client bounds each read from the upstream, not the length of a stream, so
  `EveryRequestEnds` is about upstreams that end their answers. `SpecBusy` adds that
  requests never stop arriving; it is used for the claim `KeysTakeTurns` alone.
- `UsageTracker`: time passes, fetches end by their timeouts, the poller of
  `--usage-aware` polls (so `NoKeyShelved` holds only with that flag), and a thread blocked
  on the guard gets it if it is free again and again.
- `Daemon`: the main thread, the workers and the signal thread run on, and time passes.
  Nothing is assumed of clients, signals, or the time a handler takes.

## Proofs

All theorems hold for every value of the constants, from the assumptions named in the
modules (finite sets of threads, limits in `Nat`, positive cooldown and strikes).

- `KeySlots_proofs`. The inductive invariant joins `TypeOK`, `SlotsAccounted`,
  `WaitersAccounted` and `NoLostWakeup`. The counters alone are not inductive: that the
  saturating decrements never saturate needs the equation between a counter and the
  number of threads in the places it counts. `MoveOne` says how that number changes
  when one thread moves, and a notifier with its sleeper is two moves; each action is
  then arithmetic. `SemaphoreImplemented` maps owners, line and refused to sets of places
  and shows each step to be a step of `Semaphore` or a stutter.
- `KeyHealth_proofs`. `DeadlineWhileCooling` and `StrikesBounded` are inductive with
  the type; the bound on strikes counts the requests inside `mark_strike` as a potential:
  a strike at the limit moves its request into the count, and the reset leaves it with
  zero strikes. `DeadCorrect` is an action property: without a request on its way no
  enabled step writes the state of a dead key. `CooldownCorrect` is another: a look does
  nothing before the deadline, and of the verdicts only success and death end a cooldown.
  The theorems are about `Safe`, the specification without fairness.
- `Proxy_proofs`. The slots and waiters of a key are the sizes of two sets of workers
  (one worker moving at a time); that `cands[next]` is a key needs the length of the
  ranking, that a retry is counted below `MAX_ATTEMPTS` the place of the worker, and that
  whoever is served left the line of that very key that `key` and `cands` agree.
  `StrikesKept` and `PinLossJustified` are action properties that follow from the types and
  `InOrder`. `SemaphoresImplemented` and `HealthsImplemented` are the refinements of the
  two modules, for every key at once: of each action they show what the worker that takes
  it becomes at each key, and that this is a step there or a stutter. `EachKeySafe` puts it
  as one refinement mapping per key, so the theorems of `KeyHealth_proofs` hold of each key
  of the proxy. (The last inference is the reader's: the prover cannot cite a theorem
  through an instance with a parameter.) Of a ranking the proofs use only that it lists
  keys that are up, so they hold whatever order a sort over changing loads produces.
- `Refusal_proofs`. `NoFalseRefusal` is inductive with the place of the walk: the keys up
  all along are among those still to be looked at (`SteadyFound`). For `RetryAfterHonest`
  two facts are carried through the walk while no verdict falls in (`calm`): keys passed
  are dead, up, or recover no sooner than `soonest` (`Passed`), and some key does recover
  by then. The ticks between are arithmetic, the rounding to seconds is a lemma.
- `Conversations_proofs`, on the lemmas of `Affinity_proofs`. The type alone is not kept:
  `put` stays within the capacity only if the conversation it evicts is really pinned.
  `InOrder` says that the deque lists the pinned conversations, each once; every
  operation preserves it. For the refinement the deque is the order of last uses, as
  pairs, and its head the coldest; each operation is then one of `RecencyMap`.
  `IdentityCorrect` rests on the first message that is not a system message being the same
  in a sequence and in its extensions, `ApartCorrect` on its being the last part of an
  identity. Requests use the map only by its operations (`MapUsed`), once
  every identity a client can cause is an id (`IdsAssumption`, which TLC evaluates).
- `UsageTracker_proofs`. That a round excludes others (`OneRound`) and that there was an
  attempt just if there is a snapshot make `RoundsSpaced` follow for each place a
  round starts from. `MaskFollows` ties mask and snapshot but for the moment between the
  two stores; `LossExplained` says of that moment which keys the mask is about to
  lose, which is `MaskKept`. `AgesHonest` is inductive with these. `AggregateCorrect` is
  about the sums over the rows: after each key the weighted sum lies between the weight
  times the least and times the largest fraction seen, so their quotient, rounded, does.
  A reset is stated just if the rows that report one agree on it.
- `Daemon_proofs`. `ArgsParsed` and `KeysParsed` say what holds of the part already read;
  `DrainTimed` says that the time since the stop flag and the time left add up to the
  drain or more. `TypeCorrect` includes that at least four workers are spawned, for
  which the sum of the limits, taken modulo 2^32, is a number.

The sums (`Totals`, `TotalSlots`) are recursive functions. What holds of them is shown
by the well-foundedness of the naturals, from the least index at which it fails.

Only model-checked: liveness and `ENABLED`, which are out of the prover's reach
(`WaitEnds`, `CooldownEnds`, `EveryRequestEnds`, `CallsReturn`, `NoKeyShelved`,
`RequestsTaken`, `ShutdownEnds`, `ForceQuits`, and the liveness in `ImplementsSemaphore`).
Every safety invariant and every action property of a passing run is proved.

## Where documents and code disagree

Each is a run that TLC finds violated, with the schedule in its trace:

1. `DeadUntilRestart`: the documents say a dead key stays dead until restart. `settle` and
   `mark_cooldown` overwrite the state, so an answer in flight revives it. What is left
   of the promise is `DeadWhenQuiet`, which is checked and proved.
2. `FailoverChangesKey`: the documents say a failure is retried on the next key. The
   retry ranks the keys as if nothing had happened, and a key below three strikes, its
   slot just freed, often comes first again.
3. `KeysTakeTurns`: the documents say requests are spread round-robin. `(i + rr) % n` with
   `rr` the latest success leaves a sequence of single requests on one key.
4. `CommasSeparate`: the documents say commas separate keys in `OLLAMUX_KEYS`. `parse`
   splits by lines only, and `a,b` becomes one key. `OneEntryPerKey` leaves such lists
   out: what an entry per key is, code and documents do not agree on.

Smaller disagreements noted while modelling, without a run:

- a later, shorter cooldown replaces a longer one (`pool.rs` 447; README lines 249-250);
- a waiter may be given a slot of a key that died meanwhile (`pool.rs` 698; the comment at
  644 speaks of a healthy key);
- a response may say `hit` though another key served it (`proxy.rs` 294-300, "always means
  the pinned key could serve and was chosen"; the comment of `pin_usable` accepts it);
- network errors leave no strike (README lines 253-254 say they do, `openapi.yaml` 41-42
  that they do not);
- the Retry-After of a refusal is the soonest recovery (`pool.rs` 155 says the longest).
  It is rounded down, so a client that waits exactly that long may be up to a second
  early, and a key that recovered while `admit` was looking is overlooked
  (`pool.rs` 666-680);
- SIGTERM starts no drain: the code masks and awaits SIGINT alone (`main.rs` 343, 375), so
  a SIGTERM (the shipped unit is stopped by one) ends the process with the requests it
  relays. The man page (`ollamux.1` 176-180) says it drains as SIGINT does. The action
  `Terminate` models it;
- a request that the main thread handles itself, in its loop or in the drain, is
  not cut off after 5 s (`main.rs` 120-140). `ShutdownEnds` allows for it;
- `over_quota` in `/_keys` is the threshold alone; beyond 64 keys routing does not demote
  what it shows (`IsOverQuota` and `MaskInStep` state the difference);
- limits whose sum exceeds 32 bits wrap in a release build; the clamp still leaves four
  workers (`TypeOK` of `Daemon`).

## Not modelled

- A key whose rank changes while `sort_by_key` runs (`pool.rs` 580): the comparison reads
  `in_use` again and again. `Rankings` are of one moment; which order the library's sort
  then produces is not specified.
- HTTP framing, JSON, chunked relays and body limits: formatting and I/O. Relays are
  modelled by the status they report.
- The dispatch on paths and the JSON of reports change no state.
- The collisions of a 64-bit hash, the warning about file permissions, packaging.
- Poisoned mutexes are recovered by the code and behave as locks.

## Plan

1. Done: all modules and runs above; the proofs listed under "Proofs".
2. Left: rankings that read loads while they change, as a model of their own with the
   comparisons of the sort; `Startup`'s parser as a function of the whole list of arguments.

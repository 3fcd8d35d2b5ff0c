------------------------------ MODULE KeySlots ------------------------------
(***************************************************************************)
(* The concurrency slots of ONE upstream key (src/src/pool.rs): the        *)
(* counter `held`, the counter `waiters`, and the condition variable on    *)
(* which a request thread sleeps until a slot frees or its deadline comes. *)
(*                                                                         *)
(* A step of the model is one critical section of the code, or one read of *)
(* the clock: whatever the code does between two locks, other threads do   *)
(* between two steps.  In particular the decrement of `held` by a dropped  *)
(* Permit and its notify_one are two steps, and so are the failed attempt  *)
(* to take a slot, the look at the deadline and the wait on the condvar.   *)
(***************************************************************************)
EXTENDS Integers, FiniteSets

CONSTANTS Threads,      \* the request threads of the server
          Configured,   \* the N of `KEY:N`; KeyState::new raises 0 to 1
          WaiterCap     \* at most this many threads wait for one key

ASSUME ThreadsAssumption    == IsFiniteSet(Threads)
ASSUME ConfiguredAssumption == Configured \in Nat
ASSUME WaiterCapAssumption  == WaiterCap \in Nat

VARIABLES pc,        \* where each thread is in its use of the key
          held,      \* KeyState.held: slots taken
          waiters,   \* KeyState.waiters: threads inside acquire_on
          expired    \* the threads whose deadline has passed

vars == <<pc, held, waiters, expired>>

Concurrency == IF Configured > 1 THEN Configured ELSE 1

(***************************************************************************)
(* The program counter of a thread:                                        *)
(*   idle      not using this key                                          *)
(*   trying    in acquire_on, about to call try_acquire                    *)
(*   missed    try_acquire returned None; about to read the clock          *)
(*   parking   the deadline has not passed; about to lock `held` and wait  *)
(*   asleep    in the condvar's wait set                                   *)
(*   woken     notified: out of the wait set, about to look at `held`      *)
(*   admitted  holds a slot, not yet out of `waiters`                      *)
(*   gaveup    no slot before the deadline, not yet out of `waiters`       *)
(*   full      acquire_on answered Full                                    *)
(*   timedout  acquire_on answered Timeout                                 *)
(*   holding   owns a Permit                                               *)
(*   dropped   its Permit gave the slot back, notify_one still to come     *)
(***************************************************************************)
Waiting  == {"trying", "missed", "parking", "asleep", "woken", "admitted", "gaveup"}
Owning   == {"admitted", "holding"}
Places   == Waiting \cup Owning \cup {"idle", "full", "timedout", "dropped"}

At(places) == {t \in Threads : pc[t] \in places}

Go(t, from, to) == pc[t] = from /\ pc' = [pc EXCEPT ![t] = to]

Init == /\ pc      = [t \in Threads |-> "idle"]
        /\ held    = 0
        /\ waiters = 0
        /\ expired = {}

(* Variant with a mistake: the limit is compared with <=. *)
TryAcquireOffByOne(t) == /\ Go(t, "idle", "holding")
                         /\ held <= Concurrency
                         /\ held' = held + 1
                         /\ UNCHANGED <<waiters, expired>>

(***************************************************************************)
(* try_acquire, as Pool::admit calls it on each candidate and admit_affine *)
(* on the pinned key.  A miss changes nothing.                             *)
(***************************************************************************)
TryAcquire(t) == /\ Go(t, "idle", "holding")
                 /\ held < Concurrency
                 /\ held' = held + 1
                 /\ UNCHANGED <<waiters, expired>>

(* Variant with a mistake: the bound on the waiters is compared with <=. *)
EnterOffByOne(t) == /\ waiters <= WaiterCap
                    /\ Go(t, "idle", "trying")
                    /\ waiters' = waiters + 1
                    /\ expired' = expired \ {t}
                    /\ UNCHANGED held

(* acquire_on, first critical section: join the waiters, or answer Full. *)
Enter(t) == /\ waiters < WaiterCap
            /\ Go(t, "idle", "trying")
            /\ waiters' = waiters + 1
            /\ expired' = expired \ {t}
            /\ UNCHANGED held

QueueFull(t) == /\ waiters >= WaiterCap
                /\ Go(t, "idle", "full")
                /\ UNCHANGED <<held, waiters, expired>>

(* acquire_on, the loop. *)
TakeSlot(t) == /\ Go(t, "trying", "admitted")
               /\ held < Concurrency
               /\ held' = held + 1
               /\ UNCHANGED <<waiters, expired>>

(* Variant with a mistake: each failed attempt sets the deadline anew. *)
MissSlotRearms(t) == /\ Go(t, "trying", "missed")
                     /\ held >= Concurrency
                     /\ expired' = expired \ {t}
                     /\ UNCHANGED <<held, waiters>>

MissSlot(t) == /\ Go(t, "trying", "missed")
               /\ held >= Concurrency
               /\ UNCHANGED <<held, waiters, expired>>

GiveUp(t) == /\ t \in expired
             /\ Go(t, "missed", "gaveup")
             /\ UNCHANGED <<held, waiters, expired>>

Park(t) == /\ t \notin expired
           /\ Go(t, "missed", "parking")
           /\ UNCHANGED <<held, waiters, expired>>

(***************************************************************************)
(* wait_timeout_while(held, chunk, |h| h >= concurrency): the condition is *)
(* looked at before the first wait and after each wake-up, always under    *)
(* the lock that a Permit needs to give a slot back.                       *)
(***************************************************************************)
Look(t, from) == /\ Go(t, from, IF held >= Concurrency THEN "asleep" ELSE "trying")
                 /\ UNCHANGED <<held, waiters, expired>>

(* Variant with a mistake: wait_timeout, without the condition. *)
SleepBlindly(t) == Go(t, "parking", "asleep") /\ UNCHANGED <<held, waiters, expired>>

Sleep(t)   == Look(t, "parking")
Recheck(t) == Look(t, "woken")

(***************************************************************************)
(* The 250 ms chunk (or what is left of the deadline) ends: the wait       *)
(* returns whatever `held` is.  A spurious wake-up of the condvar behaves  *)
(* as this step or as no step at all.                                      *)
(***************************************************************************)
ChunkEnds(t) == /\ Go(t, "asleep", "trying")
                /\ UNCHANGED <<held, waiters, expired>>

DeadlinePasses(t) == /\ pc[t] \in Waiting
                     /\ t \notin expired
                     /\ expired' = expired \cup {t}
                     /\ UNCHANGED <<pc, held, waiters>>

(* Variant with a mistake: a wait that timed out returns early. *)
LeaveLeaky(t) == \/ /\ Go(t, "admitted", "holding")
                    /\ waiters' = IF waiters > 0 THEN waiters - 1 ELSE 0
                    /\ UNCHANGED <<held, expired>>
                 \/ Go(t, "gaveup", "timedout") /\ UNCHANGED <<held, waiters, expired>>

(* acquire_on, last critical section: out of the waiters, with the result. *)
Leave(t) == /\ \/ Go(t, "admitted", "holding")
               \/ Go(t, "gaveup", "timedout")
            /\ waiters' = IF waiters > 0 THEN waiters - 1 ELSE 0
            /\ UNCHANGED <<held, expired>>

(* Permit::drop: give the slot back under the lock, then wake one waiter. *)
DropPermit(t) == /\ Go(t, "holding", "dropped")
                 /\ held' = IF held > 0 THEN held - 1 ELSE 0
                 /\ UNCHANGED <<waiters, expired>>

NotifyOne(t) == /\ pc[t] = "dropped"
                /\ \/ /\ At({"asleep"}) = {}
                      /\ pc' = [pc EXCEPT ![t] = "idle"]
                   \/ \E w \in At({"asleep"}) :
                        pc' = [pc EXCEPT ![t] = "idle", ![w] = "woken"]
                /\ UNCHANGED <<held, waiters, expired>>

(* Variant with a mistake: a refused request gives a slot back. *)
RefusedGivesBack(t) == /\ pc[t] \in {"full", "timedout"}
                       /\ pc' = [pc EXCEPT ![t] = "idle"]
                       /\ held' = held - 1
                       /\ UNCHANGED <<waiters, expired>>

(* Pool::admit turns Full and Timeout into a 429; the thread goes on. *)
Refused(t) == /\ pc[t] \in {"full", "timedout"}
              /\ pc' = [pc EXCEPT ![t] = "idle"]
              /\ UNCHANGED <<held, waiters, expired>>

InAcquireOn(t) == \/ TakeSlot(t) \/ MissSlot(t) \/ GiveUp(t) \/ Park(t)
                  \/ Sleep(t) \/ Recheck(t) \/ Leave(t)

Step(t) == \/ TryAcquire(t) \/ Enter(t) \/ QueueFull(t)
           \/ InAcquireOn(t) \/ ChunkEnds(t) \/ DeadlinePasses(t)
           \/ DropPermit(t) \/ NotifyOne(t) \/ Refused(t)

Next == \E t \in Threads : Step(t)

(***************************************************************************)
(* Fairness.  A thread inside the pool's code keeps running, and so does   *)
(* the clock.  Nothing is assumed of requests arriving, nor of a holder:   *)
(* the upstream decides how long a Permit lives.  ChunkEnds is strongly    *)
(* fair because wait_timeout_while measures its 250 ms from its first      *)
(* wait: going back to sleep does not start the chunk again.               *)
(***************************************************************************)
Running(t) == InAcquireOn(t) \/ NotifyOne(t) \/ Refused(t)

Clock(t) == SF_vars(ChunkEnds(t)) /\ WF_vars(DeadlinePasses(t))

Spec == /\ Init /\ [][Next]_vars
        /\ \A t \in Threads : WF_vars(Running(t)) /\ Clock(t)
-----------------------------------------------------------------------------
(* Every thread is in a place of the code; the counters never go below 0.  *)
TypeOK == /\ pc \in [Threads -> Places]
          /\ held \in Nat
          /\ waiters \in Nat
          /\ expired \in SUBSET Threads

(***************************************************************************)
(* Every taken slot belongs to a live Permit and the key never has more    *)
(* requests upstream than its limit: what `held` counts is exactly the     *)
(* threads that own a Permit, so the saturating decrement never saturates. *)
(***************************************************************************)
SlotsAccounted == /\ held = Cardinality(At(Owning))
                  /\ held <= Concurrency

(***************************************************************************)
(* The queue bound is kept although `waiters` has a mutex of its own: it   *)
(* counts exactly the threads inside acquire_on, at most WaiterCap.        *)
(***************************************************************************)
WaitersAccounted == /\ waiters = Cardinality(At(Waiting))
                    /\ waiters <= WaiterCap

(***************************************************************************)
(* No lost wake-up.  notify_one comes after the lock is released, so other *)
(* threads run between a slot's return and the wake-up it owes; still,     *)
(* whenever a thread sleeps, each free slot is matched by a notify_one     *)
(* still to come or by a waiter that is awake and about to try again.      *)
(***************************************************************************)
Due == {"dropped", "trying", "woken"}

NoLostWakeup ==
  At({"asleep"}) # {} => Concurrency - held <= Cardinality(At(Due))

(***************************************************************************)
(* A bounded wait: acquire_on returns, whatever the holders do (a Permit   *)
(* may be held for ever) and however often other requests overtake.        *)
(***************************************************************************)
WaitEnds == \A t \in Threads : pc[t] = "trying" ~> pc[t] \in {"holding", "timedout"}

(***************************************************************************)
(* The key is a bounded semaphore with a bounded line that everyone in it  *)
(* leaves: two counters, a condvar and a deadline implement Semaphore.     *)
(***************************************************************************)
Sem == INSTANCE Semaphore WITH
         Users   <- Threads,     Size  <- Concurrency, LineCap <- WaiterCap,
         owners  <- At(Owning),  line  <- At(Waiting),
         refused <- At({"full", "timedout"})

ImplementsSemaphore == Sem!Spec
=============================================================================

--------------------------- MODULE KeySlots_proofs ---------------------------
(***************************************************************************)
(* Proofs about KeySlots for every finite set of threads, every configured *)
(* limit and every bound on the waiters: type correctness, the accounting  *)
(* of slots and waiters, the absence of lost wake-ups, and that the key    *)
(* implements the safety part of Semaphore.                                *)
(***************************************************************************)
EXTENDS KeySlots, FiniteSetTheorems, TLAPS

(***************************************************************************)
(* How many members of a finite set a program counter puts in given        *)
(* places, and how that number changes when one member moves.              *)
(***************************************************************************)

(* The members of S that the function f puts in the places P. *)
In(S, f, P) == {x \in S : f[x] \in P}

(* From f to g nobody but x changes place. *)
OnlyMoves(S, f, g, x) == \A y \in S \ {x} : g[y] = f[y]

(* How much a move from one place to another changes the population of P. *)
Delta(from, to, P) == (IF to \in P THEN 1 ELSE 0) - (IF from \in P THEN 1 ELSE 0)

(* The population of any set of places is a finite set with a natural size. *)
LEMMA InFinite ==
  ASSUME NEW S, IsFiniteSet(S), NEW f, NEW P
  PROVE  IsFiniteSet(In(S, f, P)) /\ Cardinality(In(S, f, P)) \in Nat
  <1>1. In(S, f, P) \subseteq S
    BY DEF In
  <1> QED
    BY <1>1, FS_Subset, FS_CardinalityType

(* A set of places that somebody is in has a positive population. *)
LEMMA InPopulated ==
  ASSUME NEW S, IsFiniteSet(S), NEW f, NEW P, NEW x \in S, f[x] \in P
  PROVE  Cardinality(In(S, f, P)) >= 1
  <1>1. x \in In(S, f, P)
    BY DEF In
  <1>2. Cardinality(In(S, f, P)) # 0
    BY <1>1, InFinite, FS_EmptySet
  <1> QED
    BY <1>2, InFinite

(* When one member moves, every population changes by Delta. *)
LEMMA MoveOne ==
  ASSUME NEW S, IsFiniteSet(S), NEW f, NEW g, NEW x \in S, NEW P,
         OnlyMoves(S, f, g, x)
  PROVE  Cardinality(In(S, g, P)) = Cardinality(In(S, f, P)) + Delta(f[x], g[x], P)
  <1> DEFINE A  == In(S, f, P)
             B  == In(S, g, P)
             to == g[x]
  <1>1. IsFiniteSet(A) /\ IsFiniteSet(B) /\ Cardinality(A) \in Nat /\ Cardinality(B) \in Nat
    BY InFinite
  <1>2. CASE to \in P /\ f[x] \in P
    <2>1. B = A
      BY <1>2 DEF In, OnlyMoves
    <2> QED
      BY <1>1, <1>2, <2>1 DEF Delta
  <1>3. CASE to \in P /\ f[x] \notin P
    <2>1. B = A \cup {x} /\ x \notin A
      BY <1>3 DEF In, OnlyMoves
    <2>2. Cardinality(B) = Cardinality(A) + 1
      BY <1>1, <2>1, FS_AddElement
    <2> QED
      BY <1>1, <1>3, <2>2 DEF Delta
  <1>4. CASE to \notin P /\ f[x] \in P
    <2>1. B = A \ {x} /\ x \in A
      BY <1>4 DEF In, OnlyMoves
    <2>2. Cardinality(B) = Cardinality(A) - 1
      BY <1>1, <2>1, FS_RemoveElement
    <2> QED
      BY <1>1, <1>4, <2>2 DEF Delta
  <1>5. CASE to \notin P /\ f[x] \notin P
    <2>1. B = A
      BY <1>5 DEF In, OnlyMoves
    <2> QED
      BY <1>1, <1>5, <2>1 DEF Delta
  <1> QED
    BY <1>2, <1>3, <1>4, <1>5
-----------------------------------------------------------------------------
(* Where a thread can be. *)
LEMMA PlacesAre ==
  Places = {"idle", "trying", "missed", "parking", "asleep", "woken", "admitted",
            "gaveup", "full", "timedout", "holding", "dropped"}
  BY DEF Places, Waiting, Owning

(* A step of one thread changes every population by Delta. *)
LEMMA GoMoves ==
  ASSUME TypeOK, NEW t \in Threads, NEW from, NEW to \in Places, Go(t, from, to), NEW P
  PROVE  Cardinality(At(P)') = Cardinality(At(P)) + Delta(from, to, P)
  <1>1. At(P) = In(Threads, pc, P) /\ At(P)' = In(Threads, pc', P)
    BY DEF At, In
  <1>2. pc[t] = from /\ pc'[t] = to
    BY DEF TypeOK, Go
  <1>3. OnlyMoves(Threads, pc, pc', t)
    BY DEF TypeOK, Go, OnlyMoves
  <1>4. Cardinality(In(Threads, pc', P))
          = Cardinality(In(Threads, pc, P)) + Delta(pc[t], pc'[t], P)
    BY <1>3, MoveOne, ThreadsAssumption
  <1> QED
    BY <1>1, <1>2, <1>4

(* Populations are natural numbers. *)
LEMMA AtFinite ==
  ASSUME NEW P
  PROVE  IsFiniteSet(At(P)) /\ Cardinality(At(P)) \in Nat
  <1>1. At(P) = In(Threads, pc, P)
    BY DEF At, In
  <1> QED
    BY <1>1, InFinite, ThreadsAssumption

(* notify_one moves the thread that dropped its permit, and one sleeper if any. *)
LEMMA NotifyMoves ==
  ASSUME TypeOK, NEW t \in Threads, NotifyOne(t), NEW P
  PROVE  \/ /\ At({"asleep"}) = {}
            /\ Cardinality(At(P)') = Cardinality(At(P)) + Delta("dropped", "idle", P)
         \/ /\ At({"asleep"}) # {}
            /\ Cardinality(At(P)') = Cardinality(At(P)) + Delta("dropped", "idle", P)
                                                        + Delta("asleep", "woken", P)
  <1>1. pc \in [Threads -> Places] /\ pc[t] = "dropped"
    BY DEF TypeOK, NotifyOne
  <1>0. "idle" \in Places /\ "woken" \in Places
    BY PlacesAre
  <1>2. CASE At({"asleep"}) = {}
    <2>1. Go(t, "dropped", "idle")
      BY <1>2 DEF NotifyOne, Go
    <2> QED
      BY <1>0, <1>2, <2>1, GoMoves
  <1>3. CASE At({"asleep"}) # {}
    <2>1. PICK w \in At({"asleep"}) : pc' = [pc EXCEPT ![t] = "idle", ![w] = "woken"]
      BY <1>3 DEF NotifyOne
    <2>2. w \in Threads /\ pc[w] = "asleep" /\ w # t
      BY <1>1 DEF At
    <2> DEFINE f == [pc EXCEPT ![t] = "idle"]
    <2>3. /\ f[t] = "idle" /\ f[w] = "asleep" /\ pc'[w] = "woken"
          /\ OnlyMoves(Threads, pc, f, t) /\ OnlyMoves(Threads, f, pc', w)
      BY <1>1, <2>1, <2>2 DEF OnlyMoves
    <2> HIDE DEF f
    <2>4. Cardinality(In(Threads, f, P)) = Cardinality(In(Threads, pc, P)) + Delta("dropped", "idle", P)
      <3>1. Cardinality(In(Threads, f, P)) = Cardinality(In(Threads, pc, P)) + Delta(pc[t], f[t], P)
        BY <2>3, MoveOne, ThreadsAssumption
      <3> QED
        BY <1>1, <2>3, <3>1
    <2>5. Cardinality(In(Threads, pc', P)) = Cardinality(In(Threads, f, P)) + Delta("asleep", "woken", P)
      <3>1. Cardinality(In(Threads, pc', P)) = Cardinality(In(Threads, f, P)) + Delta(f[w], pc'[w], P)
        BY <2>2, <2>3, MoveOne, ThreadsAssumption
      <3> QED
        BY <2>3, <3>1
    <2>6. At(P) = In(Threads, pc, P) /\ At(P)' = In(Threads, pc', P)
      BY DEF At, In
    <2> QED
      BY <1>3, <2>4, <2>5, <2>6
  <1> QED
    BY <1>2, <1>3
-----------------------------------------------------------------------------
(* The inductive invariant: the type invariant and the three safety        *)
(* invariants.  The accounting is what bounds the free slots when a thread *)
(* goes to sleep, so NoLostWakeup is not inductive without it.             *)
IInv == TypeOK /\ SlotsAccounted /\ WaitersAccounted /\ NoLostWakeup

(* The effective limit is positive, as KeyState::new makes it. *)
LEMMA ConcurrencyPositive == Concurrency \in Nat /\ Concurrency >= 1
  BY ConfiguredAssumption DEF Concurrency

(* Every step keeps the variables in their types. *)
LEMMA TypeStep ==
  ASSUME TypeOK, [Next]_vars
  PROVE  TypeOK'
  <1> USE DEF TypeOK, Places, Waiting, Owning
  <1>1. CASE UNCHANGED vars
    BY <1>1 DEF vars
  <1>2. ASSUME NEW t \in Threads, Step(t) PROVE TypeOK'
    <2>1. CASE TryAcquire(t) \/ Enter(t) \/ QueueFull(t)
      BY <2>1 DEF TryAcquire, Enter, QueueFull, Go
    <2>2. CASE TakeSlot(t) \/ MissSlot(t) \/ GiveUp(t) \/ Park(t)
      BY <2>2 DEF TakeSlot, MissSlot, GiveUp, Park, Go
    <2>3. CASE Sleep(t) \/ Recheck(t) \/ ChunkEnds(t)
      BY <2>3 DEF Sleep, Recheck, Look, ChunkEnds, Go
    <2>4. CASE Leave(t)
      BY <2>4 DEF Leave, Go
    <2>5. CASE DeadlinePasses(t) \/ Refused(t)
      BY <2>5 DEF DeadlinePasses, Refused
    <2>6. CASE DropPermit(t)
      BY <2>6 DEF DropPermit, Go
    <2>7. CASE NotifyOne(t)
      BY <2>7 DEF NotifyOne, At
    <2> QED
      BY <1>2, <2>1, <2>2, <2>3, <2>4, <2>5, <2>6, <2>7 DEF Step, InAcquireOn
  <1> QED
    BY <1>1, <1>2 DEF Next

(* A set of places some thread is in has a positive population. *)
LEMMA Populated ==
  ASSUME NEW P, NEW t \in Threads, pc[t] \in P
  PROVE  Cardinality(At(P)) >= 1
  <1>1. At(P) = In(Threads, pc, P)
    BY DEF At, In
  <1> QED
    BY <1>1, InPopulated, ThreadsAssumption

(***************************************************************************)
(* What a step of one thread must do to keep the accounting and the        *)
(* wake-ups: count its own move in both counters, go to sleep only while   *)
(* every slot is taken, and, while a slot is free, take a slot for each    *)
(* wake-up it uses up and owe a wake-up for each slot it gives back.       *)
(***************************************************************************)
LEMMA MoveKeeps ==
  ASSUME IInv, NEW t \in Threads, NEW from, NEW to \in Places, Go(t, from, to),
         held'    = held + Delta(from, to, Owning),
         waiters' = waiters + Delta(from, to, Waiting),
         held' <= Concurrency,
         waiters' <= WaiterCap,
         to = "asleep" => held' >= Concurrency,
         held' >= Concurrency \/ (held' - held) + Delta(from, to, Due) >= 0
  PROVE  (SlotsAccounted /\ WaitersAccounted /\ NoLostWakeup)'
  <1>1. TypeOK
    BY DEF IInv
  <1>2. held \in Nat /\ waiters \in Nat /\ Concurrency \in Nat /\ Concurrency' = Concurrency
    BY <1>1, ConcurrencyPositive DEF TypeOK, Concurrency
  <1>3. /\ Delta(from, to, Owning) \in Int
        /\ Delta(from, to, Waiting) \in Int
        /\ Delta(from, to, Due) \in Int
    BY DEF Delta
  <1>4. SlotsAccounted'
    <2>1. Cardinality(At(Owning)') = Cardinality(At(Owning)) + Delta(from, to, Owning)
      BY <1>1, GoMoves
    <2>2. held = Cardinality(At(Owning))
      BY DEF IInv, SlotsAccounted
    <2> QED
      BY <1>2, <2>1, <2>2 DEF SlotsAccounted
  <1>5. WaitersAccounted'
    <2>1. Cardinality(At(Waiting)') = Cardinality(At(Waiting)) + Delta(from, to, Waiting)
      BY <1>1, GoMoves
    <2>2. waiters = Cardinality(At(Waiting))
      BY DEF IInv, WaitersAccounted
    <2> QED
      BY <2>1, <2>2 DEF WaitersAccounted
  <1>6. NoLostWakeup'
    <2> SUFFICES ASSUME At({"asleep"})' # {}
                 PROVE  Concurrency - held' <= Cardinality(At(Due)')
      BY <1>2 DEF NoLostWakeup
    <2>1. Cardinality(At(Due)') \in Nat /\ Cardinality(At(Due)) \in Nat
      <3>1. At(Due)' = In(Threads, pc', Due)
        BY DEF At, In
      <3> QED
        BY <3>1, InFinite, ThreadsAssumption, AtFinite
    <2>2. held' \in Int
      BY <1>2, <1>3
    <2>3. CASE held' >= Concurrency
      BY <1>2, <2>1, <2>2, <2>3
    <2>4. CASE ~(held' >= Concurrency)
      <3>1. At({"asleep"}) # {}
        <4>1. to # "asleep"
          BY <2>4
        <4> QED
          BY <1>1, <4>1 DEF At, Go, TypeOK
      <3>2. Concurrency - held <= Cardinality(At(Due))
        BY <3>1 DEF IInv, NoLostWakeup
      <3>3. Cardinality(At(Due)') = Cardinality(At(Due)) + Delta(from, to, Due)
        BY <1>1, GoMoves
      <3> QED
        BY <1>2, <1>3, <2>1, <2>2, <2>4, <3>2, <3>3
    <2> QED
      BY <2>3, <2>4
  <1> QED
    BY <1>4, <1>5, <1>6

(* Initially nobody uses the key. *)
LEMMA InitIInv ==
  Init => IInv
  <1> SUFFICES ASSUME Init PROVE IInv
    OBVIOUS
  <1>1. TypeOK
    BY PlacesAre DEF Init, TypeOK
  <1>2. At(Owning) = {} /\ At(Waiting) = {} /\ At({"asleep"}) = {}
    BY DEF Init, At, Owning, Waiting
  <1>3. Cardinality({}) = 0
    BY FS_EmptySet
  <1> QED
    BY <1>1, <1>2, <1>3, ConcurrencyPositive, WaiterCapAssumption
    DEF Init, IInv, SlotsAccounted, WaitersAccounted, NoLostWakeup

(* Every step of a thread keeps the accounting and the wake-ups. *)
LEMMA AccountingStep ==
  ASSUME IInv, NEW t \in Threads, Step(t)
  PROVE  (SlotsAccounted /\ WaitersAccounted /\ NoLostWakeup)'
  <1>1. /\ pc \in [Threads -> Places]
        /\ held \in Nat /\ held <= Concurrency
        /\ waiters \in Nat /\ waiters <= WaiterCap
        /\ Concurrency \in Nat /\ WaiterCap \in Nat
    BY ConcurrencyPositive, WaiterCapAssumption
    DEF IInv, TypeOK, SlotsAccounted, WaitersAccounted
  <1>2. /\ pc[t] \in Owning  => held >= 1
        /\ pc[t] \in Waiting => waiters >= 1
    BY Populated DEF IInv, SlotsAccounted, WaitersAccounted
  <1>3. CASE TryAcquire(t)
    <2>1. /\ Go(t, "idle", "holding")
          /\ held' = held + 1 /\ waiters' = waiters /\ held' <= Concurrency
      BY <1>1, <1>3 DEF TryAcquire
    <2>2. "holding" \in Places
      BY PlacesAre
    <2> QED
      BY <1>1, <2>1, <2>2, MoveKeeps DEF Delta, Owning, Waiting, Due
  <1>4. CASE Enter(t)
    <2>1. /\ Go(t, "idle", "trying")
          /\ held' = held /\ waiters' = waiters + 1 /\ waiters' <= WaiterCap
      BY <1>1, <1>4 DEF Enter
    <2>2. "trying" \in Places
      BY PlacesAre
    <2> QED
      BY <1>1, <2>1, <2>2, MoveKeeps DEF Delta, Owning, Waiting, Due
  <1>5. CASE QueueFull(t)
    <2>1. Go(t, "idle", "full") /\ held' = held /\ waiters' = waiters
      BY <1>5 DEF QueueFull
    <2>2. "full" \in Places
      BY PlacesAre
    <2> QED
      BY <1>1, <2>1, <2>2, MoveKeeps DEF Delta, Owning, Waiting, Due
  <1>6. CASE TakeSlot(t)
    <2>1. /\ Go(t, "trying", "admitted")
          /\ held' = held + 1 /\ waiters' = waiters /\ held' <= Concurrency
      BY <1>1, <1>6 DEF TakeSlot
    <2>2. "admitted" \in Places
      BY PlacesAre
    <2> QED
      BY <1>1, <2>1, <2>2, MoveKeeps DEF Delta, Owning, Waiting, Due
  <1>7. CASE MissSlot(t)
    <2>1. /\ Go(t, "trying", "missed")
          /\ held' = held /\ waiters' = waiters /\ held' >= Concurrency
      BY <1>7 DEF MissSlot
    <2>2. "missed" \in Places
      BY PlacesAre
    <2> QED
      BY <1>1, <2>1, <2>2, MoveKeeps DEF Delta, Owning, Waiting, Due
  <1>8. CASE GiveUp(t)
    <2>1. Go(t, "missed", "gaveup") /\ held' = held /\ waiters' = waiters
      BY <1>8 DEF GiveUp
    <2>2. "gaveup" \in Places
      BY PlacesAre
    <2> QED
      BY <1>1, <2>1, <2>2, MoveKeeps DEF Delta, Owning, Waiting, Due
  <1>9. CASE Park(t)
    <2>1. Go(t, "missed", "parking") /\ held' = held /\ waiters' = waiters
      BY <1>9 DEF Park
    <2>2. "parking" \in Places
      BY PlacesAre
    <2> QED
      BY <1>1, <2>1, <2>2, MoveKeeps DEF Delta, Owning, Waiting, Due
  <1>10. ASSUME NEW from \in {"parking", "woken"}, Look(t, from)
         PROVE  (SlotsAccounted /\ WaitersAccounted /\ NoLostWakeup)'
    <2>1. /\ held' = held /\ waiters' = waiters
          /\ Go(t, from, IF held >= Concurrency THEN "asleep" ELSE "trying")
      BY <1>10 DEF Look
    <2>2. "asleep" \in Places /\ "trying" \in Places
      BY PlacesAre
    <2>3. CASE held >= Concurrency
      <3>1. Go(t, from, "asleep")
        BY <2>1, <2>3
      <3> QED
        BY <1>1, <2>1, <2>2, <2>3, <3>1, MoveKeeps DEF Delta, Owning, Waiting, Due
    <2>4. CASE ~(held >= Concurrency)
      <3>1. Go(t, from, "trying")
        BY <2>1, <2>4
      <3> QED
        BY <1>1, <2>1, <2>2, <3>1, MoveKeeps DEF Delta, Owning, Waiting, Due
    <2> QED
      BY <2>3, <2>4
  <1>11. CASE Leave(t)
    <2>1. held' = held /\ waiters' = waiters - 1 /\ waiters' <= WaiterCap
      BY <1>1, <1>2, <1>11 DEF Leave, Go, Waiting
    <2>2. "holding" \in Places /\ "timedout" \in Places
      BY PlacesAre
    <2>3. CASE Go(t, "admitted", "holding")
      BY <1>1, <2>1, <2>2, <2>3, MoveKeeps DEF Delta, Owning, Waiting, Due
    <2>4. CASE Go(t, "gaveup", "timedout")
      BY <1>1, <2>1, <2>2, <2>4, MoveKeeps DEF Delta, Owning, Waiting, Due
    <2> QED
      BY <1>11, <2>3, <2>4 DEF Leave
  <1>12. CASE ChunkEnds(t)
    <2>1. Go(t, "asleep", "trying") /\ held' = held /\ waiters' = waiters
      BY <1>12 DEF ChunkEnds
    <2>2. "trying" \in Places
      BY PlacesAre
    <2> QED
      BY <1>1, <2>1, <2>2, MoveKeeps DEF Delta, Owning, Waiting, Due
  <1>13. CASE DeadlinePasses(t)
    BY <1>13 DEF DeadlinePasses, IInv, SlotsAccounted, WaitersAccounted, NoLostWakeup,
                 At, Concurrency
  <1>14. CASE DropPermit(t)
    <2>1. /\ Go(t, "holding", "dropped")
          /\ held' = held - 1 /\ waiters' = waiters /\ held' <= Concurrency
      BY <1>1, <1>2, <1>14 DEF DropPermit, Go, Owning
    <2>2. "dropped" \in Places
      BY PlacesAre
    <2> QED
      BY <1>1, <2>1, <2>2, MoveKeeps DEF Delta, Owning, Waiting, Due
  <1>15. CASE NotifyOne(t)
    <2>1. held' = held /\ waiters' = waiters /\ Concurrency' = Concurrency
      BY <1>15 DEF NotifyOne, Concurrency
    <2>2. TypeOK
      BY DEF IInv
    <2>3. Cardinality(At(Owning)') = Cardinality(At(Owning))
      BY <1>15, <2>2, NotifyMoves, AtFinite DEF Delta, Owning
    <2>4. Cardinality(At(Waiting)') = Cardinality(At(Waiting))
      BY <1>15, <2>2, NotifyMoves, AtFinite DEF Delta, Waiting
    <2>5. At({"asleep"})' # {} => At({"asleep"}) # {}
      BY <1>1, <1>15 DEF NotifyOne, At
    <2>6. At({"asleep"}) # {} => Cardinality(At(Due)') = Cardinality(At(Due))
      BY <1>15, <2>2, NotifyMoves, AtFinite DEF Delta, Due
    <2> QED
      BY <2>1, <2>3, <2>4, <2>5, <2>6
      DEF IInv, SlotsAccounted, WaitersAccounted, NoLostWakeup
  <1>16. CASE Refused(t)
    <2>1. /\ pc[t] \in {"full", "timedout"} /\ Go(t, pc[t], "idle")
          /\ held' = held /\ waiters' = waiters
      BY <1>16 DEF Refused, Go
    <2>2. "idle" \in Places
      BY PlacesAre
    <2> QED
      BY <1>1, <2>1, <2>2, MoveKeeps DEF Delta, Owning, Waiting, Due
  <1>17. CASE Sleep(t) \/ Recheck(t)
    BY <1>10, <1>17 DEF Sleep, Recheck
  <1> QED
    BY <1>3, <1>4, <1>5, <1>6, <1>7, <1>8, <1>9, <1>11, <1>12, <1>13, <1>14,
       <1>15, <1>16, <1>17 DEF Step, InAcquireOn

(* The invariant is inductive. *)
LEMMA NextIInv ==
  IInv /\ [Next]_vars => IInv'
  <1> SUFFICES ASSUME IInv, [Next]_vars PROVE IInv'
    OBVIOUS
  <1>1. TypeOK'
    BY TypeStep DEF IInv
  <1>2. CASE UNCHANGED vars
    BY <1>1, <1>2 DEF vars, IInv, SlotsAccounted, WaitersAccounted, NoLostWakeup, At, Concurrency
  <1>3. CASE Next
    BY <1>1, <1>3, AccountingStep DEF Next, IInv
  <1> QED
    BY <1>2, <1>3

(***************************************************************************)
(* Every variable keeps its type, in every run of the key, for any number  *)
(* of threads, any limit and any bound on the waiters.                     *)
(***************************************************************************)
THEOREM TypeCorrect == Spec => []TypeOK
  <1>1. IInv => TypeOK
    BY DEF IInv
  <1> QED
    BY <1>1, InitIInv, NextIInv, PTL DEF Spec

(***************************************************************************)
(* `held` is the number of live permits and never exceeds the limit:       *)
(* no request reaches the upstream key beyond `KEY:N`.                     *)
(***************************************************************************)
THEOREM SlotsCorrect == Spec => []SlotsAccounted
  <1>1. IInv => SlotsAccounted
    BY DEF IInv
  <1> QED
    BY <1>1, InitIInv, NextIInv, PTL DEF Spec

(* `waiters` is the number of threads inside acquire_on, within the cap. *)
THEOREM WaitersCorrect == Spec => []WaitersAccounted
  <1>1. IInv => WaitersAccounted
    BY DEF IInv
  <1> QED
    BY <1>1, InitIInv, NextIInv, PTL DEF Spec

(***************************************************************************)
(* No wake-up is lost although Permit::drop notifies after it released the *)
(* lock: while a thread sleeps, each free slot has a wake-up on its way.   *)
(***************************************************************************)
THEOREM WakeupsCorrect == Spec => []NoLostWakeup
  <1>1. IInv => NoLostWakeup
    BY DEF IInv
  <1> QED
    BY <1>1, InitIInv, NextIInv, PTL DEF Spec
-----------------------------------------------------------------------------
(* Which sets of places a thread enters and leaves by its step. *)
LEMMA GoSets ==
  ASSUME TypeOK, NEW t \in Threads, NEW from, NEW to, Go(t, from, to), NEW P
  PROVE  /\ t \in At(P) <=> from \in P
         /\ from \in P /\ to \notin P => At(P)' = At(P) \ {t}
         /\ from \notin P /\ to \in P => At(P)' = At(P) \cup {t}
         /\ (from \in P <=> to \in P) => At(P)' = At(P)
  <1>1. pc \in [Threads -> Places] /\ pc[t] = from /\ pc' = [pc EXCEPT ![t] = to]
    BY DEF TypeOK, Go
  <1>2. t \in At(P) <=> from \in P
    BY <1>1 DEF At
  <1>3. ASSUME NEW u \in Threads
        PROVE  u \in At(P)' <=> IF u = t THEN to \in P ELSE u \in At(P)
    BY <1>1 DEF At
  <1>4. At(P) \subseteq Threads /\ At(P)' \subseteq Threads
    BY DEF At
  <1> QED
    BY <1>2, <1>3, <1>4

(* Which of the three sets of Semaphore a place of the key belongs to. *)
LEMMA PlaceSets ==
  /\ \A p \in {"idle", "dropped"} :
       p \notin Owning /\ p \notin Waiting /\ p \notin {"full", "timedout"}
  /\ \A p \in {"full", "timedout"} : p \notin Owning /\ p \notin Waiting
  /\ \A p \in Waiting : p \notin {"full", "timedout"} /\ (p \in Owning <=> p = "admitted")
  /\ "holding" \in Owning /\ "holding" \notin Waiting /\ "holding" \notin {"full", "timedout"}
  /\ {"trying", "missed", "parking", "asleep", "woken", "admitted", "gaveup"} \subseteq Waiting
  BY DEF Owning, Waiting

(* Semaphore counts with the same Cardinality. *)
LEMMA SemCardinality ==
  \A S : Sem!Cardinality(S) = Cardinality(S)
  BY DEF Sem!Cardinality, Cardinality, Sem!IsFiniteSet, IsFiniteSet

(* The states of Semaphore that the states of the key stand for. *)
LEMMA SemMap ==
  /\ Sem!Out = Threads \ (At(Owning) \cup At(Waiting) \cup At({"full", "timedout"}))
  /\ Sem!semaphore = <<At(Owning), At(Waiting), At({"full", "timedout"})>>
  BY DEF Sem!Out, Sem!semaphore

(* Every step of the key is a step of the semaphore, or invisible to it. *)
LEMMA SemStep ==
  ASSUME IInv, NEW t \in Threads, Step(t)
  PROVE  [Sem!Next]_(Sem!semaphore)
  <1> DEFINE owners  == At(Owning)
             line    == At(Waiting)
             refused == At({"full", "timedout"})
             Quiet   == owners' = owners /\ line' = line /\ refused' = refused
  <1>1. TypeOK /\ held = Cardinality(owners) /\ waiters = Cardinality(line)
    BY DEF IInv, SlotsAccounted, WaitersAccounted
  <1>2. Concurrency' = Concurrency
    BY DEF Concurrency
  <1>3. CASE TryAcquire(t)
    <2>1. Go(t, "idle", "holding") /\ held < Concurrency
      BY <1>3 DEF TryAcquire
    <2>2. /\ owners' = owners \cup {t} /\ line' = line /\ refused' = refused
          /\ t \notin owners /\ t \notin line /\ t \notin refused
      BY <1>1, <2>1, GoSets, PlaceSets
    <2>3. Sem!Grab(t)
      BY <1>1, <2>1, <2>2, SemMap, SemCardinality DEF Sem!Grab
    <2> QED
      BY <2>3 DEF Sem!Next
  <1>4. CASE Enter(t)
    <2>1. Go(t, "idle", "trying") /\ waiters < WaiterCap
      BY <1>4 DEF Enter
    <2>2. /\ owners' = owners /\ line' = line \cup {t} /\ refused' = refused
          /\ t \notin owners /\ t \notin line /\ t \notin refused
      BY <1>1, <2>1, GoSets, PlaceSets
    <2>3. Sem!Join(t)
      BY <1>1, <2>1, <2>2, SemMap, SemCardinality DEF Sem!Join
    <2> QED
      BY <2>3 DEF Sem!Next
  <1>5. CASE QueueFull(t)
    <2>1. Go(t, "idle", "full") /\ waiters >= WaiterCap
      BY <1>5 DEF QueueFull
    <2>2. /\ owners' = owners /\ line' = line /\ refused' = refused \cup {t}
          /\ t \notin owners /\ t \notin line /\ t \notin refused
      BY <1>1, <2>1, GoSets, PlaceSets
    <2>3. Sem!Overflow(t)
      BY <1>1, <2>1, <2>2, SemMap, SemCardinality DEF Sem!Overflow
    <2> QED
      BY <2>3 DEF Sem!Next
  <1>6. CASE TakeSlot(t)
    <2>1. Go(t, "trying", "admitted") /\ held < Concurrency
      BY <1>6 DEF TakeSlot
    <2>2. /\ owners' = owners \cup {t} /\ line' = line /\ refused' = refused
          /\ t \notin owners /\ t \in line /\ t \notin refused
      BY <1>1, <2>1, GoSets, PlaceSets
    <2>3. Sem!Serve(t)
      BY <1>1, <2>1, <2>2, SemCardinality DEF Sem!Serve
    <2> QED
      BY <2>3 DEF Sem!Next
  <1>7. CASE Leave(t)
    <2>1. CASE Go(t, "admitted", "holding")
      <3>1. /\ owners' = owners /\ line' = line \ {t} /\ refused' = refused
            /\ t \in owners /\ t \in line /\ t \notin refused
        BY <1>1, <2>1, GoSets, PlaceSets
      <3>2. Sem!Depart(t)
        BY <3>1 DEF Sem!Depart
      <3> QED
        BY <3>2 DEF Sem!Next
    <2>2. CASE Go(t, "gaveup", "timedout")
      <3>1. /\ owners' = owners /\ line' = line \ {t} /\ refused' = refused \cup {t}
            /\ t \notin owners /\ t \in line /\ t \notin refused
        BY <1>1, <2>2, GoSets, PlaceSets
      <3>2. Sem!Depart(t)
        BY <3>1 DEF Sem!Depart
      <3> QED
        BY <3>2 DEF Sem!Next
    <2> QED
      BY <1>7, <2>1, <2>2 DEF Leave
  <1>8. CASE DropPermit(t)
    <2>1. Go(t, "holding", "dropped")
      BY <1>8 DEF DropPermit
    <2>2. /\ owners' = owners \ {t} /\ line' = line /\ refused' = refused
          /\ t \in owners /\ t \notin line /\ t \notin refused
      BY <1>1, <2>1, GoSets, PlaceSets
    <2>3. Sem!GiveBack(t)
      BY <2>2 DEF Sem!GiveBack
    <2> QED
      BY <2>3 DEF Sem!Next
  <1>9. CASE Refused(t)
    <2>1. Go(t, pc[t], "idle") /\ pc[t] \in {"full", "timedout"}
      BY <1>9 DEF Refused, Go
    <2>2. /\ owners' = owners /\ line' = line /\ refused' = refused \ {t}
          /\ t \notin owners /\ t \notin line /\ t \in refused
      BY <1>1, <2>1, GoSets, PlaceSets
    <2>3. Sem!GoOn(t)
      BY <2>2 DEF Sem!GoOn
    <2> QED
      BY <2>3 DEF Sem!Next
  <1>10. ASSUME NEW from \in Waiting \ {"admitted"}, NEW to \in Waiting \ {"admitted"},
                Go(t, from, to)
         PROVE  Quiet
    <2>1. from \notin Owning /\ to \notin Owning
      BY <1>10, PlaceSets
    <2>2. from \notin {"full", "timedout"} /\ to \notin {"full", "timedout"}
      BY <1>10, PlaceSets
    <2> QED
      BY <1>1, <1>10, <2>1, <2>2, GoSets
  <1>11. CASE MissSlot(t) \/ GiveUp(t) \/ Park(t) \/ ChunkEnds(t)
    <2>1. Quiet
      BY <1>10, <1>11, PlaceSets DEF MissSlot, GiveUp, Park, ChunkEnds
    <2> QED
      BY <2>1, SemMap DEF Sem!semaphore
  <1>12. CASE Sleep(t) \/ Recheck(t)
    <2>1. Quiet
      BY <1>10, <1>12, PlaceSets DEF Sleep, Recheck, Look
    <2> QED
      BY <2>1, SemMap DEF Sem!semaphore
  <1>13. CASE DeadlinePasses(t)
    BY <1>13 DEF DeadlinePasses, At, Sem!semaphore
  <1>14. CASE NotifyOne(t)
    <2>1. Quiet
      BY <1>1, <1>14 DEF NotifyOne, At, Owning, Waiting, TypeOK
    <2> QED
      BY <2>1, SemMap DEF Sem!semaphore
  <1> QED
    BY <1>3, <1>4, <1>5, <1>6, <1>7, <1>8, <1>9, <1>11, <1>12, <1>13, <1>14
    DEF Step, InAcquireOn

(***************************************************************************)
(* The key implements the safety part of Semaphore: a limit on the owners, *)
(* a limit on the line, refusals only to who cannot be served.  That the   *)
(* line moves (the fairness of Semaphore) is left to TLC.                  *)
(***************************************************************************)
THEOREM SemaphoreImplemented == Spec => Sem!Safe
  <1>1. Init => Sem!Init
    BY DEF Init, Sem!Init, At, Owning, Waiting
  <1>2. IInv /\ [Next]_vars => [Sem!Next]_(Sem!semaphore)
    <2> SUFFICES ASSUME IInv, [Next]_vars PROVE [Sem!Next]_(Sem!semaphore)
      OBVIOUS
    <2>1. CASE UNCHANGED vars
      BY <2>1 DEF vars, Sem!semaphore, At
    <2>2. CASE Next
      BY <2>2, SemStep DEF Next
    <2> QED
      BY <2>1, <2>2
  <1> QED
    BY <1>1, <1>2, InitIInv, NextIInv, PTL DEF Spec, Sem!Safe
=============================================================================

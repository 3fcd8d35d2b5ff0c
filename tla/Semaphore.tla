----------------------------- MODULE Semaphore -----------------------------
(***************************************************************************)
(* What one upstream key promises to the requests of the proxy: at most    *)
(* Size of them own a slot, at most LineCap of them stand in line, and     *)
(* whoever stands in line leaves it, with a slot or with a refusal.        *)
(* KeySlots implements this with two counters and a condition variable.    *)
(***************************************************************************)
EXTENDS Integers, FiniteSets

CONSTANTS Users,    \* who may ask for a slot
          Size,     \* slots
          LineCap   \* places in line

VARIABLES owners,   \* users that own a slot
          line,     \* users that asked to wait and have not left yet
          refused   \* users that were just turned away

semaphore == <<owners, line, refused>>

Out == Users \ (owners \cup line \cup refused)

Init == owners = {} /\ line = {} /\ refused = {}

(* A slot without waiting. *)
Grab(u) == /\ u \in Out
           /\ Cardinality(owners) < Size
           /\ owners' = owners \cup {u}
           /\ UNCHANGED <<line, refused>>

Join(u) == /\ u \in Out
           /\ Cardinality(line) < LineCap
           /\ line' = line \cup {u}
           /\ UNCHANGED <<owners, refused>>

Overflow(u) == /\ u \in Out
               /\ Cardinality(line) >= LineCap
               /\ refused' = refused \cup {u}
               /\ UNCHANGED <<owners, line>>

Serve(u) == /\ u \in line \ owners
            /\ Cardinality(owners) < Size
            /\ owners' = owners \cup {u}
            /\ UNCHANGED <<line, refused>>

(* Out of the line, with the slot or with a refusal. *)
Depart(u) == /\ u \in line
             /\ line' = line \ {u}
             /\ refused' = IF u \in owners THEN refused ELSE refused \cup {u}
             /\ UNCHANGED owners

GiveBack(u) == /\ u \in owners \ line
               /\ owners' = owners \ {u}
               /\ UNCHANGED <<line, refused>>

GoOn(u) == /\ u \in refused
           /\ refused' = refused \ {u}
           /\ UNCHANGED <<owners, line>>

Next == \E u \in Users : \/ Grab(u) \/ Join(u) \/ Overflow(u) \/ Serve(u)
                         \/ Depart(u) \/ GiveBack(u) \/ GoOn(u)

Safe == Init /\ [][Next]_semaphore

Spec == Safe /\ \A u \in Users : WF_semaphore(Depart(u))
=============================================================================

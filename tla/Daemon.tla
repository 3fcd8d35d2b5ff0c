------------------------------- MODULE Daemon -------------------------------
(***************************************************************************)
(* The ollamux process (main, spawn_workers and sigint_thread,             *)
(* src/src/main.rs): after the start-up of Startup it binds its address    *)
(* and serves with the main thread and a number of workers, until SIGINT   *)
(* makes the main thread drain what still arrives and return.  The end of  *)
(* the main thread, a second SIGINT, or a SIGTERM ends the process and     *)
(* cuts off what the workers are still relaying.                           *)
(*                                                                         *)
(* The HTTP server below is a queue of requests and receive errors.  How a *)
(* request is handled is the business of Proxy: here it takes a while or   *)
(* for ever.                                                               *)
(***************************************************************************)
EXTENDS Startup, SequencesExt

CONSTANTS Workers,       \* the threads that may become workers
          MinWorkers,    \* 4, the lower bound on workers
          Requests,      \* requests that may arrive
          RecvError,     \* an error that the next receive returns
          MaxErrors,     \* bound: receive errors
          Drain          \* DRAIN, in ticks

ASSUME WorkersAssumption == /\ IsFiniteSet(Workers)
                            /\ MinWorkers \in 1..Cardinality(Workers)
ASSUME DrainAssumption == Drain \in Nat /\ MaxErrors \in Nat
ASSUME RequestsAssumption == RecvError \notin Requests

VARIABLES worker,      \* where each worker is
          signals,     \* sigint_thread: none, first, second
          pending,     \* SIGINT is pending: it is masked, and does not queue
          stop,        \* the stop flag
          queue,       \* what the HTTP server has to hand out
          arrived,     \* the requests that arrived so far
          errors,      \* receive errors so far
          drainLeft,   \* time until the deadline of the drain
          since        \* history: time since stop was set, up to Drain

serving == <<worker, signals, pending, stop, queue, arrived, errors, drainLeft, since>>
vars    == <<startup, serving>>
wire    == <<queue, arrived, errors>>

(***************************************************************************)
(* After start-up the main thread is at "check" (the loop condition),      *)
(* "recv" (recv_timeout) or "handle", then at "drain" or "drainHandle".    *)
(* A worker is at "none" (never spawned), "check", "recv", "handle" or     *)
(* "ended".                                                                *)
(***************************************************************************)
Running == exit = "running"
Busy    == main \in {"handle", "drainHandle"}

Init == /\ StartInit
        /\ worker = [w \in Workers |-> "none"]
        /\ signals = "none" /\ pending = FALSE /\ stop = FALSE
        /\ queue = <<>> /\ arrived = {} /\ errors = 0
        /\ drainLeft = 0 /\ since = 0

StartUp == Start /\ UNCHANGED serving

(* total_slots: a sum in 32 bits, which wraps in a release build. *)
TotalSlots ==
  LET sum[n \in 0..Len(entries)] ==
        IF n = 0 THEN 0 ELSE (sum[n - 1] + entries[n].limit) % (MaxU32 + 1)
  IN  sum[Len(entries)]

(* Variant with a mistake: as many workers as slots, whatever their number. *)
WorkersForUnclamped(slotsTotal) == Min({slotsTotal, Cardinality(Workers)})

(* .clamp(4, 64) *)
WorkersFor(slotsTotal) == Max({MinWorkers, Min({slotsTotal, Cardinality(Workers)})})

(* Bind, spawn the workers and the signal thread.  The pool takes the keys. *)
Serve ==
  /\ Running /\ main = "loaded"
  /\ \/ Fail("config") /\ UNCHANGED serving      \* cannot bind
     \/ /\ main' = "check"
        /\ \E S \in SUBSET Workers :
             /\ Cardinality(S) = WorkersFor(TotalSlots)
             /\ worker' = [w \in Workers |-> IF w \in S THEN "check" ELSE "none"]
        /\ signals' = "first"
        /\ cfg' = DefaultConfig /\ source' = "none" /\ text' = <<>> /\ at' = 1 /\ entries' = <<>>
        /\ UNCHANGED <<exit, inputs, pending, stop, wire, drainLeft, since>>
-----------------------------------------------------------------------------
(* Requests reach the HTTP server from the bind to the end, the drain too. *)
Listening == Running /\ signals # "none"

Arrive(r) == /\ Listening /\ r \in Requests \ arrived
             /\ queue' = Append(queue, r)
             /\ arrived' = arrived \cup {r}
             /\ UNCHANGED <<startup, worker, signals, pending, stop, errors, drainLeft, since>>

ReceiveFails == /\ Listening /\ errors < MaxErrors
                /\ queue' = Append(queue, RecvError)
                /\ errors' = errors + 1
                /\ UNCHANGED <<startup, worker, signals, pending, stop, arrived, drainLeft, since>>

TimesOut     == queue = <<>> /\ UNCHANGED queue
TakesRequest == queue # <<>> /\ Head(queue) # RecvError /\ queue' = Tail(queue)
TakesError   == queue # <<>> /\ Head(queue) = RecvError /\ queue' = Tail(queue)

(* The loop of a worker: an error ends it for good. *)
WorkerStep(w) ==
  LET to(place) == worker' = [worker EXCEPT ![w] = place] IN
  /\ Running
  /\ \/ worker[w] = "check" /\ to(IF stop THEN "ended" ELSE "recv") /\ UNCHANGED queue
     \/ worker[w] = "recv"  /\ \/ TimesOut /\ to("check")
                               \/ TakesRequest /\ to("handle")
                               \/ TakesError /\ to("ended")
  /\ UNCHANGED <<startup, signals, pending, stop, arrived, errors, drainLeft, since>>

WorkerDone(w) ==
  /\ Running /\ worker[w] = "handle"
  /\ worker' = [worker EXCEPT ![w] = "check"]
  /\ UNCHANGED <<startup, signals, pending, stop, wire, drainLeft, since>>

MainTo(place) == main' = place /\ UNCHANGED <<exit, inputs, cfg, at, keyfile>>
Exit(how)     == Fail(how) /\ UNCHANGED serving

(* The deadline of the drain is set when the main thread leaves its loop. *)
Check == /\ Running /\ main = "check"
         /\ IF stop THEN MainTo("drain") /\ drainLeft' = Drain
            ELSE MainTo("recv") /\ UNCHANGED drainLeft
         /\ UNCHANGED <<worker, signals, pending, stop, wire, since>>

(* Variant with a mistake: the main thread leaves the requests to the workers. *)
ReceiveNone == /\ Running /\ main = "recv" /\ MainTo("check") /\ UNCHANGED serving

(* The main thread logs an error and goes on. *)
Receive == /\ Running /\ main = "recv"
           /\ \/ (TimesOut \/ TakesError) /\ MainTo("check")
              \/ TakesRequest /\ MainTo("handle")
           /\ UNCHANGED <<worker, signals, pending, stop, arrived, errors, drainLeft, since>>

(* Variant with a mistake: done as soon as nothing is left to take. *)
DrainStepIdle ==
  \/ /\ Running /\ main = "drain" /\ drainLeft > 0
     /\ TakesRequest /\ MainTo("drainHandle")
     /\ UNCHANGED <<worker, signals, pending, stop, arrived, errors, drainLeft, since>>
  \/ Running /\ main = "drain" /\ queue = <<>> /\ Exit("done")

(***************************************************************************)
(* The drain loop: until the deadline it takes requests or sleeps; an      *)
(* error ends it before.                                                   *)
(***************************************************************************)
DrainStep ==
  \/ Running /\ main = "drain" /\ drainLeft = 0 /\ Exit("done")
  \/ /\ Running /\ main = "drain" /\ drainLeft > 0
     /\ \/ TakesRequest /\ MainTo("drainHandle")
        \/ TakesError /\ Fail("broken off")
     /\ UNCHANGED <<worker, signals, pending, stop, arrived, errors, drainLeft, since>>

MainDone == /\ Running
            /\ \/ main = "handle" /\ MainTo("check")
               \/ main = "drainHandle" /\ MainTo("drain")
            /\ UNCHANGED serving
-----------------------------------------------------------------------------
(* A SIGINT, at any moment: blocked before the first thread exists. *)
Interrupt == /\ Running /\ ~pending /\ pending' = TRUE
             /\ UNCHANGED <<startup, worker, signals, stop, wire, drainLeft, since>>

(* Variant with a mistake: the second SIGINT is taken like the first. *)
SignalAgain == /\ Running /\ pending /\ signals \in {"first", "second"}
               /\ pending' = FALSE /\ stop' = TRUE /\ signals' = "second"
               /\ UNCHANGED <<startup, worker, wire, drainLeft, since>>

(* Variant with a mistake: the signal is taken, the flag not set. *)
SignalUnheard == /\ Running /\ pending /\ pending' = FALSE
                 /\ \/ signals = "first" /\ signals' = "second" /\ UNCHANGED startup
                    \/ signals = "second" /\ Fail("forced") /\ UNCHANGED signals
                 /\ UNCHANGED <<worker, stop, wire, drainLeft, since>>

(* sigint_thread: the first one stops, the second exits with 130. *)
Signal == /\ Running /\ pending /\ pending' = FALSE
          /\ \/ signals = "first" /\ signals' = "second" /\ stop' = TRUE /\ UNCHANGED startup
             \/ signals = "second" /\ Fail("forced") /\ UNCHANGED <<signals, stop>>
          /\ UNCHANGED <<worker, wire, drainLeft, since>>

(* A SIGTERM: it is neither blocked nor awaited, so its default action ends *)
(* the process wherever it is.                                             *)
Terminate == Running /\ Exit("terminated")

Tick == /\ Running /\ stop
        /\ since' = Min({since + 1, Drain})
        /\ drainLeft' = Max({drainLeft - 1, 0})
        /\ UNCHANGED <<startup, worker, signals, pending, stop, wire>>

(* The process has ended. *)
Ended == ~Running /\ UNCHANGED vars

MainStep == StartUp \/ Serve \/ Check \/ Receive \/ DrainStep

Next == \/ MainStep \/ MainDone \/ ReceiveFails \/ Interrupt \/ Signal \/ Terminate \/ Tick \/ Ended
        \/ \E r \in Requests : Arrive(r)
        \/ \E w \in Workers : WorkerStep(w) \/ WorkerDone(w)

(***************************************************************************)
(* Fairness: threads run on and time passes.  Nothing is assumed of the    *)
(* time a request takes (WorkerDone, MainDone), of clients or of signals.  *)
(***************************************************************************)
Spec == /\ Init /\ [][Next]_vars
        /\ WF_vars(MainStep) /\ WF_vars(Signal) /\ WF_vars(Tick)
        /\ \A w \in Workers : WF_vars(WorkerStep(w))
-----------------------------------------------------------------------------
(***************************************************************************)
(* The types of what the threads share, with the places of the code; when  *)
(* the process serves there are MinWorkers workers or more, even if the    *)
(* sum of the limits wrapped around to nothing.                            *)
(***************************************************************************)
Spawned == {w \in Workers : worker[w] # "none"}

TypeOK ==
  /\ main \in {"args", "load", "lines", "loaded", "check", "recv", "handle", "drain", "drainHandle"}
  /\ exit \in {"running", "help", "usage", "config", "done", "broken off", "forced", "terminated"}
  /\ worker \in [Workers -> {"none", "check", "recv", "handle", "ended"}]
  /\ signals \in {"none", "first", "second"} /\ pending \in BOOLEAN /\ stop \in BOOLEAN
  /\ queue \in Seq(Requests \cup {RecvError}) /\ arrived \subseteq Requests /\ errors \in 0..MaxErrors
  /\ drainLeft \in 0..Drain /\ since \in 0..Drain
  /\ signals # "none" => Cardinality(Spawned) >= MinWorkers

(***************************************************************************)
(* "SIGINT drains in-flight requests for up to 5 s, then exits": a process *)
(* that ends its drain while a worker still relays an answer has given it  *)
(* the whole of that time, counted from the moment the stop flag was set.  *)
(***************************************************************************)
InFlightGetTheDrain ==
  exit = "done" /\ (\E w \in Workers : worker[w] = "handle") => since >= Drain

(***************************************************************************)
(* A request that arrived is taken by some thread, or cut off by the end   *)
(* of the process, or every thread that is left is busy for ever: errors   *)
(* may end every worker, but not the service.                              *)
(***************************************************************************)
AllBusy == Busy /\ \A w \in Workers : worker[w] \in {"none", "handle", "ended"}

RequestsTaken ==
  \A r \in Requests : r \in ToSet(queue) ~> (r \notin ToSet(queue) \/ ~Running \/ []AllBusy)

(***************************************************************************)
(* After a SIGINT the process ends, unless the main thread itself relays   *)
(* an answer that does not end: a worker that hangs cannot hold it up.     *)
(***************************************************************************)
ShutdownEnds == pending ~> (~Running \/ []Busy)

(* "ctrl-c again to force quit": a second SIGINT ends the process, even so. *)
ForceQuits == pending /\ signals = "second" ~> ~Running
=============================================================================

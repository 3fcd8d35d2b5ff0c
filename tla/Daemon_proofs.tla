--------------------------- MODULE Daemon_proofs ---------------------------
(***************************************************************************)
(* Proofs about Daemon for any arguments, key lists, workers, requests and *)
(* length of the drain: no argument passes unnoticed, every key in a line  *)
(* of its own is listed once, every limit fits, and a process that drains  *)
(* takes its time.                                                         *)
(***************************************************************************)
EXTENDS Daemon, FiniteSetTheorems, WellFoundedInduction, TLAPS

(* The lesser and the greater of two numbers. *)
LEMMA MinOfTwo ==
  ASSUME NEW a \in Int, NEW b \in Int
  PROVE  Min({a, b}) = IF a < b THEN a ELSE b
  BY DEF Min

LEMMA MaxOfTwo ==
  ASSUME NEW a \in Int, NEW b \in Int
  PROVE  Max({a, b}) = IF a < b THEN b ELSE a
  BY DEF Max
-----------------------------------------------------------------------------
(***************************************************************************)
(* The arguments.  Those before `at` have been understood: a word among    *)
(* them was the value of the flag before it.                               *)
(***************************************************************************)
Config == [keysPath : BOOLEAN, usageAware : {Off} \cup 1..99, affinity : BOOLEAN]

Understood(n) ==
  \A i \in 1..n : argv[i].flag = "other" => i > 1 /\ TakesNext(argv[i - 1], argv[i])

ArgsParsed == /\ argv \in Seq(ArgType) /\ cfg \in Config /\ at \in Nat \ {0}
              /\ main = "args" => at <= Len(argv) + 1 /\ Understood(at - 1)
              /\ main = "load" => Understood(Len(argv)) /\ (env.noAffinity => ~cfg.affinity)

LEMMA InitArgs == Init => ArgsParsed
  BY InputsAssumption
  DEF Init, StartInit, ArgsParsed, Understood, Config, DefaultConfig, Off

LEMMA ParseArgStep ==
  ASSUME ArgsParsed, ParseArg
  PROVE  ArgsParsed'
  <1>1. /\ main = "args" /\ main' = main /\ UNCHANGED <<argv, env>>
        /\ at \in 1..Len(argv) /\ argv[at] \in ArgType
    BY DEF ParseArg, ParseValued, ParseUsageAware, ParsePlain, ParseUnknown, Threshold,
           Configure, Fail, inputs, ArgsParsed
  <1>2. ASSUME UNCHANGED <<cfg, at>> PROVE ArgsParsed'
    BY <1>1, <1>2 DEF ArgsParsed, Understood
  <1>3. ASSUME NEW c \in Config, Configure(c, 1), argv[at].flag # "other"
        PROVE  ArgsParsed'
    <2>1. cfg' = c /\ at' = at + 1
      BY <1>3 DEF Configure
    <2>2. Understood(at)
      BY <1>1, <1>3 DEF ArgsParsed, Understood
    <2> QED
      BY <1>1, <2>1, <2>2 DEF ArgsParsed, Understood
  <1>4. ASSUME NEW c \in Config, Configure(c, 2), argv[at].flag # "other", ~IsLast,
               TakesNext(argv[at], argv[at + 1])
        PROVE  ArgsParsed'
    <2>1. cfg' = c /\ at' = at + 2 /\ at + 1 \in 1..Len(argv)
      BY <1>1, <1>4 DEF Configure, IsLast
    <2>2. Understood(at + 1)
      BY <1>1, <1>4, <2>1 DEF ArgsParsed, Understood
    <2> QED
      BY <1>1, <2>1, <2>2 DEF ArgsParsed, Understood
  <1>5. \A value : IsThreshold(value) => [cfg EXCEPT !.usageAware = value.pct] \in Config
    BY DEF IsThreshold, ArgsParsed, Config
  <1>6. CASE ParseValued(argv[at])
    <2> DEFINE c == [cfg EXCEPT !.keysPath = @ \/ argv[at].flag = "keys"]
    <2>1. c \in Config
      BY DEF ArgsParsed, Config
    <2>2. \/ Configure(c, 1)
          \/ Configure(c, 2) /\ ~IsLast /\ argv[at].value = NoValue
          \/ Fail("usage")
      BY <1>6 DEF ParseValued
    <2>3. argv[at].flag \in {"addr", "keys"}
      BY <1>6 DEF ParseValued
    <2> QED
      BY <1>2, <1>3, <1>4, <2>1, <2>2, <2>3 DEF Fail, TakesNext
  <1>7. CASE ParseUsageAware(argv[at])
    <2> DEFINE c(value) == [cfg EXCEPT !.usageAware = value.pct]
               eats == ~IsLast /\ argv[at + 1].flag = "other" /\ argv[at + 1].value.plain
    <2>1. argv[at].flag = "usage-aware"
      BY <1>7 DEF ParseUsageAware
    <2>2. CASE argv[at].value # NoValue /\ Threshold(argv[at].value, 1)
      BY <1>2, <1>3, <1>5, <2>1, <2>2 DEF Threshold, Fail
    <2>3. CASE argv[at].value = NoValue /\ eats /\ Threshold(argv[at + 1].value, 2)
      <3>1. TakesNext(argv[at], argv[at + 1])
        BY <2>1, <2>3 DEF TakesNext
      <3> QED
        BY <1>2, <1>4, <1>5, <2>1, <2>3, <3>1 DEF Threshold, Fail
    <2>4. CASE Configure([cfg EXCEPT !.usageAware = DefaultUsageAware], 1)
      <3>1. [cfg EXCEPT !.usageAware = DefaultUsageAware] \in Config
        BY DefaultsAssumption DEF ArgsParsed, Config
      <3> QED
        BY <1>3, <2>1, <2>4, <3>1
    <2> QED
      BY <1>7, <2>2, <2>3, <2>4 DEF ParseUsageAware
  <1>8. CASE ParsePlain(argv[at]) \/ ParseUnknown(argv[at])
    <2>1. cfg \in Config /\ [cfg EXCEPT !.affinity = FALSE] \in Config
      BY DEF ArgsParsed, Config
    <2> QED
      BY <1>2, <1>3, <1>8, <2>1 DEF ParsePlain, ParseUnknown, Fail
  <1> QED
    BY <1>6, <1>7, <1>8 DEF ParseArg

(* Steps that leave the start-up, and the steps of a process that serves. *)
LEMMA AfterStartup ==
  ASSUME [Next]_vars, ~StartUp, ~Serve
  PROVE  /\ UNCHANGED <<argv, env, cfg, at, keyfile>>
         /\ main' = main \/ main' \in {"check", "recv", "handle", "drain", "drainHandle"}
  <1>1. CASE Check \/ Receive \/ DrainStep \/ MainDone
    BY <1>1 DEF Check, Receive, DrainStep, MainDone, MainTo, Exit, Fail, inputs
  <1>2. CASE Signal \/ Terminate
    BY <1>2 DEF Signal, Terminate, Exit, Fail, startup, inputs, keyfile
  <1>3. ASSUME UNCHANGED startup
        PROVE  UNCHANGED <<main, argv, env, cfg, at, keyfile>>
    BY <1>3 DEF startup, keyfile
  <1>4. ASSUME NEW w, WorkerStep(w) \/ WorkerDone(w)
        PROVE  UNCHANGED startup
    BY <1>4 DEF WorkerStep, WorkerDone
  <1>5. ASSUME NEW r, Arrive(r)
        PROVE  UNCHANGED startup
    BY <1>5 DEF Arrive
  <1>6. CASE ReceiveFails \/ Interrupt \/ Tick \/ Ended \/ UNCHANGED vars
    BY <1>3, <1>6 DEF ReceiveFails, Interrupt, Tick, Ended, vars
  <1> QED
    BY <1>1, <1>2, <1>3, <1>4, <1>5, <1>6 DEF Next, MainStep

LEMMA NextArgs == ArgsParsed /\ [Next]_vars => ArgsParsed'
  <1> SUFFICES ASSUME ArgsParsed, [Next]_vars PROVE ArgsParsed'
    OBVIOUS
  <1>1. CASE ParseArg
    BY <1>1, ParseArgStep
  <1>2. CASE ParseEnv
    <2>1. main = "args" /\ at > Len(argv) /\ UNCHANGED <<argv, env, at>>
      BY <1>2 DEF ParseEnv, Fail, inputs
    <2>2. Understood(Len(argv))
      BY <2>1 DEF ArgsParsed, Understood
    <2>3. CASE UNCHANGED <<main, cfg>>
      BY <2>1, <2>3 DEF ArgsParsed, Understood
    <2>4. CASE ~UNCHANGED <<main, cfg>>
      <3> DEFINE asks == cfg.usageAware = Off /\ env.usage # NoValue
      <3>1. /\ asks => IsThreshold(env.usage)
            /\ main' = "load"
            /\ cfg' = [cfg EXCEPT !.usageAware = IF asks THEN env.usage.pct ELSE @,
                                  !.affinity   = @ /\ ~env.noAffinity]
        BY <1>2, <2>4 DEF ParseEnv, Fail
      <3>2. cfg' \in Config /\ (env.noAffinity => ~cfg'.affinity)
        BY <3>1 DEF ArgsParsed, Config, IsThreshold
      <3> QED
        BY <2>1, <2>2, <3>1, <3>2 DEF ArgsParsed, Understood
    <2> QED
      BY <2>3, <2>4
  <1>3. CASE LoadKeys
    <2>1. CASE \E from : Read(from)
      BY <2>1 DEF Read, ArgsParsed, Understood
    <2>2. CASE Fail("config")
      BY <2>2 DEF Fail, inputs, ArgsParsed, Understood
    <2> QED
      BY <1>3, <2>1, <2>2 DEF LoadKeys
  <1>4. CASE ParseLine \/ EndOfKeys
    BY <1>4 DEF ParseLine, EndOfKeys, Fail, inputs, ArgsParsed, Understood
  <1>5. CASE Serve
    <2>1. DefaultConfig \in Config
      BY DEF DefaultConfig, Config, Off
    <2> QED
      BY <1>5, <2>1 DEF Serve, Fail, inputs, ArgsParsed, Understood
  <1>6. CASE ~StartUp /\ ~Serve
    BY <1>6, AfterStartup DEF ArgsParsed, Understood
  <1> QED
    BY <1>1, <1>2, <1>3, <1>4, <1>5, <1>6 DEF StartUp, Start

(* Nothing on the command line is passed over in silence. *)
THEOREM ArgsCorrect == Spec => []ArgsAccounted
  <1>1. ArgsParsed => ArgsAccounted
    BY DEF ArgsParsed, Understood, ArgsAccounted, Config
  <1> QED
    BY <1>1, InitArgs, NextArgs, PTL DEF Spec
-----------------------------------------------------------------------------
(***************************************************************************)
(* The keys.  The lines before `at` have made the entries.                 *)
(***************************************************************************)
Entry == [key : LineType, limit : 1..MaxU32]

Listed(n) == {i \in 1..n : text[i] # Blank}

KeysParsed ==
  /\ text \in Seq(LineType) /\ entries \in Seq(Entry)
  /\ main \in {"args", "load"} => entries = <<>>
  /\ main \in {"lines", "loaded"} =>
       /\ at \in 1..(Len(text) + 1)
       /\ Len(entries) = Cardinality(Listed(at - 1))
       /\ \A i, j \in DOMAIN entries : entries[i].key = entries[j].key => i = j

LEMMA InitKeys == Init => KeysParsed
  BY DEF Init, StartInit, KeysParsed

(* What a line says. *)
LEMMA LineMeans ==
  ASSUME NEW line \in LineType, ~Overflows(line)
  PROVE  [key |-> KeyOf(line), limit |-> LimitOf(line)] \in Entry
  <1>1. KeyOf(line) \in LineType
    BY DEF KeyOf, LineType, NoTail
  <1>2. LimitOf(line) \in 1..MaxU32
    BY DefaultsAssumption DEF LimitOf, Splits, Overflows, LineType, NoTail, TextTail
  <1> QED
    BY <1>1, <1>2 DEF Entry

LEMMA ListedGrows ==
  ASSUME NEW n \in Nat
  PROVE  /\ Listed(0) = {} /\ Cardinality(Listed(0)) = 0
         /\ Cardinality(Listed(n + 1)) = Cardinality(Listed(n)) + (IF text[n + 1] = Blank THEN 0 ELSE 1)
  <1>1. IsFiniteSet(Listed(n))
    <2>1. IsFiniteSet(1..n) /\ Listed(n) \subseteq 1..n
      BY FS_Interval DEF Listed
    <2> QED
      BY <2>1, FS_Subset
  <1>2. Listed(0) = {} /\ Cardinality(Listed(0)) = 0
    <2>1. Listed(0) = {}
      BY DEF Listed
    <2> QED
      BY <2>1, FS_EmptySet
  <1>3. Cardinality(Listed(n)) \in Nat
    BY <1>1, FS_CardinalityType
  <1>4. CASE text[n + 1] = Blank
    <2>1. Listed(n + 1) = Listed(n)
      BY <1>4 DEF Listed
    <2> QED
      BY <1>2, <1>3, <1>4, <2>1
  <1>5. CASE text[n + 1] # Blank
    <2>1. Listed(n + 1) = Listed(n) \cup {n + 1}
      BY <1>5 DEF Listed
    <2>2. n + 1 \notin Listed(n)
      BY DEF Listed
    <2> QED
      BY <1>1, <1>2, <1>5, <2>1, <2>2, FS_AddElement
  <1> QED
    BY <1>4, <1>5

(* A line that is no duplicate makes an entry of its own. *)
LEMMA ParseLineStep ==
  ASSUME KeysParsed, ParseLine
  PROVE  KeysParsed'
  <1> DEFINE line  == text[at]
             entry == [key |-> KeyOf(line), limit |-> LimitOf(line)]
  <1>1. main = "lines" /\ main' = main /\ at \in 1..Len(text) /\ line \in LineType
    BY DEF ParseLine, Fail, KeysParsed
  <1>2. CASE Fail("config")
    BY <1>2 DEF Fail, keyfile, KeysParsed, Listed
  <1>3. CASE ~Fail("config")
    <2>1. /\ line = Blank \/ (~Overflows(line) /\ ~Repeats(line))
          /\ entries' = IF line = Blank THEN entries ELSE Append(entries, entry)
          /\ at' = at + 1 /\ text' = text
      BY <1>3 DEF ParseLine
    <2>2. Listed(at - 1)' = Listed(at)
      BY <1>1, <2>1 DEF Listed
    <2>3. Cardinality(Listed(at)) = Len(entries) + (IF line = Blank THEN 0 ELSE 1)
      <3>1. at - 1 \in Nat /\ (at - 1) + 1 = at
        BY <1>1
      <3> QED
        BY <1>1, <3>1, ListedGrows DEF KeysParsed
    <2>4. CASE line = Blank
      BY <1>1, <2>1, <2>2, <2>3, <2>4 DEF KeysParsed
    <2>5. CASE line # Blank
      <3>1. entry \in Entry /\ entries \in Seq(Entry)
        BY <1>1, <2>1, <2>5, LineMeans DEF KeysParsed
      <3>2. entries' = Append(entries, entry) /\ entries' \in Seq(Entry)
        BY <2>1, <2>5, <3>1
      <3>3. Len(entries') = Len(entries) + 1
        BY <3>1, <3>2
      <3>4. \A i \in DOMAIN entries : entries[i].key # entry.key
        BY <2>1, <2>5 DEF Repeats
      <3>5. ASSUME NEW i \in DOMAIN entries', NEW j \in DOMAIN entries',
                   entries'[i].key = entries'[j].key
            PROVE  i = j
        <4>1. /\ i \in 1..(Len(entries) + 1) /\ j \in 1..(Len(entries) + 1)
              /\ DOMAIN entries = 1..Len(entries)
          BY <3>1, <3>2
        <4>2. /\ entries'[i] = IF i = Len(entries) + 1 THEN entry ELSE entries[i]
              /\ entries'[j] = IF j = Len(entries) + 1 THEN entry ELSE entries[j]
          BY <3>1, <3>2, <4>1
        <4> QED
          BY <1>1, <3>4, <3>5, <4>1, <4>2 DEF KeysParsed
      <3> QED
        BY <1>1, <2>1, <2>2, <2>3, <2>5, <3>2, <3>3, <3>5 DEF KeysParsed
    <2> QED
      BY <2>4, <2>5
  <1> QED
    BY <1>2, <1>3

LEMMA NextKeys == KeysParsed /\ [Next]_vars => KeysParsed'
  <1> SUFFICES ASSUME KeysParsed, [Next]_vars PROVE KeysParsed'
    OBVIOUS
  <1>1. CASE ParseArg \/ ParseEnv
    <2>1. main = "args" /\ main' \in {"args", "load"} /\ UNCHANGED <<text, entries>>
      BY <1>1 DEF ParseArg, ParseValued, ParseUsageAware, ParsePlain, ParseUnknown, Threshold,
                  Configure, ParseEnv, Fail, keyfile
    <2> QED
      BY <2>1 DEF KeysParsed
  <1>2. CASE LoadKeys
    <2>1. main = "load" /\ entries = <<>> /\ entries' = entries
      BY <1>2 DEF LoadKeys, Read, Fail, keyfile, KeysParsed
    <2>2. CASE Fail("config")
      BY <2>1, <2>2 DEF Fail, keyfile, KeysParsed
    <2>3. CASE \E from : Read(from)
      <3>1. main' = "lines" /\ text' \in Seq(LineType) /\ at' = 1
        BY <2>3, InputsAssumption DEF Read
      <3>2. Cardinality(Listed(at - 1))' = 0
        <4>1. Listed(at - 1)' = {}
          BY <3>1 DEF Listed
        <4> QED
          BY <4>1, FS_EmptySet
      <3> QED
        BY <2>1, <3>1, <3>2 DEF KeysParsed
    <2> QED
      BY <1>2, <2>2, <2>3 DEF LoadKeys
  <1>3. CASE ParseLine
    BY <1>3, ParseLineStep
  <1>4. CASE EndOfKeys
    BY <1>4 DEF EndOfKeys, Fail, keyfile, KeysParsed, Listed
  <1>5. CASE Serve
    <2>1. CASE Fail("config")
      BY <2>1 DEF Fail, keyfile, KeysParsed, Listed
    <2>2. CASE ~Fail("config")
      <3>1. main' = "check" /\ text' = <<>> /\ entries' = <<>>
        BY <1>5, <2>2 DEF Serve
      <3>2. <<>> \in Seq(LineType) /\ <<>> \in Seq(Entry)
        OBVIOUS
      <3> QED
        BY <3>1, <3>2 DEF KeysParsed
    <2> QED
      BY <2>1, <2>2
  <1>6. CASE ~StartUp /\ ~Serve
    BY <1>6, AfterStartup DEF KeysParsed, Listed, keyfile
  <1> QED
    BY <1>1, <1>2, <1>3, <1>4, <1>5, <1>6 DEF StartUp, Start

(***************************************************************************)
(* The pool gets every key once, with a limit it can count to; lists that  *)
(* separate keys by commas are limited alike, but left out otherwise.      *)
(***************************************************************************)
THEOREM KeysCorrect == Spec => []OneEntryPerKey
  <1>1. KeysParsed => OneEntryPerKey
    <2> SUFFICES ASSUME KeysParsed PROVE OneEntryPerKey
      OBVIOUS
    <2>1. \A i \in DOMAIN entries : entries[i] \in Entry
      BY DEF KeysParsed
    <2>2. \A i \in DOMAIN entries : entries[i].limit \in 1..MaxU32
      BY <2>1 DEF Entry
    <2> QED
      BY <2>2 DEF KeysParsed, OneEntryPerKey, Listed
  <1> QED
    BY <1>1, InitKeys, NextKeys, PTL DEF Spec
-----------------------------------------------------------------------------
(***************************************************************************)
(* The workers.  However the sum of the limits wraps around, it is a       *)
(* number, and so the clamp decides: MinWorkers are spawned or more, and   *)
(* none of them is ever taken back.                                        *)
(***************************************************************************)
(* Induction: a set with 0 that is closed under successors has all numbers. *)
LEMMA SetInduction ==
  ASSUME NEW G, 0 \in G, \A n \in Nat : n \in G => n + 1 \in G
  PROVE  Nat \subseteq G
  <1> DEFINE R == {p \in Nat \X Nat : p[1] < p[2]}
             T == Nat \ G
  <1>1. IsWellFoundedOn(R, Nat)
    BY NatLessThanWellFounded DEF OpToRel
  <1>2. SUFFICES ASSUME T # {} PROVE FALSE
    OBVIOUS
  <1>3. PICK x \in T : \A y \in T : ~(<<y, x>> \in R)
    <2>1. T \subseteq Nat
      OBVIOUS
    <2> HIDE DEF R, T
    <2> QED
      BY <1>1, <1>2, <2>1, WFMin
  <1>4. x \in Nat \ {0} /\ x - 1 \in Nat /\ <<x - 1, x>> \in R
    OBVIOUS
  <1>5. x - 1 \in G
    BY <1>3, <1>4
  <1> QED
    BY <1>3, <1>4, <1>5

(* The running sum of the limits. *)
SlotsOf(sum, n) == IF n = 0 THEN 0 ELSE (sum[n - 1] + entries[n].limit) % (MaxU32 + 1)

Sums(sum, m) == sum = [n \in 0..m |-> SlotsOf(sum, n)]

LEMMA SumsExist ==
  ASSUME NEW m \in Nat
  PROVE  \E sum : Sums(sum, m)
  <1> DEFINE G == {n \in Nat : \E sum : Sums(sum, n)}
  <1>1. 0 \in G
    <2> DEFINE sum == [n \in 0..0 |-> 0]
    <2>1. Sums(sum, 0)
      BY DEF Sums, SlotsOf
    <2> QED
      BY <2>1
  <1>2. ASSUME NEW n \in Nat, n \in G PROVE n + 1 \in G
    <2>1. PICK sum : Sums(sum, n)
      BY <1>2
    <2> DEFINE more == [i \in 0..(n + 1) |-> IF i = n + 1 THEN SlotsOf(sum, i) ELSE sum[i]]
    <2>2. ASSUME NEW i \in 0..(n + 1) PROVE more[i] = SlotsOf(more, i)
      <3>1. i # 0 => more[i - 1] = sum[i - 1]
        OBVIOUS
      <3>2. more[i] = SlotsOf(sum, i)
        BY <2>1 DEF Sums
      <3> HIDE DEF more
      <3> QED
        BY <3>1, <3>2 DEF SlotsOf
    <2>3. Sums(more, n + 1)
      BY <2>2 DEF Sums
    <2> HIDE DEF more
    <2> QED
      BY <2>3
  <1> QED
    <2> HIDE DEF G
    <2>1. m \in G
      BY <1>1, <1>2, SetInduction
    <2> QED
      BY <2>1 DEF G

LEMMA TotalSlotsType ==
  ASSUME KeysParsed
  PROVE  TotalSlots \in 0..MaxU32
  <1> DEFINE last == Len(entries)
             sum  == CHOOSE f : Sums(f, last)
  <1>1. last \in Nat /\ \A n \in 1..last : entries[n].limit \in Int
    <2>1. entries \in Seq(Entry)
      BY DEF KeysParsed
    <2>2. last \in Nat /\ \A n \in 1..last : entries[n] \in Entry
      BY <2>1
    <2>3. \A entry \in Entry : entry.limit \in Int
      BY DEF Entry
    <2> QED
      BY <2>2, <2>3
  <1>2. TotalSlots = sum[last]
    BY DEF TotalSlots, Sums, SlotsOf
  <1>3. Sums(sum, last)
    BY <1>1, SumsExist
  <1> HIDE DEF sum
  <1>4. ASSUME NEW n \in 0..last PROVE sum[n] = SlotsOf(sum, n)
    BY <1>3 DEF Sums
  <1> DEFINE G == {n \in Nat : n <= last => sum[n] \in 0..MaxU32}
  <1>5. 0 \in G
    BY <1>1, <1>4, DefaultsAssumption DEF SlotsOf
  <1>6. ASSUME NEW n \in Nat, n \in G PROVE n + 1 \in G
    <2> SUFFICES ASSUME n + 1 <= last PROVE sum[n + 1] \in 0..MaxU32
      OBVIOUS
    <2>1. sum[n] \in Int /\ entries[n + 1].limit \in Int
      BY <1>1, <1>6
    <2>2. sum[n + 1] = (sum[n] + entries[n + 1].limit) % (MaxU32 + 1)
      BY <1>1, <1>4 DEF SlotsOf
    <2> HIDE DEF last
    <2> QED
      BY <2>1, <2>2, DefaultsAssumption
  <1>7. last \in G
    <2> HIDE DEF G
    <2> QED
      BY <1>1, <1>5, <1>6, SetInduction
  <1> QED
    BY <1>1, <1>2, <1>7

LEMMA EnoughWorkers ==
  ASSUME NEW slots \in Int
  PROVE  WorkersFor(slots) >= MinWorkers
  <1>1. Cardinality(Workers) \in Int /\ MinWorkers \in Int
    BY WorkersAssumption, FS_CardinalityType
  <1>2. Min({slots, Cardinality(Workers)}) \in Int
    BY <1>1, MinOfTwo
  <1> QED
    BY <1>1, <1>2, MaxOfTwo DEF WorkersFor

(* The types of what Startup works on suffice for the process to serve. *)
LEMMA InitTypes == Init => TypeOK
  <1> SUFFICES ASSUME Init PROVE TypeOK
    OBVIOUS
  <1>1. main = "args" /\ exit = "running" /\ signals = "none" /\ pending = FALSE /\ stop = FALSE
    BY DEF Init, StartInit
  <1>2. worker \in [Workers -> {"none", "check", "recv", "handle", "ended"}]
    BY DEF Init
  <1>3. queue \in Seq(Requests \cup {RecvError}) /\ arrived \subseteq Requests
    BY DEF Init
  <1>4. errors \in 0..MaxErrors /\ drainLeft \in 0..Drain /\ since \in 0..Drain
    BY DrainAssumption DEF Init
  <1> QED
    BY <1>1, <1>2, <1>3, <1>4 DEF TypeOK

LEMMA StartUpTypes ==
  ASSUME TypeOK, StartUp
  PROVE  TypeOK'
  <1>1. UNCHANGED serving /\ Spawned' = Spawned
    BY DEF StartUp, serving, Spawned
  <1>2. /\ main' \in {"args", "load", "lines", "loaded"} \cup {main}
        /\ exit' \in {"usage", "config", "help"} \cup {exit}
    <2>1. CASE ParseArg
      BY <2>1 DEF ParseArg, ParseValued, ParseUsageAware, ParsePlain, ParseUnknown,
                  Threshold, Configure, Fail
    <2>2. CASE ParseEnv \/ EndOfKeys
      BY <2>2 DEF ParseEnv, EndOfKeys, Fail
    <2>3. CASE LoadKeys \/ ParseLine
      BY <2>3 DEF LoadKeys, Read, ParseLine, Fail
    <2> QED
      BY <2>1, <2>2, <2>3 DEF StartUp, Start
  <1> QED
    BY <1>1, <1>2 DEF TypeOK, serving

LEMMA ServeTypes ==
  ASSUME TypeOK, KeysParsed, Serve
  PROVE  TypeOK'
  <1>1. CASE Fail("config") /\ UNCHANGED serving
    BY <1>1 DEF Fail, serving, TypeOK, Spawned
  <1>2. CASE ~(Fail("config") /\ UNCHANGED serving)
    <2>1. /\ main' = "check" /\ signals' = "first"
          /\ UNCHANGED <<exit, pending, stop, queue, arrived, errors, drainLeft, since>>
      BY <1>2 DEF Serve, wire
    <2>2. PICK S \in SUBSET Workers :
            /\ Cardinality(S) = WorkersFor(TotalSlots)
            /\ worker' = [w \in Workers |-> IF w \in S THEN "check" ELSE "none"]
      BY <1>2 DEF Serve
    <2>3. Spawned' = S
      BY <2>2 DEF Spawned
    <2>4. Cardinality(S) >= MinWorkers
      BY <2>2, TotalSlotsType, EnoughWorkers, DefaultsAssumption
    <2> QED
      BY <2>1, <2>2, <2>3, <2>4 DEF TypeOK
  <1> QED
    BY <1>1, <1>2

(* What is taken from the queue leaves a queue. *)
LEMMA QueueTypes ==
  ASSUME TypeOK, TimesOut \/ TakesRequest \/ TakesError
  PROVE  queue' \in Seq(Requests \cup {RecvError})
  <1>1. queue \in Seq(Requests \cup {RecvError})
    BY DEF TypeOK
  <1>2. queue' = queue \/ (queue # <<>> /\ queue' = Tail(queue))
    BY DEF TimesOut, TakesRequest, TakesError
  <1> QED
    BY <1>1, <1>2

LEMMA WorkerTypes ==
  ASSUME TypeOK, NEW w \in Workers, WorkerStep(w) \/ WorkerDone(w)
  PROVE  TypeOK'
  <1>1. /\ worker[w] # "none"
        /\ \E place \in {"check", "recv", "handle", "ended"} : worker' = [worker EXCEPT ![w] = place]
    BY DEF WorkerStep, WorkerDone
  <1>2. worker' \in [Workers -> {"none", "check", "recv", "handle", "ended"}] /\ Spawned' = Spawned
    BY <1>1 DEF TypeOK, Spawned
  <1>3. queue' \in Seq(Requests \cup {RecvError})
    <2>1. queue' = queue \/ TimesOut \/ TakesRequest \/ TakesError
      BY DEF WorkerStep, WorkerDone, wire
    <2> QED
      BY <2>1, QueueTypes DEF TypeOK
  <1>4. UNCHANGED <<main, exit, signals, pending, stop, arrived, errors, drainLeft, since>>
    BY DEF WorkerStep, WorkerDone, startup, wire
  <1> QED
    BY <1>2, <1>3, <1>4 DEF TypeOK

LEMMA WireTypes ==
  ASSUME TypeOK, (\E r \in Requests : Arrive(r)) \/ ReceiveFails
  PROVE  TypeOK'
  <1>1. /\ queue' \in Seq(Requests \cup {RecvError}) /\ arrived' \subseteq Requests
        /\ errors' \in 0..MaxErrors
    <2> DEFINE Item == Requests \cup {RecvError}
    <2>0. queue \in Seq(Item) /\ arrived \subseteq Requests /\ errors \in 0..MaxErrors
      BY DEF TypeOK
    <2>1. CASE \E r \in Requests : Arrive(r)
      <3>1. PICK r \in Requests : queue' = Append(queue, r) /\ arrived' = arrived \cup {r} /\ errors' = errors
        BY <2>1 DEF Arrive
      <3>2. r \in Item
        OBVIOUS
      <3> HIDE DEF Item
      <3>3. queue' \in Seq(Item)
        BY <2>0, <3>1, <3>2
      <3> QED
        BY <2>0, <3>1, <3>3 DEF Item
    <2>2. CASE ReceiveFails
      <3>1. queue' = Append(queue, RecvError) /\ arrived' = arrived /\ errors' = errors + 1 /\ errors < MaxErrors
        BY <2>2 DEF ReceiveFails
      <3>2. RecvError \in Item
        OBVIOUS
      <3> HIDE DEF Item
      <3>3. queue' \in Seq(Item)
        BY <2>0, <3>1, <3>2
      <3> QED
        BY <2>0, <3>1, <3>3, DrainAssumption DEF Item
    <2> QED
      BY <2>1, <2>2
  <1>2. UNCHANGED <<main, exit, worker, signals, pending, stop, drainLeft, since>>
    BY DEF Arrive, ReceiveFails, startup
  <1> QED
    BY <1>1, <1>2 DEF TypeOK, Spawned

LEMMA MainTypes ==
  ASSUME TypeOK, Check \/ Receive \/ DrainStep \/ MainDone
  PROVE  TypeOK'
  <1>1. /\ main' \in {main, "check", "recv", "handle", "drain", "drainHandle"}
        /\ exit' \in {exit, "done", "broken off"}
        /\ drainLeft' \in {drainLeft, Drain}
        /\ UNCHANGED <<worker, signals, pending, stop, arrived, errors, since>>
    BY DEF Check, Receive, DrainStep, MainDone, MainTo, Exit, Fail, serving, wire
  <1>2. queue' \in Seq(Requests \cup {RecvError})
    <2>1. queue' = queue \/ TimesOut \/ TakesRequest \/ TakesError
      BY DEF Check, Receive, DrainStep, MainDone, Exit, serving, wire
    <2> QED
      BY <2>1, QueueTypes DEF TypeOK
  <1>3. drainLeft' \in 0..Drain /\ Spawned' = Spawned
    <2>0. Drain \in 0..Drain
      BY DrainAssumption
    <2>1. drainLeft \in 0..Drain
      BY DEF TypeOK
    <2>2. drainLeft' = drainLeft \/ drainLeft' = Drain
      BY <1>1
    <2>3. worker' = worker
      BY <1>1
    <2> QED
      BY <2>0, <2>1, <2>2, <2>3 DEF Spawned
  <1> QED
    BY <1>1, <1>2, <1>3 DEF TypeOK

LEMMA OtherTypes ==
  ASSUME TypeOK, Interrupt \/ Signal \/ Terminate \/ Tick \/ Ended \/ UNCHANGED vars
  PROVE  TypeOK'
  <1>1. CASE Interrupt
    BY <1>1 DEF Interrupt, startup, wire, TypeOK, Spawned
  <1>2. CASE Signal
    <2>1. /\ main' = main /\ exit' \in {exit, "forced"} /\ UNCHANGED <<worker, queue, arrived, errors, drainLeft, since>>
          /\ signals # "none" /\ signals' = "second" /\ pending' = FALSE /\ stop' \in {stop, TRUE}
      BY <1>2 DEF Signal, Fail, startup, wire
    <2> QED
      BY <2>1 DEF TypeOK, Spawned
  <1>3. CASE Tick
    <2>0. since \in 0..Drain /\ drainLeft \in 0..Drain
      BY DEF TypeOK
    <2>1. UNCHANGED <<main, exit, worker, signals, pending, stop, queue, arrived, errors>>
      BY <1>3 DEF Tick, startup, wire
    <2>2. /\ since' = IF since + 1 < Drain THEN since + 1 ELSE Drain
          /\ drainLeft' = IF drainLeft - 1 < 0 THEN 0 ELSE drainLeft - 1
      <3>1. since + 1 \in Int /\ drainLeft - 1 \in Int /\ Drain \in Int
        BY <2>0, DrainAssumption
      <3> QED
        BY <1>3, <3>1, MinOfTwo, MaxOfTwo DEF Tick
    <2>3. since' \in 0..Drain /\ drainLeft' \in 0..Drain
      BY <2>0, <2>2, DrainAssumption
    <2> QED
      BY <2>1, <2>3 DEF TypeOK, Spawned
  <1>4. CASE Terminate
    BY <1>4 DEF Terminate, Exit, Fail, serving, TypeOK, Spawned
  <1>5. CASE Ended \/ UNCHANGED vars
    BY <1>5 DEF Ended, vars, startup, serving, TypeOK, Spawned
  <1> QED
    BY <1>1, <1>2, <1>3, <1>4, <1>5

LEMMA NextTypes == TypeOK /\ KeysParsed /\ [Next]_vars => TypeOK'
  BY StartUpTypes, ServeTypes, WorkerTypes, WireTypes, MainTypes, OtherTypes DEF Next, MainStep

(***************************************************************************)
(* Every variable keeps its type, and a process that serves has MinWorkers *)
(* workers or more, whatever the limits add up to in 32 bits.              *)
(***************************************************************************)
THEOREM TypeCorrect == Spec => []TypeOK
  BY InitTypes, NextTypes, InitKeys, NextKeys, PTL DEF Spec
-----------------------------------------------------------------------------
(***************************************************************************)
(* The drain.  While the main thread drains, what is left of its time and  *)
(* what has passed since the flag was set make up the whole.               *)
(***************************************************************************)
Draining == {"drain", "drainHandle"}

DrainTimed == /\ drainLeft \in 0..Drain /\ since \in 0..Drain
              /\ main \in Draining => stop /\ since + drainLeft >= Drain
              /\ exit = "done" => since >= Drain

LEMMA InitDrain == Init => DrainTimed
  BY DrainAssumption DEF Init, StartInit, DrainTimed, Draining

(* Neither start-up nor bind is a drain, and neither touches the clock. *)
LEMMA BeforeServing ==
  ASSUME StartUp \/ Serve
  PROVE  /\ UNCHANGED <<drainLeft, since, stop>>
         /\ main' = main \/ main' \notin Draining
         /\ exit' # "done"
  <1>1. CASE StartUp
    <2>1. UNCHANGED <<drainLeft, since, stop>> /\ exit = "running"
      BY <1>1 DEF StartUp, Start, serving
    <2>2. CASE ParseArg
      BY <2>1, <2>2 DEF ParseArg, ParseValued, ParseUsageAware, ParsePlain, ParseUnknown,
                        Threshold, Configure, Fail, Draining
    <2>3. CASE ParseEnv \/ EndOfKeys
      BY <2>1, <2>3 DEF ParseEnv, EndOfKeys, Fail, Draining
    <2>4. CASE LoadKeys \/ ParseLine
      BY <2>1, <2>4 DEF LoadKeys, Read, ParseLine, Fail, Draining
    <2> QED
      BY <1>1, <2>1, <2>2, <2>3, <2>4 DEF StartUp, Start
  <1>2. CASE Serve
    BY <1>2 DEF Serve, Running, Fail, serving, wire, Draining
  <1> QED
    BY <1>1, <1>2

(* The threads and clients beside the main thread leave its time alone. *)
LEMMA Bystanders ==
  ASSUME NEW w, NEW r, Arrive(r) \/ ReceiveFails \/ Interrupt \/ WorkerStep(w) \/ WorkerDone(w)
  PROVE  UNCHANGED <<main, exit, stop, drainLeft, since>>
  BY DEF Arrive, ReceiveFails, Interrupt, WorkerStep, WorkerDone, startup

(* The process never hurries its drain. *)
LEMMA NextDrain == DrainTimed /\ [Next]_vars => DrainTimed'
  <1> SUFFICES ASSUME DrainTimed, [Next]_vars PROVE DrainTimed'
    OBVIOUS
  <1>1. CASE StartUp \/ Serve
    <2>1. /\ UNCHANGED <<drainLeft, since, stop>>
          /\ main' = main \/ main' \notin Draining
          /\ exit' # "done"
      BY <1>1, BeforeServing
    <2> QED
      BY <2>1 DEF DrainTimed
  <1>2. CASE Check
    <2>1. exit = "running" /\ exit' = exit /\ UNCHANGED <<stop, since>>
      BY <1>2 DEF Check, Running, MainTo
    <2>2. \/ stop /\ drainLeft' = Drain
          \/ main' = "recv" /\ drainLeft' = drainLeft
      BY <1>2 DEF Check, MainTo
    <2> QED
      BY <2>1, <2>2, DrainAssumption DEF DrainTimed, Draining
  <1>3. CASE Receive \/ MainDone
    BY <1>3 DEF Receive, MainDone, MainTo, Running, serving, DrainTimed, Draining
  <1>4. CASE DrainStep
    <2>1. CASE Running /\ main = "drain" /\ drainLeft = 0 /\ Exit("done")
      BY <2>1 DEF Exit, Fail, serving, DrainTimed, Draining
    <2>2. CASE ~(drainLeft = 0 /\ Exit("done"))
      BY <1>4, <2>2 DEF DrainStep, MainTo, Fail, Running, DrainTimed, Draining
    <2> QED
      BY <1>4, <2>1, <2>2 DEF DrainStep
  <1>5. CASE Signal \/ Terminate
    BY <1>5 DEF Signal, Terminate, Exit, Running, Fail, startup, serving, DrainTimed
  <1>6. CASE Tick
    <2>1. UNCHANGED <<main, exit, stop>>
      BY <1>6 DEF Tick, startup
    <2>2. /\ since' = IF since + 1 < Drain THEN since + 1 ELSE Drain
          /\ drainLeft' = IF drainLeft - 1 < 0 THEN 0 ELSE drainLeft - 1
      BY <1>6, MinOfTwo, MaxOfTwo, DrainAssumption DEF Tick, DrainTimed
    <2> QED
      BY <2>1, <2>2, DrainAssumption DEF DrainTimed
  <1>7. ASSUME UNCHANGED <<main, exit, stop, drainLeft, since>> PROVE DrainTimed'
    BY <1>7 DEF DrainTimed
  <1>8. CASE Ended \/ UNCHANGED vars
    BY <1>7, <1>8 DEF Ended, vars, startup, serving
  <1> QED
    BY <1>1, <1>2, <1>3, <1>4, <1>5, <1>6, <1>7, <1>8, Bystanders DEF Next, MainStep

(***************************************************************************)
(* SIGINT gives the requests in flight the whole drain: the process that   *)
(* ends at the end of its drain has been stopping for that long.           *)
(***************************************************************************)
THEOREM DrainCorrect == Spec => []InFlightGetTheDrain
  <1>1. DrainTimed => InFlightGetTheDrain
    BY DEF DrainTimed, InFlightGetTheDrain
  <1> QED
    BY <1>1, InitDrain, NextDrain, PTL DEF Spec
=============================================================================

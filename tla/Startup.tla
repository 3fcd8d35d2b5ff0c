------------------------------ MODULE Startup ------------------------------
(***************************************************************************)
(* How ollamux starts (main and parse_args, src/src/main.rs; Keys::load    *)
(* and Keys::parse, src/src/config.rs): the arguments one after the other, *)
(* then the environment, then the lines of the keys' source.  Either every *)
(* input was understood and there is a key to serve with, or the process   *)
(* ends with an exit code.                                                 *)
(*                                                                         *)
(* An argument is its flag and a value.  Of a value matters whether it     *)
(* reads as a number and as a percentage ("90%" is the latter only).  A    *)
(* line of keys is the names it lists, split at commas, and the tail after *)
(* its last colon.                                                         *)
(***************************************************************************)
EXTENDS Integers, Sequences, FiniteSets

CONSTANTS ArgLists,             \* the argument lists to start with
          Environments,         \* the environments to start in
          Texts,                \* what a source of keys may hold
          DefaultUsageAware,    \* DEFAULT_USAGE_AWARE
          DefaultConcurrency,   \* DEFAULT_CONCURRENCY
          MaxU32                \* u32::MAX

ASSUME DefaultsAssumption == /\ DefaultUsageAware \in 1..99
                             /\ DefaultConcurrency \in Nat \ {0}
                             /\ MaxU32 \in Nat /\ DefaultConcurrency <= MaxU32

NotANumber == -1
Number(n)  == [plain |-> TRUE, pct |-> n]
Percent(n) == [plain |-> FALSE, pct |-> n]
Word       == [plain |-> FALSE, pct |-> NotANumber]
NoValue    == [plain |-> FALSE, pct |-> -2]

(* `value` is what follows the `=`; of "other", the word itself. *)
Arg(flag, value) == [flag |-> flag, value |-> value]

Flags   == {"help", "verbose", "no-affinity", "addr", "keys", "usage-aware", "other"}
ArgType == [flag : Flags, value : [plain : BOOLEAN, pct : Int]]

NoTail   == -1    \* no colon
TextTail == -2    \* something other than decimal digits
Line(names, tail) == [names |-> names, tail |-> tail]

LineType == [names : Seq(STRING), tail : Nat \cup {NoTail, TextTail}]
Blank    == Line(<<>>, NoTail)    \* or a comment

ASSUME InputsAssumption == ArgLists \subseteq Seq(ArgType) /\ Texts \subseteq Seq(LineType)

Off == -1    \* no --usage-aware

VARIABLES main,      \* where the main thread is
          exit,      \* how the process ended, or "running"
          argv,      \* the arguments
          env,       \* the environment
          cfg,       \* Config
          source,    \* where the keys come from
          text,      \* the lines of that source
          at,        \* the argument or line that is next
          entries    \* Keys::entries

startup == <<main, exit, argv, env, cfg, source, text, at, entries>>
inputs  == <<argv, env>>
keyfile == <<source, text, entries>>

DefaultConfig == [keysPath |-> FALSE, usageAware |-> Off, affinity |-> TRUE]

StartInit == /\ main = "args" /\ exit = "running"
             /\ argv \in ArgLists /\ env \in Environments
             /\ cfg = DefaultConfig
             /\ source = "none" /\ text = <<>> /\ at = 1 /\ entries = <<>>

Fail(how) == /\ exit' = how
             /\ UNCHANGED <<main, inputs, cfg, at, keyfile>>
-----------------------------------------------------------------------------
(* parse_args, one argument per step. *)
Configure(c, used) == /\ cfg' = c
                      /\ at' = at + used
                      /\ UNCHANGED <<main, exit, inputs, keyfile>>

(* Variant with a mistake: zero, which disables, passes for a threshold. *)
IsThresholdOrZero(value) == value.pct \in 0..99

(* parse_pct *)
IsThreshold(value) == value.pct \in 1..99

Threshold(value, used) == IF IsThreshold(value)
                          THEN Configure([cfg EXCEPT !.usageAware = value.pct], used)
                          ELSE Fail("usage")

IsLast == at = Len(argv)

(* -a and -k take the rest of the argument or the next, whatever it is. *)
ParseValued(arg) ==
  LET c == [cfg EXCEPT !.keysPath = @ \/ arg.flag = "keys"] IN
  /\ arg.flag \in {"addr", "keys"}
  /\ \/ arg.value # NoValue /\ Configure(c, 1)
     \/ arg.value = NoValue /\ ~IsLast /\ Configure(c, 2)
     \/ arg.value = NoValue /\ IsLast /\ Fail("usage")

(* --usage-aware takes the next argument only if it is a number. *)
ParseUsageAware(arg) ==
  LET eats == ~IsLast /\ argv[at + 1].flag = "other" /\ argv[at + 1].value.plain IN
  /\ arg.flag = "usage-aware"
  /\ \/ arg.value # NoValue /\ Threshold(arg.value, 1)
     \/ arg.value = NoValue /\ eats /\ Threshold(argv[at + 1].value, 2)
     \/ arg.value = NoValue /\ ~eats /\ Configure([cfg EXCEPT !.usageAware = DefaultUsageAware], 1)

(* The other flags do not look at a value. *)
ParsePlain(arg) ==
  \/ arg.flag = "help" /\ Fail("help")     \* --version too; the exit code is 0
  \/ arg.flag = "verbose" /\ Configure(cfg, 1)
  \/ arg.flag = "no-affinity" /\ Configure([cfg EXCEPT !.affinity = FALSE], 1)

(* Variant with a mistake: an unknown argument is skipped. *)
ParseUnknownSkips(arg) == arg.flag = "other" /\ Configure(cfg, 1)

ParseUnknown(arg) == arg.flag = "other" /\ Fail("usage")

ParseArg == /\ main = "args" /\ at <= Len(argv)
            /\ \/ ParseValued(argv[at]) \/ ParseUsageAware(argv[at])
               \/ ParsePlain(argv[at]) \/ ParseUnknown(argv[at])

(* The environment: a threshold where no flag set one; affinity only off. *)
ParseEnv ==
  LET asks == cfg.usageAware = Off /\ env.usage # NoValue IN
  /\ main = "args" /\ at > Len(argv)
  /\ IF asks /\ ~IsThreshold(env.usage)
     THEN Fail("usage")
     ELSE /\ main' = "load"
          /\ cfg' = [cfg EXCEPT !.usageAware = IF asks THEN env.usage.pct ELSE @,
                                !.affinity   = @ /\ ~env.noAffinity]
          /\ UNCHANGED <<exit, inputs, at, keyfile>>
-----------------------------------------------------------------------------
(* from_source.  The inputs are used up; what counts of them is in cfg. *)
Read(from) == /\ main' = "lines" /\ source' = from
              /\ text' \in Texts /\ at' = 1
              /\ argv' = <<>> /\ UNCHANGED <<exit, env, cfg, entries>>

LoadKeys ==
  /\ main = "load"
  /\ \/ cfg.keysPath /\ (Read("path") \/ Fail("config"))
     \/ ~cfg.keysPath /\ env.keys /\ Read("env")
     \/ ~cfg.keysPath /\ ~env.keys /\ env.home /\ (Read("file") \/ Fail("config"))
     \/ ~cfg.keysPath /\ ~env.keys /\ ~env.home /\ Fail("config")

(* `KEY:N` splits only where N is all digits and something precedes it. *)
Splits(line)  == line.names # <<>> /\ line.tail >= 0
KeyOf(line)   == IF Splits(line) THEN [line EXCEPT !.tail = NoTail] ELSE line
LimitOf(line) == IF ~Splits(line) THEN DefaultConcurrency
                 ELSE IF line.tail > 1 THEN line.tail ELSE 1

Overflows(line) == Splits(line) /\ line.tail > MaxU32

(* Variant with a mistake: only a line that is the same is a duplicate. *)
RepeatsLine(line) == \E i \in 1..(at - 1) : text[i] = line

Repeats(line) == \E i \in DOMAIN entries : entries[i].key = KeyOf(line)

(* Keys::parse, one line per step. *)
ParseLine ==
  LET line  == text[at]
      entry == [key |-> KeyOf(line), limit |-> LimitOf(line)]
  IN  /\ main = "lines" /\ at <= Len(text)
      /\ IF line # Blank /\ (Overflows(line) \/ Repeats(line))
         THEN Fail("config")
         ELSE /\ entries' = IF line = Blank THEN entries ELSE Append(entries, entry)
              /\ at' = at + 1
              /\ UNCHANGED <<main, exit, inputs, cfg, source, text>>

(* require_nonempty *)
EndOfKeys == /\ main = "lines" /\ at > Len(text)
             /\ IF entries = <<>> THEN Fail("config")
                ELSE main' = "loaded" /\ UNCHANGED <<exit, inputs, cfg, at, keyfile>>

Start == exit = "running" /\ (ParseArg \/ ParseEnv \/ LoadKeys \/ ParseLine \/ EndOfKeys)
-----------------------------------------------------------------------------
(***************************************************************************)
(* "anything not a sane percent is a usage error, never a silent default": *)
(* once the arguments passed, every word among them was the value of the   *)
(* flag before it, the threshold is off or a percentage from 1 to 99 (0    *)
(* would mean off), and the environment's wish for no affinity holds.      *)
(***************************************************************************)
TakesNext(arg, next) ==
  arg.value = NoValue /\ \/ arg.flag \in {"addr", "keys"}
                         \/ arg.flag = "usage-aware" /\ next.value.plain

ArgsAccounted ==
  main = "load" =>
    /\ \A i \in DOMAIN argv : argv[i].flag = "other" => i > 1 /\ TakesNext(argv[i - 1], argv[i])
    /\ cfg.usageAware \in {Off} \cup 1..99
    /\ env.noAffinity => ~cfg.affinity

(***************************************************************************)
(* Every limit is at least 1 and fits 32 bits, every line that is not      *)
(* blank has made one entry, and no key is listed twice (with two limits   *)
(* it would get their sum).  Lists of the environment are left out if they *)
(* name several keys in a line, separated by commas: see CommasSeparate.   *)
(***************************************************************************)
ListsByComma == source = "env" /\ \E i \in DOMAIN text : Len(text[i].names) > 1

OneEntryPerKey ==
  main \in {"lines", "loaded"} =>
    /\ \A i \in DOMAIN entries : entries[i].limit \in 1..MaxU32
    /\ ~ListsByComma =>
         /\ Len(entries) = Cardinality({i \in 1..(at - 1) : text[i] # Blank})
         /\ \A i, j \in DOMAIN entries : entries[i].key = entries[j].key => i = j

(***************************************************************************)
(* "`OLLAMUX_KEYS` env var (newlines or commas separate keys)"             *)
(* (src/src/config.rs:4, README "newline/comma-separated"): in a list from *)
(* the environment no entry runs several keys together.  The code splits   *)
(* at newlines only.                                                       *)
(***************************************************************************)
CommasSeparate ==
  main = "loaded" /\ source = "env" => \A i \in DOMAIN entries : Len(entries[i].key.names) <= 1
=============================================================================

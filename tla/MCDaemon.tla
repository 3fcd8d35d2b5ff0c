------------------------------ MODULE MCDaemon ------------------------------
(***************************************************************************)
(* A TLC instance of Daemon.  Three arguments in a row show what a flag    *)
(* takes of the next; two lines of keys show a duplicate with another      *)
(* limit, and limits of 3 and 5 whose sum wraps at 8.  Two workers, two    *)
(* requests and two receive errors let every worker end while a request    *)
(* is in line, and a SIGINT comes at any moment, or two.                   *)
(***************************************************************************)
EXTENDS Daemon

Tokens == {Arg("help", NoValue), Arg("no-affinity", NoValue),
           Arg("keys", NoValue), Arg("addr", Word),
           Arg("usage-aware", NoValue), Arg("usage-aware", Percent(90)), Arg("usage-aware", Word),
           Arg("other", Number(0)), Arg("other", Number(50)), Arg("other", Word)}

AllArgLists == UNION {[1..n -> Tokens] : n \in 0..3}

Env(usage, noAffinity, keys, home) ==
  [usage |-> usage, noAffinity |-> noAffinity, keys |-> keys, home |-> home]

SomeEnvironments == {Env(NoValue, FALSE, FALSE, TRUE), Env(Percent(70), TRUE, TRUE, FALSE),
                     Env(Number(100), FALSE, FALSE, FALSE)}

Lines == {Blank, Line(<<"a">>, NoTail), Line(<<"a">>, TextTail), Line(<<"a">>, 5), Line(<<"a">>, 8),
          Line(<<"b">>, 0), Line(<<"a", "b">>, NoTail), Line(<<>>, 3)}

AllTexts == UNION {[1..n -> Lines] : n \in 0..2}
=============================================================================

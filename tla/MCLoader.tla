------------------------------ MODULE MCLoader ------------------------------
(***************************************************************************)
(* Embedded files and the user's config, as the hook loads them, or the    *)
(* user's files alone, as check does: short lists of rows, then of rules   *)
(* over fixed rows, then of hints.                                         *)
(***************************************************************************)
EXTENDS Loader

MCOptionLike == {"-c", "-zz"}
MCSpelling == [s \in {"-c"} |-> "c"]
MCCodeOptions == [h \in {"sh"} |-> {"c"}]

Lists(set, len) == UNION {[1 .. n -> set] : n \in 0 .. len}

Row(key) ==
  [key |-> key, opts |-> <<>>, source |-> TRUE, runs_code |-> FALSE,
   changes_cwd |-> FALSE, cwd_sensitive |-> FALSE]

Opt(names, value, role) == [names |-> names, value |-> value, role |-> role]

Git == <<"git">>
GitC == <<"git", "-c">>
GitLog == <<"git", "log">>
GitLogAll == <<"git", "log", "all">>

(* Rows with nothing wrong in themselves.                                  *)
GoodRows ==
  {Row(Git), [Row(Git) EXCEPT !.cwd_sensitive = TRUE],
   [Row(Git) EXCEPT !.opts = <<Opt({"c"}, "Takes", "Code")>>],
   [Row(Git) EXCEPT !.opts = <<Opt({"c"}, "Takes", "Path")>>],
   Row(GitLog), [Row(GitLog) EXCEPT !.cwd_sensitive = TRUE],
   [Row(GitLogAll) EXCEPT !.changes_cwd = TRUE],
   [Row(GitC) EXCEPT !.runs_code = TRUE]}

BadRows ==
  {Row(<<>>), Row(<<"git", "">>), Row(GitC), [Row(<<"git", "-zz">>) EXCEPT !.runs_code = TRUE],
   [Row(Git) EXCEPT !.source = FALSE], Row(<<"tar">>), Row(<<"./x">>),
   [Row(Git) EXCEPT !.changes_cwd = TRUE, !.cwd_sensitive = TRUE],
   [Row(<<"sh">>) EXCEPT !.opts = <<Opt({"c"}, "Takes", "Path")>>],
   [Row(Git) EXCEPT !.opts = <<Opt({}, "Flag", "Inert"), Opt({"c", "long"}, "Flag", "Inert"),
                               Opt({"c"}, "Optional", "Code")>>]}

File(origin, rs, rls, hs) ==
  [read |-> TRUE, toml |-> TRUE, origin |-> origin, rows |-> rs, rules |-> rls, hints |-> hs]

NotToml == [File("User", <<>>, <<>>, <<>>) EXCEPT !.toml = FALSE]
Unreadable == [NotToml EXCEPT !.read = FALSE]

Rule(id, key, opts) == [id |-> id, key |-> key, opts |-> opts, reason |-> "none", targets |-> TRUE]

GitRule == Rule("g", Git, <<>>)

RowFiles ==
  {<<File("Embedded", a, <<>>, <<>>), File("User", b, <<GitRule>>, <<>>)>> :
     a \in Lists(GoodRows, 2), b \in Lists(GoodRows, 2) \cup Lists(BadRows, 1)}
  \cup
  {<<File("User", <<a, b>>, <<>>, <<>>), odd, File("User", <<c>>, <<>>, <<>>)>> :
     a \in BadRows, b \in BadRows \cup GoodRows, c \in GoodRows, odd \in {NotToml, Unreadable}}

SomeRows ==
  <<[Row(Git) EXCEPT !.opts = <<Opt({"c"}, "Takes", "Code")>>],
    [Row(GitC) EXCEPT !.runs_code = TRUE], Row(<<"ls">>), Row(<<"tar">>)>>

SomeRules ==
  {GitRule, [Rule("g", <<"ls">>, <<>>) EXCEPT !.reason = "why"], Rule("h", GitC, <<{"-c"}>>),
   [Rule("i", GitLog, <<{"-c"}, {"-c"}>>) EXCEPT !.reason = "because"]}

OddRules ==
  {Rule("", Git, <<>>), Rule("bad id", Git, <<>>), [GitRule EXCEPT !.reason = "bad"],
   [GitRule EXCEPT !.targets = FALSE], Rule("g", <<>>, <<{}>>), Rule("g", <<"mv">>, <<{"-zz"}>>),
   Rule("g", <<"ls">>, <<{"-c"}>>), Rule("g", <<"ls", "-c">>, <<>>)}

RuleFiles ==
  {<<File("Embedded", SubSeq(SomeRows, 1, n), a, <<>>), File("User", <<>>, b, <<>>)>> :
     n \in 3 .. 4, a \in Lists(SomeRules, 2), b \in Lists(SomeRules, 2) \cup Lists(OddRules, 1)}

Hint(key, text) == [key |-> key, text |-> text]

SomeHints ==
  {Hint(Git, "s"), Hint(Git, "t"), Hint(GitLog, "u"), Hint(GitC, "v"), Hint(<<"ls">>, "bad")}

HintFiles ==
  {<<File("Embedded", <<>>, <<>>, a), File("Embedded", <<>>, <<>>, b), File("User", <<>>, <<>>, c)>> :
     a \in Lists(SomeHints, 2), b \in Lists(SomeHints, 1), c \in Lists(SomeHints, 2)}
  \cup {<<File("User", <<>>, <<>>, <<h>>), File("User", <<>>, <<>>, <<k>>)>> :
          h \in SomeHints, k \in SomeHints}

MCInputs == RowFiles \cup RuleFiles \cup HintFiles
=============================================================================

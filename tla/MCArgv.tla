------------------------------- MODULE MCArgv -------------------------------
(***************************************************************************)
(* Grammars that between them use every value of every field, and all      *)
(* argvs of at most MaxWords words from a list with every class of word.   *)
(***************************************************************************)
EXTENDS Argv

CONSTANT MaxWords

MCByte == {"-", "=", "+", "a", "b"}

Option(short, long, value, role) ==
  [short |-> short, long |-> long, value |-> value, role |-> role]

Base ==
  [opts |-> <<Option({"a"}, {<<"a">>}, "Flag", "Inert"), Option({"b"}, {<<"b">>}, "Takes", "Path")>>,
   positionals |-> <<"Inert">>, rest |-> {"Path"}, permute |-> TRUE, dashdash |-> TRUE,
   plus |-> "Reject"]

MCGrammars ==
  {Base,
   [Base EXCEPT !.permute = FALSE, !.plus = "Operand", !.rest = {}],
   [Base EXCEPT !.dashdash = FALSE, !.positionals = <<"Inert", "Code">>,
                !.opts = <<Option({"b"}, {}, "Optional", "Path"), Option({}, {<<"b">>}, "Takes", "Code"),
                           Option({"a"}, {}, "Takes", "Inert")>>],
   [Base EXCEPT !.permute = FALSE, !.positionals = <<>>, !.rest = {"Inert"},
                !.opts = <<Option({"a"}, {}, "Flag", "Inert"), Option({"b"}, {<<"a">>}, "Optional", "Code"),
                           Option({}, {<<"b">>}, "Optional", "Inert")>>]}

Literal(s) == [lit |-> s, opaque |-> FALSE]
Opaque(s) == [lit |-> s, opaque |-> TRUE]

Few ==
  {Literal(<<"a">>), Literal(<<"-", "-">>), Literal(<<"-", "a", "b">>), Literal(<<"-", "b">>),
   Literal(<<"-", "-", "b">>), Opaque(<<"a">>), Opaque(<<>>)}

Many ==
  Few \cup
  {Literal(<<>>), Literal(<<"-">>), Literal(<<"+", "a">>), Literal(<<"-", "a", "a">>),
   Literal(<<"-", "b", "a">>), Literal(<<"-", "a", "=">>), Literal(<<"-", "-", "a">>), Literal(<<"-", "-", "=">>),
   Literal(<<"-", "-", "b", "=">>), Literal(<<"-", "-", "a", "=", "a">>),
   Opaque(<<"-">>), Opaque(<<"-", "-", "b", "=">>), Opaque(<<"+">>)}

Key == <<Literal(<<"a">>), Literal(<<"-">>)>>

MCInputs ==
  {[g |-> gr, ws |-> SubSeq(Key, 1, s) \o args, start |-> s] :
     gr \in MCGrammars, s \in {1, 2},
     args \in UNION {[1 .. n -> Many] : n \in 0 .. MaxWords - 1} \cup [1 .. MaxWords -> Few]}

MCTexts == {<<>>, <<"a">>, <<"-">>, <<"-", "b">>}
=============================================================================

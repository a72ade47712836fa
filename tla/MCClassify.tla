----------------------------- MODULE MCClassify -----------------------------
(***************************************************************************)
(* Catalogs with a parent and its subcommand in both orders, a subcommand  *)
(* that runs code and is spelt as an option, a chain of three keys and an  *)
(* unrelated row, and all commands of at most MaxWords words.              *)
(***************************************************************************)
EXTENDS Classify

CONSTANT MaxWords

MCByte == {"-", "=", "+", "g", "s", "c"}

MCInputs == {}

Option(c, value, role) == [short |-> {c}, long |-> {}, value |-> value, role |-> role]

Plain ==
  [opts |-> <<Option("s", "Flag", "Inert"), Option("g", "Takes", "Path")>>,
   positionals |-> <<>>, rest |-> {"Path"}, permute |-> TRUE, dashdash |-> TRUE,
   plus |-> "Reject"]

CodeOption == [Plain EXCEPT !.opts = Append(@, Option("c", "Takes", "Code"))]

NoOperand == [Plain EXCEPT !.rest = {}, !.permute = FALSE]

R(key, grammar, code, cwd) ==
  [key |-> key, grammar |-> grammar, runs_code |-> code, cwd |-> cwd]

G == R(<<(<<"g">>)>>, Plain, FALSE, "Keeps")
GC == R(<<(<<"g">>)>>, CodeOption, FALSE, "Keeps")
GS == R(<<(<<"g">>), <<"s">>>>, NoOperand, FALSE, "Sensitive")
GCode == R(<<(<<"g">>), <<"-", "c">>>>, NoOperand, TRUE, "Keeps")
GSC == R(<<(<<"g">>), <<"s">>, <<"-", "c">>>>, NoOperand, TRUE, "Sensitive")
S == R(<<(<<"s">>)>>, Plain, FALSE, "Changes")
SCode == R(<<(<<"s">>)>>, Plain, TRUE, "Keeps")

MCCatalogs ==
  {<<G>>, <<G, GS, S>>, <<S, GS, G>>, <<GC, GCode, SCode>>, <<GCode, G>>,
   <<GS, GSC, GC>>}

Literal(s) == [lit |-> s, opaque |-> FALSE]
Opaque(s) == [lit |-> s, opaque |-> TRUE]

Words ==
  {Literal(<<"g">>), Literal(<<"s">>), Literal(<<"-", "c">>), Literal(<<"-", "s">>),
   Literal(<<"-", "g">>), Literal(<<"-", "-">>), Literal(<<"c">>),
   Opaque(<<>>), Opaque(<<"s">>), Opaque(<<"g">>)}

MCCommands == UNION {[1 .. n -> Words] : n \in 1 .. MaxWords}

MCTexts == {<<>>, <<"s">>, <<"-", "c">>}
=============================================================================

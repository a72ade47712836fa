----------------------------- MODULE MCTargets -----------------------------
(***************************************************************************)
(* One tool that takes a path as an operand, in an option word and after   *)
(* an option, given every path of at most MaxLen bytes in every spelling,  *)
(* and rules with every target the loader accepts of at most two bytes and *)
(* some of three.                                                          *)
(***************************************************************************)
EXTENDS Targets

CONSTANT MaxLen

MCByte == {"-", "=", "/", ".", "a", "A", "b", "f", "r", "e"}

MCLowerOf == [c \in {"A"} |-> "a"]

MCNonAscii == {"e"}

Option(short, long, value, role) ==
  [short |-> short, long |-> long, value |-> value, role |-> role]

Tool ==
  [opts |-> <<Option({"r"}, {<<"r">>}, "Flag", "Inert"), Option({"f"}, {<<"f">>}, "Takes", "Path")>>,
   positionals |-> <<>>, rest |-> {"Path"}, permute |-> TRUE, dashdash |-> TRUE,
   plus |-> "Operand"]

Strings(bytes, n) == UNION {[1 .. m -> bytes] : m \in 0 .. n}

Slashed(bytes) == bytes = <<>> \/ StartsSlash(bytes)

PathWords ==
  {<<Lit(bytes)>> : bytes \in Strings({"/", ".", "a"}, MaxLen)}
    \cup {<<Tilde, Lit(bytes)>> : bytes \in {s \in Strings({"/", ".", "a"}, MaxLen) : Slashed(s)}}
    \cup {<<Lit(<<"/">>), Var>>, <<Tilde>>, <<Tilde, Lit(<<"/">>), Var>>,
          <<Lit(<<"A", "/", "b">>)>>, <<Lit(<<"/", "a", "b">>)>>, <<Lit(<<"a", "e">>)>>,
          <<Lit(<<"/", "a", "/", "b">>)>>, <<Lit(<<>>), Lit(<<"/", "A">>), Lit(<<".", "a">>)>>}

Word1(bytes) == <<Lit(bytes)>>

Name == Word1(<<"b">>)

Given(path) ==
  {<<Name, path>>, <<Name, Word1(<<"-", "r">>), path>>, <<Name, Word1(<<"-", "f">>), path>>}
    \cup (IF \A n \in DOMAIN path : path[n].kind = "Lit"
          THEN {<<Name, <<Lit(<<"-", "r", "f">>)>> \o path>>,
                <<Name, <<Lit(<<"-", "-", "f", "=">>)>> \o path, Word1(<<"/", "a">>)>>}
          ELSE {})

MCCommands ==
  {[g |-> Tool, ws |-> ws, start |-> 1] : ws \in UNION {Given(path) : path \in PathWords}}
    \cup {[g |-> Tool, ws |-> <<Name, path, Word1(<<".", ".">>)>>, start |-> 1] : path \in PathWords}

MCTargetTexts ==
  [tilde: BOOLEAN, bytes: Strings({"/", ".", "a"}, 2), kind: PatKind] \cup
  [tilde: {FALSE},
   bytes: {<<"a", "/", "b">>, <<"/", "a", "b">>, <<"A">>, <<"e">>, <<"/", ".", ".">>, <<"/", ".", "a">>},
   kind: PatKind]

Target(t) == [parts |-> TargetParts(t.tilde, t.bytes), kind |-> t.kind]

WithTargets(key, alts, targets, pipe) ==
  [key |-> key, alts |-> alts, targets |-> targets, pipe |-> pipe]

R == [short |-> {"r"}, long |-> {}]
LongF == [short |-> {"a"}, long |-> {<<"f">>}]

MCRules ==
  {WithTargets(<<(<<"b">>)>>, <<>>, <<Target(t)>>, FALSE) :
     t \in {u \in MCTargetTexts : TargetAccepted(u.tilde, u.bytes, u.kind)}}
    \cup
  {WithTargets(<<(<<"b">>)>>, alts, targets, pipe) :
     alts \in {<<{R, LongF}>>, <<{R}, {LongF}>>}, pipe \in BOOLEAN,
     targets \in {<<>>, <<[parts |-> <<Lit(<<"a">>)>>, kind |-> "Exact"],
                          [parts |-> <<Tilde>>, kind |-> "Under"]>>}}
    \cup
  {WithTargets(<<(<<"b">>), <<"/", "a">>>>, <<>>, <<>>, FALSE)}
=============================================================================

------------------------------ MODULE MCParse ------------------------------
(***************************************************************************)
(* All strings of at most 3 bytes, longer ones over the bytes of words, of *)
(* double quotes and of redirects, and commands joined by every operator.  *)
(***************************************************************************)
EXTENDS Parser, Quoting

Strings(set, len) == UNION {[1 .. m -> set] : m \in 0 .. len}

MCDevNull == <<"/", "d", "e", "v", "/", "n", "u", "l", "l">>

MCLetter == {"a", "d", "e", "v", "n", "u", "l"}

MCControl == {"\r"}

MCReserved == {<<"!">>}

AnyByte ==
  {"a", "!", "1", "2", "=", "~", ":", "/", "'", "\"", "\\", " ", "\n", "\r", ";", "&", "|",
   "<", ">", "(", "{", "*", "#", "$", Backquote, "hi"}

InWords == {"a", "=", "+", ":", "~", "'", "\"", "\\", "hi"}

InDouble == {"$", "a", "{", "}", "\"", "\\", "hi"}

ToNull == {x \o MCDevNull \o y : x \in Strings({"1", "2", "3", ">", " ", "'", "&"}, 3),
                                 y \in Strings({"'", ">", "&", "2"}, 2)}

Concat(set, len) == {FlattenSeq(f) : f \in Strings(set, len)}

Ops == {<<";">>, <<"\n">>, <<"|">>, <<"&", "&">>, <<"|", "|">>}

Commands == {<<"a", " ">>, <<">", "&", "2", " ">>} \cup Ops

Names == {<<"a", " ">>, <<"a", "=">>, <<"!", " ">>, <<"'", "!", "'">>, <<";">>, <<"|">>}

MCInputs ==
  UNION
    {Strings(AnyByte, 3), Strings(InWords, 4), ToNull,
     Strings({"1", "2", ">", "&", " "}, 5), Concat(Commands, 5), Concat(Names, 4),
     {<<"\"">> \o x : x \in Strings(InDouble, 5)},
     {MCDevNull \o MCDevNull \o <<"a", " ", "a">>}}
=============================================================================

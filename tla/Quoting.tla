------------------------------ MODULE Quoting ------------------------------
(***************************************************************************)
(* What the bytes of a string are, one by one, given the quoting rules of  *)
(* bash: the reference that Lexer's walk is checked against.  Nothing here *)
(* consumes input; a problem and a lexeme are read off at their place.     *)
(***************************************************************************)
EXTENDS Lexer

(* The quoting after byte b where the quoting is c.                        *)
After(c, b) ==
  CASE c = "Bare" /\ b = "'" -> "Single"
    [] c = "Bare" /\ b = "\"" -> "Double"
    [] c = "Bare" /\ b = "\\" -> "BareEscape"
    [] c = "Double" /\ b = "\\" -> "DoubleEscape"
    [] c = "Single" /\ b = "'" -> "Bare"
    [] c = "Double" /\ b = "\"" -> "Bare"
    [] c = "BareEscape" -> "Bare"
    [] c = "DoubleEscape" -> "Double"
    [] OTHER -> c

(* The quoting of every byte, and of the end.                              *)
Contexts(s) == FoldLeft(LAMBDA cs, b : Append(cs, After(Last(cs), b)), <<"Bare">>, s)

Is(s, cs, n, c, b) == n \in DOMAIN s /\ cs[n] = c /\ s[n] = b

Terminates(s, cs, n) == n \in DOMAIN s /\ cs[n] = "Bare" /\ s[n] \in WordTerminator

WordStart(s, cs, n) ==
  cs[n] = "Bare" /\ s[n] \notin WordTerminator /\ (n = 1 \/ Terminates(s, cs, n - 1))

(* The backslashes that escape, or would.                                  *)
Escapes(s, cs) == {n \in DOMAIN s : s[n] = "\\" /\ cs[n] \in {"Bare", "Double"}}

(* The second byte of && or ||.                                            *)
Twice(s, cs, n) == s[n] \in {"&", "|"} /\ Is(s, cs, n - 1, "Bare", s[n]) /\ cs[n] = "Bare"

Seconds(s, cs) ==
  FoldLeft(LAMBDA set, n :
             IF Twice(s, cs, n) /\ n - 1 \notin set THEN set \cup {n} ELSE set,
           {}, [n \in DOMAIN s |-> n])

Problem(kind, places) == {[kind |-> kind, offset |-> n] : n \in places}

-----------------------------------------------------------------------------
(* A dollar in double quotes is literal before the closing quote, or       *)
(* starts a variable whose name is clear.                                  *)
NamePlace(s, n) == IF ByteAt(s, n + 1) = "{" THEN n + 2 ELSE n + 1

VarAt(s, n) ==
  /\ NameEnd(s, NamePlace(s, n)) > NamePlace(s, n)
  /\ LET after == ByteAt(s, NameEnd(s, NamePlace(s, n))) IN
       IF ByteAt(s, n + 1) = "{" THEN after = "}" ELSE after \notin NonAscii

DollarKind(s, n) ==
  CASE ByteAt(s, n + 1) = "(" -> "DollarParen"
    [] ByteAt(s, n + 1) = "{" -> "BracedParameter"
    [] ByteAt(s, n + 1) \in Letter -> "NameBeforeNonAscii"
    [] ByteAt(s, n + 1) \in SpecialParameter -> "SpecialParameter"
    [] OTHER -> "BareDollar"

DollarProblems(s, cs) ==
  {[kind |-> DollarKind(s, n), offset |-> n] :
     n \in {m \in DOMAIN s : /\ Is(s, cs, m, "Double", "$")
                             /\ ~VarAt(s, m) /\ ByteAt(s, m + 1) # "\""}}

(* The bytes that name a variable, its dollar included.                    *)
VarBytes(s, cs) ==
  UNION {n .. NameEnd(s, NamePlace(s, n)) - (IF ByteAt(s, n + 1) = "{" THEN 0 ELSE 1) :
           n \in {m \in DOMAIN s : Is(s, cs, m, "Double", "$") /\ VarAt(s, m)}}

(* A tilde after "=" or ":" in a word that starts like an assignment.      *)
AssignmentStart(s, cs, w) ==
  \E e \in w + 1 .. Len(s) :
    /\ s[e] = "=" /\ \A n \in w .. e : cs[n] = "Bare"
    /\ s[w] \in Letter \cup NonAscii
    /\ \A n \in w .. e - 1 :
         s[n] \in NameByte \cup NonAscii \/ (n = e - 1 /\ n > w /\ s[n] = "+")

AssignmentTildes(s, cs) ==
  {n \in DOMAIN s :
     /\ Is(s, cs, n, "Bare", "~")
     /\ Is(s, cs, n - 1, "Bare", "=") \/ Is(s, cs, n - 1, "Bare", ":")
     /\ \E w \in 1 .. n - 1 :
          /\ WordStart(s, cs, w) /\ \A m \in w .. n : ~Terminates(s, cs, m)
          /\ AssignmentStart(s, cs, w)}

-----------------------------------------------------------------------------
(* What a byte of a word stands for: nothing if it only quotes, else one   *)
(* byte of a literal, a variable or a tilde.                               *)
OnlyQuotes(s, cs, n) ==
  \/ cs[n] = "Bare" /\ s[n] \in {"'", "\"", "\\"}
  \/ cs[n] = "Single" /\ s[n] = "'"
  \/ /\ cs[n] = "Double"
     /\ s[n] = "\"" \/ (s[n] = "\\" /\ ByteAt(s, n + 1) \in {"$", Backquote, "\"", "\\"})

Meaning(s, cs, n) ==
  IF n \in VarBytes(s, cs)
  THEN IF s[n] # "$" THEN <<>>
       ELSE <<Var(SubSeq(s, NamePlace(s, n), NameEnd(s, NamePlace(s, n)) - 1))>>
  ELSE IF WordStart(s, cs, n) /\ s[n] = "~" THEN <<Tilde>>
  ELSE IF OnlyQuotes(s, cs, n) THEN <<>>
  ELSE <<Lit(<<s[n]>>, cs[n] # "Bare")>>

TextMeaning(s, cs, first, end) ==
  FlattenSeq([n \in 1 .. end - first |-> Meaning(s, cs, first + n - 1)])

(* The same of the parts of a word.                                        *)
PartMeaning(part) ==
  IF part.kind = "Lit"
  THEN [n \in DOMAIN part.bytes |-> Lit(<<part.bytes[n]>>, part.quoted)]
  ELSE <<part>>

PartsMeaning(ps) == FlattenSeq([n \in DOMAIN ps |-> PartMeaning(ps[n])])

-----------------------------------------------------------------------------
(* Redirects: a bare ">", its descriptor if a run of digits is a token of  *)
(* its own directly before it, and what follows.                           *)
Greaters(s, cs) == {n \in DOMAIN s : Is(s, cs, n, "Bare", ">")}

(* Digits after the "&" of a redirect are its operand.                     *)
TokenStart(s, cs, n) ==
  n = 1 \/ (Terminates(s, cs, n - 1) /\ ~(s[n - 1] = "&" /\ Is(s, cs, n - 2, "Bare", ">")))

RedirectStart(s, cs, n) ==
  LET runs == {d \in 1 .. n - 1 : TokenStart(s, cs, d) /\ \A m \in d .. n - 1 : s[m] \in Digit}
  IN IF runs = {} THEN n ELSE CHOOSE d \in runs : \A e \in runs : d <= e

Descriptor(s, cs, n) == IF RedirectStart(s, cs, n) = n THEN "1" ELSE s[n - 1]

TargetStart(s, n) == RunEnd(s, n + 1, Blank)

TargetEnd(s, cs, n) ==
  CHOOSE e \in TargetStart(s, n) .. Len(s) + 1 :
    /\ e = Len(s) + 1 \/ Terminates(s, cs, e)
    /\ \A m \in TargetStart(s, n) .. e - 1 : ~Terminates(s, cs, m)

ToDevNull(s, cs, n) ==
  LET meaning == TextMeaning(s, cs, TargetStart(s, n), TargetEnd(s, cs, n)) IN
    /\ Len(meaning) = Len(DevNull)
    /\ \A m \in DOMAIN meaning : meaning[m].kind = "Lit" /\ meaning[m].bytes = <<DevNull[m]>>

DupKind(s, cs, n) ==
  LET fd == Descriptor(s, cs, n) IN
    IF ByteAt(s, n + 2) \notin Digit \/ ByteAt(s, n + 3) \notin TokenEnd THEN "DupOperand"
    ELSE IF fd = "2" /\ s[n + 2] = "1" THEN "ErrToOut"
    ELSE IF fd = "1" /\ s[n + 2] = "2" THEN "OutToErr"
    ELSE "RedirectDescriptor"

TargetKind(s, cs, n) ==
  LET fd == Descriptor(s, cs, n) IN
    IF ~ToDevNull(s, cs, n) THEN "RedirectTarget"
    ELSE IF fd = "1" THEN "OutDevNull"
    ELSE IF fd = "2" THEN "ErrDevNull"
    ELSE "RedirectDescriptor"

RedirectKind(s, cs, n) ==
  LET next == ByteAt(s, n + 1) IN
    IF n - RedirectStart(s, cs, n) > 1 THEN "MultiDigitFd"
    ELSE CASE next = ">" -> "AppendRedirect"
           [] next = "|" -> "ClobberRedirect"
           [] next = "(" -> "ProcessSubstitution"
           [] next = "&" -> DupKind(s, cs, n)
           [] OTHER -> TargetKind(s, cs, n)

Accepted == {"ErrToOut", "OutToErr", "OutDevNull", "ErrDevNull"}

RedirectProblems(s, cs) ==
  {[kind |-> RedirectKind(s, cs, n), offset |-> RedirectStart(s, cs, n)] :
     n \in {m \in Greaters(s, cs) : RedirectKind(s, cs, m) \notin Accepted}}

(* Where the redirect that starts at n ends.                               *)
RedirectEnd(s, cs, n) == IF ByteAt(s, n + 1) = "&" THEN n + 3 ELSE TargetEnd(s, cs, n)

-----------------------------------------------------------------------------
BareAmong(s, cs, set) == {n \in DOMAIN s : cs[n] = "Bare" /\ s[n] \in set}

OpProblems(s, cs) ==
  LET first == DOMAIN s \ Seconds(s, cs)
      Followed(b, c) == {n \in first : Is(s, cs, n, "Bare", b) /\ ByteAt(s, n + 1) = c}
  IN UNION
       {Problem("DoubleSemicolon", Followed(";", ";")),
        Problem("SemicolonAmpersand", Followed(";", "&")),
        Problem("AmpersandRedirect", Followed("&", ">")),
        Problem("PipeAmpersand", Followed("|", "&")),
        Problem("BackgroundAmpersand",
                (first \cap BareAmong(s, cs, {"&"}))
                  \ (Followed("&", "&") \cup Followed("&", ">") \cup
                     {n + 1 : n \in Greaters(s, cs)}))}

QuoteProblems(s, cs) ==
  LET open(c) == {n \in DOMAIN s : /\ cs[n] = "Bare" /\ cs[n + 1] = c
                                   /\ \A m \in n + 1 .. Len(s) + 1 : cs[m] # "Bare"}
      Escaped(set) == {n \in Escapes(s, cs) : ByteAt(s, n + 1) \in set}
  IN UNION
       {Problem("UnterminatedSingleQuote", open("Single")),
        Problem("UnterminatedDoubleQuote", open("Double")),
        Problem("BackslashAfterNonAscii", {n \in Escapes(s, cs) : ByteAt(s, n - 1) \in NonAscii}),
        Problem("BackslashAtEnd", Escaped({None})),
        Problem("LineContinuation", Escaped({"\n"}))}

ByteProblems(s, cs) ==
  UNION
    {Problem("ControlByte", {n \in DOMAIN s : s[n] \in Control}),
     Problem("Parenthesis", BareAmong(s, cs, {"(", ")"})),
     Problem("InputRedirect", BareAmong(s, cs, {"<"})),
     Problem("UnquotedDollar", BareAmong(s, cs, {"$"})),
     Problem("Brace", BareAmong(s, cs, {"{", "}"})),
     Problem("Glob", BareAmong(s, cs, {"*", "?", "["})),
     Problem("Backquote", {n \in DOMAIN s : s[n] = Backquote /\ cs[n] \in {"Bare", "Double"}}),
     Problem("Comment", {n \in BareAmong(s, cs, {"#"}) : WordStart(s, cs, n)}),
     Problem("TildeForm", {n \in BareAmong(s, cs, {"~"}) :
                             WordStart(s, cs, n) /\ ByteAt(s, n + 1) \notin TokenEnd \cup {"/"}}),
     Problem("TildeAssignment", AssignmentTildes(s, cs))}

Problems(s) ==
  LET cs == Contexts(s) IN
    ByteProblems(s, cs) \cup QuoteProblems(s, cs) \cup OpProblems(s, cs)
      \cup RedirectProblems(s, cs) \cup DollarProblems(s, cs)

(* Problems that show only after what comes next was read.                 *)
Late == {"RedirectTarget", "RedirectDescriptor",
         "UnterminatedSingleQuote", "UnterminatedDoubleQuote"}

-----------------------------------------------------------------------------
(* lex reports "the first construct outside the subset": it accepts the    *)
(* strings in which no byte is live that bash would treat in a way the     *)
(* subset leaves out, wherever the walk over chunks and tokens stood, and  *)
(* otherwise names a construct that is there, with none before it except   *)
(* one that the walk was still reading.  Of input beyond the cap it reads  *)
(* nothing.                                                                *)
FirstLiveConstructIsReported ==
  IF Len(input) > MaxInputLen THEN lexemes = <<>> /\ ~lexed
  ELSE
    /\ lexed => Problems(input) = {}
    /\ ~lexed => \A e \in err :
         /\ e \in Problems(input)
         /\ \A p \in Problems(input) : p.offset < e.offset => p.kind \in Late

(* What one lexeme's text says.                                            *)
SaysItsText(s, cs, l) ==
  CASE l.token.is = "Word" ->
         /\ WordStart(s, cs, l.offset)
         /\ l.end = Len(s) + 1 \/ Terminates(s, cs, l.end)
         /\ \A n \in l.offset .. l.end - 1 : ~Terminates(s, cs, n)
         /\ PartsMeaning(l.token.parts) = TextMeaning(s, cs, l.offset, l.end)
    [] l.token.is = "Redir" ->
         \E n \in Greaters(s, cs) :
           /\ l.offset = RedirectStart(s, cs, n) /\ l.end = RedirectEnd(s, cs, n)
           /\ l.token.redir = RedirectKind(s, cs, n)
    [] l.token.is = "Op" ->
         LET text == SubSeq(s, l.offset, l.end - 1) IN
           /\ cs[l.offset] = "Bare"
           /\ <<text, l.token.op>> \in
                {<<<<";">>, "Semi">>, <<<<"\n">>, "Newline">>, <<<<"|">>, "Pipe">>,
                 <<<<"|", "|">>, "OrIf">>, <<<<"&", "&">>, "AndIf">>}

(* The lexemes are the input: in order, with only blanks between them and  *)
(* each one saying what its own text says under the quoting that holds     *)
(* there; a word's adjacent literals differ in quoting.                    *)
LexemesSayTheInput ==
  lexed =>
    LET cs == Contexts(input)
        Ends(n) == IF n = 0 THEN 1 ELSE lexemes[n].end
        Starts(n) == IF n > Len(lexemes) THEN Len(input) + 1 ELSE lexemes[n].offset
    IN /\ \A n \in DOMAIN lexemes : SaysItsText(input, cs, lexemes[n])
       /\ \A n \in 0 .. Len(lexemes) : \A m \in Ends(n) .. Starts(n + 1) - 1 : input[m] \in Blank
       /\ \A n \in 0 .. Len(lexemes) : Ends(n) <= Starts(n + 1)
       /\ \A n \in DOMAIN lexemes :
            lexemes[n].token.is = "Word" =>
              \A m \in 2 .. Len(lexemes[n].token.parts) :
                LET ps == lexemes[n].token.parts IN
                  ~(ps[m].kind = "Lit" /\ ps[m - 1].kind = "Lit" /\ ps[m].quoted = ps[m - 1].quoted)
=============================================================================

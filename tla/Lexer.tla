------------------------------- MODULE Lexer -------------------------------
(***************************************************************************)
(* lex: the bytes of a command become lexemes, or the first construct that *)
(* is outside the subset ends it.  One action per arm of the dispatch      *)
(* between tokens, of the dispatch inside a word and of the loop inside    *)
(* double quotes.  Offsets count from 1.                                   *)
(***************************************************************************)
EXTENDS Integers, Sequences, FiniteSets, SequencesExt

CONSTANTS
  Inputs,       \* the strings of bytes lex may be called with
  MaxInputLen,  \* the most bytes it looks at
  Letter,       \* the bytes of names that are not digits
  Control,      \* the control bytes but tab and newline
  NonAscii,     \* the bytes from 0x80 on
  DevNull       \* the bytes of /dev/null

(* A byte is a nonempty string: the empty one is what peek finds at the    *)
(* end.                                                                    *)
ASSUME BytesAssumption ==
  /\ Inputs \subseteq Seq(STRING \ {""}) /\ MaxInputLen \in Nat
  /\ Letter \cup Control \cup NonAscii \subseteq STRING \ {""}

VARIABLES
  input,    \* the bytes, fixed
  pos,      \* the next byte to read
  mode,     \* between tokens, in a word, or in its double quotes
  start,    \* where the token, or the redirect it is the target of, began
  opened,   \* where the double quotes began
  from,     \* the descriptor of the redirect whose target is read, if any
  parts,    \* the parts of the word read so far
  inner,    \* the parts read inside the double quotes
  lexemes,  \* the tokens found
  err,      \* {} or the one finding
  lexed     \* the end was reached

token == <<start, opened, from, parts, inner>>
lexVars == <<input, pos, mode, start, opened, from, parts, inner, lexemes, err, lexed>>

None == ""  \* what peek finds past the end

Backquote == "backquote"  \* the byte 0x60

Digit == {"0", "1", "2", "3", "4", "5", "6", "7", "8", "9"}
Blank == {" ", "\t"}
TokenEnd == Blank \cup {";", "\n", "&", "|", ">", "<", None}
WordTerminator == (TokenEnd \ {None}) \cup {"(", ")"}
NameByte == Letter \cup Digit

ByteAt(s, n) == IF n \in DOMAIN s THEN s[n] ELSE None

Peek(n) == ByteAt(input, pos + n)

(* The end of the longest run of bytes of set from n on.                   *)
RunEnd(s, n, set) ==
  CHOOSE e \in n .. Len(s) + 1 :
    (\A m \in n .. e - 1 : s[m] \in set) /\ ByteAt(s, e) \notin set

(* A name at n, which may be empty, ends before this.                      *)
NameEnd(s, n) == IF ByteAt(s, n) \in Letter THEN RunEnd(s, n, NameByte) ELSE n

(* The bytes begin like NAME= or NAME+=; any byte that is not ASCII may be *)
(* part of a name.                                                         *)
StartsWithAssignment(bytes) ==
  /\ ByteAt(bytes, 1) \in Letter \cup NonAscii
  /\ LET e == RunEnd(bytes, 1, NameByte \cup NonAscii) IN
       \/ ByteAt(bytes, e) = "="
       \/ ByteAt(bytes, e) = "+" /\ ByteAt(bytes, e + 1) = "="

-----------------------------------------------------------------------------
(* The parts of a word.                                                    *)
Lit(bytes, quoted) == [kind |-> "Lit", bytes |-> bytes, quoted |-> quoted]
Var(name) == [kind |-> "Var", bytes |-> name, quoted |-> TRUE]
Tilde == [kind |-> "Tilde", bytes |-> <<>>, quoted |-> FALSE]

(* A variant that merges literals whatever their quoting.                  *)
PushMerging(ps, part) ==
  IF ps # <<>> /\ part.kind = "Lit" /\ Last(ps).kind = "Lit"
  THEN Front(ps) \o <<[Last(ps) EXCEPT !.bytes = @ \o part.bytes]>>
  ELSE Append(ps, part)

(* Adjacent literals with the same quoting merge.                          *)
Push(ps, part) ==
  IF ps # <<>> /\ part.kind = "Lit" /\ Last(ps).kind = "Lit" /\ Last(ps).quoted = part.quoted
  THEN Front(ps) \o <<[Last(ps) EXCEPT !.bytes = @ \o part.bytes]>>
  ELSE Append(ps, part)

AppendParts(ps, others) == FoldLeft(Push, ps, others)

(* The empty literal that double quotes start with is dropped.             *)
PushVar(ps, name) ==
  IF Last(ps).kind = "Lit" /\ Last(ps).bytes = <<>>
  THEN Append(Front(ps), Var(name))
  ELSE Append(ps, Var(name))

Unquoted(part) == part.kind = "Lit" /\ ~part.quoted

TildeWouldExpand(ps) ==
  /\ Unquoted(ps[1]) /\ StartsWithAssignment(ps[1].bytes)
  /\ Unquoted(Last(ps)) /\ Last(ps).bytes # <<>> /\ Last(Last(ps).bytes) \in {"=", ":"}

IsDevNull(ps) ==
  /\ \A n \in DOMAIN ps : ps[n].kind = "Lit"
  /\ FlattenSeq([n \in DOMAIN ps |-> ps[n].bytes]) = DevNull

WordToken(ps) == [is |-> "Word", parts |-> ps]
OpToken(op) == [is |-> "Op", op |-> op]
RedirToken(redir) == [is |-> "Redir", redir |-> redir]

-----------------------------------------------------------------------------
LexInit ==
  /\ input \in Inputs
  /\ pos = 1 /\ mode = "Between" /\ start = 1 /\ opened = 1
  /\ from = {} /\ parts = <<>> /\ inner = <<>>
  /\ lexemes = <<>> /\ err = {} /\ lexed = FALSE

Lexing == ~lexed /\ err = {} /\ Len(input) <= MaxInputLen

Fail(kind, offset) ==
  /\ err' = {[kind |-> kind, offset |-> offset]}
  /\ UNCHANGED <<input, pos, mode, token, lexemes, lexed>>

Emit(what, first, end) ==
  /\ lexemes' = Append(lexemes, [offset |-> first, end |-> end, token |-> what])
  /\ pos' = end
  /\ UNCHANGED <<input, err, lexed>>

InputTooLarge ==
  /\ ~lexed /\ err = {} /\ Len(input) > MaxInputLen
  /\ Fail("InputTooLarge", 1)

Between == Lexing /\ mode = "Between" /\ pos <= Len(input)

EndOfInput ==
  /\ Lexing /\ mode = "Between" /\ pos > Len(input)
  /\ lexed' = TRUE
  /\ UNCHANGED <<input, pos, mode, token, lexemes, err>>

(* A byte that no token may start with.                                    *)
NoToken ==
  /\ Between
  /\ \/ Peek(0) \in Control /\ Fail("ControlByte", pos)
     \/ Peek(0) \in {"(", ")"} /\ Fail("Parenthesis", pos)
     \/ Peek(0) = "<" /\ Fail("InputRedirect", pos)

(* A variant that forgets to go on.                                        *)
SkipBlankStay ==
  /\ Between /\ Peek(0) \in Blank
  /\ UNCHANGED lexVars

SkipBlank ==
  /\ Between /\ Peek(0) \in Blank
  /\ pos' = pos + 1
  /\ UNCHANGED <<input, mode, token, lexemes, err, lexed>>

EmitOp(op, n) == Emit(OpToken(op), pos, pos + n) /\ UNCHANGED <<mode, token>>

Newline == Between /\ Peek(0) = "\n" /\ EmitOp("Newline", 1)

Semicolon ==
  /\ Between /\ Peek(0) = ";"
  /\ \/ Peek(1) = ";" /\ Fail("DoubleSemicolon", pos)
     \/ Peek(1) = "&" /\ Fail("SemicolonAmpersand", pos)
     \/ Peek(1) \notin {";", "&"} /\ EmitOp("Semi", 1)

Ampersand ==
  /\ Between /\ Peek(0) = "&"
  /\ \/ Peek(1) = "&" /\ EmitOp("AndIf", 2)
     \/ Peek(1) = ">" /\ Fail("AmpersandRedirect", pos)
     \/ Peek(1) \notin {"&", ">"} /\ Fail("BackgroundAmpersand", pos)

Pipe ==
  /\ Between /\ Peek(0) = "|"
  /\ \/ Peek(1) = "|" /\ EmitOp("OrIf", 2)
     \/ Peek(1) = "&" /\ Fail("PipeAmpersand", pos)
     \/ Peek(1) \notin {"|", "&"} /\ EmitOp("Pipe", 1)

-----------------------------------------------------------------------------
(* A redirect of descriptor fd whose ">" is d bytes further on.            *)
NoRedirect(d) ==
  \/ Peek(d + 1) = ">" /\ Fail("AppendRedirect", pos)
  \/ Peek(d + 1) = "|" /\ Fail("ClobberRedirect", pos)
  \/ Peek(d + 1) = "(" /\ Fail("ProcessSubstitution", pos)

Copies ==
  [c \in {<<"2", "1">>, <<"1", "2">>} |-> IF c = <<"2", "1">> THEN "ErrToOut" ELSE "OutToErr"]

CopyTo(fd, d) ==
  LET c == <<fd, Peek(d + 2)>> IN
    IF c \in DOMAIN Copies
    THEN Emit(RedirToken(Copies[c]), pos, pos + d + 3) /\ UNCHANGED <<mode, token>>
    ELSE Fail("RedirectDescriptor", pos)

(* A variant that takes any byte after the operand.                        *)
DupLoose(fd, d) ==
  /\ Peek(d + 1) = "&"
  /\ IF Peek(d + 2) \notin Digit THEN Fail("DupOperand", pos) ELSE CopyTo(fd, d)

(* Only one digit and the end of a token copy a descriptor.                *)
Dup(fd, d) ==
  /\ Peek(d + 1) = "&"
  /\ IF Peek(d + 2) \notin Digit \/ Peek(d + 3) \notin TokenEnd
     THEN Fail("DupOperand", pos)
     ELSE CopyTo(fd, d)

(* The target, after blanks, is read as a word.                            *)
RedirectTo(fd, d) ==
  /\ Peek(d + 1) \notin {">", "|", "(", "&"}
  /\ LET target == RunEnd(input, pos + d + 1, Blank) IN
       IF target > Len(input) \/ input[target] \in WordTerminator
       THEN Fail("RedirectTarget", pos)
       ELSE /\ mode' = "Word" /\ start' = pos /\ from' = {fd}
            /\ parts' = <<>> /\ pos' = target
            /\ UNCHANGED <<input, opened, inner, lexemes, err, lexed>>

Redirect(fd, d) == NoRedirect(d) \/ Dup(fd, d) \/ RedirectTo(fd, d)

Greater == Between /\ Peek(0) = ">" /\ Redirect("1", 0)

Digits == RunEnd(input, pos, Digit) - pos

(* A run of digits directly before ">" is a descriptor.                    *)
IoNumber ==
  /\ Between /\ Digits > 0 /\ Peek(Digits) = ">"
  /\ IF Digits > 1 THEN Fail("MultiDigitFd", pos) ELSE Redirect(Peek(0), 1)

StartWord ==
  /\ Between
  /\ Peek(0) \notin WordTerminator \cup Control
  /\ ~(Digits > 0 /\ Peek(Digits) = ">")
  /\ mode' = "Word" /\ start' = pos /\ from' = {} /\ parts' = <<>>
  /\ UNCHANGED <<input, pos, opened, inner, lexemes, err, lexed>>

-----------------------------------------------------------------------------
InWord == Lexing /\ mode = "Word" /\ Peek(0) \notin WordTerminator \cup {None}

EmitWord(what) ==
  /\ Emit(what, start, pos)
  /\ mode' = "Between"
  /\ UNCHANGED token

EndWord ==
  /\ Lexing /\ mode = "Word" /\ Peek(0) \in WordTerminator \cup {None}
  /\ \/ from = {} /\ EmitWord(WordToken(parts))
     \/ from # {} /\ ~IsDevNull(parts) /\ Fail("RedirectTarget", start)
     \/ from = {"1"} /\ IsDevNull(parts) /\ EmitWord(RedirToken("OutDevNull"))
     \/ from = {"2"} /\ IsDevNull(parts) /\ EmitWord(RedirToken("ErrDevNull"))
     \/ from \notin {{}, {"1"}, {"2"}} /\ IsDevNull(parts) /\ Fail("RedirectDescriptor", start)

Chunk(ps, end) ==
  /\ parts' = ps
  /\ pos' = end
  /\ UNCHANGED <<input, mode, start, opened, from, inner, lexemes, err, lexed>>

NoUnit ==
  /\ InWord
  /\ \/ Peek(0) \in Control /\ Fail("ControlByte", pos)
     \/ Peek(0) = "$" /\ Fail("UnquotedDollar", pos)
     \/ Peek(0) = Backquote /\ Fail("Backquote", pos)
     \/ Peek(0) \in {"{", "}"} /\ Fail("Brace", pos)
     \/ Peek(0) \in {"*", "?", "["} /\ Fail("Glob", pos)
     \/ Peek(0) = "#" /\ parts = <<>> /\ Fail("Comment", pos)

Special == {"$", Backquote, "{", "}", "*", "?", "[", "'", "\"", "\\", "~"}

PlainByte ==
  /\ InWord
  /\ Peek(0) \notin Control \cup Special
  /\ ~(Peek(0) = "#" /\ parts = <<>>)
  /\ Chunk(Push(parts, Lit(<<Peek(0)>>, FALSE)), pos + 1)

LeadingTilde ==
  /\ InWord /\ Peek(0) = "~" /\ parts = <<>>
  /\ IF Peek(1) \in TokenEnd \cup {"/"} THEN Chunk(<<Tilde>>, pos + 1) ELSE Fail("TildeForm", pos)

LaterTilde ==
  /\ InWord /\ Peek(0) = "~" /\ parts # <<>>
  /\ IF TildeWouldExpand(parts)
     THEN Fail("TildeAssignment", pos)
     ELSE Chunk(Push(parts, Lit(<<"~">>, FALSE)), pos + 1)

(* Why the backslash at pos cannot be read, in the order of the checks.    *)
BadEscape ==
  \/ ByteAt(input, pos - 1) \in NonAscii /\ Fail("BackslashAfterNonAscii", pos)
  \/ /\ ByteAt(input, pos - 1) \notin NonAscii
     /\ \/ Peek(1) = None /\ Fail("BackslashAtEnd", pos)
        \/ Peek(1) = "\n" /\ Fail("LineContinuation", pos)
        \/ Peek(1) \in Control /\ Fail("ControlByte", pos + 1)

GoodEscape == ByteAt(input, pos - 1) \notin NonAscii /\ Peek(1) \notin Control \cup {None, "\n"}

Escape ==
  /\ InWord /\ Peek(0) = "\\"
  /\ BadEscape \/ (GoodEscape /\ Chunk(Push(parts, Lit(<<Peek(1)>>, TRUE)), pos + 2))

SingleQuoted ==
  /\ InWord /\ Peek(0) = "'"
  /\ LET e == CHOOSE e \in pos + 1 .. Len(input) + 1 :
                /\ ByteAt(input, e) \in Control \cup {"'", None}
                /\ \A n \in pos + 1 .. e - 1 : input[n] \notin Control \cup {"'"}
     IN \/ ByteAt(input, e) = None /\ Fail("UnterminatedSingleQuote", pos)
        \/ ByteAt(input, e) \in Control /\ Fail("ControlByte", e)
        \/ /\ ByteAt(input, e) = "'"
           /\ Chunk(Push(parts, Lit(SubSeq(input, pos + 1, e - 1), TRUE)), e + 1)

-----------------------------------------------------------------------------
OpenQuotes ==
  /\ InWord /\ Peek(0) = "\""
  /\ mode' = "Quotes" /\ opened' = pos
  /\ inner' = <<Lit(<<>>, TRUE)>>
  /\ pos' = pos + 1
  /\ UNCHANGED <<input, start, from, parts, lexemes, err, lexed>>

InQuotes == Lexing /\ mode = "Quotes"

QuotedChunk(ps, n) ==
  /\ inner' = ps
  /\ pos' = pos + n
  /\ UNCHANGED <<input, mode, start, opened, from, parts, lexemes, err, lexed>>

NotQuotable ==
  /\ InQuotes
  /\ \/ Peek(0) = None /\ Fail("UnterminatedDoubleQuote", opened)
     \/ Peek(0) \in Control /\ Fail("ControlByte", pos)
     \/ Peek(0) = Backquote /\ Fail("Backquote", pos)

(* A variant that never keeps the backslash.                               *)
QuotedEscapeAll ==
  /\ InQuotes /\ Peek(0) = "\\"
  /\ BadEscape \/ (GoodEscape /\ QuotedChunk(Push(inner, Lit(<<Peek(1)>>, TRUE)), 2))

(* The backslash stays before a byte it does not escape.                   *)
QuotedEscape ==
  /\ InQuotes /\ Peek(0) = "\\"
  /\ \/ BadEscape
     \/ /\ GoodEscape
        /\ LET kept == IF Peek(1) \in {"$", Backquote, "\"", "\\"} THEN <<>> ELSE <<"\\">> IN
             QuotedChunk(Push(inner, Lit(Append(kept, Peek(1)), TRUE)), 2)

SpecialParameter == Digit \cup {"@", "*", "#", "?", "-", "$", "!"}

BadDollar ==
  \/ Peek(1) = "(" /\ Fail("DollarParen", pos)
  \/ /\ Peek(1) = "{"
     /\ NameEnd(input, pos + 2) = pos + 2 \/ ByteAt(input, NameEnd(input, pos + 2)) # "}"
     /\ Fail("BracedParameter", pos)
  \/ /\ Peek(1) \in Letter
     /\ ByteAt(input, NameEnd(input, pos + 1)) \in NonAscii
     /\ Fail("NameBeforeNonAscii", pos)
  \/ Peek(1) \in SpecialParameter /\ Fail("SpecialParameter", pos)
  \/ /\ Peek(1) \notin SpecialParameter \cup Letter \cup {"\"", "(", "{"}
     /\ Fail("BareDollar", pos)

Dollar ==
  /\ InQuotes /\ Peek(0) = "$"
  /\ \/ BadDollar
     \/ Peek(1) = "\"" /\ QuotedChunk(Push(inner, Lit(<<"$">>, TRUE)), 1)
     \/ LET e == NameEnd(input, pos + 2) IN
          /\ Peek(1) = "{" /\ e > pos + 2 /\ ByteAt(input, e) = "}"
          /\ QuotedChunk(PushVar(inner, SubSeq(input, pos + 2, e - 1)), e + 1 - pos)
     \/ LET e == NameEnd(input, pos + 1) IN
          /\ Peek(1) \in Letter /\ ByteAt(input, e) \notin NonAscii
          /\ QuotedChunk(PushVar(inner, SubSeq(input, pos + 1, e - 1)), e - pos)

QuotedByte ==
  /\ InQuotes
  /\ Peek(0) \notin Control \cup {None, "\"", Backquote, "\\", "$"}
  /\ QuotedChunk(Push(inner, Lit(<<Peek(0)>>, TRUE)), 1)

CloseQuotes ==
  /\ InQuotes /\ Peek(0) = "\""
  /\ mode' = "Word"
  /\ parts' = AppendParts(parts, inner)
  /\ pos' = pos + 1
  /\ UNCHANGED <<input, start, opened, from, inner, lexemes, err, lexed>>

-----------------------------------------------------------------------------
(* The bytes that are looked for by name.  Names, control bytes and bytes  *)
(* that are not ASCII are none of them, and no byte is two of these.  The  *)
(* path of the null device begins with a slash.                            *)
Named == WordTerminator \cup Special \cup SpecialParameter \cup {"=", "+", ":", "/"}

ASSUME ClassesAssumption ==
  /\ (Letter \cup Control \cup NonAscii) \cap Named = {}
  /\ Letter \cap (Control \cup NonAscii) = {} /\ Control \cap NonAscii = {}
  /\ DevNull \in Seq(STRING) /\ DevNull # <<>> /\ DevNull[1] = "/"

-----------------------------------------------------------------------------
LexNext ==
  \/ InputTooLarge \/ EndOfInput
  \/ NoToken \/ SkipBlank \/ Newline \/ Semicolon \/ Ampersand \/ Pipe
  \/ Greater \/ IoNumber \/ StartWord
  \/ EndWord \/ NoUnit \/ PlainByte \/ LeadingTilde \/ LaterTilde
  \/ Escape \/ SingleQuoted \/ OpenQuotes
  \/ NotQuotable \/ QuotedEscape \/ Dollar \/ QuotedByte \/ CloseQuotes

(* The walk stays within the input; a word has parts from its second unit  *)
(* on, and double quotes have parts from the start.                        *)
LexTypeOK ==
  /\ pos \in 1 .. Len(input) + 1
  /\ mode \in {"Between", "Word", "Quotes"}
  /\ start \in 1 .. Len(input) + 1 /\ opened \in 1 .. Len(input) + 1
  /\ from = {} \/ \E d \in Digit : from = {d}
  /\ mode = "Word" /\ Peek(0) \in WordTerminator \cup {None} => parts # <<>>
  /\ mode = "Quotes" => inner # <<>>
  /\ \A e \in err : e.offset \in 1 .. Len(input) + 1
  /\ \A e, f \in err : e = f
  /\ lexed \in BOOLEAN
=============================================================================

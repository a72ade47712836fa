------------------------------- MODULE Parser -------------------------------
(***************************************************************************)
(* parse: the lexer runs to the end of the input, then the parser reads    *)
(* the lexemes into a script.  Its four nested functions return as soon as *)
(* the operator that ends a command is known, so what they have built so   *)
(* far is the state: the script, its last list, that list's last pipeline  *)
(* and that pipeline's last command.                                       *)
(***************************************************************************)
EXTENDS Lexer

CONSTANTS
  MaxWords,  \* the most words of a script
  Reserved   \* the words bash reserves where a command may start

ASSUME WordsAssumption ==
  MaxWords \in Nat /\ \A w \in Reserved : ~StartsWithAssignment(w)

VARIABLES
  n,        \* the next lexeme
  phase,    \* before a command that may come, that must come, or in one
  at,       \* where the command began
  cmd,      \* the command
  pipe,     \* the commands of the pipeline before it
  conn,     \* what joins that pipeline to the list
  list,     \* the pipelines of the list before it
  script,   \* the lists before it
  words,    \* how many words were taken
  parsed    \* the script is complete

parseVars == <<n, phase, at, cmd, pipe, conn, list, script, words, parsed>>
vars == <<lexVars, parseVars>>

NoCmd == [words |-> <<>>, redirs |-> <<>>]

Init ==
  /\ LexInit
  /\ n = 1 /\ phase = "May" /\ at = 1 /\ words = 0 /\ parsed = FALSE
  /\ cmd = NoCmd /\ pipe = <<>> /\ conn = "First" /\ list = <<>> /\ script = <<>>

Lex == LexNext /\ UNCHANGED parseVars

Parsing == lexed /\ err = {} /\ ~parsed

Eof == Len(input) + 1

AtEof == n > Len(lexemes)

Current == lexemes[n].token

AtOp == ~AtEof /\ Current.is = "Op"

Reject(kind, offset) ==
  /\ err' = {[kind |-> kind, offset |-> offset]}
  /\ UNCHANGED <<input, pos, mode, token, lexemes, lexed, parseVars>>

(* The quoting of a literal is forgotten.                                  *)
ConvertPart(part) ==
  IF part.kind = "Lit" THEN [opaque |-> "No", bytes |-> part.bytes]
  ELSE [opaque |-> part.kind, bytes |-> part.bytes]

ConvertWord(ps) == [m \in DOMAIN ps |-> ConvertPart(ps[m])]

-----------------------------------------------------------------------------
SkipNewline ==
  /\ Parsing /\ phase # "In"
  /\ AtOp /\ Current.op = "Newline"
  /\ n' = n + 1
  /\ UNCHANGED <<lexVars, phase, at, cmd, pipe, conn, list, script, words, parsed>>

EndOfScript ==
  /\ Parsing /\ phase = "May" /\ AtEof
  /\ parsed' = TRUE
  /\ UNCHANGED <<lexVars, n, phase, at, cmd, pipe, conn, list, script, words>>

(* An operator, or the end, stands where a command must start.             *)
MissingCommand ==
  /\ Parsing /\ phase # "In"
  /\ \/ phase = "Must" /\ AtEof /\ Reject("MissingCommand", Eof)
     \/ AtOp /\ Current.op = "Semi" /\ Reject("LeadingSeparator", lexemes[n].offset)
     \/ /\ AtOp /\ Current.op \notin {"Semi", "Newline"}
        /\ Reject("MissingCommand", lexemes[n].offset)

StartCommand ==
  /\ Parsing /\ phase # "In" /\ ~AtEof /\ ~AtOp
  /\ phase' = "In" /\ at' = lexemes[n].offset
  /\ UNCHANGED <<lexVars, n, cmd, pipe, conn, list, script, words, parsed>>

(* A variant that forgets the quoting of a reserved word.                  *)
NameProblemQuoted(ps) ==
  IF ps[1].kind # "Lit" THEN "No"
  ELSE IF ~ps[1].quoted /\ StartsWithAssignment(ps[1].bytes) THEN "Assignment"
  ELSE IF Len(ps) = 1 /\ ps[1].bytes \in Reserved THEN "ReservedWord" ELSE "No"

(* Why a word is not the name of a command.                                *)
NameProblem(ps) ==
  IF ~Unquoted(ps[1]) THEN "No"
  ELSE IF StartsWithAssignment(ps[1].bytes) THEN "Assignment"
  ELSE IF Len(ps) = 1 /\ ps[1].bytes \in Reserved THEN "ReservedWord" ELSE "No"

TakeWord ==
  /\ words' = words + 1
  /\ cmd' = [cmd EXCEPT !.words = Append(@, ConvertWord(Current.parts))]
  /\ n' = n + 1
  /\ UNCHANGED <<lexVars, phase, at, pipe, conn, list, script, parsed>>

(* A variant that counts a word too many.                                  *)
ReadWordLate ==
  /\ Parsing /\ phase = "In" /\ ~AtEof /\ Current.is = "Word"
  /\ LET problem == IF cmd.words = <<>> THEN NameProblem(Current.parts) ELSE "No" IN
       IF words > MaxWords THEN Reject("TooManyWords", lexemes[n].offset)
       ELSE IF problem # "No" THEN Reject(problem, lexemes[n].offset)
       ELSE TakeWord

ReadWord ==
  /\ Parsing /\ phase = "In" /\ ~AtEof /\ Current.is = "Word"
  /\ LET problem == IF cmd.words = <<>> THEN NameProblem(Current.parts) ELSE "No" IN
       IF words >= MaxWords THEN Reject("TooManyWords", lexemes[n].offset)
       ELSE IF problem # "No" THEN Reject(problem, lexemes[n].offset)
       ELSE TakeWord

ReadRedir ==
  /\ Parsing /\ phase = "In" /\ ~AtEof /\ Current.is = "Redir"
  /\ cmd' = [cmd EXCEPT !.redirs = Append(@, Current.redir)]
  /\ n' = n + 1
  /\ UNCHANGED <<lexVars, phase, at, pipe, conn, list, script, words, parsed>>

RedirectOnly ==
  /\ Parsing /\ phase = "In" /\ (AtEof \/ AtOp)
  /\ cmd.words = <<>>
  /\ Reject("RedirectOnly", at)

EndCommand ==
  /\ Parsing /\ phase = "In"
  /\ cmd.words # <<>>
  /\ cmd' = NoCmd
  /\ UNCHANGED <<lexVars, at, words, parsed>>

Piped == Append(pipe, cmd)

Listed == Append(list, [conn |-> conn, pipe |-> Piped])

EndByPipe ==
  /\ EndCommand
  /\ AtOp /\ Current.op = "Pipe"
  /\ pipe' = Piped
  /\ phase' = "Must" /\ n' = n + 1
  /\ UNCHANGED <<conn, list, script>>

(* A variant that keeps the connector of the list's first link.            *)
EndByConnectorFirst ==
  /\ EndCommand
  /\ AtOp /\ Current.op \in {"AndIf", "OrIf"}
  /\ list' = Listed /\ pipe' = <<>>
  /\ conn' = IF conn = "First" THEN Current.op ELSE conn
  /\ phase' = "Must" /\ n' = n + 1
  /\ UNCHANGED script

EndByConnector ==
  /\ EndCommand
  /\ AtOp /\ Current.op \in {"AndIf", "OrIf"}
  /\ list' = Listed /\ pipe' = <<>> /\ conn' = Current.op
  /\ phase' = "Must" /\ n' = n + 1
  /\ UNCHANGED script

EndBySeparator ==
  /\ EndCommand
  /\ AtEof \/ (AtOp /\ Current.op \in {"Semi", "Newline"})
  /\ script' = Append(script, Listed)
  /\ list' = <<>> /\ pipe' = <<>> /\ conn' = "First"
  /\ phase' = "May" /\ n' = IF AtEof THEN n ELSE n + 1

Parse ==
  \/ SkipNewline \/ EndOfScript \/ MissingCommand \/ StartCommand
  \/ ReadWord \/ ReadRedir \/ RedirectOnly
  \/ EndByPipe \/ EndByConnector \/ EndBySeparator

(* The outcome stays.                                                      *)
Done == (parsed \/ err # {}) /\ UNCHANGED vars

Next == Lex \/ Parse \/ Done

Spec == Init /\ [][Next]_vars /\ WF_vars(Lex \/ Parse)

-----------------------------------------------------------------------------
(* The lexer's state as its own module says; one command is open at most,  *)
(* and the words counted are those of the script so far.                   *)
TypeOK ==
  /\ LexTypeOK
  /\ n \in 1 .. Len(lexemes) + 1
  /\ phase \in {"May", "Must", "In"}
  /\ conn \in {"First", "AndIf", "OrIf"}
  /\ phase # "In" => cmd = NoCmd
  /\ phase = "May" => list = <<>> /\ pipe = <<>> /\ conn = "First"
  /\ words <= MaxWords
  /\ parsed => err = {} /\ lexed

-----------------------------------------------------------------------------
(* The grammar, read off the tokens: a command is a longest run of words   *)
(* and redirects.                                                          *)
Tok(m) == lexemes[m].token

IsCmd(m) == m \in DOMAIN lexemes /\ Tok(m).is # "Op"

RunStarts == {m \in DOMAIN lexemes : IsCmd(m) /\ ~IsCmd(m - 1)}

RunOf(m) == {k \in DOMAIN lexemes : k >= m /\ \A l \in m .. k : IsCmd(l)}

WordsOf(set) == {m \in set : Tok(m).is = "Word"}

FirstWords == {m \in WordsOf(DOMAIN lexemes) :
                 \E r \in RunStarts : m \in RunOf(r) /\ \A l \in r .. m - 1 : Tok(l).is # "Word"}

WithinCap(m) == Cardinality(WordsOf(1 .. m)) <= MaxWords

At(kind, set) == {[kind |-> kind, offset |-> lexemes[m].offset] : m \in set}

IsOp(m, ops) == m \in DOMAIN lexemes /\ Tok(m).is = "Op" /\ Tok(m).op \in ops

(* Where the tokens depart from the grammar.                               *)
TooMany == {m \in WordsOf(DOMAIN lexemes) : ~WithinCap(m)}

Assigning ==
  {m \in FirstWords : WithinCap(m) /\ Unquoted(Tok(m).parts[1])
                         /\ StartsWithAssignment(Tok(m).parts[1].bytes)}

Reserving == {m \in FirstWords : WithinCap(m) /\ Tok(m).parts \in {<<Lit(w, FALSE)>> : w \in Reserved}}

Wordless == {r \in RunStarts : WordsOf(RunOf(r)) = {}}

Leading == {m \in DOMAIN lexemes : IsOp(m, {"Semi"}) /\ ~IsCmd(m - 1)}

Joining == {"Pipe", "AndIf", "OrIf"}

Missing == {m \in DOMAIN lexemes : IsOp(m, Joining) /\ ~IsCmd(m - 1)}

(* An operator that needs a command and has only newlines from there to k. *)
Opens(m, k) == IsOp(m, Joining) /\ \A l \in m + 1 .. k - 1 : IsOp(l, {"Newline"})

OpenEnds == {m \in DOMAIN lexemes : Opens(m, Len(lexemes) + 1)}

(* Every departure, at its place.                                          *)
GrammarProblems ==
  UNION
    {At("TooManyWords", TooMany), At("Assignment", Assigning), At("ReservedWord", Reserving),
     At("RedirectOnly", Wordless), At("LeadingSeparator", Leading), At("MissingCommand", Missing),
     {[kind |-> "MissingCommand", offset |-> Eof] : m \in OpenEnds}}

(* parse accepts exactly the token strings of the grammar in its module's  *)
(* comment, with command names and the cap on words, and what it reports   *)
(* otherwise is the first departure, whichever of the four functions met   *)
(* it and whatever they had looked ahead at.                               *)
FirstProblemIsReported ==
  lexed =>
    /\ parsed => GrammarProblems = {}
    /\ \A e \in err :
         e \in GrammarProblems /\ \A p \in GrammarProblems : p = e \/ p.offset > e.offset

(* The commands of a script with what joins each to those before it.       *)
PipeJoins(link, list1) ==
  [m \in DOMAIN link.pipe |->
     <<IF m > 1 THEN "Pipe" ELSE IF link.conn = "First" THEN list1 ELSE link.conn, link.pipe[m]>>]

ListJoins(l, list1) == FlattenSeq([m \in DOMAIN l |-> PipeJoins(l[m], list1)])

Joins == FlattenSeq([m \in DOMAIN script |-> ListJoins(script[m], "Item")])

(* The same of the tokens: the operator before a run that is not one of    *)
(* the newlines that may follow an operator.                               *)
EndsBefore(r) == {m \in 1 .. r - 1 : IsCmd(m - 1) /\ ~IsCmd(m)}

JoinedBy(op) == IF op \in {"Semi", "Newline"} THEN "Item" ELSE op

JoinBefore(r) == IF EndsBefore(r) = {} THEN "Item" ELSE JoinedBy(Tok(Max(EndsBefore(r))).op)

RedirsOf(set) == {m \in set : Tok(m).is = "Redir"}

(* The members of set from the least to the greatest.                      *)
Rank(m, set) == Cardinality({k \in set : k <= m})

InOrder(set) == [k \in 1 .. Cardinality(set) |-> CHOOSE m \in set : Rank(m, set) = k]

(* A run's words, and its redirects, in the order of the input.            *)
ConvertWords(set) == [k \in DOMAIN InOrder(set) |-> ConvertWord(Tok(InOrder(set)[k]).parts)]

RedirsIn(set) == [k \in DOMAIN InOrder(set) |-> Tok(InOrder(set)[k]).redir]

CommandOf(run) == [words |-> ConvertWords(WordsOf(run)), redirs |-> RedirsIn(RedirsOf(run))]

(* The commands of runs, each with what joins it.                          *)
JoinsOf(runs) ==
  [k \in DOMAIN InOrder(runs) |->
     <<JoinBefore(InOrder(runs)[k]), CommandOf(RunOf(InOrder(runs)[k]))>>]

(* The script has every command of the input once, in order, with all its  *)
(* words and redirects, and joined to the one before by the operator that  *)
(* is between them however many newlines follow it.                        *)
ScriptSaysTheTokens == parsed => Joins = JoinsOf(RunStarts)

(* Every call of parse ends with a script or a finding.                    *)
ParseEnds == <>(parsed \/ err # {})
=============================================================================

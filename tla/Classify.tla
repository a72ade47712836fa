------------------------------ MODULE Classify ------------------------------
(***************************************************************************)
(* classify_simple: the rows of the catalog are tried in order on one      *)
(* simple command.  The first row that covers it is selected; when none    *)
(* does, the reason is that of the matching row with the longest key.  The *)
(* parse a row asks for is run as Argv's steps, one row's parse after      *)
(* another's.                                                              *)
(***************************************************************************)
EXTENDS Argv

CONSTANTS
  Catalogs,  \* the lists of rows the loader may hand to the kernel
  Commands   \* the words of the simple commands the parser may hand on

Row ==
  [key: Seq(Seq(Byte)), grammar: Grammar, runs_code: BOOLEAN,
   cwd: {"Changes", "Sensitive", "Keeps"}]

VARIABLES
  rows,   \* the catalog, fixed
  j,      \* the row being tried
  stage,  \* what row_fit is doing
  best,   \* the miss with the longest key so far: none or one
  class   \* {} until classify_simple returns, then its one answer

argv == <<g, start, i, at, ph, k, slots, seen, result>>
cvars == <<g, ws, start, i, at, ph, k, slots, seen, result, rows, j, stage, best, class>>

row == rows[j]

-----------------------------------------------------------------------------
(* Keys.                                                                   *)

KeyMatches(key, words) ==
  /\ Len(key) <= Len(words)
  /\ \A n \in DOMAIN key : ~words[n].opaque /\ words[n].lit = key[n]

Extends(long, short) ==
  Len(short) < Len(long) /\ \A n \in DOMAIN short : long[n] = short[n]

IsParent(rs, m) == \E n \in DOMAIN rs : Extends(rs[n].key, rs[m].key)

(* A row with a longer key that also matches runs code.                    *)
CodeChild(rs, m, words) ==
  \E n \in DOMAIN rs :
    rs[n].runs_code /\ Extends(rs[n].key, rs[m].key) /\ KeyMatches(rs[n].key, words)

IsOperand(slot) == slot.kind = "Operand"

HasOperand(sl) == \E n \in DOMAIN sl : IsOperand(sl[n])

FirstOperand(sl) ==
  {n \in DOMAIN sl : IsOperand(sl[n]) /\ \A m \in 1 .. n - 1 : ~IsOperand(sl[m])}

-----------------------------------------------------------------------------
(* What the catalog promises: the row covers the command if, read by its   *)
(* grammar, the words after the key are no code and name no subcommand.    *)
CoversRow(rs, m, words) ==
  /\ KeyMatches(rs[m].key, words)
  /\ ~rs[m].runs_code
  /\ ~CodeChild(rs, m, words)
  /\ \E t \in Readings(rs[m].grammar, words, Len(rs[m].key)) :
       ~(IsParent(rs, m) /\ HasOperand(t))

OptionLike(seg) == StartsWith(seg, "-") \/ StartsWith(seg, "+")

(* What the loader makes sure of: no two rows have one key, and only the   *)
(* last segment of a row that runs code may look like an option.           *)
LoaderChecked(rs) ==
  /\ \A m, n \in DOMAIN rs : rs[m].key = rs[n].key => m = n
  /\ \A m \in DOMAIN rs :
       /\ rs[m].key # <<>>
       /\ \A n \in DOMAIN rs[m].key :
            OptionLike(rs[m].key[n]) => rs[m].runs_code /\ n = Len(rs[m].key)

ASSUME CatalogAssumption ==
  /\ \A rs \in Catalogs : rs \in Seq(Row) \ {<<>>} /\ LoaderChecked(rs)
  /\ Commands \subseteq Seq(Word) \ {<<>>}

-----------------------------------------------------------------------------
ClassifyInit ==
  /\ ws \in Commands
  /\ rows \in Catalogs
  /\ j = 1
  /\ stage = "name"
  /\ best = {}
  /\ class = {}
  /\ StartParse(rows[1].grammar, 0)

Answer(kind, n, m) ==
  /\ class' = {[kind |-> kind, word |-> n, row |-> m]}
  /\ stage' = "done"
  /\ UNCHANGED <<argv, ws, rows, j, best>>

(* A variant that keeps the first miss.                                    *)
MissFirst(kind, n) ==
  /\ best' = IF best = {} THEN {[kind |-> kind, word |-> n, row |-> j]} ELSE best
  /\ j' = j + 1
  /\ stage' = "rows"
  /\ UNCHANGED <<argv, ws, rows, class>>

(* The row misses: its reason is kept if its key is longer than the best.  *)
Miss(kind, n) ==
  /\ best' = IF \A m \in best : Len(rows[m.row].key) < Len(row.key)
             THEN {[kind |-> kind, word |-> n, row |-> j]} ELSE best
  /\ j' = j + 1
  /\ stage' = "rows"
  /\ UNCHANGED <<argv, ws, rows, class>>

OpaqueName ==
  /\ stage = "name"
  /\ ws[1].opaque
  /\ Answer("OpaqueCommandName", 1, 0)

LiteralName ==
  /\ stage = "name"
  /\ ~ws[1].opaque
  /\ stage' = "rows"
  /\ UNCHANGED <<argv, ws, rows, j, best, class>>

AtRow == stage = "rows" /\ j <= Len(rows)

OtherKey ==
  /\ AtRow
  /\ ~KeyMatches(row.key, ws)
  /\ j' = j + 1
  /\ UNCHANGED <<argv, ws, rows, stage, best, class>>

(* Code is never covered: a row that runs code, and a row whose longer     *)
(* sibling does.                                                           *)
CodeRow ==
  /\ AtRow
  /\ KeyMatches(row.key, ws)
  /\ row.runs_code
  /\ Miss("RunsCode", 1)

CodeInChild ==
  /\ AtRow
  /\ KeyMatches(row.key, ws)
  /\ ~row.runs_code
  /\ CodeChild(rows, j, ws)
  /\ Miss("RunsCode", Len(row.key) + 1)

(* A variant that reads the last word of the key as an argument.           *)
BeginParseEarly ==
  /\ AtRow
  /\ KeyMatches(row.key, ws)
  /\ ~row.runs_code
  /\ ~CodeChild(rows, j, ws)
  /\ g' = row.grammar /\ start' = Len(row.key) /\ i' = start'
  /\ at' = 0 /\ ph' = "Options" /\ k' = 0 /\ slots' = <<>> /\ seen' = <<>> /\ result' = {}
  /\ stage' = "parse"
  /\ UNCHANGED <<ws, rows, j, best, class>>

BeginParse ==
  /\ AtRow
  /\ KeyMatches(row.key, ws)
  /\ ~row.runs_code
  /\ ~CodeChild(rows, j, ws)
  /\ g' = row.grammar /\ start' = Len(row.key) /\ i' = start' + 1
  /\ at' = 0 /\ ph' = "Options" /\ k' = 0 /\ slots' = <<>> /\ seen' = <<>> /\ result' = {}
  /\ stage' = "parse"
  /\ UNCHANGED <<ws, rows, j, best, class>>

Parse ==
  /\ stage = "parse"
  /\ result = {}
  /\ Next
  /\ UNCHANGED <<rows, j, stage, best, class>>

GrammarMiss ==
  /\ stage = "parse"
  /\ Failed
  /\ \E r \in result : Miss(r.kind, r.word)

(* A parent row does not cover a word that may be a subcommand.            *)
OperandOfParent ==
  /\ stage = "parse"
  /\ Parsed
  /\ IsParent(rows, j)
  /\ \E n \in FirstOperand(slots) : Miss("UnknownSubcommand", start + n)

(* A variant in which a parent row covers its operands too.                *)
RowCoversAny ==
  /\ stage = "parse"
  /\ Parsed
  /\ Answer("Covered", 0, j)

RowCovers ==
  /\ stage = "parse"
  /\ Parsed
  /\ ~(IsParent(rows, j) /\ HasOperand(slots))
  /\ Answer("Covered", 0, j)

NoRowCovers ==
  /\ stage = "rows"
  /\ j > Len(rows)
  /\ \/ best = {} /\ Answer("NoRow", 1, 0)
     \/ \E m \in best : Answer(m.kind, m.word, m.row)

Classified == stage = "done" /\ UNCHANGED cvars

ClassifyNext ==
  \/ OpaqueName \/ LiteralName \/ OtherKey \/ CodeRow \/ CodeInChild
  \/ BeginParse \/ Parse \/ GrammarMiss \/ OperandOfParent \/ RowCovers
  \/ NoRowCovers \/ Classified

ClassifySpec == ClassifyInit /\ [][ClassifyNext]_cvars

-----------------------------------------------------------------------------
Miss1 == [kind: ArgvFault \cup {"RunsCode", "UnknownSubcommand"}, word: Nat, row: DOMAIN rows]

(* The row counter stays within the catalog, the best miss is one of a row *)
(* already tried, and there is at most one answer.                         *)
ClassifyTypeOK ==
  /\ TypeOK
  /\ rows \in Seq(Row)
  /\ j \in 1 .. Len(rows) + 1
  /\ stage \in {"name", "rows", "parse", "done"}
  /\ stage = "parse" => j <= Len(rows)
  /\ best \subseteq Miss1
  /\ \A m, n \in best : m = n
  /\ \A m \in best : m.row < j
  /\ class # {} <=> stage = "done"

(* A command is covered exactly when some row covers it, and then that row *)
(* is the only one: which row is selected, and with it the slots, the      *)
(* rules and the working-directory flags of the command, does not depend   *)
(* on the order of the catalog's files.                                    *)
CoveredByTheOnlyRow ==
  \A c \in class :
    \A n \in DOMAIN rows :
      CoversRow(rows, n, ws) <=> c.kind = "Covered" /\ n = c.row

(* The reason of an uncovered command is of its most specific row, and is  *)
(* "RunsCode" whenever that row runs code; there is no row only if no key  *)
(* matches.                                                                *)
ReasonIsOfTheLongestKey ==
  \A c \in class :
    c.kind \notin {"Covered", "OpaqueCommandName"} =>
      /\ c.word \in DOMAIN ws
      /\ c.kind = "NoRow" <=> \A n \in DOMAIN rows : ~KeyMatches(rows[n].key, ws)
      /\ c.kind # "NoRow" =>
           /\ KeyMatches(rows[c.row].key, ws)
           /\ \A n \in DOMAIN rows :
                KeyMatches(rows[n].key, ws) => Len(rows[n].key) <= Len(rows[c.row].key)
           /\ rows[c.row].runs_code <=> c.kind = "RunsCode"

(* No expansion of an opaque part makes a command covered that was not, or *)
(* moves it to another row.                                                *)
ExpansionsKeepTheRow ==
  \A c \in class : c.kind = "Covered" =>
    \A t \in [DOMAIN ws -> Texts], n \in DOMAIN rows :
      CoversRow(rows, n, Expanded(ws, t)) <=> n = c.row
=============================================================================

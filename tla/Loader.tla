------------------------------- MODULE Loader -------------------------------
(***************************************************************************)
(* load and load_files: catalog files, the embedded ones and the user's,   *)
(* are merged into one catalog with its rules, their ids and reasons, and  *)
(* the hints; every problem is collected, and one problem is enough for    *)
(* nothing to load.  One action per row, hint, merged row and rule.        *)
(***************************************************************************)
EXTENDS Integers, Sequences, FiniteSets, SequencesExt

CONSTANTS
  Inputs,              \* the lists of files that may be loaded
  OptionLike,          \* the key segments that start with - or +
  Spelling,            \* the option that a segment spells, where it spells one
  InexpressibleHeads,  \* the heads that get no row that covers
  PathHeads,           \* the heads with a slash
  CodeOptions,         \* the options of some heads that run code
  MaxRuleId            \* the last rule id that fits

(* What the schema lets through.  An option is known by its names, a text  *)
(* by whether it may be shown, a rule's targets by whether all are         *)
(* accepted.                                                               *)
OptDto ==
  [names: SUBSET STRING, value: {"Flag", "Takes", "Optional"}, role: {"Inert", "Path", "Code"}]

RowDto ==
  [key: Seq(STRING), opts: Seq(OptDto), source: BOOLEAN, runs_code: BOOLEAN,
   changes_cwd: BOOLEAN, cwd_sensitive: BOOLEAN]

RuleDto ==
  [id: STRING, key: Seq(STRING), opts: Seq(SUBSET STRING), reason: STRING, targets: BOOLEAN]

HintDto == [key: Seq(STRING), text: STRING]

FileDto ==
  [read: BOOLEAN, toml: BOOLEAN, origin: {"Embedded", "User"},
   rows: Seq(RowDto), rules: Seq(RuleDto), hints: Seq(HintDto)]

ASSUME FilesAssumption == Inputs \subseteq Seq(FileDto)

VARIABLES
  files,    \* the files, fixed
  parsed,   \* those that match the schema
  step,     \* reading, parsing, merging, checking rows, building rules, done
  f,        \* the file being parsed or merged
  i,        \* the row, hint, entry or rule being read
  part,     \* what of the file is being merged: its rows or its hints
  entries,  \* the rows of all files, built or not
  dtos,     \* the rules of all files
  hints,    \* the hints so far with their origin
  rules,    \* the rules built
  ids,      \* the ids of the rules
  reasons,  \* the reasons of the rules
  seen,     \* the ids seen
  errs,     \* the problems
  loaded    \* what is returned when there are none: {} or the one result

cursor == <<step, f, i, part>>
merged == <<entries, dtos, hints>>
built == <<rules, ids, reasons, seen>>
vars == <<files, parsed, cursor, merged, built, errs, loaded>>

Init ==
  /\ files \in Inputs
  /\ parsed = <<>>
  /\ step = "Read" /\ f = 1 /\ i = 1 /\ part = "Rows"
  /\ entries = <<>> /\ dtos = <<>> /\ hints = <<>>
  /\ rules = <<>> /\ ids = <<>> /\ reasons = <<>> /\ seen = {}
  /\ errs = {} /\ loaded = {}

Error(kinds, key) == {[kind |-> k, key |-> key] : k \in kinds}

When(kind, condition) == IF condition THEN {kind} ELSE {}

KeyOk(key) == key # <<>> /\ \A n \in DOMAIN key : key[n] # ""

HasOptionLike(key) == \E n \in DOMAIN key : key[n] \in OptionLike

IsOptionChild(key) == key # <<>> /\ ~HasOptionLike(Front(key)) /\ Last(key) \in DOMAIN Spelling

HeadIn(key, heads) == key # <<>> /\ key[1] \in heads

-----------------------------------------------------------------------------
(* check and the hook read every file first, and load only if all of them  *)
(* could be read.                                                          *)
Unread == {n \in DOMAIN files : ~files[n].read}

ReadFiles ==
  /\ step = "Read" /\ Unread = {}
  /\ step' = "Parse"
  /\ UNCHANGED <<files, parsed, f, i, part, merged, built, errs, loaded>>

CannotRead ==
  /\ step = "Read" /\ Unread # {}
  /\ errs' = Error({"Read"}, <<>>)
  /\ step' = "Done"
  /\ UNCHANGED <<files, parsed, f, i, part, merged, built, loaded>>

(* A file that is not TOML, or does not match the schema, is left out.     *)
ParseFile ==
  /\ step = "Parse" /\ f <= Len(files)
  /\ parsed' = IF files[f].toml THEN Append(parsed, files[f]) ELSE parsed
  /\ errs' = IF files[f].toml THEN errs ELSE errs \cup Error({"Toml"}, <<>>)
  /\ f' = f + 1
  /\ UNCHANGED <<files, step, i, part, merged, built, loaded>>

EndParse ==
  /\ step = "Parse" /\ f > Len(files)
  /\ step' = "Merge" /\ f' = 1
  /\ UNCHANGED <<files, parsed, i, part, merged, built, errs, loaded>>

(* What is wrong with the options of a row.                                *)
OptErrors(row) ==
  UNION {LET o == row.opts[n] IN
           When("BadOptName", o.names = {})
             \cup When("DuplicateOpt", \E m \in 1 .. n - 1 : row.opts[m].names \cap o.names # {})
             \cup When("CodeOptionNotCode",
                    /\ KeyOk(row.key) /\ ~row.runs_code /\ row.key[1] \in DOMAIN CodeOptions
                    /\ <<o.value, o.role>> # <<"Takes", "Code">>
                    /\ o.names \cap CodeOptions[row.key[1]] # {}) :
         n \in DOMAIN row.opts}

RowErrors(row) ==
  When("BadRowKey", ~KeyOk(row.key))
    \cup When("OptionLikeKey", HasOptionLike(row.key) /\ ~(row.runs_code /\ IsOptionChild(row.key)))
    \cup When("MissingSource", ~row.source)
    \cup When("DenylistedHead",
              KeyOk(row.key) /\ ~row.runs_code /\ HeadIn(row.key, InexpressibleHeads))
    \cup When("PathHead", HeadIn(row.key, PathHeads))
    \cup When("ConflictingCwd", row.changes_cwd /\ row.cwd_sensitive)
    \cup OptErrors(row)

(* A variant that forgets the key of a row that fails.                     *)
EntryOfBuilt(row) ==
  [key |-> IF RowErrors(row) = {} THEN row.key ELSE <<>>,
   row |-> IF RowErrors(row) = {} THEN {row} ELSE {}]

(* The key counts if it is well formed, the row if nothing is wrong.       *)
EntryOf(row) ==
  [key |-> IF KeyOk(row.key) THEN row.key ELSE <<>>,
   row |-> IF RowErrors(row) = {} THEN {row} ELSE {}]

Merging == step = "Merge" /\ f <= Len(parsed)

ReadRow ==
  /\ Merging /\ part = "Rows" /\ i <= Len(parsed[f].rows)
  /\ LET row == parsed[f].rows[i] IN
       /\ entries' = Append(entries, EntryOf(row))
       /\ errs' = errs \cup Error(RowErrors(row), row.key)
  /\ i' = i + 1
  /\ UNCHANGED <<files, parsed, step, f, part, dtos, hints, built, loaded>>

ReadRules ==
  /\ Merging /\ part = "Rows" /\ i > Len(parsed[f].rows)
  /\ dtos' = dtos \o parsed[f].rules
  /\ part' = "Hints" /\ i' = 1
  /\ UNCHANGED <<files, parsed, step, f, entries, hints, built, errs, loaded>>

(* The hints that a hint of this origin may not repeat.                    *)
Pool(origin) ==
  {h \in {hints[n] : n \in DOMAIN hints} : origin = "Embedded" \/ h.origin = "User"}

HintErrors(h, origin) ==
  When("BadHintKey", ~KeyOk(h.key) \/ HasOptionLike(h.key))
    \cup When("DuplicateHint", /\ KeyOk(h.key) /\ ~HasOptionLike(h.key)
                               /\ \E x \in Pool(origin) : x.key = h.key)
    \cup When("BadText", h.text = "bad")

(* A variant that keeps the hint that is replaced.                         *)
PutHintBehind(h) == Append(hints, h)

(* A hint takes the place of the one with its key, and goes to the end.    *)
Without(hs, key) ==
  FoldLeft(LAMBDA kept, x : IF x.key = key THEN kept ELSE Append(kept, x), <<>>, hs)

PutHint(h) == Append(Without(hints, h.key), h)

ReadHint ==
  /\ Merging /\ part = "Hints" /\ i <= Len(parsed[f].hints)
  /\ LET h == parsed[f].hints[i]
         origin == parsed[f].origin
         problems == HintErrors(h, origin)
     IN /\ errs' = errs \cup Error(problems, h.key)
        /\ hints' = IF problems # {} THEN hints
                    ELSE PutHint([key |-> h.key, text |-> h.text, origin |-> origin])
  /\ i' = i + 1
  /\ UNCHANGED <<files, parsed, step, f, part, entries, dtos, built, loaded>>

NextFile ==
  /\ Merging /\ part = "Hints" /\ i > Len(parsed[f].hints)
  /\ f' = f + 1 /\ i' = 1 /\ part' = "Rows"
  /\ UNCHANGED <<files, parsed, step, merged, built, errs, loaded>>

EndMerge ==
  /\ step = "Merge" /\ f > Len(parsed)
  /\ step' = "Rows" /\ i' = 1
  /\ UNCHANGED <<files, parsed, f, part, merged, built, errs, loaded>>

-----------------------------------------------------------------------------
(* The entries with the key that entry e extends by one segment.           *)
Parents(e) ==
  IF Len(e.key) < 2 THEN {}
  ELSE {p \in {entries[n] : n \in DOMAIN entries} : p.key = Front(e.key)}

(* A parent's option that spells the last segment of a row that runs code. *)
ParentOptNotCode(e) ==
  \E row \in e.row : \E p \in Parents(e) : \E prow \in p.row : \E n \in DOMAIN prow.opts :
    /\ row.runs_code /\ Last(e.key) \in DOMAIN Spelling
    /\ Spelling[Last(e.key)] \in prow.opts[n].names
    /\ ~(prow.opts[n].role = "Code" /\ prow.opts[n].value # "Flag")

(* A variant that looks at the rows before this one only.                  *)
CwdSensitiveEarlierParent(e) ==
  \E row \in e.row : \E p \in Parents(e) :
    /\ \E n \in 1 .. i : entries[n] = p
    /\ ~row.cwd_sensitive /\ \E prow \in p.row : prow.cwd_sensitive

CwdSensitiveParent(e) ==
  \E row \in e.row : \E p \in Parents(e) :
    ~row.cwd_sensitive /\ \E prow \in p.row : prow.cwd_sensitive

CheckRow ==
  /\ step = "Rows" /\ i <= Len(entries)
  /\ LET e == entries[i]
         repeated == \E n \in 1 .. i - 1 : entries[n].key = e.key
         kinds == When("DuplicateRow", repeated)
                    \cup When("ParentOptNotCode", ~repeated /\ ParentOptNotCode(e))
                    \cup When("CwdSensitiveParent", ~repeated /\ CwdSensitiveParent(e))
                    \cup When("OrphanRow", Len(e.key) > 1 /\ Parents(e) = {})
     IN errs' = IF e.key = <<>> THEN errs ELSE errs \cup Error(kinds, e.key)
  /\ i' = i + 1
  /\ UNCHANGED <<files, parsed, step, f, part, merged, built, loaded>>

EndRows ==
  /\ step = "Rows" /\ i > Len(entries)
  /\ step' = "Rules" /\ i' = 1
  /\ UNCHANGED <<files, parsed, f, part, merged, built, errs, loaded>>

-----------------------------------------------------------------------------
(* The entries whose key is a prefix of the rule's, or extends it.         *)
Related(key) ==
  {e \in {entries[n] : n \in DOMAIN entries} :
     e.key # <<>> /\ (IsPrefix(e.key, key) \/ IsPrefix(key, e.key))}

IdErrors(dto) ==
  When("EmptyRuleId", dto.id = "")
    \cup When("BadRuleId", dto.id = "bad id")
    \cup When("DuplicateRuleId", dto.id \notin {"", "bad id"} /\ dto.id \in seen)

RuleErrors(dto) ==
  LET rows == UNION {e.row : e \in Related(dto.key)}
      known == UNION {UNION {row.opts[n].names : n \in DOMAIN row.opts} : row \in rows}
      coded == \E row \in rows : row.key = dto.key /\ row.runs_code
      spelt == UNION {dto.opts[n] : n \in DOMAIN dto.opts}
  IN When("BadRuleKey", ~KeyOk(dto.key))
       \cup When("OptionLikeKey", HasOptionLike(dto.key) /\ ~coded)
       \cup When("DeadRule", KeyOk(dto.key) /\ Related(dto.key) = {})
       \cup When("BadRuleOpt", ~(spelt \subseteq DOMAIN Spelling))
       \cup When("UnknownRuleOpt",
                 rows # {} /\ \E s \in spelt \cap DOMAIN Spelling : Spelling[s] \notin known)
       \cup When("EmptyAlts", \E n \in DOMAIN dto.opts : dto.opts[n] = {})
       \cup When("BadTarget", ~dto.targets)

(* Rules are numbered from 0 over all files.                               *)
RuleId == i - 1

BuildRule ==
  /\ step = "Rules" /\ i <= Len(dtos) /\ RuleId <= MaxRuleId
  /\ LET dto == dtos[i]
         textErrors == When("BadText", dto.reason = "bad")
     IN /\ errs' = errs \cup Error(IdErrors(dto) \cup textErrors \cup RuleErrors(dto), dto.key)
        /\ seen' = IF dto.id \in {"", "bad id"} THEN seen ELSE seen \cup {dto.id}
        /\ rules' = IF RuleErrors(dto) # {} THEN rules
                    ELSE Append(rules, [id |-> RuleId, key |-> dto.key, opts |-> dto.opts])
        /\ ids' = Append(ids, dto.id)
        /\ reasons' = Append(reasons, IF textErrors # {} THEN "none" ELSE dto.reason)
  /\ i' = i + 1
  /\ UNCHANGED <<files, parsed, step, f, part, merged, loaded>>

TooManyRules ==
  /\ step = "Rules" /\ i <= Len(dtos) /\ RuleId > MaxRuleId
  /\ errs' = errs \cup Error(IdErrors(dtos[i]) \cup {"TooManyRules"}, dtos[i].key)
  /\ seen' = IF dtos[i].id \in {"", "bad id"} THEN seen ELSE seen \cup {dtos[i].id}
  /\ i' = i + 1
  /\ UNCHANGED <<files, parsed, step, f, part, merged, rules, ids, reasons, loaded>>

(* Nothing loads if anything is wrong; otherwise every entry has its row.  *)
Finish ==
  /\ step = "Rules" /\ i > Len(dtos)
  /\ step' = "Done"
  /\ loaded' =
       IF errs # {} THEN {}
       ELSE {[rows |-> [n \in DOMAIN entries |-> CHOOSE row \in entries[n].row : TRUE],
              rules |-> rules, ids |-> ids, reasons |-> reasons, hints |-> hints]}
  /\ UNCHANGED <<files, parsed, f, i, part, merged, built, errs>>

Done == step = "Done" /\ UNCHANGED vars

Next ==
  \/ ReadFiles \/ CannotRead \/ ParseFile \/ EndParse
  \/ ReadRow \/ ReadRules \/ ReadHint \/ NextFile \/ EndMerge
  \/ CheckRow \/ EndRows
  \/ BuildRule \/ TooManyRules \/ Finish \/ Done

Spec == Init /\ [][Next]_vars

-----------------------------------------------------------------------------
(* The answer for a rule hit: its id and its reason, found by index.       *)
RuleText(l, id) == [id |-> l.ids[id + 1], reason |-> l.reasons[id + 1]]

(* The hint for a command: the one with the longest key it starts with.    *)
HintFor(l, words) ==
  LET fit == {h \in {l.hints[n] : n \in DOMAIN l.hints} : IsPrefix(h.key, words)} IN
    {h \in fit : \A x \in fit : Len(x.key) <= Len(h.key)}

-----------------------------------------------------------------------------
All(field) == FlattenSeq([n \in DOMAIN files |-> files[n][field]])

(* The hints of one origin for a key.                                      *)
HintsOf(origin, key) ==
  {h \in UNION {{files[n].hints[m] : m \in DOMAIN files[n].hints} :
                  n \in {k \in DOMAIN files : files[k].origin = origin}} : h.key = key}

(* What is loaded is what the files say, all of it and each at its place:  *)
(* no row or rule is lost or replaced by another file's, the id and reason *)
(* shown for a hit are those of the rule that hit, and a command gets one  *)
(* hint at most, of the longest key, the user's where both have the key.   *)
LoadedIsWhatTheFilesSay ==
  \A l \in loaded :
    /\ l.rows = All("rows")
    /\ Len(l.rules) = Len(All("rules"))
    /\ \A n \in DOMAIN l.rules :
         LET dto == All("rules")[n] IN
           /\ [key |-> l.rules[n].key, opts |-> l.rules[n].opts] = [key |-> dto.key, opts |-> dto.opts]
           /\ RuleText(l, l.rules[n].id) = [id |-> dto.id, reason |-> dto.reason]
    /\ \A h \in UNION {{files[k].hints[m] : m \in DOMAIN files[k].hints} : k \in DOMAIN files} :
         {[key |-> x.key, text |-> x.text] : x \in HintFor(l, h.key)} =
           IF HintsOf("User", h.key) # {} THEN HintsOf("User", h.key) ELSE HintsOf("Embedded", h.key)

Extends(long, short) == IsPrefix(short, long) /\ long # short

(* What classification and the directory checks take for granted of a      *)
(* catalog, and the loader alone makes true across files: a key has one    *)
(* row and a row for every shorter key; a longer key never hides that the  *)
(* shorter one reads the directory, or covers what an option of the        *)
(* shorter one would run; no row covers a head that cannot be covered.     *)
LoadedRowsHideNothing ==
  \A l \in loaded : \A m \in DOMAIN l.rows :
    LET row == l.rows[m] IN
      /\ \A n \in DOMAIN l.rows : l.rows[n].key = row.key => n = m
      /\ \A n \in 1 .. Len(row.key) - 1 : \E k \in DOMAIN l.rows : l.rows[k].key = SubSeq(row.key, 1, n)
      /\ \A n \in DOMAIN l.rows :
           Extends(l.rows[n].key, row.key) /\ row.cwd_sensitive => l.rows[n].cwd_sensitive
      /\ \A n \in DOMAIN row.key :
           row.key[n] \in OptionLike =>
             /\ n = Len(row.key) /\ row.runs_code
             /\ \A k \in DOMAIN l.rows : \A o \in DOMAIN l.rows[k].opts :
                  /\ l.rows[k].key = Front(row.key)
                  /\ Spelling[row.key[n]] \in l.rows[k].opts[o].names
                  => l.rows[k].opts[o].role = "Code" /\ l.rows[k].opts[o].value # "Flag"
      /\ row.key[1] \in InexpressibleHeads => row.runs_code

(* "One bad row does not cascade into orphan and dead-rule errors": such   *)
(* an error is there only if no file that was parsed gives the key, and    *)
(* none is there when a file could not even be read.                       *)
ErrorsDoNotCascade ==
  step = "Done" =>
    LET keys == {e.key : e \in UNION {{parsed[n].rows[m] : m \in DOMAIN parsed[n].rows} :
                                        n \in DOMAIN parsed}}
    IN \A e \in errs :
         /\ Unread # {} => e.kind = "Read"
         /\ e.kind = "OrphanRow" => Front(e.key) \notin keys
         /\ e.kind = "DeadRule" =>
              \A k \in keys : KeyOk(k) => ~IsPrefix(k, e.key) /\ ~IsPrefix(e.key, k)
=============================================================================

---------------------------- MODULE ConfigProofs ----------------------------
(***************************************************************************)
(* Proofs about what is configured.  About the loader, for every list of   *)
(* files: the rows of a catalog that loads hide nothing from one another,  *)
(* however they are spread over the files, a bad row makes no error about  *)
(* a key that a file gives, and what loads is what the files say.  About   *)
(* shguard init, which writes the config file, for any number of processes *)
(* and any changes by the user: what is needed beyond the types is that a  *)
(* process only ever holds a file that init made, and no two hold the      *)
(* same.                                                                   *)
(***************************************************************************)
EXTENDS Loader, InitConfig, FoldProofs


Entry == {EntryOf(row) : row \in RowDto}

Types ==
  /\ files \in Seq(FileDto) /\ parsed \in Seq(FileDto)
  /\ step \in {"Read", "Parse", "Merge", "Rows", "Rules", "Done"}
  /\ f \in Nat \ {0} /\ i \in Nat \ {0} /\ part \in {"Rows", "Hints"}
  /\ entries \in Seq(Entry) /\ dtos \in Seq(RuleDto)

(* Until all files are parsed nothing is merged.                           *)
Beginning ==
  /\ step = "Read" => errs = {} /\ parsed = <<>>
  /\ step \in {"Read", "Parse"} => i = 1 /\ part = "Rows" /\ entries = <<>>

(* With no problem so far, every entry has its row.                        *)
IsBuilt(e) ==
  \E row \in RowDto : RowErrors(row) = {} /\ e = [key |-> row.key, row |-> {row}]

Built == errs = {} => \A n \in DOMAIN entries : IsBuilt(entries[n])

(* With no problem so far, every entry that was checked is right.          *)
EntryChecked(n) ==
  /\ \A m \in 1 .. n - 1 : entries[m].key # entries[n].key
  /\ ~ParentOptNotCode(entries[n])
  /\ ~CwdSensitiveParent(entries[n])
  /\ Len(entries[n].key) > 1 => Parents(entries[n]) # {}

Checked ==
  errs = {} /\ step \in {"Rows", "Rules", "Done"} =>
    \A n \in DOMAIN entries : step # "Rows" \/ n < i => EntryChecked(n)

(* Only a list of entries with no problem is loaded.                       *)
LoadedOK ==
  /\ step # "Done" => loaded = {}
  /\ \A l \in loaded :
       errs = {} /\ l.rows = [n \in DOMAIN entries |-> CHOOSE row \in entries[n].row : TRUE]

RowsInv == Types /\ Beginning /\ Built /\ Checked /\ LoadedOK
-----------------------------------------------------------------------------
(* What a row without problems is.                                         *)
LEMMA RightRow ==
  ASSUME NEW row \in RowDto, RowErrors(row) = {}
  PROVE  /\ KeyOk(row.key)
         /\ HasOptionLike(row.key) => row.runs_code /\ IsOptionChild(row.key)
         /\ HeadIn(row.key, InexpressibleHeads) => row.runs_code
  BY DEF RowErrors, When

(* What an entry is.                                                       *)
LEMMA EntryKeys ==
  ASSUME NEW row \in RowDto, NEW e, e = EntryOf(row)
  PROVE  /\ e.key \in Seq(STRING)
         /\ e.key # <<>> => e.key = row.key /\ KeyOk(e.key)
         /\ KeyOk(row.key) => e.key = row.key
         /\ RowErrors(row) = {} => e = [key |-> row.key, row |-> {row}]
<1>1. row.key \in Seq(STRING)
  BY DEF RowDto
<1>2. RowErrors(row) = {} => KeyOk(row.key)
  BY RightRow
<1>3. /\ e.key = IF KeyOk(row.key) THEN row.key ELSE <<>>
      /\ RowErrors(row) = {} => e = [key |-> IF KeyOk(row.key) THEN row.key ELSE <<>>, row |-> {row}]
  BY DEF EntryOf
<1>4. CASE KeyOk(row.key)
  BY <1>1, <1>3, <1>4
<1>5. CASE ~KeyOk(row.key)
  BY <1>2, <1>3, <1>5
<1> QED
  BY <1>4, <1>5

-----------------------------------------------------------------------------
(* A problem stays a problem.                                              *)
LEMMA StaysWrong == Types /\ [Next]_vars => errs = {} \/ errs' # {}
  BY DEF Next, vars, ReadFiles, CannotRead, ParseFile, EndParse, ReadRow, ReadRules, ReadHint,
         NextFile, EndMerge, CheckRow, EndRows, BuildRule, TooManyRules, Finish, Done, Error

(* The types are kept.                                                     *)
LEMMA TypesStep == Types /\ Beginning /\ [Next]_vars => Types'
<1> SUFFICES ASSUME Types, Beginning, [Next]_vars PROVE Types'
  OBVIOUS
<1>1. \A m \in DOMAIN parsed : parsed[m] \in FileDto
  BY DEF Types
<1>2. CASE ParseFile
  <2>1. files[f] \in FileDto
    BY <1>2 DEF ParseFile, Types
  <2> QED
    BY <1>2, <2>1 DEF ParseFile, Types, merged, built
<1>3. CASE ReadRow
  <2>1. parsed[f].rows \in Seq(RowDto)
    BY <1>1, <1>3 DEF ReadRow, Merging, Types, FileDto
  <2>2. parsed[f].rows[i] \in RowDto
    BY <2>1, <1>3 DEF ReadRow, Types
  <2>3. EntryOf(parsed[f].rows[i]) \in Entry
    BY <2>2 DEF Entry
  <2> QED
    BY <1>3, <2>3 DEF ReadRow, Types
<1>4. CASE ReadRules
  <2>1. parsed[f].rules \in Seq(RuleDto)
    BY <1>1, <1>4 DEF ReadRules, Merging, Types, FileDto
  <2> QED
    BY <1>4, <2>1 DEF ReadRules, Types
<1>5. CASE ReadHint
  BY <1>5 DEF ReadHint, Types
<1>6. CASE NextFile \/ EndMerge \/ EndRows
  BY <1>6 DEF NextFile, EndMerge, EndRows, Types, merged
<1>7. CASE CheckRow \/ BuildRule \/ TooManyRules
  <2>1. i' = i + 1 /\ UNCHANGED <<files, parsed, step, f, part, merged>>
    BY <1>7 DEF CheckRow, BuildRule, TooManyRules
  <2> QED
    BY <2>1 DEF Types, merged
<1>8. CASE ReadFiles \/ CannotRead \/ EndParse \/ Finish
  BY <1>8 DEF ReadFiles, CannotRead, EndParse, Finish, Types, merged
<1>9. CASE UNCHANGED vars
  BY <1>9 DEF vars, Types, cursor, merged
<1> QED
  BY <1>2, <1>3, <1>4, <1>5, <1>6, <1>7, <1>8, <1>9 DEF Next, Done

(* Nothing is merged or wrong before there is anything to merge.           *)
LEMMA BeginningStep == Types /\ Beginning /\ [Next]_vars => Beginning'
  BY DEF Types, Beginning, Next, vars, cursor, merged, ReadFiles, CannotRead, ParseFile, EndParse,
         Merging, ReadRow, ReadRules, ReadHint, NextFile, EndMerge, CheckRow, EndRows, BuildRule,
         TooManyRules, Finish, Done

(* Every step but ReadRow leaves the entries alone.                        *)
LEMMA EntriesStay ==
  ASSUME Types, [Next]_vars, ~ReadRow
  PROVE  entries' = entries
  BY DEF Next, vars, merged, ReadFiles, CannotRead, ParseFile, EndParse, ReadRules, ReadHint,
         NextFile, EndMerge, CheckRow, EndRows, BuildRule, TooManyRules, Finish, Done

(* The row that is read.                                                   *)
LEMMA TheRow ==
  ASSUME Types, ReadRow
  PROVE  \E row \in RowDto :
           /\ row = parsed[f].rows[i]
           /\ entries' = Append(entries, EntryOf(row))
           /\ errs' = errs \cup Error(RowErrors(row), row.key)
<1>1. parsed[f] \in FileDto
  BY DEF ReadRow, Merging, Types
<1>2. parsed[f].rows \in Seq(RowDto)
  BY <1>1 DEF FileDto
<1>3. parsed[f].rows[i] \in RowDto
  BY <1>2 DEF ReadRow, Types
<1> QED
  BY <1>3 DEF ReadRow

(* With no problem so far, every entry still has its row.                  *)
LEMMA BuiltStep == Types /\ Built /\ [Next]_vars => Built'
<1> SUFFICES ASSUME Types, Built, [Next]_vars, errs' = {}, NEW n \in DOMAIN entries'
             PROVE  IsBuilt(entries'[n])
  BY DEF Built, IsBuilt
<1>1. errs = {}
  BY StaysWrong
<1>2. CASE ReadRow
  <2>1. PICK row \in RowDto :
          /\ entries' = Append(entries, EntryOf(row))
          /\ errs' = errs \cup Error(RowErrors(row), row.key)
    BY <1>2, TheRow
  <2>2. RowErrors(row) = {}
    BY <2>1 DEF Error
  <2>3. IsBuilt(EntryOf(row))
    BY <2>2, EntryKeys DEF IsBuilt
  <2>4. n \in DOMAIN entries \/ entries'[n] = EntryOf(row)
    BY <2>1 DEF Types
  <2>5. n \in DOMAIN entries => entries'[n] = entries[n]
    BY <2>1 DEF Types
  <2> QED
    BY <1>1, <2>3, <2>4, <2>5 DEF Built
<1>3. CASE ~ReadRow
  BY <1>1, <1>3, EntriesStay DEF Built
<1> QED
  BY <1>2, <1>3

(* What a check found holds while the entries stay.                        *)
LEMMA CheckStays ==
  ASSUME entries' = entries, NEW n
  PROVE  EntryChecked(n)' <=> EntryChecked(n)
  BY DEF EntryChecked, ParentOptNotCode, CwdSensitiveParent, Parents

(* An entry whose check finds no problem is right.                         *)
LEMMA CheckRowChecks ==
  ASSUME Types, Built, CheckRow, errs' = {}
  PROVE  EntryChecked(i)
<1>1. i \in DOMAIN entries
  BY DEF CheckRow, Types
<1>2. PICK e : e = entries[i]
  OBVIOUS
<1>3. errs = {}
  BY StaysWrong DEF Next
<1>4. e.key # <<>>
  <2>1. PICK row \in RowDto : RowErrors(row) = {} /\ e = [key |-> row.key, row |-> {row}]
    BY <1>1, <1>2, <1>3 DEF Built, IsBuilt
  <2> QED
    BY <2>1, RightRow DEF KeyOk
<1>5. PICK repeated, kinds :
        /\ repeated = (\E n \in 1 .. i - 1 : entries[n].key = e.key)
        /\ kinds = When("DuplicateRow", repeated)
                     \cup When("ParentOptNotCode", ~repeated /\ ParentOptNotCode(e))
                     \cup When("CwdSensitiveParent", ~repeated /\ CwdSensitiveParent(e))
                     \cup When("OrphanRow", Len(e.key) > 1 /\ Parents(e) = {})
  OBVIOUS
<1>6. errs' = errs \cup Error(kinds, e.key)
  BY <1>2, <1>4, <1>5 DEF CheckRow
<1>7. kinds = {}
  BY <1>6 DEF Error
<1>8. ~repeated /\ ~ParentOptNotCode(e) /\ ~CwdSensitiveParent(e) /\ ~(Len(e.key) > 1 /\ Parents(e) = {})
  BY <1>5, <1>7 DEF When
<1> QED
  BY <1>2, <1>5, <1>8 DEF EntryChecked

(* With no problem so far, what was checked is right.                      *)
LEMMA CheckedStep == Types /\ Built /\ Checked /\ [Next]_vars => Checked'
<1> SUFFICES ASSUME Types, Built, Checked, [Next]_vars, errs' = {},
                    step' \in {"Rows", "Rules", "Done"}, NEW n \in DOMAIN entries',
                    step' # "Rows" \/ n < i'
             PROVE  EntryChecked(n)'
  BY DEF Checked
<1>1. errs = {}
  BY StaysWrong
<1>2. ~ReadRow /\ entries' = entries /\ n \in DOMAIN entries /\ n \in Nat \ {0} /\ i \in Nat
  <2>1. ~ReadRow
    BY DEF ReadRow, Merging
  <2> QED
    BY <2>1, EntriesStay DEF Types
<1>3. CASE CheckRow
  <2>1. step = "Rows" /\ step' = "Rows" /\ i' = i + 1
    BY <1>3 DEF CheckRow
  <2>2. n < i \/ n = i
    BY <1>2, <2>1
  <2>3. EntryChecked(n)
    BY <1>1, <1>2, <1>3, <2>1, <2>2, CheckRowChecks DEF Checked
  <2> QED
    BY <1>2, <2>3, CheckStays
<1>4. CASE ~CheckRow
  <2>1. step \in {"Rows", "Rules", "Done"} /\ (step # "Rows" \/ n < i)
    <3>1. ~CannotRead
      BY DEF CannotRead, Error
    <3>2. CASE EndMerge
      BY <1>2, <3>2 DEF EndMerge
    <3>3. CASE EndRows
      BY <1>2, <3>3 DEF EndRows, Types
    <3>4. CASE Finish
      BY <3>4 DEF Finish
    <3>5. CASE ~EndMerge /\ ~EndRows /\ ~Finish
      <4>1. step' = step \/ step' \notin {"Rows", "Rules", "Done"}
        BY <1>2, <1>4, <3>1, <3>5
        DEF Next, vars, cursor, ReadFiles, ParseFile, EndParse, ReadRules, ReadHint, NextFile,
            BuildRule, TooManyRules, Done
      <4>2. step # "Rows" \/ i' = i
        BY <1>2, <1>4, <3>1, <3>5
        DEF Next, vars, cursor, ReadFiles, ParseFile, EndParse, Merging, ReadRules, ReadHint, NextFile,
            BuildRule, TooManyRules, Done
      <4> QED
        BY <4>1, <4>2
    <3> QED
      BY <3>2, <3>3, <3>4, <3>5
  <2>2. EntryChecked(n)
    BY <1>1, <1>2, <2>1 DEF Checked
  <2> QED
    BY <1>2, <2>2, CheckStays
<1> QED
  BY <1>3, <1>4

(* What is loaded was found without a problem.                             *)
LEMMA LoadedStep == Types /\ LoadedOK /\ [Next]_vars => LoadedOK'
<1> SUFFICES ASSUME Types, LoadedOK, [Next]_vars PROVE LoadedOK'
  OBVIOUS
<1>1. CASE Finish
  <2>1. step' = "Done" /\ errs' = errs /\ entries' = entries
    BY <1>1 DEF Finish, merged
  <2>2. \A l \in loaded' :
          errs = {} /\ l.rows = [n \in DOMAIN entries |-> CHOOSE row \in entries[n].row : TRUE]
    <3>1. CASE errs # {}
      BY <1>1, <3>1 DEF Finish
    <3>2. CASE errs = {}
      <4>1. PICK rs : rs = [n \in DOMAIN entries |-> CHOOSE row \in entries[n].row : TRUE]
        OBVIOUS
      <4>2. loaded' = {[rows |-> rs, rules |-> rules, ids |-> ids, reasons |-> reasons, hints |-> hints]}
        BY <1>1, <3>2, <4>1 DEF Finish
      <4> QED
        BY <3>2, <4>1, <4>2
    <3> QED
      BY <3>1, <3>2
  <2> QED
    BY <2>1, <2>2 DEF LoadedOK
<1>2. CASE CannotRead
  BY <1>2 DEF CannotRead, LoadedOK
<1>3. CASE Done \/ UNCHANGED vars
  BY <1>3 DEF Done, vars, cursor, merged, LoadedOK
<1>4. CASE ~Finish /\ ~CannotRead /\ ~(Done \/ UNCHANGED vars)
  <2>1. step # "Done" /\ step' # "Done" /\ loaded' = loaded
    BY <1>4 DEF Next, vars, ReadFiles, ParseFile, EndParse, Merging, ReadRow, ReadRules, ReadHint,
                NextFile, EndMerge, CheckRow, EndRows, BuildRule, TooManyRules
  <2> QED
    BY <2>1 DEF LoadedOK
<1> QED
  BY <1>1, <1>2, <1>3, <1>4

-----------------------------------------------------------------------------
(* The invariant holds in every state.                                     *)
THEOREM RowsCorrect == Spec => []RowsInv
<1>1. Init => RowsInv
  <2>1. Init => files \in Seq(FileDto)
    BY FilesAssumption DEF Init
  <2> QED
    BY <2>1 DEF Init, RowsInv, Types, Beginning, Built, Checked, LoadedOK
<1>2. RowsInv /\ [Next]_vars => RowsInv'
  BY TypesStep, BeginningStep, BuiltStep, CheckedStep, LoadedStep DEF RowsInv
<1> QED
  BY <1>1, <1>2, PTL DEF Spec

-----------------------------------------------------------------------------
(* Keys.                                                                   *)

(* The beginning of a key, byte by byte.                                   *)
LEMMA Beginnings ==
  ASSUME NEW s \in Seq(STRING), NEW n \in 0 .. Len(s), NEW t, t = SubSeq(s, 1, n)
  PROVE  /\ t \in Seq(STRING) /\ Len(t) = n
         /\ \A p \in 1 .. n : t[p] = s[p]
  OBVIOUS

(* Beginnings of beginnings are beginnings.                                *)
LEMMA FrontOfBeginning ==
  ASSUME NEW s \in Seq(STRING), NEW n \in 1 .. Len(s)
  PROVE  Front(SubSeq(s, 1, n)) = SubSeq(s, 1, n - 1)
<1>1. PICK t, x, y : t = SubSeq(s, 1, n) /\ x = SubSeq(t, 1, n - 1) /\ y = SubSeq(s, 1, n - 1)
  OBVIOUS
<1>2. t \in Seq(STRING) /\ Len(t) = n /\ \A p \in 1 .. n : t[p] = s[p]
  BY <1>1, Beginnings
<1>3. x \in Seq(STRING) /\ Len(x) = n - 1 /\ \A p \in 1 .. n - 1 : x[p] = t[p]
  BY <1>1, <1>2, Beginnings
<1>4. y \in Seq(STRING) /\ Len(y) = n - 1 /\ \A p \in 1 .. n - 1 : y[p] = s[p]
  BY <1>1, Beginnings
<1>5. x = y
  BY <1>2, <1>3, <1>4, SeqEqual
<1> QED
  BY <1>1, <1>2, <1>5 DEF Front

(* A key that extends another is longer, and without its last segment it   *)
(* is the other or still extends it.                                       *)
LEMMA FrontExtends ==
  ASSUME NEW s \in Seq(STRING), NEW long \in Seq(STRING), Extends(long, s), s # <<>>
  PROVE  /\ Len(long) > 1
         /\ Front(long) \in Seq(STRING) /\ Len(Front(long)) = Len(long) - 1
         /\ Front(long) = s \/ Extends(Front(long), s)
<1>1. PICK a, b : a = SubSeq(s, 1, Len(s)) /\ b = SubSeq(long, 1, Len(s))
  OBVIOUS
<1>2. Len(s) <= Len(long) /\ a = b /\ long # s /\ Len(s) \in Nat \ {0} /\ Len(long) \in Nat
  BY <1>1 DEF Extends, IsPrefix
<1>3. \A p \in 1 .. Len(s) : a[p] = s[p] /\ b[p] = long[p]
  BY <1>1, <1>2, Beginnings
<1>4. \A p \in 1 .. Len(s) : s[p] = long[p]
  BY <1>2, <1>3
<1>5. Len(s) < Len(long)
  BY <1>2, <1>4, SeqEqual
<1>6. PICK fr : fr = Front(long)
  OBVIOUS
<1>7. fr \in Seq(STRING) /\ Len(fr) = Len(long) - 1 /\ \A p \in 1 .. Len(fr) : fr[p] = long[p]
  BY <1>2, <1>5, <1>6, Beginnings DEF Front
<1>8. PICK c : c = SubSeq(fr, 1, Len(s))
  OBVIOUS
<1>9. c \in Seq(STRING) /\ Len(c) = Len(s) /\ \A p \in 1 .. Len(s) : c[p] = fr[p]
  BY <1>2, <1>5, <1>7, <1>8, Beginnings
<1>10. a \in Seq(STRING) /\ Len(a) = Len(s)
  BY <1>1, <1>2, Beginnings
<1>11. \A p \in 1 .. Len(s) : a[p] = c[p]
  BY <1>2, <1>3, <1>4, <1>5, <1>7, <1>9
<1>12. a = c
  BY <1>9, <1>10, <1>11, SeqEqual
<1> QED
  BY <1>1, <1>2, <1>5, <1>6, <1>7, <1>8, <1>12 DEF Extends, IsPrefix

-----------------------------------------------------------------------------
(* The rows of a catalog that loads.                                       *)

(* Each is the one row of its entry, with no problem and checked.          *)
LEMMA LoadedRow ==
  ASSUME RowsInv, NEW l \in loaded
  PROVE  /\ DOMAIN l.rows = DOMAIN entries
         /\ \A n \in DOMAIN entries :
              /\ l.rows[n] \in RowDto /\ RowErrors(l.rows[n]) = {}
              /\ entries[n] = [key |-> l.rows[n].key, row |-> {l.rows[n]}]
              /\ EntryChecked(n)
<1>1. /\ errs = {} /\ step = "Done"
      /\ l.rows = [n \in DOMAIN entries |-> CHOOSE row \in entries[n].row : TRUE]
  BY DEF RowsInv, LoadedOK
<1>2. SUFFICES ASSUME NEW n \in DOMAIN entries
               PROVE  /\ l.rows[n] \in RowDto /\ RowErrors(l.rows[n]) = {}
                      /\ entries[n] = [key |-> l.rows[n].key, row |-> {l.rows[n]}]
                      /\ EntryChecked(n)
  BY <1>1
<1>3. PICK row \in RowDto : RowErrors(row) = {} /\ entries[n] = [key |-> row.key, row |-> {row}]
  BY <1>1 DEF RowsInv, Built, IsBuilt
<1>4. l.rows[n] = row
  BY <1>1, <1>3
<1>5. EntryChecked(n)
  BY <1>1 DEF RowsInv, Checked
<1> QED
  BY <1>3, <1>4, <1>5

(* Keys, the row of the shorter key, and what was checked of the two.      *)
LEMMA LoadedKeys ==
  ASSUME RowsInv, NEW l \in loaded
  PROVE  /\ DOMAIN l.rows \subseteq Nat
         /\ \A n \in DOMAIN l.rows : l.rows[n].key \in Seq(STRING) \ {<<>>}
         /\ \A m, n \in DOMAIN l.rows : l.rows[m].key = l.rows[n].key => m = n
<1>1. DOMAIN l.rows = DOMAIN entries /\ DOMAIN entries \subseteq Nat
  BY LoadedRow DEF RowsInv, Types
<1>2. \A n \in DOMAIN l.rows : l.rows[n].key \in Seq(STRING) \ {<<>>}
  BY <1>1, LoadedRow, RightRow DEF RowDto, KeyOk
<1>3. \A n \in DOMAIN l.rows : entries[n].key = l.rows[n].key /\ EntryChecked(n)
  BY <1>1, LoadedRow
<1>4. \A m, n \in DOMAIN l.rows : m < n => l.rows[m].key # l.rows[n].key
  <2>1. SUFFICES ASSUME NEW m \in DOMAIN l.rows, NEW n \in DOMAIN l.rows, m < n
                 PROVE  l.rows[m].key # l.rows[n].key
    OBVIOUS
  <2>2. entries[m].key = l.rows[m].key /\ entries[n].key = l.rows[n].key
    BY <1>3
  <2>3. DOMAIN l.rows = 1 .. Len(entries) /\ Len(entries) \in Nat
    BY <1>1 DEF RowsInv, Types
  <2>4. m \in 1 .. n - 1
    BY <2>1, <2>3
  <2>5. entries[m].key # entries[n].key
    BY <1>3, <2>4 DEF EntryChecked
  <2> QED
    BY <2>2, <2>5
<1> QED
  BY <1>1, <1>2, <1>4

(* A row with a key of several segments has the row of the shorter key,    *)
(* which reads no directory unless it does.                                *)
LEMMA ParentRow ==
  ASSUME RowsInv, NEW l \in loaded, NEW n \in DOMAIN l.rows, Len(l.rows[n].key) > 1
  PROVE  /\ \E m \in DOMAIN l.rows : l.rows[m].key = Front(l.rows[n].key)
         /\ \A m \in DOMAIN l.rows :
              l.rows[m].key = Front(l.rows[n].key) =>
                /\ entries[m] \in Parents(entries[n])
                /\ l.rows[m].cwd_sensitive => l.rows[n].cwd_sensitive
<1>1. /\ DOMAIN l.rows = DOMAIN entries
      /\ \A m \in DOMAIN entries :
           entries[m].key = l.rows[m].key /\ entries[m].row = {l.rows[m]} /\ EntryChecked(m)
  BY LoadedRow
<1>2. l.rows[n].key \in Seq(STRING) /\ Len(l.rows[n].key) \in Nat
  BY LoadedKeys
<1>3. Parents(entries[n]) = {p \in {entries[m] : m \in DOMAIN entries} : p.key = Front(l.rows[n].key)}
  BY <1>1, <1>2 DEF Parents
<1>4. Parents(entries[n]) # {} /\ ~CwdSensitiveParent(entries[n])
  BY <1>1 DEF EntryChecked
<1>5. \E m \in DOMAIN l.rows : l.rows[m].key = Front(l.rows[n].key)
  BY <1>1, <1>3, <1>4
<1>6. SUFFICES ASSUME NEW m \in DOMAIN l.rows, l.rows[m].key = Front(l.rows[n].key)
               PROVE  /\ entries[m] \in Parents(entries[n])
                      /\ l.rows[m].cwd_sensitive => l.rows[n].cwd_sensitive
  BY <1>5
<1>7. entries[m] \in Parents(entries[n])
  BY <1>1, <1>3, <1>6
<1> QED
  BY <1>1, <1>4, <1>7 DEF CwdSensitiveParent

(* Every beginning of a loaded key has a row.                              *)
LEMMA EveryBeginningHasARow ==
  ASSUME RowsInv, NEW l \in loaded, NEW m \in DOMAIN l.rows, NEW n \in 1 .. Len(l.rows[m].key) - 1
  PROVE  \E k \in DOMAIN l.rows : l.rows[k].key = SubSeq(l.rows[m].key, 1, n)
<1>1. PICK key : key = l.rows[m].key
  OBVIOUS
<1>2. key \in Seq(STRING) /\ Len(key) \in Nat
  BY <1>1, LoadedKeys
<1> DEFINE Has(d) == \E k \in DOMAIN l.rows : l.rows[k].key = SubSeq(key, 1, Len(key) - d)
           Missing == {d \in 0 .. Len(key) - 1 : ~Has(d)}
<1>3. Has(0)
  BY <1>1, <1>2, SubSeqFull
<1>4. \A d \in 1 .. Len(key) - 1 : Has(d - 1) => Has(d)
  <2>1. SUFFICES ASSUME NEW d \in 1 .. Len(key) - 1, NEW k \in DOMAIN l.rows,
                        l.rows[k].key = SubSeq(key, 1, Len(key) - (d - 1))
                 PROVE  Has(d)
    OBVIOUS
  <2>2. PICK c : c = Len(key) - (d - 1)
    OBVIOUS
  <2>3. c \in 2 .. Len(key) /\ c - 1 = Len(key) - d
    BY <1>2, <2>2
  <2>4. Len(l.rows[k].key) = c
    BY <1>2, <2>1, <2>2, <2>3, Beginnings
  <2>5. Front(l.rows[k].key) = SubSeq(key, 1, c - 1)
    BY <1>2, <2>1, <2>2, <2>3, FrontOfBeginning
  <2>6. \E p \in DOMAIN l.rows : l.rows[p].key = Front(l.rows[k].key)
    BY <2>3, <2>4, ParentRow
  <2> QED
    BY <2>3, <2>5, <2>6
<1> HIDE DEF Has
<1>5. Missing = {}
  <2>1. SUFFICES ASSUME Missing # {} PROVE FALSE
    OBVIOUS
  <2>2. Missing \in SUBSET Nat
    BY <1>2
  <2>3. PICK d \in Missing : \A x \in Missing : d <= x
    BY <2>1, <2>2, Least
  <2>4. d # 0 /\ d \in 0 .. Len(key) - 1 /\ ~Has(d)
    BY <1>3, <2>3
  <2>5. d - 1 \notin Missing /\ d - 1 \in 0 .. Len(key) - 1
    BY <1>2, <2>2, <2>3, <2>4
  <2> QED
    BY <1>2, <1>4, <2>4, <2>5
<1>6. n \in 1 .. Len(key) - 1
  BY <1>1
<1>7. Len(key) - n \in 0 .. Len(key) - 1 /\ Len(key) - (Len(key) - n) = n
  BY <1>2, <1>6
<1>8. Has(Len(key) - n)
  BY <1>5, <1>7
<1> QED
  BY <1>1, <1>7, <1>8 DEF Has

(* A longer key's row reads the directory if a shorter key's does.         *)
LEMMA LongerKeepsTheDirectory ==
  ASSUME RowsInv, NEW l \in loaded, NEW m \in DOMAIN l.rows, NEW n \in DOMAIN l.rows,
         Extends(l.rows[n].key, l.rows[m].key), l.rows[m].cwd_sensitive
  PROVE  l.rows[n].cwd_sensitive
<1> DEFINE Bad == {k \in DOMAIN l.rows : Extends(l.rows[k].key, l.rows[m].key) /\ ~l.rows[k].cwd_sensitive}
           Lengths == {Len(l.rows[k].key) : k \in Bad}
<1>1. \A k \in DOMAIN l.rows : l.rows[k].key \in Seq(STRING) \ {<<>>} /\ Len(l.rows[k].key) \in Nat
  BY LoadedKeys
<1>2. SUFFICES ASSUME n \in Bad PROVE FALSE
  OBVIOUS
<1>3. Lengths \in SUBSET Nat /\ Lengths # {}
  BY <1>1, <1>2
<1>4. PICK least \in Lengths : \A x \in Lengths : least <= x
  BY <1>3, Least
<1>5. PICK k \in Bad : Len(l.rows[k].key) = least
  BY <1>4
<1>6. /\ Len(l.rows[k].key) > 1 /\ Len(Front(l.rows[k].key)) = Len(l.rows[k].key) - 1
      /\ Front(l.rows[k].key) = l.rows[m].key \/ Extends(Front(l.rows[k].key), l.rows[m].key)
  BY <1>1, <1>5, FrontExtends
<1>7. PICK p \in DOMAIN l.rows : l.rows[p].key = Front(l.rows[k].key)
  BY <1>5, <1>6, ParentRow
<1>8. l.rows[p].cwd_sensitive => l.rows[k].cwd_sensitive
  BY <1>5, <1>6, <1>7, ParentRow
<1>9. CASE l.rows[p].key = l.rows[m].key
  <2>1. p = m
    BY <1>9, LoadedKeys
  <2> QED
    BY <1>5, <1>8, <2>1
<1>10. CASE Extends(l.rows[p].key, l.rows[m].key)
  <2>1. p \notin Bad
    BY <1>1, <1>4, <1>5, <1>6, <1>7
  <2> QED
    BY <1>5, <1>8, <1>10, <2>1
<1> QED
  BY <1>6, <1>7, <1>9, <1>10

(* A segment that looks like an option is the last one of a row that runs  *)
(* code, and the shorter key's row has it as code, if at all.              *)
LEMMA OptionRowsRunCode ==
  ASSUME RowsInv, NEW l \in loaded, NEW m \in DOMAIN l.rows, NEW n \in DOMAIN l.rows[m].key,
         l.rows[m].key[n] \in OptionLike
  PROVE  /\ n = Len(l.rows[m].key) /\ l.rows[m].runs_code
         /\ \A k \in DOMAIN l.rows : \A o \in DOMAIN l.rows[k].opts :
              /\ l.rows[k].key = Front(l.rows[m].key)
              /\ Spelling[l.rows[m].key[n]] \in l.rows[k].opts[o].names
              => l.rows[k].opts[o].role = "Code" /\ l.rows[k].opts[o].value # "Flag"
<1>1. PICK key : key = l.rows[m].key
  OBVIOUS
<1>2. key \in Seq(STRING) /\ Len(key) \in Nat \ {0} /\ n \in 1 .. Len(key) /\ key[n] \in OptionLike
  BY <1>1, LoadedKeys
<1>3. /\ DOMAIN l.rows = DOMAIN entries
      /\ \A k \in DOMAIN entries :
           entries[k].key = l.rows[k].key /\ entries[k].row = {l.rows[k]} /\ EntryChecked(k)
  BY LoadedRow
<1>4. l.rows[m].runs_code /\ IsOptionChild(key)
  <2>1. l.rows[m] \in RowDto /\ RowErrors(l.rows[m]) = {}
    BY LoadedRow
  <2>2. HasOptionLike(key)
    BY <1>2 DEF HasOptionLike
  <2> QED
    BY <1>1, <2>1, <2>2, RightRow
<1>5. n = Len(key)
  <2>1. Len(key) - 1 \in 0 .. Len(key)
    BY <1>2
  <2>2. PICK fr : fr = SubSeq(key, 1, Len(key) - 1)
    OBVIOUS
  <2>3. fr \in Seq(STRING) /\ Len(fr) = Len(key) - 1 /\ \A p \in 1 .. Len(key) - 1 : fr[p] = key[p]
    <3>1. PICK q : q = Len(key) - 1
      OBVIOUS
    <3>2. q \in 0 .. Len(key) /\ fr = SubSeq(key, 1, q)
      BY <2>1, <2>2, <3>1
    <3>3. fr \in Seq(STRING) /\ Len(fr) = q /\ \A p \in 1 .. q : fr[p] = key[p]
      BY <1>2, <3>2, Beginnings
    <3> QED
      BY <3>1, <3>3
  <2>4. \A p \in DOMAIN fr : fr[p] \notin OptionLike
    BY <1>4, <2>2 DEF IsOptionChild, HasOptionLike, Front
  <2> QED
    BY <1>2, <2>3, <2>4
<1>6. Last(key) = key[n] /\ key[n] \in DOMAIN Spelling
  BY <1>4, <1>5 DEF IsOptionChild, Last
<1>7. SUFFICES ASSUME NEW k \in DOMAIN l.rows, NEW o \in DOMAIN l.rows[k].opts,
                      l.rows[k].key = Front(key), Spelling[key[n]] \in l.rows[k].opts[o].names
               PROVE  l.rows[k].opts[o].role = "Code" /\ l.rows[k].opts[o].value # "Flag"
  BY <1>1, <1>4, <1>5
<1>8. Len(key) > 1
  <2>1. Len(key) - 1 \in 0 .. Len(key)
    BY <1>2
  <2>2. Len(Front(key)) = Len(key) - 1
    BY <1>2, <2>1, Beginnings DEF Front
  <2>3. Len(l.rows[k].key) > 0
    BY LoadedKeys
  <2> QED
    BY <1>2, <1>7, <2>2, <2>3
<1>9. entries[k] \in Parents(entries[m])
  BY <1>1, <1>7, <1>8, ParentRow
<1>10. ~ParentOptNotCode(entries[m])
  BY <1>3 DEF EntryChecked
<1> QED
  BY <1>1, <1>3, <1>4, <1>6, <1>7, <1>9, <1>10 DEF ParentOptNotCode

(* What a catalog that loads promises to classification, for every list of *)
(* files: one row per key, a row for every beginning of a key, and no      *)
(* longer key that hides what a shorter one says.                          *)
THEOREM LoadedRowsHideNothingAlways == Spec => []LoadedRowsHideNothing
<1>1. RowsInv => LoadedRowsHideNothing
  <2>1. SUFFICES ASSUME RowsInv, NEW l \in loaded, NEW m \in DOMAIN l.rows
                 PROVE  /\ \A n \in DOMAIN l.rows : l.rows[n].key = l.rows[m].key => n = m
                        /\ \A n \in 1 .. Len(l.rows[m].key) - 1 :
                             \E k \in DOMAIN l.rows : l.rows[k].key = SubSeq(l.rows[m].key, 1, n)
                        /\ \A n \in DOMAIN l.rows :
                             Extends(l.rows[n].key, l.rows[m].key) /\ l.rows[m].cwd_sensitive
                               => l.rows[n].cwd_sensitive
                        /\ \A n \in DOMAIN l.rows[m].key :
                             l.rows[m].key[n] \in OptionLike =>
                               /\ n = Len(l.rows[m].key) /\ l.rows[m].runs_code
                               /\ \A k \in DOMAIN l.rows : \A o \in DOMAIN l.rows[k].opts :
                                    /\ l.rows[k].key = Front(l.rows[m].key)
                                    /\ Spelling[l.rows[m].key[n]] \in l.rows[k].opts[o].names
                                    => l.rows[k].opts[o].role = "Code" /\ l.rows[k].opts[o].value # "Flag"
                        /\ l.rows[m].key[1] \in InexpressibleHeads => l.rows[m].runs_code
    BY Zenon DEF LoadedRowsHideNothing
  <2>2. l.rows[m].key[1] \in InexpressibleHeads => l.rows[m].runs_code
    <3>1. l.rows[m] \in RowDto /\ RowErrors(l.rows[m]) = {} /\ l.rows[m].key # <<>>
      BY <2>1, LoadedRow, LoadedKeys
    <3> QED
      BY <3>1, RightRow DEF HeadIn
  <2>3. \A n \in DOMAIN l.rows : l.rows[n].key = l.rows[m].key => n = m
    BY <2>1, LoadedKeys
  <2>4. \A n \in 1 .. Len(l.rows[m].key) - 1 :
          \E k \in DOMAIN l.rows : l.rows[k].key = SubSeq(l.rows[m].key, 1, n)
    BY <2>1, EveryBeginningHasARow
  <2>5. \A n \in DOMAIN l.rows :
          Extends(l.rows[n].key, l.rows[m].key) /\ l.rows[m].cwd_sensitive => l.rows[n].cwd_sensitive
    BY <2>1, LongerKeepsTheDirectory
  <2>6. SUFFICES ASSUME NEW n \in DOMAIN l.rows[m].key, l.rows[m].key[n] \in OptionLike
                 PROVE  /\ n = Len(l.rows[m].key) /\ l.rows[m].runs_code
                        /\ \A k \in DOMAIN l.rows : \A o \in DOMAIN l.rows[k].opts :
                             /\ l.rows[k].key = Front(l.rows[m].key)
                             /\ Spelling[l.rows[m].key[n]] \in l.rows[k].opts[o].names
                             => l.rows[k].opts[o].role = "Code" /\ l.rows[k].opts[o].value # "Flag"
    BY <2>2, <2>3, <2>4, <2>5, Zenon
  <2> QED
    BY <2>1, <2>6, OptionRowsRunCode, Zenon
<1> QED
  BY <1>1, RowsCorrect, PTL

-----------------------------------------------------------------------------
(* Errors.                                                                 *)

(* Row r of file m was read.                                               *)
Passed(m, r) ==
  \/ step \in {"Rows", "Rules", "Done"}
  \/ step = "Merge" /\ m < f
  \/ step = "Merge" /\ m = f /\ (part = "Hints" \/ r < i)

(* Every row that was read has its entry.                                  *)
RowsMerged ==
  \A m \in DOMAIN parsed : \A r \in DOMAIN parsed[m].rows :
    Passed(m, r) => \E n \in DOMAIN entries : entries[n] = EntryOf(parsed[m].rows[r])

(* Nothing is merged unless every file was read.                           *)
ReadFirst ==
  /\ step \in {"Parse", "Merge", "Rows", "Rules"} => Unread = {}
  /\ step = "Done" /\ Unread # {} => \A e \in errs : e.kind = "Read"

Orphan(key) ==
  /\ step \in {"Rows", "Rules", "Done"} /\ key \in Seq(STRING) /\ KeyOk(key) /\ Len(key) > 1
  /\ \A n \in DOMAIN entries : entries[n].key # Front(key)

Dead(key) ==
  /\ step \in {"Rules", "Done"}
  /\ \A n \in DOMAIN entries :
       entries[n].key # <<>> => ~IsPrefix(entries[n].key, key) /\ ~IsPrefix(key, entries[n].key)

(* The errors that speak of other rows are true.                           *)
Blamed ==
  \A e \in errs : (e.kind = "OrphanRow" => Orphan(e.key)) /\ (e.kind = "DeadRule" => Dead(e.key))

ErrorsInv == Types /\ Beginning /\ RowsMerged /\ ReadFirst /\ Blamed

(* What is wrong with a row, a hint or a rule in itself is of another kind.*)
LEMMA OwnKinds ==
  /\ \A row : {"OrphanRow", "DeadRule"} \cap RowErrors(row) = {}
  /\ \A h, o : {"OrphanRow", "DeadRule"} \cap HintErrors(h, o) = {}
  /\ \A dto : {"OrphanRow", "DeadRule"} \cap IdErrors(dto) = {}
  /\ \A dto : "OrphanRow" \notin RuleErrors(dto)
<1>1. \A row : {"OrphanRow", "DeadRule"} \cap OptErrors(row) = {}
  BY DEF OptErrors, When
<1>2. \A row : {"OrphanRow", "DeadRule"} \cap RowErrors(row) = {}
  BY <1>1 DEF RowErrors, When
<1>3. \A h, o : {"OrphanRow", "DeadRule"} \cap HintErrors(h, o) = {}
  BY DEF HintErrors, When
<1>4. \A dto : {"OrphanRow", "DeadRule"} \cap IdErrors(dto) = {}
  BY DEF IdErrors, When
<1>5. \A dto : "OrphanRow" \notin RuleErrors(dto)
  BY DEF RuleErrors, When
<1> QED
  BY <1>2, <1>3, <1>4, <1>5

(* A rule is called dead only if no entry is related to its key.           *)
LEMMA DeadRuleUnrelated ==
  ASSUME NEW dto, "DeadRule" \in RuleErrors(dto)
  PROVE  Related(dto.key) = {}
  BY DEF RuleErrors, When

(* No row that was read is left out.                                       *)
LEMMA RowsMergedStep == Types /\ Beginning /\ RowsMerged /\ [Next]_vars => RowsMerged'
<1> SUFFICES ASSUME Types, Beginning, RowsMerged, [Next]_vars,
                    NEW m \in DOMAIN parsed', NEW r \in DOMAIN parsed'[m].rows, Passed(m, r)'
             PROVE  \E n \in DOMAIN entries' : entries'[n] = EntryOf(parsed'[m].rows[r])
  BY DEF RowsMerged, EntryOf, KeyOk, RowErrors, HasOptionLike, IsOptionChild, HeadIn, When, OptErrors
<1>1. CASE ReadRow
  <2>1. PICK row \in RowDto : row = parsed[f].rows[i] /\ entries' = Append(entries, EntryOf(row))
    BY <1>1, TheRow
  <2>2. parsed' = parsed /\ step = "Merge" /\ step' = "Merge" /\ f' = f /\ part' = part /\ i' = i + 1
        /\ part = "Rows"
    BY <1>1 DEF ReadRow, Merging
  <2>3. CASE m = f /\ r = i
    <3>1. Len(entries) + 1 \in DOMAIN entries' /\ entries'[Len(entries) + 1] = EntryOf(row)
      BY <2>1 DEF Types
    <3> QED
      BY <2>1, <2>2, <2>3, <3>1
  <2>4. CASE ~(m = f /\ r = i)
    <3>1. m \in DOMAIN parsed /\ r \in DOMAIN parsed[m].rows /\ m \in Nat /\ r \in Nat
      <4>1. parsed[m] \in FileDto
        BY <2>2 DEF Types
      <4>2. parsed[m].rows \in Seq(RowDto)
        BY <4>1 DEF FileDto
      <4> QED
        BY <2>2, <4>2 DEF Types
    <3>2. Passed(m, r)
      BY <2>2, <2>4, <3>1 DEF Passed, Types
    <3>3. PICK n \in DOMAIN entries : entries[n] = EntryOf(parsed[m].rows[r])
      BY <3>1, <3>2 DEF RowsMerged
    <3>4. n \in DOMAIN entries' /\ entries'[n] = entries[n]
      BY <2>1 DEF Types
    <3> QED
      BY <2>2, <3>3, <3>4
  <2> QED
    BY <2>3, <2>4
<1>2. CASE ~ReadRow
  <2>1. entries' = entries
    BY <1>2, EntriesStay
  <2>2. m \in DOMAIN parsed /\ r \in DOMAIN parsed[m].rows /\ parsed'[m] = parsed[m] /\ Passed(m, r)
    <3>1. CASE ParseFile
      BY <3>1 DEF ParseFile, Passed
    <3>2. CASE CannotRead
      BY <3>2 DEF CannotRead, Beginning
    <3>3. CASE ReadFiles \/ EndParse
      <4>1. parsed' = parsed /\ f' = IF EndParse THEN 1 ELSE f
        BY <3>3 DEF ReadFiles, EndParse
      <4>2. parsed[m] \in FileDto
        BY <4>1 DEF Types
      <4>3. m \in Nat \ {0} /\ r \in Nat \ {0}
        BY <4>1, <4>2 DEF Types, FileDto
      <4> QED
        BY <3>3, <4>3 DEF ReadFiles, EndParse, Passed, Beginning
    <3>4. CASE ReadRules
      <4>1. parsed[m] \in FileDto /\ parsed' = parsed
        BY <3>4 DEF ReadRules, Types
      <4>2. r \in 1 .. Len(parsed[m].rows) /\ Len(parsed[m].rows) \in Nat
        BY <4>1 DEF FileDto
      <4> QED
        BY <3>4, <4>1, <4>2 DEF ReadRules, Merging, Passed, Types
    <3>5. CASE ReadHint
      BY <3>5 DEF ReadHint, Merging, Passed, Types
    <3>6. CASE NextFile
      <4>1. parsed[m] \in FileDto /\ parsed' = parsed
        BY <3>6 DEF NextFile, Types
      <4>2. r \in Nat \ {0} /\ m \in Nat
        BY <4>1 DEF FileDto, Types
      <4> QED
        BY <3>6, <4>1, <4>2 DEF NextFile, Merging, Passed, Types
    <3>7. CASE EndMerge
      BY <3>7 DEF EndMerge, Passed, Types
    <3>8. CASE CheckRow \/ EndRows \/ BuildRule \/ TooManyRules \/ Finish
      BY <3>8 DEF CheckRow, EndRows, BuildRule, TooManyRules, Finish, Passed
    <3>9. CASE UNCHANGED vars
      BY <3>9 DEF vars, cursor, Passed
    <3> QED
      BY <1>2, <3>1, <3>2, <3>3, <3>4, <3>5, <3>6, <3>7, <3>8, <3>9 DEF Next, Done
  <2> QED
    BY <2>1, <2>2 DEF RowsMerged
<1> QED
  BY <1>1, <1>2

(* Files are read before anything else is done with them.                  *)
LEMMA ReadFirstStep == Types /\ Beginning /\ ReadFirst /\ [Next]_vars => ReadFirst'
<1> SUFFICES ASSUME Types, Beginning, ReadFirst, [Next]_vars PROVE ReadFirst'
  OBVIOUS
<1>1. Unread' = Unread
  BY DEF Unread, Next, vars, ReadFiles, CannotRead, ParseFile, EndParse, ReadRow, ReadRules, ReadHint,
         NextFile, EndMerge, CheckRow, EndRows, BuildRule, TooManyRules, Finish, Done
<1>2. CASE CannotRead
  BY <1>1, <1>2 DEF CannotRead, ReadFirst, Error
<1>3. CASE Done \/ UNCHANGED vars
  BY <1>1, <1>3 DEF Done, vars, cursor, ReadFirst
<1>4. CASE ~CannotRead /\ ~(Done \/ UNCHANGED vars)
  <2>1. Unread = {}
    BY <1>4
    DEF Next, ReadFirst, ReadFiles, ParseFile, EndParse, Merging, ReadRow, ReadRules, ReadHint,
        NextFile, EndMerge, CheckRow, EndRows, BuildRule, TooManyRules, Finish
  <2> QED
    BY <1>1, <2>1 DEF ReadFirst
<1> QED
  BY <1>2, <1>3, <1>4

(* The key of an entry that is not empty is well formed.                   *)
LEMMA EntryKeyOk ==
  ASSUME Types, NEW n \in DOMAIN entries, entries[n].key # <<>>
  PROVE  entries[n].key \in Seq(STRING) /\ KeyOk(entries[n].key)
<1>1. entries[n] \in Entry
  BY DEF Types
<1>2. PICK row \in RowDto : entries[n] = EntryOf(row)
  BY <1>1 DEF Entry
<1> QED
  BY <1>2, EntryKeys

(* What an error says.                                                     *)
LEMMA ErrorSays ==
  ASSUME NEW kinds, NEW key, NEW e \in Error(kinds, key)
  PROVE  e.kind \in kinds /\ e.key = key
  BY DEF Error

(* An error about other rows is true when it is made, and stays true.      *)
LEMMA BlamedStep == Types /\ Blamed /\ [Next]_vars => Blamed'
<1> SUFFICES ASSUME Types, Blamed, [Next]_vars, NEW e \in errs'
             PROVE  (e.kind = "OrphanRow" => Orphan(e.key)') /\ (e.kind = "DeadRule" => Dead(e.key)')
  BY DEF Blamed
<1>1. CASE e \in errs
  <2>1. ASSUME e.kind = "OrphanRow" PROVE Orphan(e.key)'
    <3>1. Orphan(e.key)
      BY <1>1, <2>1 DEF Blamed
    <3>2. step \in {"Rows", "Rules", "Done"}
      BY <3>1 DEF Orphan
    <3>3. step' \in {"Rows", "Rules", "Done"} /\ entries' = entries
      BY <3>2
      DEF Next, vars, cursor, merged, ReadFiles, CannotRead, ParseFile, EndParse, Merging, ReadRow,
          ReadRules, ReadHint, NextFile, EndMerge, CheckRow, EndRows, BuildRule, TooManyRules, Finish, Done
    <3> QED
      BY <3>1, <3>3 DEF Orphan, KeyOk
  <2>2. ASSUME e.kind = "DeadRule" PROVE Dead(e.key)'
    <3>1. Dead(e.key)
      BY <1>1, <2>2 DEF Blamed
    <3>2. step \in {"Rules", "Done"}
      BY <3>1 DEF Dead
    <3>3. step' \in {"Rules", "Done"} /\ entries' = entries
      BY <3>2
      DEF Next, vars, cursor, merged, ReadFiles, CannotRead, ParseFile, EndParse, Merging, ReadRow,
          ReadRules, ReadHint, NextFile, EndMerge, CheckRow, EndRows, BuildRule, TooManyRules, Finish, Done
    <3> QED
      BY <3>1, <3>3 DEF Dead
  <2> QED
    BY <2>1, <2>2
<1>2. CASE e \notin errs
  <2>1. CASE CannotRead \/ ParseFile
    BY <1>2, <2>1 DEF CannotRead, ParseFile, Error
  <2>2. CASE ReadRow \/ ReadHint \/ TooManyRules
    <3>1. e.kind \notin {"OrphanRow", "DeadRule"}
      <4>1. CASE ReadRow
        BY <1>2, <4>1, OwnKinds DEF ReadRow, Error
      <4>2. CASE ReadHint
        BY <1>2, <4>2, OwnKinds DEF ReadHint, Error
      <4>3. CASE TooManyRules
        <5>1. e \in Error(IdErrors(dtos[i]) \cup {"TooManyRules"}, dtos[i].key)
          BY <1>2, <4>3 DEF TooManyRules
        <5> QED
          BY <5>1, ErrorSays, OwnKinds
      <4> QED
        BY <2>2, <4>1, <4>2, <4>3
    <3> QED
      BY <3>1
  <2>3. CASE CheckRow
    <3>1. i \in DOMAIN entries
      BY <2>3 DEF CheckRow, Types
    <3>2. PICK ent : ent = entries[i]
      OBVIOUS
    <3>3. /\ ent.key # <<>> /\ e.key = ent.key /\ e.kind # "DeadRule"
          /\ e.kind = "OrphanRow" => Len(ent.key) > 1 /\ Parents(ent) = {}
      BY <1>2, <2>3, <3>2 DEF CheckRow, Error, When
    <3>4. step' = "Rows" /\ entries' = entries
      BY <2>3 DEF CheckRow, merged
    <3>5. ent.key \in Seq(STRING) /\ KeyOk(ent.key) /\ Len(ent.key) \in Nat
      BY <3>1, <3>2, <3>3, EntryKeyOk
    <3>6. e.kind = "OrphanRow" => \A n \in DOMAIN entries : entries[n].key # Front(ent.key)
      BY <3>3, <3>5 DEF Parents
    <3> QED
      BY <3>3, <3>4, <3>5, <3>6 DEF Orphan, KeyOk
  <2>4. CASE BuildRule
    <3>1. PICK dto : dto = dtos[i]
      OBVIOUS
    <3>2. step' = "Rules" /\ entries' = entries
      BY <2>4 DEF BuildRule, merged
    <3>3. e.key = dto.key /\ e.kind \in IdErrors(dto) \cup When("BadText", dto.reason = "bad") \cup RuleErrors(dto)
      <4>1. e \in Error(IdErrors(dto) \cup When("BadText", dto.reason = "bad") \cup RuleErrors(dto), dto.key)
        BY <1>2, <2>4, <3>1 DEF BuildRule
      <4> QED
        BY <4>1, ErrorSays
    <3>4. e.kind # "OrphanRow"
      BY <3>3, OwnKinds DEF When
    <3>5. e.kind = "DeadRule" => Related(e.key) = {}
      BY <3>3, OwnKinds, DeadRuleUnrelated DEF When
    <3> QED
      BY <3>2, <3>4, <3>5 DEF Dead, Related
  <2>5. CASE ~(CannotRead \/ ParseFile \/ ReadRow \/ ReadHint \/ TooManyRules \/ CheckRow \/ BuildRule)
    BY <1>2, <2>5
    DEF Next, vars, ReadFiles, EndParse, ReadRules, NextFile, EndMerge, EndRows, Finish, Done
  <2> QED
    BY <2>1, <2>2, <2>3, <2>4, <2>5
<1> QED
  BY <1>1, <1>2

(* The invariant about the errors holds in every state.                    *)
THEOREM ErrorsCorrect == Spec => []ErrorsInv
<1>1. Init => ErrorsInv
  <2>1. Init => files \in Seq(FileDto)
    BY FilesAssumption DEF Init
  <2> QED
    BY <2>1 DEF Init, ErrorsInv, Types, Beginning, RowsMerged, ReadFirst, Blamed
<1>2. ErrorsInv /\ [Next]_vars => ErrorsInv'
  BY TypesStep, BeginningStep, RowsMergedStep, ReadFirstStep, BlamedStep DEF ErrorsInv
<1> QED
  BY <1>1, <1>2, PTL DEF Spec

(* A key of the files that is well formed is that of an entry in the end.  *)
LEMMA KeysHaveEntries ==
  ASSUME ErrorsInv, step \in {"Rules", "Done"}, NEW m \in DOMAIN parsed, NEW r \in DOMAIN parsed[m].rows,
         KeyOk(parsed[m].rows[r].key)
  PROVE  \E n \in DOMAIN entries : entries[n].key = parsed[m].rows[r].key
<1>1. PICK row : row = parsed[m].rows[r]
  OBVIOUS
<1>2. row \in RowDto
  <2>1. parsed[m] \in FileDto
    BY DEF ErrorsInv, Types
  <2> QED
    BY <1>1, <2>1 DEF FileDto
<1>3. PICK n \in DOMAIN entries : entries[n] = EntryOf(row)
  BY <1>1 DEF ErrorsInv, RowsMerged, Passed
<1> QED
  BY <1>1, <1>2, <1>3, EntryKeys

(* The parent's key of a well-formed key is well formed.                   *)
LEMMA FrontKeyOk ==
  ASSUME NEW s, s \in Seq(STRING), KeyOk(s), Len(s) > 1
  PROVE  KeyOk(Front(s))
<1>1. PICK q, t : q = Len(s) - 1 /\ t = SubSeq(s, 1, q)
  OBVIOUS
<1>2. Len(s) \in Nat /\ q \in 0 .. Len(s) /\ q > 0 /\ DOMAIN s = 1 .. Len(s)
  BY <1>1
<1>3. t \in Seq(STRING) /\ Len(t) = q /\ \A p \in 1 .. q : t[p] = s[p]
  BY <1>1, <1>2, Beginnings
<1>4. DOMAIN t = 1 .. q /\ t # <<>>
  BY <1>2, <1>3
<1>5. \A p \in 1 .. Len(s) : s[p] # ""
  BY <1>2 DEF KeyOk
<1>6. \A p \in 1 .. q : p \in 1 .. Len(s)
  BY <1>2
<1>7. \A p \in DOMAIN t : t[p] # ""
  BY <1>3, <1>4, <1>5, <1>6, Zenon
<1>8. KeyOk(t)
  BY <1>4, <1>7 DEF KeyOk
<1> QED
  BY <1>1, <1>8 DEF Front

(* "One bad row does not cascade into orphan and dead-rule errors", for    *)
(* every list of files.                                                    *)
THEOREM ErrorsDoNotCascadeAlways == Spec => []ErrorsDoNotCascade
<1> DEFINE keys == {e.key : e \in UNION {{parsed[n].rows[m] : m \in DOMAIN parsed[n].rows} :
                                        n \in DOMAIN parsed}}
<1>1. ErrorsInv => ErrorsDoNotCascade
  <2>1. SUFFICES ASSUME ErrorsInv, step = "Done", NEW e \in errs
                 PROVE  /\ Unread # {} => e.kind = "Read"
                        /\ e.kind = "OrphanRow" => Front(e.key) \notin keys
                        /\ e.kind = "DeadRule" =>
                             \A k \in keys : KeyOk(k) => ~IsPrefix(k, e.key) /\ ~IsPrefix(e.key, k)
    BY DEF ErrorsDoNotCascade
  <2>2. \A k \in keys : KeyOk(k) => \E n \in DOMAIN entries : entries[n].key = k
    BY <2>1, KeysHaveEntries
  <2>3. Unread # {} => e.kind = "Read"
    BY <2>1 DEF ErrorsInv, ReadFirst
  <2>4. ASSUME e.kind = "OrphanRow" PROVE Front(e.key) \notin keys
    <3>1. Orphan(e.key)
      BY <2>1, <2>4 DEF ErrorsInv, Blamed
    <3>2. e.key \in Seq(STRING) /\ KeyOk(e.key) /\ Len(e.key) > 1
      BY <3>1 DEF Orphan
    <3>3. KeyOk(Front(e.key))
      BY <3>2, FrontKeyOk
    <3> QED
      BY <2>2, <3>1, <3>3 DEF Orphan
  <2>5. ASSUME e.kind = "DeadRule", NEW k \in keys, KeyOk(k)
        PROVE  ~IsPrefix(k, e.key) /\ ~IsPrefix(e.key, k)
    <3>1. Dead(e.key)
      BY <2>1, <2>5 DEF ErrorsInv, Blamed
    <3>2. PICK n \in DOMAIN entries : entries[n].key = k
      BY <2>2, <2>5
    <3> QED
      BY <2>5, <3>1, <3>2 DEF Dead, KeyOk
  <2> QED
    BY <2>3, <2>4, <2>5
<1> QED
  BY <1>1, ErrorsCorrect, PTL

-----------------------------------------------------------------------------
(* Hints.                                                                  *)
Hint == [key: Seq(STRING), text: STRING, origin: {"Embedded", "User"}]

(* The members of a sequence.                                              *)
Members(s) == {s[m] : m \in DOMAIN s}

(* One hint more, and its member.                                          *)
LEMMA MemberMore ==
  ASSUME NEW A, NEW s \in Seq(A), NEW x \in A
  PROVE  Append(s, x) \in Seq(A) /\ Members(Append(s, x)) = Members(s) \cup {x}
<1> DEFINE u == Append(s, x)
<1>1. /\ u \in Seq(A) /\ DOMAIN u = 1 .. Len(s) + 1 /\ DOMAIN s = 1 .. Len(s) /\ Len(s) \in Nat
      /\ u[Len(s) + 1] = x /\ \A m \in 1 .. Len(s) : u[m] = s[m]
  OBVIOUS
<1> HIDE DEF u
<1>2. \A y : y \in Members(u) <=> y \in Members(s) \cup {x}
  BY <1>1 DEF Members
<1>3. Members(u) = Members(s) \cup {x}
  BY <1>2, Zenon
<1> QED
  BY <1>1, <1>3 DEF u

(* Without a key, the hints of the other keys are left.                    *)
LEMMA WithoutKey ==
  ASSUME NEW hs \in Seq(Hint), NEW key
  PROVE  /\ Without(hs, key) \in Seq(Hint)
         /\ Members(Without(hs, key)) = {x \in Members(hs) : x.key # key}
<1> DEFINE A == Seq(Hint)
           Skip(kept, x) == IF x.key = key THEN kept ELSE Append(kept, x)
           G == [kept \in A |-> [x \in Hint |-> Skip(kept, x)]]
           IsIter(iter) ==
             iter = [s \in SUBSET DOMAIN hs |->
                       IF s = {} THEN <<>> ELSE Skip(iter[s \ {Max(s)}], hs[Max(s)])]
<1>1. \A kept \in A, x \in Hint : Skip(kept, x) \in A
  OBVIOUS
<1>2. hs \in Seq(Hint) /\ DOMAIN hs = 1 .. Len(hs) /\ <<>> \in A /\ Len(hs) \in Nat
      /\ \A m \in 1 .. Len(hs) : hs[m] \in Hint
  OBVIOUS
<1> HIDE DEF A, Skip
<1>3. HasFold(A, G, <<>>, hs)
  <2>1. G \in [A -> [Hint -> A]]
    BY <1>1
  <2> HIDE DEF G
  <2> QED
    BY <1>2, <2>1, FoldExists, Zenon
<1>4. PICK g \in [SUBSET (1 .. Len(hs)) -> A] :
             \A s \in SUBSET (1 .. Len(hs)) : g[s] = FoldStep(G, <<>>, hs, g, s)
  <2> HIDE DEF G
  <2> QED
    BY <1>3 DEF HasFold
<1>5. ASSUME NEW s \in SUBSET (1 .. Len(hs))
      PROVE  g[s] = IF s = {} THEN <<>> ELSE Skip(g[s \ {Max(s)}], hs[Max(s)])
  <2>1. CASE s = {}
    BY <1>4, <2>1 DEF FoldStep
  <2>2. CASE s # {}
    <3>1. Max(s) \in s
      BY <1>2, <2>2, GreatestOfIndices
    <3>2. hs[Max(s)] \in Hint /\ g[s \ {Max(s)}] \in A
      <4>1. Max(s) \in 1 .. Len(hs) /\ s \ {Max(s)} \in SUBSET (1 .. Len(hs))
        BY <3>1
      <4> QED
        BY <1>2, <1>4, <4>1
    <3> QED
      BY <1>4, <2>2, <3>2 DEF FoldStep
  <2> QED
    BY <2>1, <2>2
<1>6. IsIter(g)
  BY <1>2, <1>4, <1>5
<1>7. Without(hs, key) = (CHOOSE iter : IsIter(iter))[DOMAIN hs]
  BY Zenon DEF Without, FoldLeft, MapThenFoldSet, Skip
<1> HIDE DEF IsIter
<1>8. PICK it : IsIter(it) /\ Without(hs, key) = it[1 .. Len(hs)]
  BY <1>2, <1>6, <1>7
<1> DEFINE h(k) == it[1 .. k]
<1>9. h(0) = <<>>
  BY <1>2, <1>8 DEF IsIter
<1>10. ASSUME NEW k \in 1 .. Len(hs) PROVE h(k) = Skip(h(k - 1), hs[k])
  <2>1. k \in Nat \ {0} /\ 1 .. k \in SUBSET DOMAIN hs
    BY <1>2
  <2> QED
    BY <1>8, <2>1, IndexSets DEF IsIter
<1> HIDE DEF h
<1> DEFINE Left(k) == {x \in Hint : x.key # key /\ \E m \in 1 .. k : hs[m] = x}
           P == {k \in 0 .. Len(hs) : h(k) \in A /\ Members(h(k)) = Left(k)}
<1>11. 0 \in P
  BY <1>2, <1>9 DEF Members
<1>12. ASSUME NEW k \in 1 .. Len(hs), k - 1 \in P PROVE k \in P
  <2>1. h(k - 1) \in A /\ Members(h(k - 1)) = Left(k - 1) /\ hs[k] \in Hint /\ k \in 0 .. Len(hs)
    BY <1>2, <1>12
  <2>2. h(k) \in A
    BY <1>1, <1>10, <2>1
  <2>3. \A m \in 1 .. k : m = k \/ m \in 1 .. k - 1
    BY <1>2
  <2>4. k \in 1 .. k /\ 1 .. k - 1 \subseteq 1 .. k
    BY <1>2
  <2>5. CASE hs[k].key = key
    <3>1. h(k) = h(k - 1)
      BY <1>10, <2>5 DEF Skip
    <3>2. Left(k) = Left(k - 1)
      BY <2>3, <2>4, <2>5
    <3> QED
      BY <2>1, <2>2, <3>1, <3>2
  <2>6. CASE hs[k].key # key
    <3>1. h(k) = Append(h(k - 1), hs[k])
      BY <1>10, <2>6 DEF Skip
    <3>2. Members(h(k)) = Left(k - 1) \cup {hs[k]}
      BY <2>1, <3>1, MemberMore DEF A
    <3>3. Left(k) = Left(k - 1) \cup {hs[k]}
      BY <2>1, <2>3, <2>4, <2>6
    <3> QED
      BY <2>1, <2>2, <3>2, <3>3
  <2> QED
    BY <2>5, <2>6
<1>13. \A k \in 0 .. Len(hs) : k \in P
  <2> HIDE DEF P
  <2> QED
    BY <1>2, <1>11, <1>12, Along
<1>14. Len(hs) \in P
  BY <1>2, <1>13
<1>15. Left(Len(hs)) = {x \in Members(hs) : x.key # key}
  BY <1>2 DEF Members
<1> QED
  BY <1>8, <1>14, <1>15 DEF h, A

-----------------------------------------------------------------------------
(* What is loaded is what the files say.                                   *)

(* What the first k files say.                                             *)
UpTo(k, field) == FlattenSeq([m \in 1 .. k |-> files[m][field]])

(* The files without a problem are those parsed.                           *)
AllParsed ==
  errs = {} =>
    /\ step = "Read" => f = 1
    /\ step \in {"Read", "Parse"} =>
         Len(parsed) = f - 1 /\ f <= Len(files) + 1 /\ \A m \in 1 .. f - 1 : parsed[m] = files[m]
    /\ step \in {"Merge", "Rows", "Rules", "Done"} => parsed = files

(* The rows and rules said so far: those of the files merged and of the one*)
(* being merged.                                                           *)
RowsSaid ==
  IF step \in {"Read", "Parse"} THEN <<>>
  ELSE IF step # "Merge" \/ f > Len(files) THEN UpTo(Len(files), "rows")
  ELSE IF part = "Hints" THEN UpTo(f, "rows")
  ELSE UpTo(f - 1, "rows") \o SubSeq(files[f].rows, 1, i - 1)

RulesSaid ==
  IF step \in {"Read", "Parse"} THEN <<>>
  ELSE IF step # "Merge" \/ f > Len(files) THEN UpTo(Len(files), "rules")
  ELSE IF part = "Hints" THEN UpTo(f, "rules")
  ELSE UpTo(f - 1, "rules")

RowsAs(rows) == entries = [m \in 1 .. Len(rows) |-> EntryOf(rows[m])]

(* Where in the files the merge is.                                        *)
InFiles ==
  step = "Merge" =>
    /\ f <= Len(files) + 1
    /\ f = Len(files) + 1 => part = "Rows" /\ i = 1
    /\ f <= Len(files) /\ part = "Rows" => i <= Len(files[f].rows) + 1
    /\ f <= Len(files) /\ part = "Hints" => i <= Len(files[f].hints) + 1

(* The hints of the files merged, and of the one being merged.             *)
HintRead(k, m) ==
  /\ k \in DOMAIN files /\ m \in DOMAIN files[k].hints
  /\ \/ step \in {"Rows", "Rules", "Done"}
     \/ step = "Merge" /\ (k < f \/ (k = f /\ part = "Hints" /\ m < i))

Tagged(k, m) ==
  [key |-> files[k].hints[m].key, text |-> files[k].hints[m].text, origin |-> files[k].origin]

(* Every hint kept was read, there is one for a key, and one for every key *)
(* read: the one read, or a user's instead of an embedded one.             *)
HintsKept ==
  /\ \A x \in Members(hints) : \E k, m : HintRead(k, m) /\ x = Tagged(k, m)
  /\ \A x, y \in Members(hints) : x.key = y.key => x = y
  /\ \A k, m : HintRead(k, m) =>
       \E x \in Members(hints) :
         /\ x.key = files[k].hints[m].key
         /\ x = Tagged(k, m) \/ (files[k].origin = "Embedded" /\ x.origin = "User")

BuiltRule == [id: Nat, key: Seq(STRING), opts: Seq(SUBSET STRING)]

(* A reason that may not be shown is left out.                             *)
Reason == STRING \cup {"none"}

(* The rules built, each with its number, id and reason.                   *)
RulesAs(k) ==
  /\ Len(rules) = k /\ Len(ids) = k /\ Len(reasons) = k
  /\ \A m \in 1 .. k :
       /\ rules[m] = [id |-> m - 1, key |-> dtos[m].key, opts |-> dtos[m].opts]
       /\ ids[m] = dtos[m].id /\ reasons[m] = dtos[m].reason

RulesBuilt ==
  /\ step \notin {"Rules", "Done"} => RulesAs(0)
  /\ step = "Rules" => i <= Len(dtos) + 1 /\ RulesAs(i - 1)
  /\ step = "Done" => RulesAs(Len(dtos))

MoreTypes ==
  /\ hints \in Seq(Hint) /\ rules \in Seq(BuiltRule)
  /\ ids \in Seq(STRING) /\ reasons \in Seq(Reason)

(* What is loaded is what was built.                                       *)
LoadedRest ==
  \A l \in loaded : step = "Done" /\ l.rules = rules /\ l.ids = ids /\ l.reasons = reasons /\ l.hints = hints

SayInv ==
  /\ MoreTypes /\ LoadedRest
  /\ AllParsed
  /\ errs = {} => InFiles /\ RowsAs(RowsSaid) /\ dtos = RulesSaid /\ HintsKept /\ RulesBuilt

-----------------------------------------------------------------------------
(* What the files say, one after the other.                                *)
LEMMA FilesSay ==
  ASSUME files \in Seq(FileDto)
  PROVE  \A k \in DOMAIN files :
           /\ files[k] \in FileDto
           /\ files[k].rows \in Seq(RowDto) /\ files[k].rules \in Seq(RuleDto)
           /\ files[k].hints \in Seq(HintDto) /\ files[k].origin \in {"Embedded", "User"}
<1>1. \A k \in DOMAIN files : files[k] \in FileDto
  OBVIOUS
<1> QED
  BY <1>1 DEF FileDto

LEMMA OneFileMore ==
  ASSUME files \in Seq(FileDto), NEW A, NEW field, \A k \in DOMAIN files : files[k][field] \in Seq(A)
  PROVE  /\ UpTo(0, field) = <<>>
         /\ \A k \in 0 .. Len(files) : UpTo(k, field) \in Seq(A)
         /\ \A k \in 1 .. Len(files) : UpTo(k, field) = UpTo(k - 1, field) \o files[k][field]
<1> DEFINE B == Seq(A)
           First(k) == [m \in 1 .. k |-> files[m][field]]
<1>1. DOMAIN files = 1 .. Len(files) /\ Len(files) \in Nat /\ \A k \in 1 .. Len(files) : files[k][field] \in B
  OBVIOUS
<1> HIDE DEF B
<1>2. ASSUME NEW k \in 0 .. Len(files) PROVE First(k) \in Seq(B) /\ Len(First(k)) = k
  <2>1. First(k) \in [1 .. k -> B] /\ k \in Nat
    BY <1>1
  <2> HIDE DEF First
  <2> QED
    BY <2>1
<1>3. UpTo(0, field) = <<>>
  <2>1. First(0) = <<>>
    OBVIOUS
  <2>2. FlattenSeq(<<>>) = <<>>
    <3>1. <<>> \in Seq(Seq(A)) /\ <<>> \in Seq(A)
      OBVIOUS
    <3> QED
      BY <3>1, Flattened, Zenon
  <2> QED
    BY <2>1, <2>2 DEF UpTo
<1>4. ASSUME NEW k \in 0 .. Len(files) PROVE UpTo(k, field) \in Seq(A)
  <2>1. First(k) \in Seq(Seq(A))
    BY <1>2 DEF B
  <2>2. FlattenSeq(First(k)) \in Seq(A)
    <3> HIDE DEF First
    <3>1. <<>> \in Seq(A)
      OBVIOUS
    <3> QED
      BY <2>1, <3>1, Flattened
  <2> QED
    BY <2>2 DEF UpTo
<1>5. ASSUME NEW k \in 1 .. Len(files) PROVE UpTo(k, field) = UpTo(k - 1, field) \o files[k][field]
  <2> DEFINE t == First(k)
             s == First(k - 1)
             x == files[k][field]
  <2>1. k \in 0 .. Len(files) /\ k - 1 \in 0 .. Len(files) /\ k \in 1 .. k
        /\ \A m \in 1 .. k - 1 : m \in 1 .. k
    OBVIOUS
  <2>2. /\ t[k] = x /\ \A m \in 1 .. k - 1 : t[m] = s[m]
    BY <2>1
  <2>3. t \in Seq(B) /\ s \in Seq(B) /\ Len(t) = k /\ Len(s) = k - 1 /\ x \in B
    <3> HIDE DEF First
    <3> QED
      BY <1>1, <1>2, <2>1
  <2> HIDE DEF t, s, x, First
  <2>4. Len(t) = Len(s) + 1 /\ t[Len(s) + 1] = x /\ \A m \in 1 .. Len(s) : t[m] = s[m]
    BY <2>1, <2>2, <2>3
  <2>5. t = Append(s, x)
    BY <2>3, <2>4, OneLonger, Zenon
  <2>6. s \in Seq(Seq(A)) /\ x \in Seq(A)
    BY <2>3 DEF B
  <2>7. FlattenSeq(t) = FlattenSeq(s) \o x
    BY <2>5, <2>6, Flattened
  <2> QED
    BY <2>7 DEF UpTo, t, s, x, First
<1> QED
  BY <1>3, <1>4, <1>5

(* The rows and the rules.                                                 *)
LEMMA RowsUpTo ==
  ASSUME files \in Seq(FileDto)
  PROVE  /\ UpTo(0, "rows") = <<>> /\ UpTo(0, "rules") = <<>>
         /\ \A k \in 0 .. Len(files) : UpTo(k, "rows") \in Seq(RowDto) /\ UpTo(k, "rules") \in Seq(RuleDto)
         /\ \A k \in 1 .. Len(files) : /\ UpTo(k, "rows") = UpTo(k - 1, "rows") \o files[k].rows
                                       /\ UpTo(k, "rules") = UpTo(k - 1, "rules") \o files[k].rules
         /\ All("rows") = UpTo(Len(files), "rows") /\ All("rules") = UpTo(Len(files), "rules")
<1>1. \A k \in DOMAIN files : files[k]["rows"] \in Seq(RowDto) /\ files[k]["rules"] \in Seq(RuleDto)
  BY FilesSay
<1>2. /\ UpTo(0, "rows") = <<>>
      /\ \A k \in 0 .. Len(files) : UpTo(k, "rows") \in Seq(RowDto)
      /\ \A k \in 1 .. Len(files) : UpTo(k, "rows") = UpTo(k - 1, "rows") \o files[k]["rows"]
  BY <1>1, OneFileMore
<1>3. /\ UpTo(0, "rules") = <<>>
      /\ \A k \in 0 .. Len(files) : UpTo(k, "rules") \in Seq(RuleDto)
      /\ \A k \in 1 .. Len(files) : UpTo(k, "rules") = UpTo(k - 1, "rules") \o files[k]["rules"]
  BY <1>1, OneFileMore
<1>4. DOMAIN files = 1 .. Len(files)
  OBVIOUS
<1>5. All("rows") = UpTo(Len(files), "rows") /\ All("rules") = UpTo(Len(files), "rules")
  BY <1>4, Zenon DEF All, UpTo
<1> QED
  BY <1>2, <1>3, <1>5

-----------------------------------------------------------------------------
(* Steps that find nothing wrong.                                          *)

(* The files stay.                                                         *)
LEMMA FilesStay == [Next]_vars => files' = files
  BY DEF Next, vars, ReadFiles, CannotRead, ParseFile, EndParse, ReadRow, ReadRules, ReadHint,
         NextFile, EndMerge, CheckRow, EndRows, BuildRule, TooManyRules, Finish, Done

(* Without a problem, what is parsed is what the files are.                *)
LEMMA AllParsedStep == Types /\ Beginning /\ AllParsed /\ [Next]_vars => AllParsed'
<1> SUFFICES ASSUME Types, Beginning, AllParsed, [Next]_vars, errs' = {} PROVE AllParsed'
  BY DEF AllParsed
<1>1. errs = {} /\ files' = files /\ f \in Nat /\ Len(files) \in Nat
  BY StaysWrong, FilesStay DEF Types
<1>2. CASE ParseFile
  <2>1. files[f].toml /\ parsed' = Append(parsed, files[f]) /\ f' = f + 1 /\ step = "Parse" /\ step' = "Parse"
        /\ f <= Len(files)
    BY <1>2 DEF ParseFile, Error
  <2>2. Len(parsed) = f - 1 /\ \A m \in 1 .. f - 1 : parsed[m] = files[m]
    BY <1>1, <2>1 DEF AllParsed
  <2>3. /\ Len(parsed') = f /\ parsed'[f] = files[f]
        /\ \A m \in 1 .. f - 1 : parsed'[m] = parsed[m]
    BY <1>1, <2>1, <2>2 DEF Types
  <2>4. \A m \in 1 .. f : parsed'[m] = files[m]
    BY <1>1, <2>2, <2>3
  <2>5. (f + 1) - 1 = f
    BY <1>1
  <2> QED
    BY <1>1, <2>1, <2>3, <2>4, <2>5 DEF AllParsed
<1>3. CASE EndParse
  <2>1. step = "Parse" /\ f > Len(files) /\ step' = "Merge" /\ parsed' = parsed
    BY <1>3 DEF EndParse
  <2>2. Len(parsed) = Len(files) /\ \A m \in 1 .. Len(files) : parsed[m] = files[m]
    BY <1>1, <2>1 DEF AllParsed
  <2>3. parsed \in Seq(FileDto) /\ files \in Seq(FileDto)
    BY DEF Types
  <2>4. parsed = files
    BY <2>2, <2>3, SeqEqual
  <2> QED
    BY <1>1, <2>1, <2>4 DEF AllParsed
<1>4. CASE ~ParseFile /\ ~EndParse
  BY <1>1, <1>4
  DEF AllParsed, Next, vars, cursor, ReadFiles, CannotRead, Merging, ReadRow, ReadRules, ReadHint,
      NextFile, EndMerge, CheckRow, EndRows, BuildRule, TooManyRules, Finish, Done, Error, Beginning
<1> QED
  BY <1>2, <1>3, <1>4

(* Nothing is wrong, before a step and after it.                           *)
Right == Types /\ Beginning /\ AllParsed /\ InFiles /\ errs = {} /\ errs' = {} /\ [Next]_vars

(* What the merge reads is of the files.                                   *)
LEMMA FromFiles ==
  ASSUME Right, step = "Merge"
  PROVE  /\ parsed = files /\ files' = files /\ f \in 1 .. Len(files) + 1 /\ Len(files) \in Nat
         /\ i \in Nat \ {0} /\ DOMAIN files = 1 .. Len(files)
         /\ files \in Seq(FileDto) /\ part \in {"Rows", "Hints"}
  BY FilesStay DEF Right, AllParsed, InFiles, Types

(* The merge stays in the files.                                           *)
LEMMA InFilesStep == Right => InFiles'
<1> SUFFICES ASSUME Right, step' = "Merge" PROVE InFiles'
  BY DEF InFiles
<1>1. files' = files /\ Len(files) \in Nat
  BY FilesStay DEF Right, Types
<1>2. CASE EndParse
  BY <1>1, <1>2 DEF EndParse, InFiles, Right, Beginning
<1>3. CASE ReadRow
  <2>1. step = "Merge" /\ parsed = files
    BY <1>3, FromFiles DEF ReadRow, Merging
  <2>2. files[f].rows \in Seq(RowDto)
    BY <1>3, <2>1, FromFiles, FilesSay DEF ReadRow, Merging
  <2>3. i <= Len(files[f].rows) /\ i' = i + 1 /\ f' = f /\ part' = "Rows" /\ f <= Len(files)
        /\ f \in Nat /\ i \in Nat
        /\ Len(files[f].rows) \in Nat
    BY <1>3, <2>1, <2>2, FromFiles DEF ReadRow, Merging
  <2> QED
    BY <1>1, <2>3 DEF InFiles
<1>4. CASE ReadHint
  <2>1. step = "Merge" /\ parsed = files
    BY <1>4, FromFiles DEF ReadHint, Merging
  <2>2. files[f].hints \in Seq(HintDto)
    BY <1>4, <2>1, FromFiles, FilesSay DEF ReadHint, Merging
  <2>3. i <= Len(files[f].hints) /\ i' = i + 1 /\ f' = f /\ part' = "Hints" /\ f <= Len(files)
        /\ f \in Nat /\ i \in Nat
        /\ Len(files[f].hints) \in Nat
    BY <1>4, <2>1, <2>2, FromFiles DEF ReadHint, Merging
  <2> QED
    BY <1>1, <2>3 DEF InFiles
<1>5. CASE ReadRules
  <2>1. step = "Merge" /\ parsed = files
    BY <1>5, FromFiles DEF ReadRules, Merging
  <2>2. files[f].hints \in Seq(HintDto)
    BY <1>5, <2>1, FromFiles, FilesSay DEF ReadRules, Merging
  <2>3. i' = 1 /\ f' = f /\ part' = "Hints" /\ f <= Len(files) /\ f \in Nat /\ Len(files[f].hints) \in Nat
    BY <1>5, <2>1, <2>2, FromFiles DEF ReadRules, Merging
  <2> QED
    BY <1>1, <2>3 DEF InFiles
<1>6. CASE NextFile
  <2>1. step = "Merge" /\ parsed = files
    BY <1>6, FromFiles DEF NextFile, Merging
  <2>2. i' = 1 /\ f' = f + 1 /\ part' = "Rows" /\ f <= Len(files) /\ f \in Nat
    BY <1>6, <2>1, FromFiles DEF NextFile, Merging
  <2>3. f' <= Len(files) => Len(files[f'].rows) \in Nat
    <3>1. f' <= Len(files) => files[f'].rows \in Seq(RowDto)
      BY <1>6, <2>1, <2>2, FromFiles, FilesSay
    <3> QED
      BY <3>1
  <2> QED
    BY <1>1, <2>2, <2>3 DEF InFiles
<1>7. CASE ~EndParse /\ ~ReadRow /\ ~ReadHint /\ ~ReadRules /\ ~NextFile
  <2>1. step = "Merge" /\ f' = f /\ i' = i /\ part' = part
    BY <1>7 DEF Right, Next, vars, cursor, ReadFiles, CannotRead, ParseFile, EndMerge, CheckRow, EndRows,
                BuildRule, TooManyRules, Finish, Done
  <2> QED
    BY <1>1, <2>1 DEF Right, InFiles
<1> QED
  BY <1>2, <1>3, <1>4, <1>5, <1>6, <1>7

(* What is said after a step.                                              *)
LEMMA SaidThen ==
  ASSUME files' = files
  PROVE  /\ RowsSaid' =
              IF step' \in {"Read", "Parse"} THEN <<>>
              ELSE IF step' # "Merge" \/ f' > Len(files) THEN UpTo(Len(files), "rows")
              ELSE IF part' = "Hints" THEN UpTo(f', "rows")
              ELSE UpTo(f' - 1, "rows") \o SubSeq(files[f'].rows, 1, i' - 1)
         /\ RulesSaid' =
              IF step' \in {"Read", "Parse"} THEN <<>>
              ELSE IF step' # "Merge" \/ f' > Len(files) THEN UpTo(Len(files), "rules")
              ELSE IF part' = "Hints" THEN UpTo(f', "rules")
              ELSE UpTo(f' - 1, "rules")
<1>1. \A k, field : UpTo(k, field)' = UpTo(k, field)
  BY DEF UpTo
<1> QED
  BY <1>1 DEF RowsSaid, RulesSaid

(* What is said of the rows changes only with the row read, and of the     *)
(* rules with the rules of the file.                                       *)
LEMMA SaidStep ==
  ASSUME Right
  PROVE  /\ ReadRow => /\ RowsSaid' = Append(RowsSaid, files[f].rows[i]) /\ RulesSaid' = RulesSaid
                       /\ files[f].rows[i] \in RowDto
         /\ ReadRules => RowsSaid' = RowsSaid /\ RulesSaid' = RulesSaid \o files[f].rules
         /\ ~ReadRow /\ ~ReadRules => RowsSaid' = RowsSaid /\ RulesSaid' = RulesSaid
         /\ RowsSaid \in Seq(RowDto) /\ RulesSaid \in Seq(RuleDto)
<1>1. files' = files /\ files \in Seq(FileDto) /\ Len(files) \in Nat /\ DOMAIN files = 1 .. Len(files)
      /\ f \in Nat \ {0} /\ i \in Nat \ {0} /\ part \in {"Rows", "Hints"}
      /\ step \in {"Read", "Parse", "Merge", "Rows", "Rules", "Done"}
  BY FilesStay DEF Right, Types
<1>2. ASSUME step = "Merge", f <= Len(files)
      PROVE  /\ f \in 1 .. Len(files) /\ f - 1 \in 0 .. Len(files) /\ f \in 0 .. Len(files)
             /\ files[f].rows \in Seq(RowDto) /\ files[f].rules \in Seq(RuleDto)
             /\ part = "Rows" => i <= Len(files[f].rows) + 1 /\ SubSeq(files[f].rows, 1, i - 1) \in Seq(RowDto)
  <2>1. f \in 1 .. Len(files) /\ files[f].rows \in Seq(RowDto) /\ files[f].rules \in Seq(RuleDto)
    BY <1>1, <1>2, FilesSay
  <2>2. part = "Rows" => i <= Len(files[f].rows) + 1
    BY <1>2 DEF Right, InFiles
  <2>3. ASSUME part = "Rows" PROVE SubSeq(files[f].rows, 1, i - 1) \in Seq(RowDto)
    <3> DEFINE rows == files[f].rows
    <3>1. rows \in Seq(RowDto) /\ i - 1 \in 0 .. Len(rows)
      BY <1>1, <2>1, <2>2, <2>3
    <3> HIDE DEF rows
    <3>2. SubSeq(rows, 1, i - 1) \in Seq(RowDto)
      BY <3>1
    <3> QED
      BY <3>2 DEF rows
  <2> QED
    BY <1>1, <2>1, <2>2, <2>3
<1>3. RowsSaid \in Seq(RowDto) /\ RulesSaid \in Seq(RuleDto)
  <2>1. Len(files) \in 0 .. Len(files) /\ <<>> \in Seq(RowDto) /\ <<>> \in Seq(RuleDto)
    BY <1>1
  <2>2. UpTo(Len(files), "rows") \in Seq(RowDto) /\ UpTo(Len(files), "rules") \in Seq(RuleDto)
    BY <1>1, <2>1, RowsUpTo
  <2>3. ASSUME step = "Merge", f <= Len(files)
        PROVE  /\ UpTo(f, "rows") \in Seq(RowDto) /\ UpTo(f, "rules") \in Seq(RuleDto)
               /\ UpTo(f - 1, "rows") \in Seq(RowDto) /\ UpTo(f - 1, "rules") \in Seq(RuleDto)
               /\ part = "Rows" => UpTo(f - 1, "rows") \o SubSeq(files[f].rows, 1, i - 1) \in Seq(RowDto)
    <3>1. /\ UpTo(f, "rows") \in Seq(RowDto) /\ UpTo(f, "rules") \in Seq(RuleDto)
          /\ UpTo(f - 1, "rows") \in Seq(RowDto) /\ UpTo(f - 1, "rules") \in Seq(RuleDto)
      BY <1>1, <1>2, <2>3, RowsUpTo
    <3> QED
      BY <1>2, <2>3, <3>1, ConcatProperties
  <2> QED
    BY <1>1, <2>1, <2>2, <2>3 DEF RowsSaid, RulesSaid
<1>4. ASSUME ReadRow
      PROVE  /\ RowsSaid' = Append(RowsSaid, files[f].rows[i]) /\ RulesSaid' = RulesSaid
             /\ files[f].rows[i] \in RowDto
  <2>1. /\ step = "Merge" /\ step' = "Merge" /\ f <= Len(files) /\ f' = f /\ part = "Rows" /\ part' = "Rows"
        /\ i <= Len(files[f].rows) /\ i' = i + 1
    BY <1>4, FromFiles DEF ReadRow, Merging
  <2>2. UpTo(f - 1, "rows") \in Seq(RowDto) /\ (i + 1) - 1 = i
    BY <1>1, <1>2, <2>1, RowsUpTo
  <2> DEFINE rows == files[f].rows
             u == UpTo(f - 1, "rows")
  <2>3. rows \in Seq(RowDto) /\ i \in 1 .. Len(rows) /\ u \in Seq(RowDto)
    BY <1>1, <1>2, <2>1, <2>2
  <2>4. ~(f > Len(files)) /\ step \notin {"Read", "Parse"} /\ step' \notin {"Read", "Parse"} 
        /\ part # "Hints" /\ part' # "Hints"
    BY <1>1, <2>1
  <2>5. RowsSaid = u \o SubSeq(rows, 1, i - 1) /\ RowsSaid' = u \o SubSeq(rows, 1, i)
    <3>1. RowsSaid = u \o SubSeq(rows, 1, i - 1)
      BY <2>1, <2>4, Zenon DEF RowsSaid
    <3>2. RowsSaid' = u \o SubSeq(rows, 1, i' - 1)
      BY <1>1, <2>1, <2>4, SaidThen, Zenon
    <3> QED
      BY <2>1, <2>2, <3>1, <3>2
  <2>6. RulesSaid' = RulesSaid
    <3>1. RulesSaid = UpTo(f - 1, "rules")
      BY <2>1, <2>4, Zenon DEF RulesSaid
    <3>2. RulesSaid' = UpTo(f - 1, "rules")
      BY <1>1, <2>1, <2>4, SaidThen, Zenon
    <3> QED
      BY <3>1, <3>2
  <2> HIDE DEF rows, u
  <2>7. u \o SubSeq(rows, 1, i) = Append(u \o SubSeq(rows, 1, i - 1), rows[i])
    BY <2>3, OneElementMore
  <2>8. rows[i] \in RowDto
    BY <2>3
  <2> QED
    BY <2>5, <2>6, <2>7, <2>8, Zenon DEF rows
<1>5. ASSUME ReadRules PROVE RowsSaid' = RowsSaid /\ RulesSaid' = RulesSaid \o files[f].rules
  <2>1. /\ step = "Merge" /\ step' = "Merge" /\ f <= Len(files) /\ f' = f /\ part = "Rows" /\ part' = "Hints"
        /\ i > Len(files[f].rows) /\ i <= Len(files[f].rows) + 1
    BY <1>2, <1>5, FromFiles DEF ReadRules, Merging
  <2> DEFINE rows == files[f].rows
  <2>2. rows \in Seq(RowDto) /\ i - 1 = Len(rows)
    BY <1>1, <1>2, <2>1
  <2>3. SubSeq(rows, 1, Len(rows)) = rows
    <3> HIDE DEF rows
    <3> QED
      BY <2>2, NoneAndAll
  <2>4. /\ UpTo(f, "rows") = UpTo(f - 1, "rows") \o rows
        /\ UpTo(f, "rules") = UpTo(f - 1, "rules") \o files[f].rules
    BY <1>1, <1>2, <2>1, RowsUpTo
  <2>5. RowsSaid = UpTo(f - 1, "rows") \o SubSeq(rows, 1, i - 1) /\ RowsSaid' = UpTo(f, "rows")
        /\ RulesSaid = UpTo(f - 1, "rules") /\ RulesSaid' = UpTo(f, "rules")
    BY <1>1, <2>1, SaidThen DEF RowsSaid, RulesSaid
  <2> HIDE DEF rows
  <2> QED
    BY <2>2, <2>3, <2>4, <2>5, Zenon
<1>6. ASSUME ~ReadRow, ~ReadRules PROVE RowsSaid' = RowsSaid /\ RulesSaid' = RulesSaid
  <2>1. UpTo(0, "rows") \o SubSeq(files[1].rows, 1, 0) = <<>> \/ Len(files) = 0
    <3>1. SUFFICES ASSUME Len(files) # 0 PROVE UpTo(0, "rows") \o SubSeq(files[1].rows, 1, 0) = <<>>
      OBVIOUS
    <3>2. files[1].rows \in Seq(RowDto)
      BY <1>1, <3>1, FilesSay
    <3>3. SubSeq(files[1].rows, 1, 0) = <<>>
      BY <3>2
    <3>4. <<>> \o <<>> = <<>>
      OBVIOUS
    <3> QED
      BY <1>1, <3>3, <3>4, RowsUpTo
  <2>2. CASE EndParse
    <3>1. step = "Parse" /\ step' = "Merge" /\ f' = 1 /\ i' = 1 /\ part' = "Rows"
      BY <2>2 DEF EndParse, Right, Beginning
    <3>2. UpTo(0, "rows") = <<>> /\ UpTo(0, "rules") = <<>> /\ 1 - 1 = 0
      BY <1>1, RowsUpTo
    <3>3. RowsSaid = <<>> /\ RulesSaid = <<>>
      BY <3>1 DEF RowsSaid, RulesSaid
    <3>4. CASE Len(files) = 0
      <4>1. 1 > Len(files)
        BY <3>4
      <4>2. RowsSaid' = UpTo(0, "rows") /\ RulesSaid' = UpTo(0, "rules")
        BY <1>1, <3>1, <3>4, <4>1, SaidThen
      <4> QED
        BY <3>2, <3>3, <4>2
    <3>5. CASE Len(files) # 0
      <4>1. ~(1 > Len(files))
        BY <1>1, <3>5
      <4>2. RowsSaid' = UpTo(0, "rows") \o SubSeq(files[1].rows, 1, 0) /\ RulesSaid' = UpTo(0, "rules")
        <5>1. RowsSaid' = UpTo(1 - 1, "rows") \o SubSeq(files[1].rows, 1, 1 - 1) /\ RulesSaid' = UpTo(1 - 1, "rules")
          BY <1>1, <3>1, <4>1, SaidThen
        <5> QED
          BY <3>2, <5>1
      <4> QED
        BY <2>1, <3>2, <3>3, <3>5, <4>2
    <3> QED
      BY <3>4, <3>5
  <2>3. CASE NextFile
    <3>1. /\ step = "Merge" /\ step' = "Merge" /\ f' = f + 1 /\ i' = 1 /\ part = "Hints" /\ part' = "Rows"
          /\ f <= Len(files)
      BY <2>3, FromFiles DEF NextFile, Merging
    <3>2. RowsSaid = UpTo(f, "rows") /\ RulesSaid = UpTo(f, "rules")
      <4>1. ~(f > Len(files))
        BY <1>1, <3>1
      <4> QED
        BY <3>1, <4>1 DEF RowsSaid, RulesSaid
    <3>3. (f + 1) - 1 = f /\ 1 - 1 = 0
      BY <1>1
    <3>4. CASE f + 1 > Len(files)
      <4>1. f = Len(files)
        <5>1. f <= Len(files) /\ f \in Nat /\ Len(files) \in Nat
          BY <1>1, <3>1
        <5> HIDE DEF Right
        <5> QED
          BY <3>4, <5>1
      <4> QED
        BY <1>1, <3>1, <3>2, <3>4, <4>1, SaidThen
    <3>5. CASE f + 1 <= Len(files)
      <4>1. ~(f + 1 > Len(files))
        BY <1>1, <3>5
      <4>2. RowsSaid' = UpTo(f, "rows") \o SubSeq(files[f + 1].rows, 1, 0) /\ RulesSaid' = UpTo(f, "rules")
        BY <1>1, <3>1, <3>3, <4>1, SaidThen
      <4>3. SubSeq(files[f + 1].rows, 1, 0) = <<>>
        <5>1. files[f + 1].rows \in Seq(RowDto)
          BY <1>1, <3>5, FilesSay
        <5> QED
          BY <5>1
      <4>4. UpTo(f, "rows") \in Seq(RowDto)
        BY <1>1, <1>2, <3>1, RowsUpTo
      <4>5. UpTo(f, "rows") \o <<>> = UpTo(f, "rows")
        BY <4>4, ConcatEmptySeq
      <4> QED
        BY <3>2, <4>2, <4>3, <4>5, Zenon
    <3> QED
      BY <1>1, <3>4, <3>5
  <2>4. CASE ReadHint
    <3>1. step = "Merge" /\ step' = "Merge" /\ f' = f /\ part = "Hints" /\ part' = "Hints"
      BY <2>4 DEF ReadHint, Merging
    <3> QED
      BY <1>1, <3>1, SaidThen DEF RowsSaid, RulesSaid
  <2>5. CASE EndMerge
    <3>1. step = "Merge" /\ step' = "Rows" /\ f > Len(files)
      BY <2>5, FromFiles DEF EndMerge
    <3> QED
      BY <1>1, <3>1, SaidThen DEF RowsSaid, RulesSaid
  <2>6. CASE ReadFiles \/ ParseFile
    <3>1. step \in {"Read", "Parse"} /\ step' \in {"Read", "Parse"}
      BY <2>6 DEF ReadFiles, ParseFile
    <3> QED
      BY <1>1, <3>1, SaidThen DEF RowsSaid, RulesSaid
  <2>7. CASE CheckRow \/ EndRows \/ BuildRule \/ TooManyRules \/ Finish
    <3>1. step \in {"Rows", "Rules"} /\ step' \in {"Rows", "Rules", "Done"}
      BY <2>7 DEF CheckRow, EndRows, BuildRule, TooManyRules, Finish
    <3> QED
      BY <1>1, <3>1, SaidThen DEF RowsSaid, RulesSaid
  <2>8. CASE UNCHANGED vars
    <3>1. step' = step /\ f' = f /\ i' = i /\ part' = part
      BY <2>8 DEF vars, cursor
    <3> QED
      BY <1>1, <3>1, SaidThen DEF RowsSaid, RulesSaid
  <2>9. ~CannotRead
    BY DEF CannotRead, Right, Error
  <2> QED
    BY <1>6, <2>2, <2>3, <2>4, <2>5, <2>6, <2>7, <2>8, <2>9 DEF Right, Next, Done
<1> QED
  BY <1>3, <1>4, <1>5, <1>6

-----------------------------------------------------------------------------
(* The hint that is read.                                                  *)
LEMMA TheHint ==
  ASSUME Types, ReadHint
  PROVE  parsed[f].hints[i] \in HintDto /\ parsed[f].origin \in {"Embedded", "User"}
<1>1. parsed[f] \in FileDto
  BY DEF ReadHint, Merging, Types
<1>2. parsed[f].hints \in Seq(HintDto) /\ parsed[f].origin \in {"Embedded", "User"}
  BY <1>1 DEF FileDto
<1>3. parsed[f].hints[i] \in HintDto
  BY <1>2 DEF ReadHint, Types
<1> QED
  BY <1>2, <1>3

(* A hint put in its place.                                                *)
LEMMA HintPut ==
  ASSUME hints \in Seq(Hint), NEW h \in Hint
  PROVE  PutHint(h) \in Seq(Hint) /\ Members(PutHint(h)) = {x \in Members(hints) : x.key # h.key} \cup {h}
<1> DEFINE key == h.key
           rest == Without(hints, key)
<1>1. rest \in Seq(Hint) /\ Members(rest) = {x \in Members(hints) : x.key # key}
  <2> HIDE DEF key
  <2> QED
    BY WithoutKey
<1> HIDE DEF rest
<1>2. Append(rest, h) \in Seq(Hint) /\ Members(Append(rest, h)) = Members(rest) \cup {h}
  BY <1>1, MemberMore
<1> QED
  BY <1>1, <1>2 DEF PutHint, rest

(* The types of the rest are kept.                                         *)
LEMMA MoreTypesStep == Types /\ MoreTypes /\ [Next]_vars => MoreTypes'
<1> SUFFICES ASSUME Types, MoreTypes, [Next]_vars PROVE MoreTypes'
  OBVIOUS
<1>1. CASE ReadHint
  <2> DEFINE h == parsed[f].hints[i]
             origin == parsed[f].origin
             t == [key |-> h.key, text |-> h.text, origin |-> origin]
  <2>1. h \in HintDto /\ origin \in {"Embedded", "User"}
    BY <1>1, TheHint
  <2>2. hints' = hints \/ hints' = PutHint(t)
    BY <1>1 DEF ReadHint
  <2> HIDE DEF h, origin
  <2>3. t \in Hint
    BY <2>1 DEF HintDto, Hint
  <2> HIDE DEF t
  <2>4. PutHint(t) \in Seq(Hint)
    BY <2>3, HintPut DEF MoreTypes
  <2>5. rules' = rules /\ ids' = ids /\ reasons' = reasons
    BY <1>1 DEF ReadHint, built
  <2> QED
    BY <2>2, <2>4, <2>5 DEF MoreTypes
<1>2. CASE BuildRule
  <2> DEFINE dto == dtos[i]
             id == RuleId
             new == [id |-> id, key |-> dto.key, opts |-> dto.opts]
             says == IF When("BadText", dto.reason = "bad") # {} THEN "none" ELSE dto.reason
  <2>1. dto \in RuleDto /\ id \in Nat
    <3>1. dtos \in Seq(RuleDto) /\ i \in Nat \ {0} /\ i <= Len(dtos)
      BY <1>2 DEF BuildRule, Types
    <3> QED
      BY <3>1 DEF RuleId
  <2>2. /\ rules' = rules \/ rules' = Append(rules, new)
        /\ ids' = Append(ids, dto.id)
        /\ reasons' = Append(reasons, says)
        /\ hints' = hints
    BY <1>2 DEF BuildRule, merged
  <2> HIDE DEF dto, id
  <2>3. new \in BuiltRule /\ dto.id \in STRING /\ says \in Reason
    <3>1. dto.id \in STRING /\ dto.key \in Seq(STRING) /\ dto.opts \in Seq(SUBSET STRING) /\ dto.reason \in STRING
      BY <2>1 DEF RuleDto
    <3>2. new \in BuiltRule
      BY <2>1, <3>1 DEF BuiltRule
    <3>3. says \in Reason
      <4>1. says = "none" \/ says = dto.reason
        OBVIOUS
      <4> QED
        BY <3>1, <4>1, Zenon DEF Reason
    <3> QED
      BY <3>1, <3>2, <3>3
  <2> DEFINE named == dto.id
  <2> HIDE DEF new, says
  <2>4. Append(rules, new) \in Seq(BuiltRule) /\ Append(ids, named) \in Seq(STRING)
        /\ Append(reasons, says) \in Seq(Reason)
    <3>1. rules \in Seq(BuiltRule) /\ ids \in Seq(STRING) /\ reasons \in Seq(Reason)
      BY DEF MoreTypes
    <3>2. named \in STRING
      BY <2>3
    <3> HIDE DEF named
    <3> QED
      BY <2>3, <3>1, <3>2
  <2> QED
    BY <2>2, <2>4 DEF MoreTypes
<1>3. CASE ~ReadHint /\ ~BuildRule
  <2>1. hints' = hints /\ rules' = rules /\ ids' = ids /\ reasons' = reasons
    BY <1>3 DEF Next, vars, merged, built, ReadFiles, CannotRead, ParseFile, EndParse, ReadRow, ReadRules,
         NextFile, EndMerge, CheckRow, EndRows, TooManyRules, Finish, Done
  <2> QED
    BY <2>1 DEF MoreTypes
<1> QED
  BY <1>1, <1>2, <1>3

(* What is loaded stays what was built.                                    *)
LEMMA LoadedRestStep == LoadedRest /\ LoadedOK /\ [Next]_vars => LoadedRest'
<1> SUFFICES ASSUME LoadedRest, LoadedOK, [Next]_vars PROVE LoadedRest'
  OBVIOUS
<1>1. CASE Finish
  <2> DEFINE rs == [n \in DOMAIN entries |-> CHOOSE row \in entries[n].row : TRUE]
  <2>1. /\ step' = "Done" /\ rules' = rules /\ ids' = ids /\ reasons' = reasons /\ hints' = hints
        /\ loaded' = {} \/ loaded' =
             {[rows |-> rs, rules |-> rules, ids |-> ids, reasons |-> reasons, hints |-> hints]}
    BY <1>1 DEF Finish, merged, built
  <2> HIDE DEF rs
  <2> QED
    BY <2>1 DEF LoadedRest
<1>2. CASE step = "Done" /\ ~Finish
  BY <1>2 DEF LoadedRest, Next, vars, cursor, merged, built, ReadFiles, CannotRead, ParseFile, EndParse,
     Merging, ReadRow, ReadRules, ReadHint, NextFile, EndMerge, CheckRow, EndRows, BuildRule, TooManyRules, Done
<1>3. CASE step # "Done" /\ ~Finish
  <2>1. loaded = {}
    BY <1>3 DEF LoadedOK
  <2>2. loaded' = loaded
    BY <1>3 DEF Next, vars, cursor, merged, built, ReadFiles, CannotRead, ParseFile, EndParse,
     Merging, ReadRow, ReadRules, ReadHint, NextFile, EndMerge, CheckRow, EndRows, BuildRule, TooManyRules, Done
  <2> QED
    BY <2>1, <2>2 DEF LoadedRest
<1> QED
  BY <1>1, <1>2, <1>3

-----------------------------------------------------------------------------
(* One element more, and what is made of each.                             *)
LEMMA OneMadeMore ==
  ASSUME NEW rows \in Seq(RowDto), NEW row \in RowDto, NEW es,
         es = [m \in 1 .. Len(rows) |-> EntryOf(rows[m])]
  PROVE  Append(es, EntryOf(row)) =
           [m \in 1 .. Len(Append(rows, row)) |-> EntryOf(Append(rows, row)[m])]
<1> DEFINE t == Append(rows, row)
           more == [m \in 1 .. Len(t) |-> EntryOf(t[m])]
           e == EntryOf(row)
<1>1. /\ t \in Seq(RowDto) /\ Len(t) = Len(rows) + 1 /\ Len(rows) \in Nat /\ t[Len(rows) + 1] = row
      /\ \A m \in 1 .. Len(rows) : t[m] = rows[m] /\ rows[m] \in RowDto
      /\ \A m \in 1 .. Len(t) : t[m] \in RowDto
  OBVIOUS
<1> HIDE DEF t
<1>2. es \in Seq(Entry) /\ Len(es) = Len(rows) /\ \A m \in 1 .. Len(rows) : es[m] = EntryOf(rows[m])
  <2>1. \A m \in 1 .. Len(rows) : EntryOf(rows[m]) \in Entry
    BY <1>1 DEF Entry
  <2> QED
    BY <1>1, <2>1
<1>3. more \in Seq(Entry) /\ Len(more) = Len(t) /\ \A m \in 1 .. Len(t) : more[m] = EntryOf(t[m])
  <2>1. \A m \in 1 .. Len(t) : EntryOf(t[m]) \in Entry
    BY <1>1 DEF Entry
  <2> QED
    BY <1>1, <2>1
<1>4. e \in Entry
  BY DEF Entry
<1>5. more[Len(es) + 1] = e /\ \A m \in 1 .. Len(es) : more[m] = es[m]
  <2>1. Len(rows) + 1 \in 1 .. Len(t) /\ \A m \in 1 .. Len(rows) : m \in 1 .. Len(t)
    BY <1>1
  <2> QED
    BY <1>1, <1>2, <1>3, <2>1
<1> HIDE DEF more, e
<1>6. Len(more) = Len(es) + 1
  BY <1>1, <1>2, <1>3
<1>7. more = Append(es, e)
  BY <1>2, <1>3, <1>4, <1>5, <1>6, OneLonger, Zenon
<1> QED
  BY <1>7 DEF more, e, t

(* The entries stay what is made of the rows said.                         *)
LEMMA RowsStep ==
  ASSUME Right, RowsAs(RowsSaid)
  PROVE  RowsAs(RowsSaid)'
<1>1. Types /\ [Next]_vars /\ RowsSaid \in Seq(RowDto)
  BY SaidStep DEF Right
<1>2. CASE ReadRow
  <2> DEFINE row == files[f].rows[i]
  <2>1. RowsSaid' = Append(RowsSaid, row) /\ row \in RowDto
    BY <1>2, SaidStep
  <2>2. entries' = Append(entries, EntryOf(row))
    <3>1. parsed = files
      BY <1>2, FromFiles DEF ReadRow, Merging
    <3> QED
      BY <1>2, <3>1 DEF ReadRow
  <2> HIDE DEF row
  <2>3. Append(entries, EntryOf(row)) =
          [m \in 1 .. Len(Append(RowsSaid, row)) |-> EntryOf(Append(RowsSaid, row)[m])]
    <3>1. entries = [m \in 1 .. Len(RowsSaid) |-> EntryOf(RowsSaid[m])]
      BY DEF RowsAs
    <3> HIDE DEF RowsSaid
    <3> QED
      BY <1>1, <2>1, <3>1, OneMadeMore
  <2>4. entries' = [m \in 1 .. Len(RowsSaid') |-> EntryOf(RowsSaid'[m])]
    BY <2>1, <2>2, <2>3, Zenon
  <2> QED
    BY <2>4 DEF RowsAs
<1>3. CASE ~ReadRow
  <2>1. entries' = entries
    BY <1>1, <1>3, EntriesStay
  <2>2. RowsSaid' = RowsSaid
    BY <1>3, SaidStep
  <2>3. entries' = [m \in 1 .. Len(RowsSaid') |-> EntryOf(RowsSaid'[m])]
    BY <2>1, <2>2 DEF RowsAs
  <2> QED
    BY <2>3 DEF RowsAs
<1> QED
  BY <1>2, <1>3

(* The rules stay those said.                                              *)
LEMMA RulesStep ==
  ASSUME Right, dtos = RulesSaid
  PROVE  dtos' = RulesSaid'
<1>1. CASE ReadRow
  <2>1. dtos' = dtos
    BY <1>1 DEF ReadRow
  <2> QED
    BY <1>1, <2>1, SaidStep
<1>2. CASE ReadRules
  <2>1. parsed = files
    BY <1>2, FromFiles DEF ReadRules, Merging
  <2>2. dtos' = dtos \o files[f].rules
    BY <1>2, <2>1 DEF ReadRules
  <2>3. RulesSaid' = RulesSaid \o files[f].rules
    BY <1>2, SaidStep
  <2> QED
    BY <2>2, <2>3
<1>3. CASE ~ReadRow /\ ~ReadRules
  <2>1. dtos' = dtos
    BY <1>3 DEF Right, Next, vars, merged, ReadFiles, CannotRead, ParseFile, EndParse, ReadHint,
         NextFile, EndMerge, CheckRow, EndRows, BuildRule, TooManyRules, Finish, Done
  <2> QED
    BY <1>3, <2>1, SaidStep
<1> QED
  BY <1>1, <1>2, <1>3

-----------------------------------------------------------------------------
(* Hints.                                                                  *)

(* What is read of the hints changes with the hint read only.              *)
LEMMA ReadStep ==
  ASSUME Right, NEW k, NEW m
  PROVE  /\ ReadHint => (HintRead(k, m)' <=> HintRead(k, m) \/ (k = f /\ m = i))
         /\ ~ReadHint => (HintRead(k, m)' <=> HintRead(k, m))
         /\ Tagged(k, m)' = Tagged(k, m)
<1>1. files' = files /\ files \in Seq(FileDto) /\ Len(files) \in Nat /\ DOMAIN files = 1 .. Len(files)
      /\ f \in Nat \ {0} /\ i \in Nat \ {0} /\ part \in {"Rows", "Hints"}
      /\ step \in {"Read", "Parse", "Merge", "Rows", "Rules", "Done"}
  BY FilesStay DEF Right, Types
<1>2. Tagged(k, m)' = Tagged(k, m)
  BY <1>1 DEF Tagged
<1>3. SUFFICES ASSUME k \in DOMAIN files, m \in DOMAIN files[k].hints
      PROVE  /\ ReadHint => (HintRead(k, m)' <=> HintRead(k, m) \/ (k = f /\ m = i))
             /\ ~ReadHint => (HintRead(k, m)' <=> HintRead(k, m))
  <2>1. ASSUME ReadHint PROVE f \in DOMAIN files /\ i \in DOMAIN files[f].hints
    <3>1. f \in DOMAIN files /\ i <= Len(files[f].hints)
      BY <1>1, <2>1, FromFiles DEF ReadHint, Merging
    <3>2. files[f].hints \in Seq(HintDto)
      BY <1>1, <3>1, FilesSay
    <3> QED
      BY <1>1, <3>1, <3>2
  <2> QED
    BY <1>1, <1>2, <2>1 DEF HintRead
<1>4. k \in Nat \ {0} /\ k <= Len(files) /\ m \in Nat \ {0} /\ m <= Len(files[k].hints) /\ Len(files[k].hints) \in Nat
  <2>1. files[k].hints \in Seq(HintDto)
    BY <1>1, <1>3, FilesSay
  <2> QED
    BY <1>1, <1>3, <2>1
<1>5. /\ HintRead(k, m) <=>
           (step \in {"Rows", "Rules", "Done"} \/ (step = "Merge" /\ (k < f \/ (k = f /\ part = "Hints" /\ m < i))))
      /\ HintRead(k, m)' <=>
           (step' \in {"Rows", "Rules", "Done"} \/
              (step' = "Merge" /\ (k < f' \/ (k = f' /\ part' = "Hints" /\ m < i'))))
  BY <1>1, <1>3 DEF HintRead
<1>6. CASE ReadHint
  <2>1. step = "Merge" /\ step' = "Merge" /\ f' = f /\ part = "Hints" /\ part' = "Hints" /\ i' = i + 1
    BY <1>6 DEF ReadHint, Merging
  <2>2. m < i + 1 <=> m < i \/ m = i
    BY <1>1, <1>4
  <2>3. ~(k < f /\ k = f)
    BY <1>1, <1>4
  <2> QED
    BY <1>5, <1>6, <2>1, <2>2, <2>3
<1>7. CASE NextFile
  <2>1. step = "Merge" /\ step' = "Merge" /\ f' = f + 1 /\ part = "Hints" /\ part' = "Rows"
        /\ i > Len(files[f].hints)
    BY <1>7, FromFiles DEF NextFile, Merging
  <2>2. k < f + 1 <=> k < f \/ k = f
    BY <1>1, <1>4
  <2>3. k = f => m < i
    BY <1>1, <1>4, <2>1
  <2>4. ~ReadHint
    BY <2>1, <1>1 DEF ReadHint
  <2> QED
    BY <1>5, <2>1, <2>2, <2>3, <2>4
<1>8. CASE EndParse
  <2>1. step = "Parse" /\ step' = "Merge" /\ f' = 1 /\ part' = "Rows"
    BY <1>8 DEF EndParse, Right, Beginning
  <2>2. ~(k < 1)
    BY <1>4
  <2>3. ~ReadHint
    BY <2>1 DEF ReadHint, Merging
  <2> QED
    BY <1>5, <2>1, <2>2, <2>3
<1>9. CASE ReadRules
  <2>1. step = "Merge" /\ step' = "Merge" /\ f' = f /\ i' = 1 /\ part = "Rows"
    BY <1>9 DEF ReadRules, Merging
  <2>2. ~(m < 1)
    BY <1>4
  <2>3. ~ReadHint
    BY <2>1 DEF ReadHint, Merging
  <2> QED
    BY <1>5, <2>1, <2>2, <2>3
<1>10. CASE EndMerge
  <2>1. step = "Merge" /\ step' = "Rows" /\ f > Len(files)
    BY <1>10, FromFiles DEF EndMerge
  <2>2. k < f
    BY <1>1, <1>4, <2>1
  <2>3. ~ReadHint
    BY <2>1, <1>10 DEF ReadHint, Merging, EndMerge
  <2> QED
    BY <1>5, <2>1, <2>2, <2>3
<1>11. CASE ReadRow
  <2>1. step = "Merge" /\ step' = "Merge" /\ f' = f /\ part = "Rows" /\ part' = "Rows"
    BY <1>11 DEF ReadRow, Merging
  <2>2. ~ReadHint
    BY <2>1 DEF ReadHint
  <2> QED
    BY <1>5, <2>1, <2>2
<1>12. CASE ~ReadHint /\ ~NextFile /\ ~EndParse /\ ~ReadRules /\ ~EndMerge /\ ~ReadRow
  <2>1. ~CannotRead
    BY DEF CannotRead, Right, Error
  <2>2. \/ step \in {"Read", "Parse"} /\ step' \in {"Read", "Parse"}
        \/ step \in {"Rows", "Rules", "Done"} /\ step' \in {"Rows", "Rules", "Done"}
        \/ step' = step /\ f' = f /\ part' = part /\ i' = i
    BY <1>12, <2>1 DEF Right, Next, vars, cursor, ReadFiles, ParseFile, CheckRow, EndRows,
       BuildRule, TooManyRules, Finish, Done
  <2> QED
    BY <1>5, <1>12, <2>2
<1> QED
  BY <1>2, <1>6, <1>7, <1>8, <1>9, <1>10, <1>11, <1>12

(* The hint that is read without a problem, and what is kept then.         *)
LEMMA HintStep ==
  ASSUME Right, MoreTypes, HintsKept, ReadHint
  PROVE  LET t == Tagged(f, i) IN
           /\ t \in Hint
           /\ Members(hints') = {x \in Members(hints) : x.key # t.key} \cup {t}
           /\ \A x \in Members(hints) : x.key = t.key => t.origin = "User" /\ x.origin # "User"
<1> DEFINE h == parsed[f].hints[i]
           origin == parsed[f].origin
           t == [key |-> h.key, text |-> h.text, origin |-> origin]
<1>1. h \in HintDto /\ origin \in {"Embedded", "User"}
  BY TheHint DEF Right
<1>2. t = Tagged(f, i)
  <2>1. parsed = files
    BY FromFiles DEF ReadHint, Merging
  <2> QED
    BY <2>1 DEF Tagged
<1>3. /\ errs' = errs \cup Error(HintErrors(h, origin), h.key)
      /\ hints' = IF HintErrors(h, origin) # {} THEN hints ELSE PutHint(t)
  BY DEF ReadHint
<1> HIDE DEF h, origin
<1>4. HintErrors(h, origin) = {}
  BY <1>3 DEF Error, Right
<1>5. t \in Hint /\ t.key = h.key /\ t.origin = origin
  BY <1>1 DEF HintDto, Hint
<1> HIDE DEF t
<1>6. Members(hints') = {x \in Members(hints) : x.key # t.key} \cup {t}
  <2>1. hints' = PutHint(t)
    BY <1>3, <1>4
  <2>2. Members(PutHint(t)) = {x \in Members(hints) : x.key # t.key} \cup {t}
    BY <1>5, HintPut DEF MoreTypes
  <2> QED
    BY <2>1, <2>2, Zenon
<1>7. ASSUME NEW x \in Members(hints), x.key = t.key PROVE t.origin = "User" /\ x.origin # "User"
  <2>1. x \notin Pool(origin)
    BY <1>4, <1>5, <1>7 DEF HintErrors, When
  <2> QED
    BY <1>1, <1>5, <1>7, <2>1 DEF Pool, Members
<1> QED
  BY <1>2, <1>5, <1>6, <1>7

(* The hints kept stay those of the files.                                 *)
LEMMA HintsStep ==
  ASSUME Right, MoreTypes, HintsKept
  PROVE  HintsKept'
<1>1. files' = files
  BY FilesStay DEF Right
<1>2. \A k, m : Tagged(k, m)' = Tagged(k, m)
  BY ReadStep
<1>3. CASE ReadHint
  <2> DEFINE t == Tagged(f, i)
             Kept == Members(hints)
             More == Members(hints')
             Read(k, m) == HintRead(k, m)
             ReadThen(k, m) == HintRead(k, m)'
  <2>1. /\ More = {x \in Kept : x.key # t.key} \cup {t}
        /\ \A x \in Kept : x.key = t.key => t.origin = "User" /\ x.origin # "User"
    BY <1>3, HintStep
  <2>2. \A k, m : ReadThen(k, m) <=> Read(k, m) \/ (k = f /\ m = i)
    BY <1>3, ReadStep
  <2>3. /\ \A x \in Kept : \E k, m : Read(k, m) /\ x = Tagged(k, m)
        /\ \A x, y \in Kept : x.key = y.key => x = y
        /\ \A k, m : Read(k, m) =>
             \E x \in Kept :
               /\ x.key = files[k].hints[m].key
               /\ x = Tagged(k, m) \/ (files[k].origin = "Embedded" /\ x.origin = "User")
    BY Zenon DEF HintsKept
  <2>4. \A k, m : /\ Tagged(k, m).key = files[k].hints[m].key
                  /\ Tagged(k, m).origin = files[k].origin
    BY DEF Tagged
  <2> HIDE DEF Kept, More, Read, ReadThen, t
  <2>5. \A x \in More : \E k, m : ReadThen(k, m) /\ x = Tagged(k, m)
    <3>1. TAKE x \in More
    <3>2. CASE x = t
      BY <2>2, <3>2 DEF t
    <3>3. CASE x \in Kept
      BY <2>2, <2>3, <3>3
    <3> QED
      BY <2>1, <3>1, <3>2, <3>3
  <2>6. \A x, y \in More : x.key = y.key => x = y
    BY <2>1, <2>3
  <2>7. ASSUME NEW k, NEW m, ReadThen(k, m)
        PROVE  \E x \in More :
                 /\ x.key = files[k].hints[m].key
                 /\ x = Tagged(k, m) \/ (files[k].origin = "Embedded" /\ x.origin = "User")
    <3>1. t \in More
      BY <2>1
    <3>2. CASE k = f /\ m = i
      <4>1. t = Tagged(k, m)
        BY <3>2 DEF t
      <4> QED
        BY <2>4, <3>1, <4>1, Zenon
    <3>3. CASE Read(k, m)
      <4>1. PICK x \in Kept : /\ x.key = files[k].hints[m].key
                              /\ x = Tagged(k, m) \/ (files[k].origin = "Embedded" /\ x.origin = "User")
        BY <2>3, <3>3
      <4>2. CASE x.key # t.key
        <5>1. x \in More
          BY <2>1, <4>2
        <5> QED
          BY <4>1, <5>1, Zenon
      <4>3. CASE x.key = t.key
        <5>1. t.origin = "User" /\ x.origin # "User"
          BY <2>1, <4>3
        <5>2. x = Tagged(k, m) /\ t.key = files[k].hints[m].key
          BY <4>1, <4>3, <5>1
        <5>3. files[k].origin # "User"
          BY <2>4, <5>1, <5>2, Zenon
        <5>4. files[k].origin = "Embedded"
          <6>1. files[k].origin \in {"Embedded", "User"}
            <7>1. k \in DOMAIN files
              BY <3>3 DEF Read, HintRead
            <7>2. files \in Seq(FileDto)
              BY DEF Right, Types
            <7> QED
              BY <7>1, <7>2, FilesSay
          <6> QED
            BY <5>3, <6>1
        <5> QED
          BY <3>1, <5>1, <5>2, <5>4, Zenon
      <4> QED
        BY <4>2, <4>3
    <3> QED
      BY <2>2, <2>7, <3>2, <3>3
  <2> QED
    <3>1. /\ \A x \in Members(hints)' : \E k, m : HintRead(k, m)' /\ x = Tagged(k, m)'
          /\ \A x, y \in Members(hints)' : x.key = y.key => x = y
          /\ \A k, m : HintRead(k, m)' =>
               \E x \in Members(hints)' :
                 /\ x.key = files'[k].hints[m].key
                 /\ x = Tagged(k, m)' \/ (files'[k].origin = "Embedded" /\ x.origin = "User")
      <4>1. Members(hints)' = More
        BY DEF More, Members
      <4> QED
        BY <1>1, <1>2, <2>5, <2>6, <2>7, <4>1 DEF ReadThen
    <3> QED
      BY <3>1, Zenon DEF HintsKept
<1>4. CASE ~ReadHint
  <2>1. hints' = hints
    BY <1>4 DEF Right, Next, vars, merged, ReadFiles, CannotRead, ParseFile, EndParse, ReadRow, ReadRules,
         NextFile, EndMerge, CheckRow, EndRows, BuildRule, TooManyRules, Finish, Done
  <2>2. \A k, m : HintRead(k, m)' <=> HintRead(k, m)
    BY <1>4, ReadStep
  <2>3. Members(hints)' = Members(hints)
    BY <2>1 DEF Members
  <2> QED
    BY <1>1, <1>2, <2>2, <2>3 DEF HintsKept
<1> QED
  BY <1>3, <1>4

-----------------------------------------------------------------------------
(* Rules are built one by one, each with its number, id and reason.        *)
LEMMA RulesBuiltStep ==
  ASSUME Right, MoreTypes, RulesBuilt
  PROVE  RulesBuilt'
<1>1. step \in {"Read", "Parse", "Merge", "Rows", "Rules", "Done"} /\ i \in Nat \ {0} /\ dtos \in Seq(RuleDto)
      /\ Len(dtos) \in Nat
  BY DEF Right, Types
<1>2. CASE BuildRule
  <2> DEFINE dto == dtos[i]
             new == [id |-> i - 1, key |-> dto.key, opts |-> dto.opts]
             named == dto.id
             reason == dto.reason
             all == IdErrors(dto) \cup When("BadText", dto.reason = "bad") \cup RuleErrors(dto)
  <2>1. step = "Rules" /\ step' = "Rules" /\ i' = i + 1 /\ i <= Len(dtos) /\ dtos' = dtos
        /\ errs' = errs \cup Error(all, dto.key)
    BY <1>2 DEF BuildRule, merged
  <2>2. When("BadText", dto.reason = "bad") = {} /\ RuleErrors(dto) = {}
    <3>1. all = {}
      <4> HIDE DEF all, dto
      <4> QED
        BY <2>1 DEF Error, Right
    <3> QED
      BY <3>1
  <2>3. rules' = Append(rules, new) /\ ids' = Append(ids, named) /\ reasons' = Append(reasons, reason)
    BY <1>2, <2>2 DEF BuildRule, RuleId
  <2>4. RulesAs(i - 1)
    BY <2>1 DEF RulesBuilt
  <2>5. new \in BuiltRule /\ named \in STRING /\ reason \in Reason
    <3>1. dto \in RuleDto
      BY <1>1, <2>1
    <3> HIDE DEF dto
    <3>2. i - 1 \in Nat
      BY <1>1
    <3> QED
      BY <3>1, <3>2 DEF RuleDto, BuiltRule, Reason
  <2>6. new = [id |-> i - 1, key |-> dtos[i].key, opts |-> dtos[i].opts]
        /\ named = dtos[i].id /\ reason = dtos[i].reason
    OBVIOUS
  <2> HIDE DEF new, named, reason, dto
  <2>7. rules \in Seq(BuiltRule) /\ ids \in Seq(STRING) /\ reasons \in Seq(Reason)
    BY DEF MoreTypes
  <2>8. Len(rules) = i - 1 /\ Len(ids) = i - 1 /\ Len(reasons) = i - 1
    BY <2>4 DEF RulesAs
  <2>9. /\ Len(rules') = i /\ rules'[i] = new /\ \A m \in 1 .. i - 1 : rules'[m] = rules[m]
        /\ Len(ids') = i /\ ids'[i] = named /\ \A m \in 1 .. i - 1 : ids'[m] = ids[m]
        /\ Len(reasons') = i /\ reasons'[i] = reason /\ \A m \in 1 .. i - 1 : reasons'[m] = reasons[m]
    BY <1>1, <2>3, <2>5, <2>7, <2>8
  <2>10. ASSUME NEW m \in 1 .. i
         PROVE  /\ rules'[m] = [id |-> m - 1, key |-> dtos[m].key, opts |-> dtos[m].opts]
                /\ ids'[m] = dtos[m].id /\ reasons'[m] = dtos[m].reason
    <3>1. CASE m = i
      BY <2>6, <2>9, <3>1
    <3>2. CASE m # i
      <4>1. m \in 1 .. i - 1
        BY <1>1, <3>2
      <4> QED
        BY <2>4, <2>9, <4>1 DEF RulesAs
    <3> QED
      BY <3>1, <3>2
  <2>11. i' - 1 = i /\ i' <= Len(dtos') + 1
    BY <1>1, <2>1
  <2>12. RulesAs(i - 1)'
    BY <2>1, <2>9, <2>10, <2>11 DEF RulesAs
  <2> QED
    BY <2>1, <2>11, <2>12 DEF RulesBuilt
<1>3. CASE EndRows
  <2>1. step' = "Rules" /\ i' = 1 /\ RulesAs(0) /\ dtos' = dtos
    BY <1>3 DEF EndRows, RulesBuilt, merged
  <2>2. rules' = rules /\ ids' = ids /\ reasons' = reasons
    BY <1>3 DEF EndRows, built
  <2>3. i' - 1 = 0 /\ i' <= Len(dtos') + 1
    BY <1>1, <2>1
  <2>4. RulesAs(i - 1)'
    BY <2>1, <2>2, <2>3 DEF RulesAs
  <2> QED
    BY <2>1, <2>3, <2>4 DEF RulesBuilt
<1>4. CASE Finish
  <2>1. step' = "Done" /\ dtos' = dtos /\ step = "Rules" /\ i > Len(dtos)
    BY <1>4 DEF Finish, merged
  <2>2. rules' = rules /\ ids' = ids /\ reasons' = reasons
    BY <1>4 DEF Finish, built
  <2>3. RulesAs(i - 1) /\ i <= Len(dtos) + 1
    BY <2>1 DEF RulesBuilt
  <2>4. i - 1 = Len(dtos)
    BY <1>1, <2>1, <2>3
  <2>5. RulesAs(Len(dtos))'
    BY <2>1, <2>2, <2>3, <2>4 DEF RulesAs
  <2> QED
    BY <2>1, <2>5 DEF RulesBuilt
<1>5. CASE ~BuildRule /\ ~EndRows /\ ~Finish
  <2>1. ~CannotRead /\ ~TooManyRules
    BY DEF CannotRead, TooManyRules, Right, Error
  <2>2. rules' = rules /\ ids' = ids /\ reasons' = reasons
    BY <1>5, <2>1 DEF Right, Next, vars, built, ReadFiles, ParseFile, EndParse, ReadRow, ReadRules, ReadHint,
         NextFile, EndMerge, CheckRow, Done
  <2>3. CASE step \in {"Rules", "Done"}
    <3>1. step' = step /\ i' = i /\ dtos' = dtos
      BY <1>5, <2>1, <2>3 DEF Right, Next, vars, cursor, merged, ReadFiles, ParseFile, EndParse,
         Merging, ReadRow, ReadRules, ReadHint, NextFile, EndMerge, CheckRow, Done
    <3>2. /\ RulesAs(i - 1)' <=> RulesAs(i - 1)
          /\ RulesAs(Len(dtos))' <=> RulesAs(Len(dtos))
      BY <2>2, <3>1 DEF RulesAs
    <3> QED
      BY <2>3, <3>1, <3>2 DEF RulesBuilt
  <2>4. CASE step \notin {"Rules", "Done"}
    <3>1. step' \notin {"Rules", "Done"}
      BY <1>5, <2>1, <2>4 DEF Right, Next, vars, cursor, ReadFiles, ParseFile, EndParse,
         Merging, ReadRow, ReadRules, ReadHint, NextFile, EndMerge, CheckRow, Done
    <3>2. RulesAs(0)
      BY <2>4 DEF RulesBuilt
    <3>3. RulesAs(0)'
      BY <2>2, <3>2 DEF RulesAs
    <3> QED
      BY <3>1, <3>3 DEF RulesBuilt
  <2> QED
    BY <2>3, <2>4
<1> QED
  BY <1>2, <1>3, <1>4, <1>5

-----------------------------------------------------------------------------
(* The invariant holds in every state.                                     *)
THEOREM SayInvAlways == Spec => []SayInv
<1>1. Init => SayInv
  <2> SUFFICES ASSUME Init PROVE SayInv
    OBVIOUS
  <2>1. files \in Seq(FileDto) /\ Len(files) \in Nat
    BY FilesAssumption DEF Init
  <2>2. step = "Read" /\ f = 1 /\ parsed = <<>> /\ loaded = {}
    BY DEF Init
  <2>3. MoreTypes /\ LoadedRest
    BY DEF Init, MoreTypes, LoadedRest
  <2>4. AllParsed
    BY <2>1, <2>2 DEF AllParsed
  <2>5. InFiles /\ RulesBuilt
    BY DEF Init, InFiles, RulesBuilt, RulesAs
  <2>6. RowsAs(RowsSaid) /\ dtos = RulesSaid
    <3>1. RowsSaid = <<>> /\ RulesSaid = <<>>
      BY <2>2 DEF RowsSaid, RulesSaid
    <3>2. entries = <<>> /\ dtos = <<>>
      BY DEF Init
    <3> QED
      BY <3>1, <3>2 DEF RowsAs
  <2>7. HintsKept
    <3>1. Members(hints) = {} /\ \A k, m : ~HintRead(k, m)
      BY <2>2 DEF Init, Members, HintRead
    <3> QED
      BY <3>1 DEF HintsKept
  <2> QED
    BY <2>3, <2>4, <2>5, <2>6, <2>7 DEF SayInv
<1>2. RowsInv /\ SayInv /\ [Next]_vars => SayInv'
  <2> SUFFICES ASSUME RowsInv, SayInv, [Next]_vars PROVE SayInv'
    OBVIOUS
  <2>1. Types /\ Beginning /\ LoadedOK
    BY DEF RowsInv
  <2>2. MoreTypes' /\ LoadedRest' /\ AllParsed'
    BY <2>1, MoreTypesStep, LoadedRestStep, AllParsedStep DEF SayInv
  <2>3. ASSUME errs' = {}
        PROVE  InFiles' /\ RowsAs(RowsSaid)' /\ dtos' = RulesSaid' /\ HintsKept' /\ RulesBuilt'
    <3>1. errs = {}
      BY <2>1, <2>3, StaysWrong
    <3>2. InFiles /\ RowsAs(RowsSaid) /\ dtos = RulesSaid /\ HintsKept /\ RulesBuilt /\ MoreTypes /\ AllParsed
      BY <3>1 DEF SayInv
    <3>3. Right
      BY <2>1, <2>3, <3>1, <3>2 DEF Right
    <3> QED
      BY <3>2, <3>3, InFilesStep, RowsStep, RulesStep, HintsStep, RulesBuiltStep
  <2> QED
    BY <2>2, <2>3 DEF SayInv
<1> QED
  BY <1>1, <1>2, RowsCorrect, PTL DEF Spec

-----------------------------------------------------------------------------
(* A key that begins a key and is as long is that key, and a key begins    *)
(* itself.                                                                 *)
LEMMA SameKey ==
  ASSUME NEW s \in Seq(STRING), NEW t \in Seq(STRING)
  PROVE  IsPrefix(t, t) /\ (IsPrefix(s, t) => Len(s) <= Len(t)) /\ (IsPrefix(s, t) /\ Len(t) <= Len(s) => s = t)
<1>1. SubSeq(s, 1, Len(s)) = s /\ SubSeq(t, 1, Len(t)) = t /\ Len(s) \in Nat /\ Len(t) \in Nat
  BY SubSeqFull
<1>2. IsPrefix(t, t) /\ (IsPrefix(s, t) => Len(s) <= Len(t))
  BY <1>1 DEF IsPrefix
<1>3. ASSUME IsPrefix(s, t), Len(t) <= Len(s) PROVE s = t
  <2>1. Len(s) = Len(t)
    <3>1. Len(s) <= Len(t) /\ Len(t) <= Len(s)
      BY <1>2, <1>3
    <3>2. Len(s) \in Nat /\ Len(t) \in Nat
      OBVIOUS
    <3> QED
      BY <3>1, <3>2
  <2>2. SubSeq(s, 1, Len(s)) = SubSeq(t, 1, Len(s))
    BY <1>3 DEF IsPrefix
  <2> QED
    BY <1>1, <2>1, <2>2
<1> QED
  BY <1>2, <1>3

(* The rows loaded are those of the files.                                 *)
LEMMA RowsAreTheFiles ==
  ASSUME RowsInv, SayInv, NEW l \in loaded
  PROVE  l.rows = All("rows")
<1> DEFINE rows == All("rows")
<1>1. /\ errs = {} /\ step = "Done"
      /\ l.rows = [n \in DOMAIN entries |-> CHOOSE row \in entries[n].row : TRUE]
  BY DEF RowsInv, SayInv, LoadedOK, LoadedRest
<1>2. files \in Seq(FileDto) /\ Len(files) \in Nat
  BY DEF RowsInv, Types
<1>3. rows = RowsSaid /\ rows \in Seq(RowDto)
  <2>1. RowsSaid = UpTo(Len(files), "rows")
    BY <1>1 DEF RowsSaid
  <2>2. Len(files) \in 0 .. Len(files)
    BY <1>2
  <2> QED
    BY <1>2, <2>1, <2>2, RowsUpTo
<1> HIDE DEF rows
<1>4. entries = [m \in 1 .. Len(rows) |-> EntryOf(rows[m])]
  BY <1>1, <1>3 DEF SayInv, RowsAs
<1>5. ASSUME NEW n \in DOMAIN entries PROVE (CHOOSE row \in entries[n].row : TRUE) = rows[n]
  <2>1. PICK row \in RowDto : entries[n] = [key |-> row.key, row |-> {row}]
    BY <1>1, <1>5 DEF RowsInv, Built, IsBuilt
  <2>2. entries[n].row = {row}
    BY <2>1
  <2>3. row = rows[n]
    <3>1. entries[n].row = IF RowErrors(rows[n]) = {} THEN {rows[n]} ELSE {}
      BY <1>4, <1>5 DEF EntryOf
    <3> QED
      BY <2>2, <3>1
  <2> QED
    BY <2>2, <2>3
<1>6. DOMAIN entries = 1 .. Len(rows) /\ Len(rows) \in Nat
  BY <1>3, <1>4
<1>7. l.rows = [n \in 1 .. Len(rows) |-> rows[n]]
  BY <1>1, <1>5, <1>6
<1>8. rows = [n \in 1 .. Len(rows) |-> rows[n]]
  BY <1>3
<1> QED
  BY <1>7, <1>8 DEF rows

(* The hint a command gets is the one of the files, a user's first.        *)
LEMMA HintsAreTheFiles ==
  ASSUME RowsInv, SayInv, NEW l \in loaded, NEW k0 \in DOMAIN files, NEW m0 \in DOMAIN files[k0].hints
  PROVE  LET key == files[k0].hints[m0].key IN
           {[key |-> x.key, text |-> x.text] : x \in HintFor(l, key)} =
             IF HintsOf("User", key) # {} THEN HintsOf("User", key) ELSE HintsOf("Embedded", key)
<1> DEFINE key == files[k0].hints[m0].key
           Plain(x) == [key |-> x.key, text |-> x.text]
<1>1. errs = {} /\ step = "Done" /\ l.hints = hints
  BY DEF RowsInv, SayInv, LoadedOK, LoadedRest
<1>2. HintsKept /\ hints \in Seq(Hint)
  BY <1>1 DEF SayInv, MoreTypes
<1>3. files \in Seq(FileDto)
  BY DEF RowsInv, Types
<1>4. ASSUME NEW k \in DOMAIN files, NEW m \in DOMAIN files[k].hints
      PROVE  /\ files[k].hints[m] \in HintDto /\ files[k].origin \in {"Embedded", "User"}
             /\ HintRead(k, m)
             /\ Plain(Tagged(k, m)) = files[k].hints[m]
             /\ Tagged(k, m).key = files[k].hints[m].key /\ Tagged(k, m).origin = files[k].origin
  <2>1. files[k].hints \in Seq(HintDto) /\ files[k].origin \in {"Embedded", "User"}
    BY <1>3, FilesSay
  <2>2. files[k].hints[m] \in HintDto
    BY <2>1
  <2>3. HintRead(k, m)
    BY <1>1 DEF HintRead
  <2>4. Plain(Tagged(k, m)) = files[k].hints[m]
    BY <2>2 DEF Tagged, HintDto
  <2> QED
    BY <2>1, <2>2, <2>3, <2>4 DEF Tagged
<1>5. \A k, m : HintRead(k, m) => k \in DOMAIN files /\ m \in DOMAIN files[k].hints
  BY DEF HintRead
<1>6. PICK x0 \in Members(hints) : x0.key = key
  <2>1. HintRead(k0, m0)
    BY <1>4
  <2>2. \E x \in Members(hints) : x.key = files[k0].hints[m0].key
    BY <1>2, <2>1 DEF HintsKept
  <2> QED
    BY <2>2
<1>7. \A x \in Members(hints) : x \in Hint /\ x.key \in Seq(STRING)
  <2>1. \A x \in Members(hints) : x \in Hint
    BY <1>2 DEF Members
  <2> QED
    BY <2>1 DEF Hint
<1>8. key \in Seq(STRING)
  BY <1>6, <1>7
<1>9. \A x \in Members(hints) : x.key = key => x = x0
  BY <1>2, <1>6 DEF HintsKept
<1> HIDE DEF key
<1>10. HintFor(l, key) = {x0}
  <2> DEFINE fit == {h \in Members(hints) : IsPrefix(h.key, key)}
  <2>1. HintFor(l, key) = {h \in fit : \A x \in fit : Len(x.key) <= Len(h.key)}
    BY <1>1 DEF HintFor, Members
  <2>2. x0 \in fit /\ \A x \in fit : Len(x.key) <= Len(x0.key)
    BY <1>6, <1>7, <1>8, SameKey
  <2>3. \A h \in fit : Len(x0.key) <= Len(h.key) => h = x0
    <3>1. TAKE h \in fit
    <3>2. HAVE Len(x0.key) <= Len(h.key)
    <3>3. h.key = key
      BY <1>6, <1>7, <1>8, <3>2, SameKey
    <3> QED
      BY <1>9, <3>3
  <2> HIDE DEF fit
  <2> QED
    BY <2>1, <2>2, <2>3
<1>11. {Plain(x) : x \in HintFor(l, key)} = {Plain(x0)}
  BY <1>10
<1>12. \A origin, d : d \in HintsOf(origin, key) <=>
         \E k \in DOMAIN files : \E m \in DOMAIN files[k].hints :
           files[k].origin = origin /\ d = files[k].hints[m] /\ d.key = key
  BY DEF HintsOf
<1>13. ASSUME NEW k \in DOMAIN files, NEW m \in DOMAIN files[k].hints, files[k].hints[m].key = key
       PROVE  x0 = Tagged(k, m) \/ (files[k].origin = "Embedded" /\ x0.origin = "User")
  <2>1. PICK x \in Members(hints) :
               /\ x.key = files[k].hints[m].key
               /\ x = Tagged(k, m) \/ (files[k].origin = "Embedded" /\ x.origin = "User")
    <3>1. HintRead(k, m)
      BY <1>4
    <3> QED
      BY <1>2, <3>1, ZenonT(60) DEF HintsKept
  <2>2. x = x0
    BY <1>9, <1>13, <2>1
  <2> QED
    BY <2>1, <2>2
<1>14. PICK k1 \in DOMAIN files : \E m1 \in DOMAIN files[k1].hints : x0 = Tagged(k1, m1)
  BY <1>2, <1>5, <1>6 DEF HintsKept
<1>15. PICK m1 \in DOMAIN files[k1].hints : x0 = Tagged(k1, m1)
  BY <1>14
<1>16. Plain(x0) = files[k1].hints[m1] /\ files[k1].hints[m1].key = key /\ files[k1].origin = x0.origin
       /\ x0.origin \in {"Embedded", "User"}
  BY <1>4, <1>6, <1>15
<1> HIDE DEF Plain
<1>17. Plain(x0) \in HintsOf(x0.origin, key)
  <2>1. Plain(x0).key = key
    BY <1>16
  <2> QED
    BY <1>12, <1>16, <2>1
<1>18. CASE x0.origin = "User"
  <2>1. \A d \in HintsOf("User", key) : d = Plain(x0)
    <3>1. TAKE d \in HintsOf("User", key)
    <3>2. PICK k \in DOMAIN files : \E m \in DOMAIN files[k].hints :
                 files[k].origin = "User" /\ d = files[k].hints[m] /\ d.key = key
      BY <1>12, <3>1
    <3>3. PICK m \in DOMAIN files[k].hints : files[k].origin = "User" /\ d = files[k].hints[m] /\ d.key = key
      BY <3>2
    <3>4. x0 = Tagged(k, m)
      BY <1>13, <3>3
    <3> QED
      BY <1>4, <3>3, <3>4
  <2>2. HintsOf("User", key) = {Plain(x0)}
    BY <1>17, <1>18, <2>1
  <2> QED
    BY <1>11, <2>2 DEF Plain, key
<1>19. CASE x0.origin = "Embedded"
  <2>1. HintsOf("User", key) = {}
    <3>1. SUFFICES ASSUME NEW d \in HintsOf("User", key) PROVE FALSE
      OBVIOUS
    <3>2. PICK k \in DOMAIN files : \E m \in DOMAIN files[k].hints :
                 files[k].origin = "User" /\ d = files[k].hints[m] /\ d.key = key
      BY <1>12, <3>1
    <3>3. PICK m \in DOMAIN files[k].hints : files[k].origin = "User" /\ d = files[k].hints[m] /\ d.key = key
      BY <3>2
    <3>4. x0 = Tagged(k, m)
      BY <1>13, <3>3
    <3> QED
      BY <1>4, <1>19, <3>3, <3>4
  <2>2. \A d \in HintsOf("Embedded", key) : d = Plain(x0)
    <3>1. TAKE d \in HintsOf("Embedded", key)
    <3>2. PICK k \in DOMAIN files : \E m \in DOMAIN files[k].hints :
                 files[k].origin = "Embedded" /\ d = files[k].hints[m] /\ d.key = key
      BY <1>12, <3>1
    <3>3. PICK m \in DOMAIN files[k].hints : files[k].origin = "Embedded" /\ d = files[k].hints[m] /\ d.key = key
      BY <3>2
    <3>4. x0 = Tagged(k, m)
      BY <1>13, <1>19, <3>3
    <3> QED
      BY <1>4, <3>3, <3>4
  <2>3. HintsOf("Embedded", key) = {Plain(x0)}
    BY <1>17, <1>19, <2>2
  <2> QED
    BY <1>11, <2>1, <2>3 DEF Plain, key
<1> QED
  BY <1>16, <1>18, <1>19

(* What is loaded is what the files say, for every list of files: no row,  *)
(* rule, reason or hint is lost, misnumbered or replaced by another's.     *)
THEOREM LoadedAsTheFilesSay == Spec => []LoadedIsWhatTheFilesSay
<1>1. RowsInv /\ SayInv => LoadedIsWhatTheFilesSay
  <2> SUFFICES ASSUME RowsInv, SayInv, NEW l \in loaded
               PROVE
                 /\ l.rows = All("rows")
                 /\ Len(l.rules) = Len(All("rules"))
                 /\ \A n \in DOMAIN l.rules :
                      LET dto == All("rules")[n] IN
                        /\ [key |-> l.rules[n].key, opts |-> l.rules[n].opts] = [key |-> dto.key, opts |-> dto.opts]
                        /\ RuleText(l, l.rules[n].id) = [id |-> dto.id, reason |-> dto.reason]
                 /\ \A h \in UNION {{files[k].hints[m] : m \in DOMAIN files[k].hints} : k \in DOMAIN files} :
                      {[key |-> x.key, text |-> x.text] : x \in HintFor(l, h.key)} =
                        IF HintsOf("User", h.key) # {} THEN HintsOf("User", h.key) ELSE HintsOf("Embedded", h.key)
    BY DEF LoadedIsWhatTheFilesSay
  <2>1. l.rows = All("rows")
    BY RowsAreTheFiles
  <2> DEFINE dtosSaid == All("rules")
  <2>2. errs = {} /\ step = "Done" /\ l.rules = rules /\ l.ids = ids /\ l.reasons = reasons
    BY DEF RowsInv, SayInv, LoadedOK, LoadedRest
  <2>3. dtosSaid = dtos /\ dtos \in Seq(RuleDto) /\ Len(dtos) \in Nat
    <3>1. files \in Seq(FileDto) /\ dtos \in Seq(RuleDto)
      BY DEF RowsInv, Types
    <3>2. dtos = UpTo(Len(files), "rules")
      BY <2>2 DEF SayInv, RulesSaid
    <3> QED
      BY <3>1, <3>2, RowsUpTo
  <2>4. RulesAs(Len(dtos)) /\ rules \in Seq(BuiltRule)
    BY <2>2 DEF SayInv, RulesBuilt, MoreTypes
  <2>5. Len(l.rules) = Len(dtosSaid)
    BY <2>2, <2>3, <2>4 DEF RulesAs
  <2>6. ASSUME NEW n \in DOMAIN l.rules
        PROVE  /\ [key |-> l.rules[n].key, opts |-> l.rules[n].opts] =
                    [key |-> dtosSaid[n].key, opts |-> dtosSaid[n].opts]
               /\ RuleText(l, l.rules[n].id) = [id |-> dtosSaid[n].id, reason |-> dtosSaid[n].reason]
    <3>1. n \in 1 .. Len(dtos) /\ n \in Nat
      BY <2>2, <2>3, <2>4, <2>6 DEF RulesAs
    <3>2. /\ rules[n] = [id |-> n - 1, key |-> dtos[n].key, opts |-> dtos[n].opts]
          /\ ids[n] = dtos[n].id /\ reasons[n] = dtos[n].reason
      BY <2>4, <3>1 DEF RulesAs
    <3>3. (n - 1) + 1 = n
      BY <3>1
    <3>4. rules[n].id = n - 1 /\ rules[n].key = dtos[n].key /\ rules[n].opts = dtos[n].opts
      BY <3>2
    <3>5. RuleText(l, n - 1) = [id |-> ids[n], reason |-> reasons[n]]
      BY <2>2, <3>3 DEF RuleText
    <3> QED
      BY <2>2, <2>3, <3>2, <3>4, <3>5
  <2>7. ASSUME NEW h \in UNION {{files[k].hints[m] : m \in DOMAIN files[k].hints} : k \in DOMAIN files}
        PROVE  {[key |-> x.key, text |-> x.text] : x \in HintFor(l, h.key)} =
                 IF HintsOf("User", h.key) # {} THEN HintsOf("User", h.key) ELSE HintsOf("Embedded", h.key)
    <3>1. PICK k0 \in DOMAIN files : \E m0 \in DOMAIN files[k0].hints : h = files[k0].hints[m0]
      BY <2>7
    <3>2. PICK m0 \in DOMAIN files[k0].hints : h = files[k0].hints[m0]
      BY <3>1
    <3> QED
      BY <3>2, HintsAreTheFiles
  <2> QED
    BY <2>1, <2>5, <2>6, <2>7
<1> QED
  BY <1>1, RowsCorrect, SayInvAlways, PTL

-----------------------------------------------------------------------------
(* shguard init.                                                           *)
HoldsItsOwn ==
  /\ \A p \in InitProc : fd[p] # 0 => file[fd[p]].maker = "init"
  /\ \A p, q \in InitProc : p # q /\ fd[p] # 0 => fd[p] # fd[q]
  /\ \A p \in InitProc : pc[p] = "write" => fd[p] # 0
  /\ \A p \in InitProc : exit[p] # "none" => pc[p] = "ended"
  /\ \A n \in FileNo : n > made => file[n].maker = "nobody"

InitInv == TypeOK /\ HoldsItsOwn

-----------------------------------------------------------------------------
LEMMA TextTypes ==
  /\ Len(ConfigText) = 4
  /\ NoText \in Extent /\ WholeText \in Extent
  BY DEF ConfigText, NoText, WholeText, Extent

(* A new file has the next number, which nobody holds yet.                 *)
LEMMA NewFileInv ==
  ASSUME TypeOK, HoldsItsOwn, NEW maker \in Maker, NEW t \in Extent, NewFile(maker, t)
  PROVE  /\ made' \in 1 .. MaxFiles /\ made' = made + 1 /\ entry' = made'
         /\ file' \in [FileNo -> [maker: Maker, text: Extent]]
         /\ file'[made'] = [maker |-> maker, text |-> t]
         /\ \A n \in FileNo : n # made' => file'[n] = file[n]
         /\ \A p \in InitProc : fd[p] # made'
         /\ \A n \in FileNo : n > made' => file'[n].maker = "nobody"
<1>1. made \in Nat /\ made < MaxFiles /\ MaxFiles \in Nat
  BY InitConfigAssumption DEF TypeOK, NewFile
<1>2. made' \in FileNo /\ made' = made + 1 /\ entry' = made'
  BY <1>1 DEF NewFile, FileNo
<1>3. file' = [file EXCEPT ![made'] = [maker |-> maker, text |-> t]]
  BY DEF NewFile
<1>4. [maker |-> maker, text |-> t] \in [maker: Maker, text: Extent]
  OBVIOUS
<1>5. \A p \in InitProc : fd[p] # made'
  BY <1>1, <1>2 DEF TypeOK
<1>6. \A n \in FileNo : n # made' => file'[n] = file[n]
  BY <1>2, <1>3, <1>4 DEF TypeOK
<1>7. \A n \in FileNo : n > made' => file'[n].maker = "nobody"
  BY <1>1, <1>2, <1>6 DEF HoldsItsOwn, FileNo
<1> QED
  BY <1>2, <1>3, <1>4, <1>5, <1>6, <1>7 DEF TypeOK, FileNo

(* The invariant holds at first.                                           *)
LEMMA InitHolds ==
  ASSUME InitConfigInit
  PROVE  InitInv
  BY TextTypes, InitConfigAssumption DEF InitConfigInit, InitInv, TypeOK, HoldsItsOwn, Maker, FileNo

(* A step of one process that leaves the directory alone.                  *)
LEMMA PcStep ==
  ASSUME InitInv, NEW p \in InitProc, UNCHANGED <<location, fd, entry, file, made, moves>>,
         dir' \in BOOLEAN,
         NEW to \in {"check", "dirs", "open", "ended"},
         pc' = [pc EXCEPT ![p] = to],
         \/ exit' = exit /\ pc[p] # "ended"
         \/ /\ to = "ended"
            /\ \E code \in {"success", "failure", "killed"} : exit' = [exit EXCEPT ![p] = code]
  PROVE  InitInv'
<1>1. TypeOK'
  BY DEF InitInv, TypeOK
<1>2. HoldsItsOwn'
  BY DEF InitInv, TypeOK, HoldsItsOwn
<1> QED
  BY <1>1, <1>2 DEF InitInv

(* Every step of a process keeps the invariant.                            *)
LEMMA ProcStep ==
  ASSUME InitInv, NEW p \in InitProc, InitConfigOf(p)
  PROVE  InitInv'
<1>1. CASE Locate(p)
  BY <1>1, PcStep DEF Locate, Goto, End, fsVars, InitInv, TypeOK
<1>2. CASE CheckNone(p)
  BY <1>2, PcStep DEF CheckNone, Goto, End, fsVars, InitInv, TypeOK
<1>3. CASE StepFails(p)
  BY <1>3, PcStep DEF StepFails, End, fsVars, InitInv, TypeOK
<1>4. CASE CreateDirs(p)
  BY <1>4, PcStep DEF CreateDirs, Goto
<1>5. CASE OpenNew(p)
  <2>1. NewFile("init", NoText) /\ fd' = [fd EXCEPT ![p] = entry'] /\ pc' = [pc EXCEPT ![p] = "write"]
        /\ UNCHANGED <<location, dir, moves, exit>>
    BY <1>5 DEF OpenNew, Goto
  <2>2. /\ made' \in 1 .. MaxFiles /\ made' = made + 1 /\ entry' = made'
        /\ file' \in [FileNo -> [maker: Maker, text: Extent]]
        /\ file'[made'] = [maker |-> "init", text |-> NoText]
        /\ \A n \in FileNo : n # made' => file'[n] = file[n]
        /\ \A q \in InitProc : fd[q] # made'
        /\ \A n \in FileNo : n > made' => file'[n].maker = "nobody"
    BY <2>1, NewFileInv, TextTypes DEF InitInv, Maker
  <2>3. TypeOK'
    BY <2>1, <2>2 DEF InitInv, TypeOK
  <2>4. \A q \in InitProc : q # p => fd'[q] = fd[q] /\ pc'[q] = pc[q]
    BY <2>1 DEF InitInv, TypeOK
  <2>5. fd'[p] = made' /\ pc'[p] = "write"
    BY <2>1, <2>2 DEF InitInv, TypeOK
  <2>6. made' # 0
    BY <2>2
  <2>7. \A q \in InitProc : q # p /\ fd[q] # 0 => file'[fd[q]] = file[fd[q]]
    BY <2>2, InitConfigAssumption DEF InitInv, TypeOK, FileNo
  <2>8. HoldsItsOwn'
    BY <1>5, <2>1, <2>2, <2>4, <2>5, <2>6, <2>7 DEF OpenNew, InitInv, HoldsItsOwn
  <2> QED
    BY <2>3, <2>8 DEF InitInv
<1>6. CASE WriteSome(p)
  <2>1. /\ fd[p] \in FileNo
        /\ UNCHANGED <<location, dir, entry, made, moves, pc, fd, exit>>
    BY <1>6, InitConfigAssumption DEF WriteSome, InitInv, TypeOK, HoldsItsOwn, FileNo
  <2>2. PICK t \in Extent : file' = [file EXCEPT ![fd[p]].text = t]
    <3>1. text(p) \in Extent /\ text(p).lines < Len(ConfigText)
      BY <1>6, <2>1 DEF WriteSome, InitInv, TypeOK, text
    <3>2. /\ [lines |-> text(p).lines, torn |-> TRUE] \in Extent
          /\ [lines |-> text(p).lines + 1, torn |-> FALSE] \in Extent
      BY <3>1, TextTypes DEF Extent
    <3> QED
      BY <1>6, <3>2 DEF WriteSome
  <2>3. file' \in [FileNo -> [maker: Maker, text: Extent]]
    BY <2>1, <2>2 DEF InitInv, TypeOK
  <2>4. \A n \in FileNo : file'[n].maker = file[n].maker
    BY <2>1, <2>2 DEF InitInv, TypeOK
  <2>5. TypeOK'
    BY <2>1, <2>3 DEF InitInv, TypeOK
  <2>6. \A q \in InitProc : fd[q] # 0 => fd[q] \in FileNo
    BY InitConfigAssumption DEF InitInv, TypeOK, FileNo
  <2>7. HoldsItsOwn'
    BY <2>1, <2>4, <2>6 DEF InitInv, HoldsItsOwn
  <2> QED
    BY <2>5, <2>7 DEF InitInv
<1>7. CASE Wrote(p)
  BY <1>7, PcStep DEF Wrote, End, fsVars, InitInv, TypeOK
<1>8. CASE Killed(p)
  BY <1>8, PcStep DEF Killed, End, fsVars, InitInv, TypeOK
<1> QED
  BY <1>1, <1>2, <1>3, <1>4, <1>5, <1>6, <1>7, <1>8 DEF InitConfigOf

(* The user makes files that no process holds.                             *)
LEMMA UserStep ==
  ASSUME InitInv, User
  PROVE  InitInv'
<1>1. CASE PutConfig
  <2>1. NewFile("user", WholeText) /\ UNCHANGED <<location, dir, pc, fd, exit>> /\ moves' = moves + 1
        /\ moves < MaxMoves
    BY <1>1 DEF PutConfig
  <2>2. /\ made' \in 1 .. MaxFiles /\ made' = made + 1 /\ entry' = made'
        /\ file' \in [FileNo -> [maker: Maker, text: Extent]]
        /\ \A n \in FileNo : n # made' => file'[n] = file[n]
        /\ \A q \in InitProc : fd[q] # made'
        /\ \A n \in FileNo : n > made' => file'[n].maker = "nobody"
    BY <2>1, NewFileInv, TextTypes DEF InitInv, Maker
  <2>3. TypeOK'
    BY <2>1, <2>2, InitConfigAssumption DEF InitInv, TypeOK
  <2>4. \A q \in InitProc : fd[q] # 0 => file'[fd[q]] = file[fd[q]]
    BY <2>2, InitConfigAssumption DEF InitInv, TypeOK, FileNo
  <2>5. HoldsItsOwn'
    BY <2>1, <2>2, <2>4 DEF InitInv, HoldsItsOwn
  <2> QED
    BY <2>3, <2>5 DEF InitInv
<1>2. CASE MoveAside
  <2>1. TypeOK'
    BY <1>2, InitConfigAssumption DEF MoveAside, InitInv, TypeOK
  <2>2. HoldsItsOwn'
    BY <1>2 DEF MoveAside, InitInv, HoldsItsOwn
  <2> QED
    BY <2>1, <2>2 DEF InitInv
<1> QED
  BY <1>1, <1>2 DEF User

(* The invariant of shguard init.                                          *)
THEOREM InitCorrect == InitConfigSpec => []InitInv
<1>1. ASSUME InitInv, [InitConfigNext]_initConfigVars
      PROVE  InitInv'
  <2>1. CASE UNCHANGED initConfigVars
    BY <1>1, <2>1 DEF initConfigVars, fsVars, InitInv, TypeOK, HoldsItsOwn
  <2> QED
    BY <1>1, <2>1, ProcStep, UserStep DEF InitConfigNext
<1> QED
  BY <1>1, InitHolds, PTL DEF InitConfigSpec

(* A step of a process touches no file of the user's and takes nothing     *)
(* from the path, and a reported success is a file of its own, whole.      *)
LEMMA ProcTouchesItsOwn ==
  ASSUME InitInv, NEW p \in InitProc, InitConfigOf(p)
  PROVE  /\ entry # 0 => entry' = entry
         /\ \A n \in FileNo : file[n].maker = "user" => file'[n] = file[n]
         /\ exit'[p] = "success" =>
              /\ file'[fd[p]] = [maker |-> "init", text |-> WholeText]
              /\ \A q \in InitProc \ {p} : fd[q] # fd[p]
<1>1. entry # 0 => entry' = entry
  BY DEF InitConfigOf, Locate, CheckNone, StepFails, CreateDirs, OpenNew, WriteSome, Wrote, Killed, fsVars
<1>2. ASSUME NEW n \in FileNo, file[n].maker = "user"
      PROVE  file'[n] = file[n]
  <2>1. CASE OpenNew(p)
    <3>1. made' = made + 1 /\ \A m \in FileNo : m # made' => file'[m] = file[m]
      BY <2>1, NewFileInv, TextTypes DEF OpenNew, InitInv, Maker
    <3>2. made + 1 > made
      BY InitConfigAssumption DEF InitInv, TypeOK
    <3>3. made + 1 \in FileNo => file[made + 1].maker # "user"
      BY <3>2 DEF InitInv, HoldsItsOwn
    <3> QED
      BY <1>2, <3>1, <3>3
  <2>2. CASE WriteSome(p)
    <3>1. fd[p] # 0 /\ file[fd[p]].maker = "init" /\ fd[p] \in FileNo
      BY <2>2, InitConfigAssumption DEF WriteSome, InitInv, TypeOK, HoldsItsOwn, FileNo
    <3>2. PICK t : file' = [file EXCEPT ![fd[p]].text = t]
      BY <2>2 DEF WriteSome
    <3> QED
      BY <1>2, <3>1, <3>2 DEF InitInv, TypeOK
  <2> QED
    BY <2>1, <2>2 DEF InitConfigOf, Locate, CheckNone, StepFails, CreateDirs, Wrote, Killed, fsVars
<1>3. ASSUME exit'[p] = "success"
      PROVE  /\ file'[fd[p]] = [maker |-> "init", text |-> WholeText]
             /\ \A q \in InitProc \ {p} : fd[q] # fd[p]
  <2>1. Wrote(p)
    BY <1>3 DEF InitConfigOf, Locate, CheckNone, StepFails, CreateDirs, OpenNew, WriteSome, Killed, Goto,
                End, InitInv, TypeOK, HoldsItsOwn
  <2>2. fd[p] \in FileNo /\ fd[p] # 0 /\ file[fd[p]].maker = "init" /\ file[fd[p]].text = WholeText
    BY <2>1, InitConfigAssumption DEF Wrote, text, InitInv, TypeOK, HoldsItsOwn, FileNo
  <2>3. file[fd[p]] = [maker |-> "init", text |-> WholeText]
    BY <2>2 DEF InitInv, TypeOK
  <2> QED
    BY <2>1, <2>2, <2>3 DEF Wrote, fsVars, InitInv, HoldsItsOwn
<1> QED
  BY <1>1, <1>2, <1>3

(* What the comment on init_config promises.                               *)
THEOREM OverNoFile == InitConfigSpec => NeverOverAnExistingFile
<1>1. ASSUME InitInv, [InitConfigNext]_initConfigVars
      PROVE  [\A p \in InitProc : InitConfigOf(p) =>
                /\ entry # 0 => entry' = entry
                /\ \A n \in FileNo : file[n].maker = "user" => file'[n] = file[n]
                /\ exit'[p] = "success" =>
                     /\ file'[fd[p]] = [maker |-> "init", text |-> WholeText]
                     /\ \A q \in InitProc \ {p} : fd[q] # fd[p]]_initConfigVars
  BY <1>1, ProcTouchesItsOwn
<1> QED
  BY <1>1, InitCorrect, PTL DEF NeverOverAnExistingFile, InitConfigSpec

(* Half of the text that init writes is no weaker policy than all of it.   *)
THEOREM HalfIsNoWeaker == InitConfigSpec => []HalfWrittenIsNoWeaker
<1>1. ASSUME InitInv
      PROVE  HalfWrittenIsNoWeaker
  <2>1. \A n \in FileNo : file[n].text \in Extent
    BY <1>1 DEF InitInv, TypeOK
  <2>2. "rule" \notin Lines(WholeText)
    BY DEF Lines, WholeText, ConfigText
  <2>3. Holds(WholeText) = [held |-> "good", ask_outcome |-> "Ask", log |-> FALSE]
    <3>1. ConfigText[2] = "ask" /\ 2 \in 1 .. WholeText.lines
      BY TextTypes DEF ConfigText, WholeText
    <3>2. "ask" \in Lines(WholeText)
      BY <3>1 DEF Lines
    <3> QED
      BY <3>2 DEF Holds, WholeText
  <2>4. ASSUME NEW t \in Extent, NEW where \in Location, LoadSettings(where, Holds(t)).ok
        PROVE  LET found == LoadSettings(where, Holds(t))
                   whole == LoadSettings(where, Holds(WholeText))
               IN /\ whole.ok /\ found.catalog = whole.catalog
                  /\ found.ask_outcome \in {"Deny", whole.ask_outcome}
    <3>1. Holds(t).ask_outcome \in {"Ask", "Deny"} /\ Holds(t).held \in {"good", "refused"}
      BY DEF Holds
    <3> QED
      BY <2>3, <2>4, <3>1 DEF LoadSettings, Location, Merged, Defaults, LoadError
  <2> QED
    BY <1>1, <2>1, <2>2, <2>4 DEF HalfWrittenIsNoWeaker, InitInv, TypeOK
<1> QED
  BY <1>1, InitCorrect, PTL
=============================================================================

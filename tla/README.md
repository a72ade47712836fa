# A TLA+ model of shguard

shguard is a Claude Code `PreToolUse` hook: for each Bash call it answers allow,
ask or deny. It allows a command only when a small parser understands all of it,
a closed catalog of command grammars covers every simple command in it, no rule
hits and no path check fails. This directory models that pipeline from the bytes
of the command to the answer and its line in the log, with the loading of
the catalog and the writing of the config file. TLC checks the models on small
instances; TLAPS proves the main properties of nine parts of it for every instance.

## The system

| Component | Where | State | Operations | Modules |
|---|---|---|---|---|
| decision, verdict, ast | `shguard-kernel/src/{decision,verdict,ast}.rs` | none (values) | join, addresses, reasons | `Findings` |
| decide | `shguard-kernel/src/decide.rs` | the scan: first Block reason, first Ask-level reason, "directory changed" | `decide`, `scan_pipeline`, `scan_simple`, `path_check`, `rule_hits` | `Judge`, `Decide`, `Targets`, `Paths` |
| classify | `shguard-kernel/src/classify.rs` | best miss so far | `classify_simple`, `row_fit`, `code_child`, `classify_script` | `Classify`, `Decide` |
| argv | `shguard-kernel/src/argv.rs` | phase, operand count, slots, seen options | `parse_argv` | `Grammar`, `Argv` |
| paths and bytes | `shguard-kernel/src/bytes.rs`, the top of `decide.rs` | position and copied bytes of one walk | normalisation, component, prefix and exact matching | `Bytes`, `Normalize`, `Paths` |
| catalog, rules | `shguard-kernel/src/{catalog,rule}.rs` | none | constructors that refuse ill-formed values | `Grammar`, `Classify`, `Findings` |
| lexer | `shguard-syntax/src/lex.rs` | position, word under way, lexemes | `lex` | `Lexer`, `Quoting` |
| parser | `shguard-syntax/src/parse.rs` | partial tree, word count | `parse` | `Parser` |
| decision flow | `shguard/src/respond.rs` | none | `answer`, `response`, `judge` | `Respond` |
| hook process | `shguard/src/main.rs` | stdin, config file, stdout, exit status | `hook`, `load_settings`, `log_bounded` | `Hook` |
| decision log | `shguard/src/{main,decision_log}.rs` | a file shared by all hook processes | `append_log` | `DecisionLog` |
| config | `shguard/src/config.rs` | none | `locate`, `settings` | `Respond` |
| catalog loader | `shguard/src/catalog/*.rs` | rows, rules, ids, reasons, hints, problems | `load`, `load_files` | `Loader`, `Paths` |
| init, check | `shguard/src/{init,main}.rs` | the config file | `init_config`, `check` | `InitConfig`, `Loader` |

Data flows one way: stdin -> `parse_request` -> `parse` -> `decide` (with the
catalog and rules that `load_settings` built) -> `ask_outcome` -> stdout, then
the log. Inside one process everything up to the answer is sequential. What is
concurrent is outside: several hook processes at once, the helper thread that
writes the log against the main thread's 500 ms wait, whatever else changes the
config file or the log's path, two `shguard init`, and Claude Code, which may
kill a process.

What is hard, and what makes each part correct:

* *lexer, parser*: some twenty look-aheads decide what a byte means; every
  construct bash would expand or run has to be refused, and no byte of the
  rest lost, moved or merged into the wrong piece.
* *argv, classify*: option values shift words, options may end anywhere, and a
  greedy walk must not refuse or misread what another reading allows; the selected
  row, its parse and the rules must speak of the same row and of the same words,
  whatever an opaque part expands to.
* *paths*: two spellings of one place must match alike, and no neighbour of it.
* *decide*: state carried over three nested loops and read much later; which of
  several findings decides and which gives the reason; the promise that more
  rules, or an earlier `cd`, never relax a verdict.
* *loader*: several files merged in parallel vectors that are indexed later;
  checks across files that the kernel takes for granted.
* *hook process*: any step may fail, and every failure has to end in a refusal
  or an ask; it must always end.
* *decision log, init*: the check of the path and the use of it are separate system
  calls; the helper may hang, and races the wait.

`PROJECT.json` lists the hazards at their lines, with the property that would
catch each, and the components with what is left out.

## Modules

```
Findings <- Judge                Grammar <- Argv <- Classify
Findings <- Decide (implements Judge)
Respond, DecisionLog <- Hook     Grammar, Bytes <- Paths <- Targets
Respond <- InitConfig            Bytes <- Normalize
Lexer <- Parser; Lexer <- Quoting (the reference)      Loader
```

An arrow is EXTENDS or INSTANCE. `DecideProofs`, `HookProofs`, `ClassifyProofs` (which holds
those of `Argv` too), `PathProofs`, `ParserProofs`, `WalkProofs` (which extends it to `Quoting`) and
`ConfigProofs` (of `Loader` and of `InitConfig`, which share no name) hold theorems
and proofs, and `FoldProofs` the lemmas on folds that they share; the `MC` modules and their
`.cfg` hold values for TLC. Definitions that
begin with "A variant" are faulty forms of the one that follows, used to confirm
that each property notices such a fault. Positions count from 1
where the code counts from 0.

The parts meet at values, not in one large machine. `Decide` takes what
`Classify`, `Argv` and `Targets` find of a command as its `Reading`, for every
assignment of readings; `Hook` takes the decision of `Decide` as a fact of its input;
`Targets` starts from a parse that `Argv` gives. What one part needs of another
is a property of the other: that the row does not depend on the order of the
files (`CoveredByTheOnlyRow`), that the loader gives what classification takes for
granted (`LoadedRowsHideNothing`; the assumption of `Classify` is the part of it
that it needs), that slots and words are aligned (`SlotsTellTheWords`).

### decide

`Reading[c]` stands for what `classify_simple` and `parse_argv` make of command
`c`: not covered, with a kind and a word, or covered by a row, with one `Slot`
per word after the key and the row's two directory flags. A slot says what the
path checks read of a word. A rule is the set of commands whose key and options
it matches and the set its targets hit. The byte-level work is in `Targets` and `Paths`, and is input here;
every control step of the scan is modelled:

| Action | Code |
|---|---|
| `ScanUncovered` | `scan_simple`'s Unknown arm and the merge of it: no rule is tried and `cwd` is `false` |
| `ScanCovered`, `SlotPasses`, `SlotFails`, `SlotsPass` | `path_check`'s loop, its return at the first failing slot, and the `else if cwd && r.cwd_sensitive` after it |
| `RuleMisses`, `RuleHit` | the loop over the rules, with `Option::or` |
| `Merge` | `scan_pipeline`'s merge of one command |
| `NextLink`, `NextItem` | the loop exits of `scan_pipeline` and `decide` |
| `Answer` | `decide`'s return, with `classify_script`'s `first_uncovered` behind Allow |

`scan_simple`'s arm for a covering row whose parse fails cannot run: a reading
is covered only with a parse. Words count from 1 in the model and from 0 in the
code. `Row::new` never sets both directory flags; the model allows it.

### One covered command

`Targets` is the byte-level half of `decide`: for one command, its parse and one
rule, `path_check` goes over the slots (`PathPasses`, `PathFails`, `PathsPass`) and
`rule_hits` over key, options and targets (`KeyHits` ... `NoTargetHit`). `Paths` has
what both read: the views of a word, the leading `~`, the value in an option
word, `Under`, `Component` and the five kinds of pattern on folded normal forms, and
the loader's `build_target`. Beside it stands the reference, `CoversPath`, which knows no
bytes in a row but only where a path starts and the names on its way. `Normalize`
is the loop of `normalize_path`, byte by byte, and `Bytes` the same by segments.

### argv and classify

`Grammar` states declaratively how a row's grammar reads words: one slot per word,
each of which `Fits` its word given the slots before it; `Readings` are all there are.
It follows the Creusot logic in `argv.rs`. `Argv` is the code: `parse_argv`'s loop over
the words and the one over the bytes of a cluster, one action per arm (`BadWord`,
`BadOperand`, `Operand`, `EndOpts`, `BadLongOption`, `LongOption`, `StartCluster`,
`ShortFlag`, `ShortWithValue`, `BadShortOption`, `EndCluster`, `Finish`). Words are taken
by their literal view: the bytes before the first opaque part, and whether there is one.

`Classify` is `classify_simple`: a name check (`OpaqueName`, `LiteralName`), then row by
row `OtherKey`, `CodeRow`, `CodeInChild`, or a parse run as `Argv`'s steps and judged by
`GrammarMiss`, `OperandOfParent` or `RowCovers`; `NoRowCovers` answers with the best miss.

### Lexer and parser

`Lexer` has one action per arm of the dispatch between tokens, inside a word, and inside
double quotes; scanning single quotes is one step. `Quoting` is what bash's quoting rules say
each byte is, computed with no lexer: the `Problems` of a string and the meaning of its bytes are
read off at their places, and `Lexer` must agree. `Parser` runs `Lexer` to its end and then
reads the lexemes. Its four nested functions return as soon as the operator
that ends a command is known, so one machine whose state is the partial tree stands for them.

### The loader and init

`Loader` is `load` and `load_files` with an action per row, hint, merged row and rule
(`ReadRow`, `ReadHint`, `CheckRow`, `BuildRule`, ...), every check on them, and
the answer to a hit found by index. A file is read or not, TOML or not, and a text good or bad.
`InitConfig` is `init_config` step by step for several processes (`Locate`,
`CheckNone`, `CreateDirs`, `OpenNew`, `WriteSome`, `Wrote`, `StepFails`, `Killed`), with a user who
puts configs at the path or moves them aside; a hook that reads the file goes through
`Respond`'s `LoadSettings`.

### The hook

| Action | Code in `main.rs` |
|---|---|
| `StartHook` | `is_terminal`, 62-64 |
| `ReadInput` | 75-85; a read error clears the input |
| `Load` | `load_settings`, at the moment the file is read |
| `MakeAnswer` | `answer`, with `response` and `judge` in `Respond` |
| `Panic` | the panic hook, 67-74, at any step before the answer |
| `WriteAnswer` | 88-93 and 110-116 |
| `NoLog`, `SpawnFails`, `SpawnHelper` | 96-100, 131-133 |
| `LogReturned`, `LogTimesOut`, `ExitLate` | `recv_timeout`, the report on stderr, the return |
| `MakeEntry` ... `WriteFails` | `append_log`, one action per system call |
| `Killed`, `EditConfig`, `Rotate`, `PutSymlink` | Claude Code's timeout, an editor, other processes (external) |

The helper goes on after the wait has timed out, until the process ends
(`late`), so a line may still appear after "cannot write the decision log" was
reported; `SilentMeansLogged` is stated the other way round, where it holds.
A panic after the answer is not modelled: nothing in `append_log` panics.
`fstat`'s link count and mode are kept (`seen`) and used later, as in the code.
`metadata` errors and errors of the second `symlink_metadata` other than "no
such file" are not modelled apart; they end like `OpenFails`.

## Runs

| Run | Bounds | Shows |
|---|---|---|
| `decide` | six commands, four rules in four lists, every script of up to 3 commands with every combination of `;`, `&&`, `\|` | the verdict is the decision and the first reason (`VerdictIsFirstOfStrongest`), Allow is clean, no rule is hidden by another (`NoRuleIsHidden`), an earlier `cd` only tightens, nothing found is dropped, the scan ends and implements `Judge` |
| `targets` | every path of up to 3 bytes as operand, as option value, inside a cluster and after `--f=`; every accepted target of up to 2 bytes and some of 3, of every kind | path checks see every path; a rule hits exactly what its targets cover; odd targets hit only what fails anyway |
| `normalize` | every path of up to 6 bytes of `/`, `.` and a name byte | the loop computes the normal form, and that is one spelling per place |
| `argv` | four grammars that use every value of every field; argvs of two words from twenty, of three from seven; two lengths of key; four texts for opaque parts | slots stay aligned, refusal means that no reading exists, expansions change no reading |
| `argv_dashdash` | the same | a violation: see Findings |
| `classify` | six catalogs with parents, children, children that run code, in several orders; commands of up to 3 of ten words; three texts | one row covers at most, the reason is of the longest key, expansions keep the row |
| `parse` | every string of up to 3 of 26 bytes, of 4 over the bytes of words, double-quoted ones of up to 5, redirects to `/dev/null`, up to 5 commands and operators; input cap 20, word cap 3 | the lexer refuses exactly the live constructs, first one first; lexemes say the input; the parser refuses exactly what is not its grammar, keeps every command, and ends |
| `loader` | two or three files; lists of up to 2 rows, rules or hints, good and bad; last rule id 2 | what loads is what the files say at its own index; no longer key hides what a shorter one said; a bad row causes no other error |
| `init` | two processes, 4 files, 2 changes by the user, any step failing or killed | no file of the user's is touched, success means a whole file, half a config is no weaker policy |
| `hook_answers` | one process; 10 inputs, 4 locations, 5 configs, one edit of the config; any failure anywhere | `FailClosed`, `BlockIsRefused`, and that the hook ends (`HookEnds`) although its helper may hang |
| `hook_logs` | two processes, 3 files besides the user's other file, two changes of the entry at the path, all initial entries (none, symlink, hard link, regular, FIFO, directory) | lines tell what was answered, once; the other file is never touched; lines are private; silence means a whole line |
| `hook_lines` | as above without path changes | a violation: see Findings |

Why the bounds are enough.

* `decide` compares at most two positions at a time (what is carried against what
  is found now), and the carried flag needs one command to set it and a later one
  to read it; three commands give every order of setter, reader and a third in
  between, in one pipeline, in one list and across lists, and the six commands
  reach every arm. The rule lists hold both outcomes and both scopes, and an Ask rule in front of a Block
  rule and behind one where both hit.
* A step of `parse_argv` looks at one word and the next, so two words show every
  pair and a third what is left behind by a pair; the words are one of each class
  the code tells apart. `classify` needs a key of two or three segments and a word after it.
* A path's meaning changes at its ends and at slashes; six bytes hold three one-byte
  names with their slashes, `..` and `.` on either side. A target and a path match at a
  boundary that two and three bytes show on, before and after.
* The lexer looks a byte or two ahead, apart from runs of one class, a
  redirect's target, and what quotes enclose; each of these has its own longer family of strings.
* Loader checks relate two rows, a row and a rule or hint, or two of them with one id or key.
* The log's race is between one process's two looks at the path and what others do
  between them; two processes and two changes give rename, replacement and creation
  anew by the other process. `init` has one check and one use of the path.

Proofs cover the sizes TLC does not reach, where there are proofs. Hook processes and
`init` processes are interchangeable, hence the symmetry.

Deadlock checking is off where a walk or every process ends and nothing is left to
do (`decide`, `targets`, `normalize`, `init` and the hook runs); the other modules
say with a step of their own that an outcome stays, and are checked for deadlock.

*Fairness.* `Decide` and `Parser` are sequential functions without waiting:
`WF(Next)`, and for `Parser` `WF(Lex \/ Parse)`. In `Hook` only the
main threads are fair, each step by itself: after `SpawnHelper` the main thread
waits with a timeout, and before it, it reads a stdin that Claude Code closes and
a config file that is assumed not to block (a config that is a FIFO would hang
the hook until Claude Code's timeout). The helper gets no fairness at all, nor
do failures and other processes. No other module claims that something happens.

*What Claude Code does* with a status and an output (`Outcome`) is external and
follows the repository's README and `docs/threat-model.md`: status 2 refuses, any
other failure is up to `onFailure`, status 0 with an unreadable answer leaves
the call undecided. The runs use `onFailure = "block"`, which `shguard init` prints.

*Assumed of the file system.* Nobody makes a hard link to the log or to the
user's other file while hooks run (one that exists before is modelled). Appends
are atomic per `write` call (`O_APPEND`). A user replaces the config by a rename, not
in place, while `init` or a hook looks at it.

## Findings

`hook_lines`: `append_log` does not look at how the file ends. After a short write whose
rest is not written (a full disk, or the process ending at the timeout), the
next hook's line is appended to the torn one: two decisions on one line that is
no JSON object, where `decision_log.rs:1-2` and `README.md:227` promise one object
per line. Two short writes may also interleave.

`argv_dashdash`: under a grammar with `DashDash::Literal`, `word_kind` (`argv.rs:995`)
answers `Unknown(DashDashNotAllowed)` for a `--` where options are read, so the command
is uncovered. `catalog.rs:233` says of that setting "`--` is an ordinary word.", and then it
would be an operand. The code errs to the safe side.

## Proofs

Each proof is an inductive invariant, one lemma per action or per part of the state an
action disturbs, and the properties read off the invariant. The assumptions are those the
modules name: the types of their constants; in `Lexer` that a byte is a nonempty string (what a
look-ahead finds past the end is `""`, and no byte), that the bytes the code names one by one are neither
letters, control bytes nor bytes that are not ASCII, that no byte is two of these, and that the path of the null
device begins with a slash (`ClassesAssumption`, true of ASCII); in `Normalize` that bytes are strings; in `Bytes` that
letters are folded to letters, not to a slash or a dot, and that folding makes and hides no byte that is not ASCII;
in `Targets` the types of commands and rules, that a `~` of a word has nothing or a slash behind it (the
lexer refuses any other, `lex.rs:641`), and that targets are those the loader accepts; in `Parser` that no reserved word of bash
starts as an assignment does; and in `Classify` that the loader's checks have passed.

`DecideProofs`, for every catalog reading, script and rule list:
`VerdictIsFirstOfStrongest` is not inductive: it speaks only of the answer. The
inductive invariant `ScanInv` says what the loops know on the way: the carried
Block reason is that of the first blocked command before the cursor, or there
is none (`BlockKept`); the same for Ask-level reasons (`AskKept`); the carried
flag is "some command before the cursor changes the directory" (`CwdKept`);
inside a command, the slots before `k` pass (`SlotsPassed`) and the reasons of this
command are those of the rules before `j` (`RulesPassed`). Each action has a lemma
for the part it disturbs; `SamePlace` carries the rest over loop exits, where
the cursor moves but no command lies in between. From it follow the verdict, the type
invariant and `AllowIsClean`. So does `NoRuleIsHidden`, since no hit ends the loop over the rules. That more rules never
give the lower decision (`DecisionMonotone`, the kernel's T4) is proved of the declarative decision,
which the verdict is; `CdOnlyTightens` too, and it is carried to the verdict.

The refinement, in the same module: every initial state and step of the scan is one of
`Judge` or a stutter (`JudgeImplemented`). The judge's `best` is mapped to the carried reason with its address.
`ScanInv` before and after the step makes each the first of the strongest findings before the
cursor; there is only one such (`IsBest` determines it), so the step's new value must be the
old one joined with the finding at the command that was passed.

`HookProofs`, for any number of processes, inputs, configs and files:
`MainInv` says at each step of a main thread what it has read, loaded, answered
and written, as functions of its input and the text it read. `FailsClosed` and
`BlocksAreRefused` follow with lemmas about the pure flow (`AllowAnswer`,
`BlockAnswer`, `NoDecisionAnswer`).

Of the log, in the same module: `LogInv` adds to `MainInv` what a helper's checks have found of the file it opened
(`Knows`, in `FilesInv`), how far its line is and what its main thread knows of that (`Telling`),
and that every piece in a file is of a line its hook had answered (`ChunksTell`). The argument of
the check-then-use race is that what a helper found still holds of its *file* when it
writes, though no longer of the *path*: no step changes a file's kind, gives it a second
name, or makes a private file readable. From it follow that lines tell the answer, that
silence means a whole line, that lines are private, and that the other file is left alone.

`ClassifyProofs`, for every grammar, argv and length of key: `ArgvInv` says that the slots so
far fit their words and that *every* reading of the whole argv begins with them
(`ReadSoFar`); inside a cluster, that the bytes passed are flags (`InCluster`); that the options listed are those
that occur (`SeenSoFar`); and how a walk ends (`Ended`). The second half is what makes the
greedy walk complete: at a failure the next slot of any reading cannot exist. That
expansions read the same follows word by word, since an opaque word is only ever an operand
or a value, whatever it becomes. The comment at `argv.rs:1079-1083`, that slots and words are
aligned by construction, is `SlotsTellTheWords`.

In the same module, for every catalog and command: `ClassInv` contains `ArgvInv` for the parse under way and says that no row
already tried covers, and that the best miss has the longest matching key among them. That a
command has one covering row at most: of two matching keys the longer extends the shorter, and
its next segment does not look like an option (only a row that runs code may have such a one),
so the shorter key's row reads that word as an operand; it is a parent, and does not cover. Rows
moved by an expansion are excluded likewise: the first word after the key is literal or an operand.

`ParserProofs`, for every input, character classes, cap on its length and on its words: `LexInv` has
the type of the lexer's state, the walk within the input, and every lexeme behind the end of the one
before. `ParseInv` adds what is known of the tokens read. `FirstProblemIsReported` is not inductive: it
speaks of the end. On the way no departure from the grammar is behind the next token, except that the
run being read may be wordless so far (`Progress`, `Passed`); the words counted are the words behind it;
a command is open exactly on a run (`Reaches`), and a command must come exactly if an operator stands
behind with only newlines since (`Opens`). Between commands the last token is an operator,
except at the end of the input, where the last command ends without one: TLC found that case
before the proof was tried. At a finding, what is next departs and nothing before it does
(`RejectAtFirst`), and at the end nothing departs. `TellInv` says what the partial tree tells: the
script, the list and the pipeline say, one after the other, the runs read to their end
(`Sofar`, `ReadRuns`), the open command says its run so far, and what will join it (`NextJoin`, from
whether the pipeline has a command and what joined it) is what the operator before the run asks for
(`JoinBefore`), however many newlines have followed. So the operator that four functions
hand up is neither lost nor used twice (`ScriptSaysTheTokens`).

`WalkProofs`, for every input, cap and character classes: that the lexer's look-aheads agree with
`Quoting`, which says of each byte how it is quoted by folding over all the bytes before it, and what it
stands for there. Both properties speak of the end of lexing and neither is inductive. `WalkInv`, strengthened
under TLC before it was proved, says where the walk stands:
* between tokens, at an unquoted byte that is no second half of an operator and no part of a redirect
  (`Boundary`);
* in a word, or in the target of a redirect that has begun (`InTheWord`), behind bytes that its parts tell
  (`PartsRead`: the parts mean what the bytes do, no two adjacent literals are quoted alike, and the first
  and the last part are known to be an unquoted literal or not, which is what the tilde and the digits before a
  `>` are judged by);
* in double quotes, behind bytes that `inner` tells, none of them in a variable that is not passed (`QuotesRead`);
* and always: nothing is wrong before it but the quotes that are open (`Clean`) and the redirect whose target
  is being read (`RedirectsRead`), every byte behind it is a blank or in a lexeme (`Covered`), and every lexeme says
  what its bytes do (`TokensSay`).

Quoting and problems are first told byte by byte (`AfterIs`, `ProblemsAre`). What a stretch of bytes means
is cut and joined anywhere (`TextsJoin`), and so is what parts mean, however `Parts` joins literals on the way
(`AppendMeans`). Each unit the lexer reads at once (an escape, single quotes, a variable) is shown to mean its
bytes, and each step to leave nothing wrong behind it or to report it with nothing before it
(`LateBehind`). At the end of the input nothing is ahead, and the two properties follow
(`FirstLiveAlways`, `LexemesAlways`). The proof needs one thing of bytes that the alphabet of the run does
not show: that the classes are apart from the bytes named in the code (`ClassesAssumption`).

`PathProofs`, for every path: `SegInv` speaks of the path's bytes only, no slash between `s` and
`i` and one before `s`. A lemma cuts the path at such places (`PiecesOfAPath`), so that the kept
segments of what was passed and of the segment that ends are those of what is passed
next. That the normal form has one spelling per place follows from the folds: kept
segments put together are split into the same again, behind a slash or not (`KeptOfJoined`),
and have slashes inside only, one at a time (`Tidy`).
In the same module, for every command and every parse of it (`ChecksEveryPathAlways`): `CheckInv` says that the
slots before `k` have no fault, and that the slot the check failed at is the first with one.
That the four byte tests of a slot say what the path's names say is a lemma about paths: two
dots between slashes are a segment that is kept, and folding letters does not change which
(`DotDotIsASegment`, `FoldKeeps`). That an inline value is never cut from text the shell adds to
(`InlineBad`) follows from the parse: only a literal word has one (`SlotsOfWords`).

That a target matches the paths it covers and no others (`HitsWhatTargetsCoverAlways`) is a
statement about bytes on one side and about names on the other. `MatchCovers` says it of one target and one path, for every
text the loader accepts and every path. From bytes to names: what a path begins with,
cut at its last slash, has whole names and a last piece that begins the next name (`LastPiece`,
`FirstPiece`), so a prefix of bytes starts the names (`BeginsSays`), and one that ends at a boundary has them whole
(`UnderSays`); a component starts behind a slash, where the names divide (`ComponentSays`). From names to bytes: names
joined again are found where they were (`NamesUnder`, `NamesStart`, `SaysComponent`), since a
path's key is its names joined, behind a slash or not (`KeySays`). The loader's refusals are used
one by one: a `prefix` that ends in a slash, a `.`, an anchored component, and a text out of normal
form are the cases in which the two sides part. `HitInv` carries the rule through its key,
options and slots, and `HittingSays` applies `MatchCovers` to operands, option values and values inside
option words alike. `OddTargetsHitFailures` follows: a byte that is not ASCII is in some name (`OddSays`),
a target's names are among those of the path it covers (`OddCovers`), and such a path fails its check.

`FoldProofs`: a fold over a sequence is a recursive function chosen by the library, and nothing is
known of it until such a function exists. Existence for every sequence is proved by a least
counterexample over the lengths (`FoldExists`), and so are the typed step lemma of `FoldLeft`, what
`FlattenSeq` does with one more piece, and a fold whose step is a function (`EndSteps`, `EndIs`). These are first-order, and replace the induction
principles that take an operator.

`ConfigProofs`, of `shguard init`: `InitInv` says that a process holds only a file that `init` made, no two
hold the same, and one that reported its end does nothing more (`HoldsItsOwn`).

In the same module, of the loader, for every list of files (`FilesAssumption` gives only their types).
`RowsInv` says that with no problem so far every entry has its row (`Built`), that every entry
checked so far is right against all others (`Checked`), and that only a list without problems
is loaded. The checks compare a key with the one shorter by a segment; that every
beginning of a key has a row, and that directory flags agree with any longer key, follows by a
least counterexample (`Least`, from the library's well-foundedness of the naturals). So
what `ClassifyProofs` takes for granted of a catalog (`LoaderChecked`, but for keys not being
empty, which `RowErrors` refuses row by row) holds of whatever the loader lets through. `ErrorsInv`
says that every row read has its entry, so that a row that fails still gives its key (`RowsMerged`),
and that an error that speaks of other rows is true of all of them (`Blamed`).
`SayInv` follows the merge through the files: with no problem so far what is parsed is the
files (`AllParsed`), the entries and rules are those of the files merged and of the one being merged
(`RowsSaid`, `RulesSaid`), a rule built has its number, id and reason at one index (`RulesAs`),
and the hints kept have one key each, every key read among them, an embedded hint only where no
user's was read (`HintsKept`). With it `LoadedAsTheFilesSay` says that nothing is lost or
misnumbered on the way, however many files there are.

Every safety invariant and action property that a passing run checks is stated by a theorem. Only
model-checked are the liveness properties (`Terminates`, `HookEnds`, `ParseEnds`) and with them the
fairness of `Judge` in `ImplementsJudge`, which TLAPS does not prove.

## Not modelled

* The composition of lexer, parser, classification, scan and hook into one machine. The state space
  would be a product with no new interaction: each stage is a function of the value
  it is given, ends, and shares nothing. The values that cross are listed under Modules.
* TOML, JSON and the wording of messages: a text is good, bad or refused. What part of a torn
  TOML text loads is modelled for `init`'s own text only, by lines.
* A config saved in place while a hook reads it, and a hard link made to the log between
  `fstat` and the write (see the assumptions).
* The last rule id (`u32::MAX` in the code) is the bound `MaxRuleId` in the run.
* `check`'s printing, and the argument dispatch of `main` beyond the choice of the mode.
* Panics in the log's helper: `append_log` has none.
* The embedded catalog's data, which the repository's catalog tests check; test tooling
  (`differential`, `generate`, the kani harnesses); and the `lattice` spike, which no shipped
  crate uses.

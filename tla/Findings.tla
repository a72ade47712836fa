------------------------------ MODULE Findings ------------------------------
(***************************************************************************)
(* What shguard's kernel finds in a script, stated declaratively: the      *)
(* addresses of its simple commands, the working-directory changes before  *)
(* an address, the path check of a command, the rules that hit it, and the *)
(* decision these add up to.                                               *)
(*                                                                         *)
(* A command is an element of Cmd.  Reading[c] is how the catalog reads it *)
(* (classify_simple, then parse_argv with the selected row): whether a row *)
(* covers it, the reason when none does, and otherwise the slots of its    *)
(* words and the two working-directory flags of the row.                   *)
(***************************************************************************)
EXTENDS Integers, Sequences

CONSTANTS
  Cmd,        \* the simple commands that occur in scripts
  Reading     \* [Cmd -> Readings]: the catalog's reading of each command

-----------------------------------------------------------------------------
(* Decisions: the three-point chain Allow < Ask < Block and its join.      *)

Decision == {"Allow", "Ask", "Block"}

Rank(d) == CASE d = "Allow" -> 0 [] d = "Ask" -> 1 [] d = "Block" -> 2

AtMost(d, e) == Rank(d) <= Rank(e)

-----------------------------------------------------------------------------
(* Readings and rules.                                                     *)

UnknownKind ==
  {"NoRow", "OpaqueCommandName", "UnknownOption", "OpaqueOption",
   "MissingValue", "FlagGivenValue", "DashDashNotAllowed", "ExtraOperand",
   "OptionAfterOperand", "PlusWord", "CodeRole", "RunsCode",
   "UnknownSubcommand", "PathOpaque", "PathDotDot", "PathNonAscii",
   "PathAfterCd", "SensitiveAfterCd"}

(* One word after the key: whether it is (or holds inline) a path, and what*)
(* the path checks read of it.  "rooted" is a leading "/" or "~", for an   *)
(* inline value a leading "/" only.                                        *)
Slot ==
  [path: BOOLEAN, opaque: BOOLEAN, dotdot: BOOLEAN, nonascii: BOOLEAN,
   rooted: BOOLEAN]

(* "kind" and "word" speak of an uncovered command, the rest of a covered  *)
(* one; "start" is the length of the selected row's key.                   *)
Readings ==
  [covered: BOOLEAN, kind: UnknownKind, word: Nat, start: Nat,
   slots: Seq(Slot), changes_cwd: BOOLEAN, cwd_sensitive: BOOLEAN]

(* "reads": the commands whose key and options the rule matches;           *)
(* "targets": those with a slot that hits its target list (every command,  *)
(* for an empty list).                                                     *)
Rule ==
  [id: Nat, scope: {"Simple", "PipeInto"}, outcome: {"Ask", "Block"},
   reads: SUBSET Cmd, targets: SUBSET Cmd]

RuleHits(rule, c, piped) ==
  /\ c \in rule.reads
  /\ \/ rule.scope = "Simple" /\ c \in rule.targets
     \/ rule.scope = "PipeInto" /\ piped

-----------------------------------------------------------------------------
(* Scripts: and-or lists of pipelines of commands.  Pipeline 1 of an item  *)
(* is its "first", pipeline k+1 the right side of its k-th connector; the  *)
(* kernel does not read the connectors.                                    *)

Pipeline == Seq(Cmd) \ {<<>>}
Item == Seq(Pipeline) \ {<<>>}
Script == Seq(Item)

ASSUME ReadingAssumption == Reading \in [Cmd -> Readings]

Addr == [item: Nat, link: Nat, cmd: Nat]

Addrs(s) ==
  UNION {UNION {{[item |-> i, link |-> k, cmd |-> c] : c \in DOMAIN s[i][k]}
                  : k \in DOMAIN s[i]} : i \in DOMAIN s}

CmdAt(s, a) == s[a.item][a.link][a.cmd]

ReadingAt(s, a) == Reading[CmdAt(s, a)]

(* Address order: item, then link, then command.                           *)
Before(b, p) ==
  \/ b.item < p.item
  \/ /\ b.item = p.item
     /\ b.link < p.link \/ (b.link = p.link /\ b.cmd < p.cmd)

(* A command is piped into unless it is the first of its pipeline.         *)
Piped(a) == a.cmd > 1

(* Some covered command before p changes the working directory.            *)
CwdBefore(s, p) ==
  \E b \in Addrs(s) :
    /\ Before(b, p)
    /\ ReadingAt(s, b).covered /\ ReadingAt(s, b).changes_cwd

-----------------------------------------------------------------------------
(* Path checks.                                                            *)

(* A variant that drops the other checks once the directory has changed.   *)
FailsOnlyRelative(slot, cwd) ==
  /\ slot.path
  /\ IF cwd THEN ~slot.rooted ELSE slot.opaque \/ slot.dotdot \/ slot.nonascii

(* The slot fails a check; cwd: an earlier command changed the working     *)
(* directory.                                                              *)
Fails(slot, cwd) ==
  /\ slot.path
  /\ slot.opaque \/ slot.dotdot \/ slot.nonascii \/ (cwd /\ ~slot.rooted)

(* The check a failing slot is reported by: the first one it fails.        *)
FaultKind(slot) ==
  IF slot.opaque THEN "PathOpaque"
  ELSE IF slot.dotdot THEN "PathDotDot"
  ELSE IF slot.nonascii THEN "PathNonAscii"
  ELSE "PathAfterCd"

(* The covered command read as r fails a path check: by a slot, or by      *)
(* reading its configuration from a directory an earlier command chose.    *)
SlotsFail(r, cwd) == \E k \in DOMAIN r.slots : Fails(r.slots[k], cwd)

PathFails(r, cwd) == SlotsFail(r, cwd) \/ (cwd /\ r.cwd_sensitive)

-----------------------------------------------------------------------------
(* What is found at one address.                                           *)

(* Rule n hits the command at a and asks for the outcome.                  *)
HitAt(s, rules, a, outcome, n) ==
  rules[n].outcome = outcome /\ RuleHits(rules[n], CmdAt(s, a), Piped(a))

HasHit(s, rules, a, outcome) ==
  \E n \in DOMAIN rules : HitAt(s, rules, a, outcome, n)

(* Some rule blocks the command at a.  No rule is tried on an uncovered    *)
(* command.                                                                *)
Blocked(s, rules, a) ==
  ReadingAt(s, a).covered /\ HasHit(s, rules, a, "Block")

(* The command at a is uncovered, fails a path check or is asked about by  *)
(* a rule.                                                                 *)
Asked(s, rules, a) ==
  \/ ~ReadingAt(s, a).covered
  \/ PathFails(ReadingAt(s, a), CwdBefore(s, a))
  \/ HasHit(s, rules, a, "Ask")

(* The decision for s: Block if some rule blocks somewhere, else Ask if    *)
(* something must be asked about somewhere, else Allow.                    *)
DecisionOf(s, rules) ==
  IF \E a \in Addrs(s) : Blocked(s, rules, a) THEN "Block"
  ELSE IF \E a \in Addrs(s) : Asked(s, rules, a) THEN "Ask"
  ELSE "Allow"

-----------------------------------------------------------------------------
(* Reasons.  "rule" is 0 in an Unknown reason; words count from 1, and     *)
(* "word" is 0 when the reason is about the whole command.  An optional    *)
(* reason is a set of at most one.                                         *)

Reason ==
  [kind: UnknownKind \cup {"Rule"}, rule: Nat, at: Addr, word: Nat]

Unknown(u, a, w) == [kind |-> u, rule |-> 0, at |-> a, word |-> w]

ByRule(rule, a) == [kind |-> "Rule", rule |-> rule.id, at |-> a, word |-> 0]

(* A variant that keeps the later reason.                                  *)
OrLater(x, y) == IF y = {} THEN x ELSE y

(* Option::or                                                              *)
Or(x, y) == IF x = {} THEN y ELSE x

(* The reason of the first rule with the outcome that hits.               *)
HitReason(s, rules, a, outcome) ==
  {ByRule(rules[n], a) : n \in
     {m \in DOMAIN rules :
        /\ HitAt(s, rules, a, outcome, m)
        /\ \A i \in 1 .. m - 1 : ~HitAt(s, rules, a, outcome, i)}}

(* The reason of the first slot of the reading r that fails.               *)
SlotReason(r, a, cwd) ==
  {Unknown(FaultKind(r.slots[n]), a, r.start + n) : n \in
     {m \in DOMAIN r.slots :
        Fails(r.slots[m], cwd) /\ \A i \in 1 .. m - 1 : ~Fails(r.slots[i], cwd)}}

BlockReason(s, rules, a) == HitReason(s, rules, a, "Block")

(* Coverage is asked first, then the path checks, then the rules.          *)
AskReason(s, rules, a) ==
  LET r == ReadingAt(s, a)
      cwd == CwdBefore(s, a)
  IN  IF ~r.covered THEN {Unknown(r.kind, a, r.word)}
      ELSE IF SlotsFail(r, cwd) THEN SlotReason(r, a, cwd)
      ELSE IF cwd /\ r.cwd_sensitive THEN {Unknown("SensitiveAfterCd", a, 0)}
      ELSE HitReason(s, rules, a, "Ask")

Verdict == [decision: Decision, reason: SUBSET Reason]
=============================================================================

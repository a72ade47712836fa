------------------------------ MODULE Targets ------------------------------
(***************************************************************************)
(* What decide does with one covered command: path_check goes through the  *)
(* slots for the first path that fails, rule_hits through a rule's key,    *)
(* options and targets.  The slots are those of the command's parse.       *)
(***************************************************************************)
EXTENDS Paths

CONSTANTS
  Commands,  \* the [g, ws, start], words by their parts
  Rules      \* the [key, alts, targets, pipe]

(* An entry of "alts" is a set of names, any of which will do.  A rule     *)
(* with "pipe" is for commands that receive a pipe.                        *)
OptName == [short: SUBSET (Byte \ {"-"}), long: SUBSET Seq(Byte)]
Pat == [parts: Seq(Part), kind: PatKind]
Rule ==
  [key: Seq(Seq(Byte)), alts: Seq(SUBSET OptName), targets: Seq(Pat), pipe: BOOLEAN]

Command == [g: Grammar, ws: Seq(Seq(Part)), start: Nat]

ASSUME CommandsAssumption == \A c \in Commands : c \in Command /\ c.start <= Len(c.ws)

(* A "~" is one only at the end of its word or before a slash.             *)
ASSUME WordsAssumption ==
  \A c \in Commands : \A n \in DOMAIN c.ws :
    HasTilde(c.ws[n]) => PathLead(c.ws[n]) = <<>> \/ StartsSlash(PathLead(c.ws[n]))

(* Rules have the targets that the loader accepts.                         *)
ASSUME RulesAssumption ==
  /\ Rules \subseteq Rule
  /\ \A r \in Rules : \A t \in DOMAIN r.targets :
       LET pat == r.targets[t].parts IN
         ~PathMore(pat) /\ TargetAccepted(HasTilde(pat), PathLead(pat), r.targets[t].kind)

VARIABLES
  cmd, slots, rule,  \* the command, its parse and the rule, fixed
  cwd, piped,        \* an earlier command changed directory; it gets a pipe
  task,              \* the loop that runs
  k,                 \* its counter
  failed,            \* the path check that failed: none or one
  hit                \* what rule_hits returns: nothing yet or one answer

input == <<cmd, slots, rule, cwd, piped>>
vars == <<cmd, slots, rule, cwd, piped, task, k, failed, hit>>

Views(ws) == [n \in DOMAIN ws |-> LitView(ws[n])]

Init ==
  /\ cmd \in Commands
  /\ slots \in Readings(cmd.g, Views(cmd.ws), cmd.start)
  /\ rule \in Rules
  /\ cwd \in BOOLEAN /\ piped \in BOOLEAN
  /\ task = "check" /\ k = 1
  /\ failed = {} /\ hit = {}

parts(n) == cmd.ws[cmd.start + n]

InlinePaths(n) == {v \in slots[n].value : v.role = "Path"}

(* What the check of slot n finds: nothing or one fault.                   *)
SlotFault(n) ==
  (IF slots[n].role = "Path" THEN WordPathCheck(parts(n), cwd) ELSE {})
    \cup UNION {InlinePathCheck(parts(n), v.off, cwd) : v \in InlinePaths(n)}

(* A variant that looks only at words that are values or operands.         *)
SlotHitNoInline(pat, n) ==
  slots[n].role = "Path" /\ PatMatch(pat, PathView(parts(n)))

SlotHit(pat, n) ==
  \/ \E v \in InlinePaths(n) :
       InlineBad(parts(n), v.off) \/ PatMatch(pat, InlineView(parts(n), v.off))
  \/ slots[n].role = "Path" /\ PatMatch(pat, PathView(parts(n)))

Overlaps(name, opt) == name.short \cap opt.short # {} \/ name.long \cap opt.long # {}

(* A name of the entry is one of an option that occurs.                    *)
AltsSeen(names) ==
  \E name \in names, o \in OptionsSeen(cmd.g, Views(cmd.ws), cmd.start, slots) :
    Overlaps(name, cmd.g.opts[o])

KeyMatches(key, ws) ==
  Len(key) <= Len(ws) /\ \A n \in DOMAIN key : LitView(ws[n]) = [lit |-> key[n], opaque |-> FALSE]

-----------------------------------------------------------------------------
Goto(t) == task' = t /\ k' = 1 /\ UNCHANGED <<failed, hit, input>>

Advance == k' = k + 1 /\ UNCHANGED <<task, failed, hit, input>>

RuleHits(answer) ==
  hit' = {answer} /\ task' = "done" /\ UNCHANGED <<k, failed, input>>

PathPasses ==
  /\ task = "check" /\ k <= Len(slots)
  /\ SlotFault(k) = {}
  /\ Advance

(* A variant that goes on after the first fault.                           *)
PathFailsOn ==
  /\ task = "check" /\ k <= Len(slots)
  /\ \E u \in SlotFault(k) : failed' = {[kind |-> u, word |-> cmd.start + k]}
  /\ k' = k + 1
  /\ UNCHANGED <<task, hit, input>>

PathFails ==
  /\ task = "check" /\ k <= Len(slots)
  /\ \E u \in SlotFault(k) : failed' = {[kind |-> u, word |-> cmd.start + k]}
  /\ task' = "key" /\ k' = 1
  /\ UNCHANGED <<hit, input>>

PathsPass == task = "check" /\ k > Len(slots) /\ Goto("key")

KeyMisses == task = "key" /\ ~KeyMatches(rule.key, cmd.ws) /\ RuleHits(FALSE)

KeyHits == task = "key" /\ KeyMatches(rule.key, cmd.ws) /\ Goto("opts")

OptPresent == task = "opts" /\ k <= Len(rule.alts) /\ AltsSeen(rule.alts[k]) /\ Advance

OptMissing ==
  task = "opts" /\ k <= Len(rule.alts) /\ ~AltsSeen(rule.alts[k]) /\ RuleHits(FALSE)

OptsPresent ==
  /\ task = "opts" /\ k > Len(rule.alts)
  /\ \/ rule.pipe /\ RuleHits(piped)
     \/ ~rule.pipe /\ rule.targets = <<>> /\ RuleHits(TRUE)
     \/ ~rule.pipe /\ rule.targets # <<>> /\ Goto("targets")

(* The rule's targets that hit slot n.                                     *)
Hitting(n) == {t \in DOMAIN rule.targets : SlotHit(rule.targets[t], n)}

TargetHit == task = "targets" /\ k <= Len(slots) /\ Hitting(k) # {} /\ RuleHits(TRUE)

TargetMiss == task = "targets" /\ k <= Len(slots) /\ Hitting(k) = {} /\ Advance

NoTargetHit == task = "targets" /\ k > Len(slots) /\ RuleHits(FALSE)

Next ==
  \/ PathPasses \/ PathFails \/ PathsPass
  \/ KeyMisses \/ KeyHits \/ OptPresent \/ OptMissing \/ OptsPresent
  \/ TargetHit \/ TargetMiss \/ NoTargetHit

Spec == Init /\ [][Next]_vars

-----------------------------------------------------------------------------
(* The paths the command's words give, wherever they are given: their      *)
(* slot, whether a "~" is in front, the bytes after it, and whether the    *)
(* shell adds more.                                                        *)
PathsGiven ==
  {[slot |-> n, tilde |-> HasTilde(parts(n)), bytes |-> PathLead(parts(n)),
    more |-> PathMore(parts(n))] : n \in {m \in DOMAIN slots : slots[m].role = "Path"}}
  \cup
  UNION {{[slot |-> n, tilde |-> FALSE, bytes |-> InlineValueOf(parts(n), v.off), more |-> FALSE] :
            v \in InlinePaths(n)} : n \in DOMAIN slots}

(* The text alone says where the path leads: no variable, no "..", only    *)
(* ASCII, and no part for the directory an earlier command changed.        *)
LeadsWhereItSays(path) ==
  /\ ~path.more
  /\ \A n \in DOMAIN Names(path.bytes) : Names(path.bytes)[n] # <<".", ".">>
  /\ ~HasNonAscii(path.bytes)
  /\ cwd => Anchor(path.tilde, path.bytes) # "here"

(* The path check passes exactly when every path of the command leads      *)
(* where it says, and names the first word with one that does not.         *)
ChecksEveryPath ==
  task = "done" =>
    /\ failed = {} <=> \A path \in PathsGiven : LeadsWhereItSays(path)
    /\ \A f \in failed :
         \E path \in PathsGiven :
           /\ f.word = cmd.start + path.slot /\ ~LeadsWhereItSays(path)
           /\ \A other \in PathsGiven : other.slot < path.slot => LeadsWhereItSays(other)

(* A rule with targets hits a command that passed its checks exactly when  *)
(* it has the rule's options and gives, as an operand, in an option word   *)
(* or after it, a path that a target covers: one spelling of a place is    *)
(* covered when another is, and no target covers a place next to its own.  *)
HitsWhatTargetsCover ==
  task = "done" /\ failed = {} =>
    (TRUE \in hit <=>
       /\ KeyMatches(rule.key, cmd.ws)
       /\ \A e \in DOMAIN rule.alts : AltsSeen(rule.alts[e])
       /\ rule.pipe => piped
       /\ ~rule.pipe /\ rule.targets # <<>> =>
            \E t \in DOMAIN rule.targets, path \in PathsGiven :
              LET pat == rule.targets[t].parts IN
                /\ path.tilde \/ path.bytes # <<>>
                /\ CoversPath(rule.targets[t].kind, HasTilde(pat), PathLead(pat),
                              path.tilde, path.bytes))

(* What rule.rs says of targets: one with a non-ASCII byte, or an Exact or *)
(* Under one with a ".." segment, hits only what fails a check anyway.     *)
OddTargetsHitFailures ==
  TRUE \in hit /\ ~rule.pipe /\ rule.targets # <<>> /\ failed = {} =>
    \E t \in DOMAIN rule.targets :
      LET lead == PathLead(rule.targets[t].parts) IN
        /\ ~HasNonAscii(lead)
        /\ rule.targets[t].kind \in {"Exact", "Under"} =>
             \A n \in DOMAIN Kept(lead) : Kept(lead)[n] # <<".", ".">>
=============================================================================

------------------------------- MODULE Decide -------------------------------
(***************************************************************************)
(* The kernel's decide: one pass over the script that carries the first    *)
(* Block reason, the first Ask-level reason and whether the working        *)
(* directory was changed.  The loops of decide, scan_pipeline, scan_simple *)
(* and path_check are unrolled into one action per iteration, per early    *)
(* exit and per loop exit.                                                 *)
(***************************************************************************)
EXTENDS Findings

CONSTANTS
  Scripts,    \* the scripts the parser may hand to the kernel
  RuleLists   \* the rule lists the loader may hand to the kernel

ASSUME InputsAssumption == Scripts \subseteq Script /\ RuleLists \subseteq Seq(Rule)

VARIABLES
  script,   \* the script being decided, fixed
  rules,    \* the rule list, fixed
  cursor,   \* the loop counters of decide and scan_pipeline
  pc,       \* the loop being run
  k,        \* path_check's slot counter
  j,        \* scan_simple's rule counter
  cur,      \* scan_simple's own block and ask
  st,       \* the Scan carried by decide and scan_pipeline
  verdict   \* {} until decide returns, then the set of the one verdict

vars == <<script, rules, cursor, pc, k, j, cur, st, verdict>>

Loops == {"commands", "slots", "rules", "done"}

(* The command the cursor is at, and how the catalog reads it.             *)
AtCommand ==
  /\ cursor.item \in DOMAIN script
  /\ cursor.link \in DOMAIN script[cursor.item]
  /\ cursor.cmd \in DOMAIN script[cursor.item][cursor.link]

reading == ReadingAt(script, cursor)

NextCommand == cursor' = [cursor EXCEPT !.cmd = @ + 1]

-----------------------------------------------------------------------------
Init ==
  /\ script \in Scripts
  /\ rules \in RuleLists
  /\ cursor = [item |-> 1, link |-> 1, cmd |-> 1]
  /\ pc = "commands"
  /\ k = 1
  /\ j = 1
  /\ cur = [block |-> {}, ask |-> {}]
  /\ st = [block |-> {}, ask |-> {}, cwd |-> FALSE]
  /\ verdict = {}

(* scan_simple's Unknown arm, merged by scan_pipeline: no rule is tried,   *)
(* and the command is taken not to change the working directory.           *)
ScanUncovered ==
  /\ pc = "commands"
  /\ AtCommand
  /\ ~reading.covered
  /\ st' = [st EXCEPT !.ask = Or(@, {Unknown(reading.kind, cursor, reading.word)})]
  /\ NextCommand
  /\ UNCHANGED <<script, rules, pc, k, j, cur, verdict>>

(* scan_simple's Covered arm starts on the slots of the parse.             *)
ScanCovered ==
  /\ pc = "commands"
  /\ AtCommand
  /\ reading.covered
  /\ pc' = "slots"
  /\ k' = 1
  /\ cur' = [block |-> {}, ask |-> {}]
  /\ UNCHANGED <<script, rules, cursor, j, st, verdict>>

(* A variant that starts the rules one too early.                          *)
SlotFailsFromZero ==
  /\ pc = "slots"
  /\ k <= Len(reading.slots)
  /\ Fails(reading.slots[k], st.cwd)
  /\ cur' = [cur EXCEPT
       !.ask = {Unknown(FaultKind(reading.slots[k]), cursor, reading.start + k)}]
  /\ pc' = "rules"
  /\ j' = 0
  /\ UNCHANGED <<script, rules, cursor, k, st, verdict>>

(* path_check returns at the first failing slot.                           *)
SlotFails ==
  /\ pc = "slots"
  /\ k <= Len(reading.slots)
  /\ Fails(reading.slots[k], st.cwd)
  /\ cur' = [cur EXCEPT
       !.ask = {Unknown(FaultKind(reading.slots[k]), cursor, reading.start + k)}]
  /\ pc' = "rules"
  /\ j' = 1
  /\ UNCHANGED <<script, rules, cursor, k, st, verdict>>

SlotPasses ==
  /\ pc = "slots"
  /\ k <= Len(reading.slots)
  /\ ~Fails(reading.slots[k], st.cwd)
  /\ k' = k + 1
  /\ UNCHANGED <<script, rules, cursor, pc, j, cur, st, verdict>>

(* path_check found nothing: only now is the row's cwd_sensitive flag read.*)
SlotsPass ==
  /\ pc = "slots"
  /\ k > Len(reading.slots)
  /\ cur' = [cur EXCEPT
       !.ask = IF st.cwd /\ reading.cwd_sensitive
               THEN {Unknown("SensitiveAfterCd", cursor, 0)} ELSE {}]
  /\ pc' = "rules"
  /\ j' = 1
  /\ UNCHANGED <<script, rules, cursor, k, st, verdict>>

RuleMisses ==
  /\ pc = "rules"
  /\ j <= Len(rules)
  /\ ~RuleHits(rules[j], CmdAt(script, cursor), Piped(cursor))
  /\ j' = j + 1
  /\ UNCHANGED <<script, rules, cursor, pc, k, cur, st, verdict>>

(* A variant in which the last hit of an outcome gives the reason.         *)
RuleHitLast ==
  /\ pc = "rules"
  /\ j <= Len(rules)
  /\ RuleHits(rules[j], CmdAt(script, cursor), Piped(cursor))
  /\ cur' = IF rules[j].outcome = "Block"
            THEN [cur EXCEPT !.block = {ByRule(rules[j], cursor)}]
            ELSE [cur EXCEPT !.ask = {ByRule(rules[j], cursor)}]
  /\ j' = j + 1
  /\ UNCHANGED <<script, rules, cursor, pc, k, st, verdict>>

(* A variant in which the first rule that hits decides: the loop breaks.   *)
RuleHitFirstMatch ==
  /\ pc = "rules"
  /\ j <= Len(rules)
  /\ RuleHits(rules[j], CmdAt(script, cursor), Piped(cursor))
  /\ cur' = IF rules[j].outcome = "Block"
            THEN [cur EXCEPT !.block = Or(@, {ByRule(rules[j], cursor)})]
            ELSE [cur EXCEPT !.ask = Or(@, {ByRule(rules[j], cursor)})]
  /\ j' = Len(rules) + 1
  /\ UNCHANGED <<script, rules, cursor, pc, k, st, verdict>>

(* A hit is kept only where there is no reason of its outcome yet; the     *)
(* Ask-level reason may already be a failed path check.                    *)
RuleHit ==
  /\ pc = "rules"
  /\ j <= Len(rules)
  /\ RuleHits(rules[j], CmdAt(script, cursor), Piped(cursor))
  /\ cur' = IF rules[j].outcome = "Block"
            THEN [cur EXCEPT !.block = Or(@, {ByRule(rules[j], cursor)})]
            ELSE [cur EXCEPT !.ask = Or(@, {ByRule(rules[j], cursor)})]
  /\ j' = j + 1
  /\ UNCHANGED <<script, rules, cursor, pc, k, st, verdict>>

(* Variants of the merge: one carries only the last command's change of    *)
(* directory, the other prefers the later command's reasons.               *)
MergeLastCwd ==
  /\ pc = "rules"
  /\ j > Len(rules)
  /\ st' = [block |-> Or(st.block, cur.block),
            ask |-> Or(st.ask, cur.ask),
            cwd |-> reading.changes_cwd]
  /\ pc' = "commands"
  /\ NextCommand
  /\ UNCHANGED <<script, rules, k, j, cur, verdict>>

MergeLaterFirst ==
  /\ pc = "rules"
  /\ j > Len(rules)
  /\ st' = [block |-> Or(cur.block, st.block),
            ask |-> Or(cur.ask, st.ask),
            cwd |-> st.cwd \/ reading.changes_cwd]
  /\ pc' = "commands"
  /\ NextCommand
  /\ UNCHANGED <<script, rules, k, j, cur, verdict>>

(* scan_pipeline merges what scan_simple returned.                         *)
Merge ==
  /\ pc = "rules"
  /\ j > Len(rules)
  /\ st' = [block |-> Or(st.block, cur.block),
            ask |-> Or(st.ask, cur.ask),
            cwd |-> st.cwd \/ reading.changes_cwd]
  /\ pc' = "commands"
  /\ NextCommand
  /\ UNCHANGED <<script, rules, k, j, cur, verdict>>

(* The end of scan_pipeline's loop.                                        *)
NextLink ==
  /\ pc = "commands"
  /\ cursor.item \in DOMAIN script
  /\ cursor.link \in DOMAIN script[cursor.item]
  /\ cursor.cmd > Len(script[cursor.item][cursor.link])
  /\ cursor' = [item |-> cursor.item, link |-> cursor.link + 1, cmd |-> 1]
  /\ UNCHANGED <<script, rules, pc, k, j, cur, st, verdict>>

(* A variant that starts the same item again.                              *)
NextItemAgain ==
  /\ pc = "commands"
  /\ cursor.item \in DOMAIN script
  /\ cursor.link > Len(script[cursor.item])
  /\ cursor' = [item |-> cursor.item, link |-> 1, cmd |-> 1]
  /\ UNCHANGED <<script, rules, pc, k, j, cur, st, verdict>>

(* The end of decide's loop over the links of an item.                     *)
NextItem ==
  /\ pc = "commands"
  /\ cursor.item \in DOMAIN script
  /\ cursor.link > Len(script[cursor.item])
  /\ cursor' = [item |-> cursor.item + 1, link |-> 1, cmd |-> 1]
  /\ UNCHANGED <<script, rules, pc, k, j, cur, st, verdict>>

(* first_uncovered: the reason of the first uncovered command.             *)
FirstUncovered(s) ==
  {Unknown(ReadingAt(s, a).kind, a, ReadingAt(s, a).word) :
     a \in {b \in Addrs(s) :
              /\ ~ReadingAt(s, b).covered
              /\ \A d \in Addrs(s) : Before(d, b) => ReadingAt(s, d).covered}}

(* decide's return: Block over Ask, and Allow only when classify_script    *)
(* finds every command covered.                                            *)
Answer ==
  /\ pc = "commands"
  /\ cursor.item > Len(script)
  /\ verdict' =
       {IF st.block # {} THEN [decision |-> "Block", reason |-> st.block]
        ELSE IF st.ask # {} THEN [decision |-> "Ask", reason |-> st.ask]
        ELSE IF FirstUncovered(script) # {}
        THEN [decision |-> "Ask", reason |-> FirstUncovered(script)]
        ELSE [decision |-> "Allow", reason |-> {}]}
  /\ pc' = "done"
  /\ UNCHANGED <<script, rules, cursor, k, j, cur, st>>

Next ==
  \/ ScanUncovered \/ ScanCovered
  \/ SlotFails \/ SlotPasses \/ SlotsPass
  \/ RuleMisses \/ RuleHit \/ Merge
  \/ NextLink \/ NextItem \/ Answer

Spec == Init /\ [][Next]_vars /\ WF_vars(Next)

-----------------------------------------------------------------------------
TypeOK ==
  /\ script \in Script
  /\ rules \in Seq(Rule)
  /\ cursor \in Addr
  /\ pc \in Loops
  /\ k \in Nat \ {0}
  /\ j \in Nat \ {0}
  /\ cur \in [block: SUBSET Reason, ask: SUBSET Reason]
  /\ st \in [block: SUBSET Reason, ask: SUBSET Reason, cwd: BOOLEAN]
  /\ verdict \in SUBSET Verdict

(* The verdict is the decision the rules, the coverage and the path checks *)
(* add up to, and its reason is the one of the first command, in address   *)
(* order, that gives that decision (decide, theorem T3 and its comment:    *)
(* "the first Block rule hit in address order ... the first Ask-level      *)
(* reason in address order").                                              *)
VerdictIsFirstOfStrongest ==
  \A v \in verdict :
    /\ v.decision = DecisionOf(script, rules)
    /\ v.decision = "Block" =>
         \E a \in Addrs(script) :
           /\ Blocked(script, rules, a) /\ v.reason = BlockReason(script, rules, a)
           /\ \A b \in Addrs(script) : Before(b, a) => ~Blocked(script, rules, b)
    /\ v.decision = "Ask" =>
         \E a \in Addrs(script) :
           /\ Asked(script, rules, a) /\ v.reason = AskReason(script, rules, a)
           /\ \A b \in Addrs(script) : Before(b, a) => ~Asked(script, rules, b)

(* Allow is only for a script in which every command is covered, no rule   *)
(* hits any command and no path check fails (the Allowed type's invariant, *)
(* lemma_allow_corollary).                                                 *)
AllowIsClean ==
  \A v \in verdict : v.decision = "Allow" =>
    \A a \in Addrs(script) :
      /\ ReadingAt(script, a).covered
      /\ ~PathFails(ReadingAt(script, a), CwdBefore(script, a))
      /\ \A i \in DOMAIN rules : ~RuleHits(rules[i], CmdAt(script, a), Piped(a))

(* "A [[rule]] only raises a decision" (README.md:127): a rule that hits a *)
(* covered command anywhere raises the verdict to its outcome at least,    *)
(* wherever it stands in the list and whatever was found before it, by     *)
(* another rule at the same command, a path check or an earlier command.   *)
(* So no rule that is added takes back what the others ask for.            *)
NoRuleIsHidden ==
  \A v \in verdict, a \in Addrs(script), i \in DOMAIN rules :
    (ReadingAt(script, a).covered /\ RuleHits(rules[i], CmdAt(script, a), Piped(a)))
      => AtMost(rules[i].outcome, v.decision)

(* Moving to another directory first never makes a script more acceptable: *)
(* every check that reads the carried flag only gets stricter by it.       *)
CdInFrontNeverRelaxes ==
  \A v \in verdict, c \in Cmd :
    (Reading[c].covered /\ Reading[c].changes_cwd)
      => AtMost(v.decision, DecisionOf(<<(<<(<<c>>)>>)>> \o script, rules))

(* What the scan has found it keeps: a reason is never replaced by that of *)
(* a later command or rule, and a change of directory is never forgotten.  *)
FindingsStick ==
  [][/\ st.block # {} => st'.block = st.block
     /\ st.ask # {} => st'.ask = st.ask
     /\ st.cwd => st'.cwd]_vars

(* decide returns (the loops' variants).                                   *)
Terminates == <>(verdict # {})

(* The inductive invariant behind the verdict: what the loops have         *)
(* established about the commands, slots and rules they have passed.       *)
FirstBlockIs(s, rs, p, x) ==
  IF x = {}
  THEN \A b \in Addrs(s) : Before(b, p) => ~Blocked(s, rs, b)
  ELSE \E a \in Addrs(s) :
         /\ Before(a, p)
         /\ Blocked(s, rs, a) /\ x = BlockReason(s, rs, a)
         /\ \A b \in Addrs(s) : Before(b, a) => ~Blocked(s, rs, b)

FirstAskIs(s, rs, p, x) ==
  IF x = {}
  THEN \A b \in Addrs(s) : Before(b, p) => ~Asked(s, rs, b)
  ELSE \E a \in Addrs(s) :
         /\ Before(a, p)
         /\ Asked(s, rs, a) /\ x = AskReason(s, rs, a)
         /\ \A b \in Addrs(s) : Before(b, a) => ~Asked(s, rs, b)

BlockKept == FirstBlockIs(script, rules, cursor, st.block)

AskKept == FirstAskIs(script, rules, cursor, st.ask)

CwdKept == st.cwd = CwdBefore(script, cursor)

(* The loops are inside a command only at one that is covered.             *)
InCommand == pc \in {"slots", "rules"} => AtCommand /\ reading.covered

SlotsPassed ==
  pc = "slots" =>
    /\ cur = [block |-> {}, ask |-> {}]
    /\ \A i \in 1 .. k - 1 :
         i \in DOMAIN reading.slots => ~Fails(reading.slots[i], st.cwd)

(* The reason left by the path checks, then by the Ask rules before j.     *)
HitBefore(outcome) ==
  \E n \in 1 .. j - 1 : n \in DOMAIN rules /\ HitAt(script, rules, cursor, outcome, n)

RulesPassed ==
  pc = "rules" =>
    /\ IF HitBefore("Block")
       THEN cur.block = BlockReason(script, rules, cursor) /\ cur.block # {}
       ELSE cur.block = {}
    /\ IF PathFails(reading, st.cwd) \/ HitBefore("Ask")
       THEN cur.ask = AskReason(script, rules, cursor) /\ cur.ask # {}
       ELSE cur.ask = {}

ScanInv ==
  /\ TypeOK
  /\ BlockKept /\ AskKept /\ CwdKept
  /\ InCommand
  /\ SlotsPassed /\ RulesPassed
  /\ (pc # "done" => verdict = {})
  /\ VerdictIsFirstOfStrongest

(* The scan implements the order-free judge: the commands before the       *)
(* cursor are judged, and the carried pair is the strongest finding.       *)
Strongest ==
  IF st.block # {} THEN [decision |-> "Block", reason |-> st.block]
  ELSE IF st.ask # {} THEN [decision |-> "Ask", reason |-> st.ask]
  ELSE [decision |-> "Allow", reason |-> {}]

J == INSTANCE Judge WITH
  judged <- {a \in Addrs(script) : Before(a, cursor)},
  best <- [decision |-> Strongest.decision,
           reason |-> Strongest.reason,
           at |-> IF Strongest.reason = {} THEN [item |-> 0, link |-> 0, cmd |-> 0]
                  ELSE (CHOOSE r \in Strongest.reason : TRUE).at]

ImplementsJudge == J!Spec
=============================================================================

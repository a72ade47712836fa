-------------------------------- MODULE Judge --------------------------------
(***************************************************************************)
(* What decide promises, with no scan: every command of the script is      *)
(* judged on its own, in any order, and the verdict is the strongest       *)
(* finding, the one at the earliest address among equals.  Nothing in it   *)
(* is carried from one command to the next except the best finding so far, *)
(* so an implementation cannot lose, reorder or leak findings.             *)
(***************************************************************************)
EXTENDS Findings

VARIABLES
  script,   \* the script, fixed
  rules,    \* the rule list, fixed
  judged,   \* the addresses judged so far
  best,     \* the strongest finding so far, a Finding
  verdict   \* {} until answered, then the set of the one verdict

vars == <<script, rules, judged, best, verdict>>

(* A finding: a decision, its reason (none for Allow) and where it is.     *)
Finding == [decision: Decision, reason: SUBSET Reason, at: Addr]

Nothing == [decision |-> "Allow", reason |-> {}, at |-> [item |-> 0, link |-> 0, cmd |-> 0]]

FindingAt(s, rs, a) ==
  IF Blocked(s, rs, a)
  THEN [decision |-> "Block", reason |-> BlockReason(s, rs, a), at |-> a]
  ELSE IF Asked(s, rs, a)
  THEN [decision |-> "Ask", reason |-> AskReason(s, rs, a), at |-> a]
  ELSE Nothing

(* The join of decisions, keeping the earlier of two equal ones.           *)
Stronger(f, g) ==
  \/ Rank(f.decision) > Rank(g.decision)
  \/ f.decision = g.decision /\ Before(f.at, g.at)

Join(f, g) == IF Stronger(g, f) THEN g ELSE f

Init ==
  /\ script \in Script
  /\ rules \in Seq(Rule)
  /\ judged = {}
  /\ best = Nothing
  /\ verdict = {}

JudgeCommand(a) ==
  /\ a \in Addrs(script) \ judged
  /\ judged' = judged \cup {a}
  /\ best' = Join(best, FindingAt(script, rules, a))
  /\ UNCHANGED <<script, rules, verdict>>

Answer ==
  /\ judged = Addrs(script)
  /\ verdict = {}
  /\ verdict' = {[decision |-> best.decision, reason |-> best.reason]}
  /\ UNCHANGED <<script, rules, judged, best>>

Next == Answer \/ \E a \in Addrs(script) : JudgeCommand(a)

Spec == Init /\ [][Next]_vars /\ WF_vars(Next)
=============================================================================

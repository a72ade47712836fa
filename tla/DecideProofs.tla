---------------------------- MODULE DecideProofs ----------------------------
(***************************************************************************)
(* Proofs about the scan, for every set of commands, every catalog, every  *)
(* script and every rule list.                                             *)
(***************************************************************************)
EXTENDS Decide, TLAPS

-----------------------------------------------------------------------------
(* Addresses.                                                              *)

(* The addresses of a script are exactly its in-range positions.           *)
LEMMA AddrsAre ==
  ASSUME NEW s \in Script, NEW a
  PROVE  a \in Addrs(s) <=>
           \E i \in DOMAIN s : \E l \in DOMAIN s[i] : \E c \in DOMAIN s[i][l] :
             a = [item |-> i, link |-> l, cmd |-> c]
BY DEF Addrs

(* An address is a triple of positive numbers.                             *)
LEMMA AddrsType ==
  ASSUME NEW s \in Script, NEW a \in Addrs(s)
  PROVE  /\ a \in Addr
         /\ a.item \in DOMAIN s /\ a.link \in DOMAIN s[a.item]
         /\ a.cmd \in DOMAIN s[a.item][a.link]
         /\ a.item >= 1 /\ a.link >= 1 /\ a.cmd >= 1
         /\ a.item <= Len(s) /\ a.link <= Len(s[a.item])
         /\ a.cmd <= Len(s[a.item][a.link])
         /\ CmdAt(s, a) \in Cmd
<1>1. PICK i \in DOMAIN s : \E l \in DOMAIN s[i] : \E c \in DOMAIN s[i][l] :
        a = [item |-> i, link |-> l, cmd |-> c]
  BY AddrsAre
<1>2. PICK l \in DOMAIN s[i] : \E c \in DOMAIN s[i][l] :
        a = [item |-> i, link |-> l, cmd |-> c]
  BY <1>1
<1>3. PICK c \in DOMAIN s[i][l] : a = [item |-> i, link |-> l, cmd |-> c]
  BY <1>2
<1>4. s[i] \in Item /\ i \in 1 .. Len(s) /\ Len(s) \in Nat
  BY DEF Script
<1>5. s[i] \in Seq(Pipeline) /\ l \in 1 .. Len(s[i]) /\ Len(s[i]) \in Nat
  BY <1>4 DEF Item
<1>6. s[i][l] \in Seq(Cmd) /\ c \in 1 .. Len(s[i][l]) /\ Len(s[i][l]) \in Nat
  BY <1>5 DEF Pipeline
<1>7. s[i][l][c] \in Cmd
  BY <1>6
<1> QED
  BY <1>3, <1>4, <1>5, <1>6, <1>7 DEF Addr, CmdAt

(* Every address reads as a reading.                                       *)
LEMMA ReadingType ==
  ASSUME NEW s \in Script, NEW a \in Addrs(s)
  PROVE  ReadingAt(s, a) \in Readings
BY AddrsType, ReadingAssumption DEF ReadingAt

(* Stepping the command counter adds exactly the command stepped over.     *)
LEMMA BeforeNextCommand ==
  ASSUME NEW s \in Script, NEW p \in Addrs(s), NEW b \in Addrs(s)
  PROVE  Before(b, [p EXCEPT !.cmd = @ + 1]) <=> (Before(b, p) \/ b = p)
<1>1. b \in Addr /\ p \in Addr
  BY AddrsType
<1> QED
  BY <1>1 DEF Before, Addr

(* After the last command of a pipeline comes the next link.               *)
LEMMA BeforeNextLink ==
  ASSUME NEW s \in Script, NEW p \in Addr, NEW b \in Addrs(s),
         p.item \in DOMAIN s, p.link \in DOMAIN s[p.item],
         p.cmd > Len(s[p.item][p.link])
  PROVE  Before(b, [item |-> p.item, link |-> p.link + 1, cmd |-> 1]) <=> Before(b, p)
<1>1. /\ b \in Addr /\ b.cmd >= 1
      /\ b.cmd <= Len(s[b.item][b.link]) /\ b.link \in DOMAIN s[b.item]
  BY AddrsType
<1>2. s[p.item][p.link] \in Seq(Cmd)
  BY DEF Script, Item, Pipeline
<1>3. Len(s[p.item][p.link]) \in Nat
  BY <1>2
<1> QED
  BY <1>1, <1>3 DEF Before, Addr

(* After the last link of an item comes the next item.                     *)
LEMMA BeforeNextItem ==
  ASSUME NEW s \in Script, NEW p \in Addr, NEW b \in Addrs(s),
         p.item \in DOMAIN s, p.link > Len(s[p.item])
  PROVE  Before(b, [item |-> p.item + 1, link |-> 1, cmd |-> 1]) <=> Before(b, p)
<1>1. b \in Addr /\ b.link >= 1 /\ b.cmd >= 1 /\ b.link <= Len(s[b.item])
  BY AddrsType
<1>2. s[p.item] \in Seq(Pipeline)
  BY DEF Script, Item
<1>3. Len(s[p.item]) \in Nat
  BY <1>2
<1> QED
  BY <1>1, <1>3 DEF Before, Addr

(* Nothing precedes the first position; everything precedes the end.       *)
LEMMA BeforeEnds ==
  ASSUME NEW s \in Script, NEW p \in Addr, NEW b \in Addrs(s)
  PROVE  /\ ~Before(b, [item |-> 1, link |-> 1, cmd |-> 1])
         /\ p.item > Len(s) => Before(b, p)
<1>1. b \in Addr /\ b.item >= 1 /\ b.link >= 1 /\ b.cmd >= 1 /\ b.item <= Len(s)
  BY AddrsType
<1>2. Len(s) \in Nat
  BY DEF Script
<1> QED
  BY <1>1, <1>2 DEF Before, Addr

-----------------------------------------------------------------------------
(* What is found at one address.                                           *)

(* The reason of the first rule that hits is the only one.                 *)
LEMMA FirstHitReason ==
  ASSUME NEW s, NEW rs \in Seq(Rule), NEW a, NEW o, NEW n \in DOMAIN rs,
         HitAt(s, rs, a, o, n),
         \A i \in 1 .. n - 1 : ~HitAt(s, rs, a, o, i)
  PROVE  HitReason(s, rs, a, o) = {ByRule(rs[n], a)}
<1>1. ASSUME NEW m \in DOMAIN rs, HitAt(s, rs, a, o, m),
             \A i \in 1 .. m - 1 : ~HitAt(s, rs, a, o, i)
      PROVE  m = n
  <2>1. m \in Nat /\ n \in Nat /\ m >= 1 /\ n >= 1
    OBVIOUS
  <2>2. ~(m < n) /\ ~(n < m)
    BY <1>1, <2>1
  <2> QED
    BY <2>1, <2>2
<1>2. {m \in DOMAIN rs : HitAt(s, rs, a, o, m)
                        /\ \A i \in 1 .. m - 1 : ~HitAt(s, rs, a, o, i)} = {n}
  BY <1>1
<1> QED
  BY <1>2 DEF HitReason

(* So is the reason of the first slot that fails.                          *)
LEMMA FirstSlotReason ==
  ASSUME NEW r \in Readings, NEW a, NEW cwd \in BOOLEAN, NEW n \in DOMAIN r.slots,
         Fails(r.slots[n], cwd),
         \A i \in 1 .. n - 1 : ~Fails(r.slots[i], cwd)
  PROVE  SlotReason(r, a, cwd) = {Unknown(FaultKind(r.slots[n]), a, r.start + n)}
<1>1. r.slots \in Seq(Slot)
  BY DEF Readings
<1>2. ASSUME NEW m \in DOMAIN r.slots, Fails(r.slots[m], cwd),
             \A i \in 1 .. m - 1 : ~Fails(r.slots[i], cwd)
      PROVE  m = n
  <2>1. m \in Nat /\ n \in Nat /\ m >= 1 /\ n >= 1
    BY <1>1
  <2>2. ~(m < n) /\ ~(n < m)
    BY <1>2, <2>1
  <2> QED
    BY <2>1, <2>2
<1>3. {m \in DOMAIN r.slots : Fails(r.slots[m], cwd)
                        /\ \A i \in 1 .. m - 1 : ~Fails(r.slots[i], cwd)} = {n}
  BY <1>2
<1> QED
  BY <1>3 DEF SlotReason

(* Reasons are reasons.                                                    *)
LEMMA ReasonTypes ==
  ASSUME NEW a \in Addr
  PROVE  /\ \A u \in UnknownKind, w \in Nat : Unknown(u, a, w) \in Reason
         /\ \A rule \in Rule : ByRule(rule, a) \in Reason
         /\ \A slot : FaultKind(slot) \in UnknownKind
<1>1. \A slot : FaultKind(slot) \in UnknownKind
  BY DEF FaultKind, UnknownKind
<1> QED
  BY <1>1 DEF Unknown, ByRule, Reason, Rule

-----------------------------------------------------------------------------
(* Type correctness.                                                       *)

(* At a command, the cursor is an address and the command has a reading.   *)
LEMMA CursorIsAddress ==
  ASSUME TypeOK, AtCommand
  PROVE  cursor \in Addrs(script) /\ reading \in Readings
<1>1. cursor = [item |-> cursor.item, link |-> cursor.link, cmd |-> cursor.cmd]
  BY DEF TypeOK, Addr
<1>2. cursor \in Addrs(script)
  BY <1>1, AddrsAre DEF TypeOK, AtCommand
<1> QED
  BY <1>2, ReadingType DEF reading, TypeOK

(* Every step keeps the types, and enters a command's loops only there.    *)
LEMMA TypeStep == TypeOK /\ InCommand /\ [Next]_vars => TypeOK' /\ InCommand'
<1> SUFFICES ASSUME TypeOK, InCommand, [Next]_vars PROVE TypeOK' /\ InCommand'
  OBVIOUS
<1> USE DEF Loops
<1>1. CASE ScanUncovered
  <2>1. Unknown(reading.kind, cursor, reading.word) \in Reason
    BY <1>1, CursorIsAddress, ReasonTypes DEF ScanUncovered, Readings, TypeOK
  <2>2. cursor' \in Addr
    BY <1>1 DEF ScanUncovered, NextCommand, TypeOK, Addr
  <2>3. st' \in [block: SUBSET Reason, ask: SUBSET Reason, cwd: BOOLEAN]
    BY <1>1, <2>1 DEF ScanUncovered, TypeOK, Or
  <2> QED
    BY <1>1, <2>2, <2>3 DEF ScanUncovered, TypeOK, InCommand
<1>2. CASE ScanCovered
  BY <1>2 DEF ScanCovered, TypeOK, InCommand, AtCommand, reading
<1>3. CASE SlotFails
  <2>1. AtCommand
    BY <1>3 DEF SlotFails, InCommand
  <2>2. Unknown(FaultKind(reading.slots[k]), cursor, reading.start + k) \in Reason
    <3>1. reading.start + k \in Nat
      BY <2>1, CursorIsAddress DEF Readings, TypeOK
    <3> QED
      BY <3>1, ReasonTypes DEF TypeOK
  <2>3. cur' \in [block: SUBSET Reason, ask: SUBSET Reason]
    BY <1>3, <2>2 DEF SlotFails, TypeOK
  <2> QED
    BY <1>3, <2>3 DEF SlotFails, TypeOK, InCommand, AtCommand, reading
<1>4. CASE SlotPasses
  BY <1>4 DEF SlotPasses, TypeOK, InCommand, AtCommand, reading
<1>5. CASE SlotsPass
  <2>1. Unknown("SensitiveAfterCd", cursor, 0) \in Reason
    BY ReasonTypes DEF TypeOK, UnknownKind
  <2>2. cur' \in [block: SUBSET Reason, ask: SUBSET Reason]
    BY <1>5, <2>1 DEF SlotsPass, TypeOK
  <2> QED
    BY <1>5, <2>2 DEF SlotsPass, TypeOK, InCommand, AtCommand, reading
<1>6. CASE RuleMisses
  BY <1>6 DEF RuleMisses, TypeOK, InCommand, AtCommand, reading
<1>7. CASE RuleHit
  <2>1. rules[j] \in Rule
    BY <1>7 DEF RuleHit, TypeOK
  <2>2. ByRule(rules[j], cursor) \in Reason
    BY <2>1, ReasonTypes DEF TypeOK
  <2>3. cur' \in [block: SUBSET Reason, ask: SUBSET Reason]
    BY <1>7, <2>2 DEF RuleHit, TypeOK, Or
  <2>4. j' \in Nat \ {0} /\ pc' = "rules" /\ script' = script /\ cursor' = cursor
    BY <1>7 DEF RuleHit, TypeOK
  <2>5. InCommand'
    BY <1>7, <2>4 DEF RuleHit, InCommand, AtCommand, reading
  <2> QED
    BY <1>7, <2>3, <2>4, <2>5 DEF RuleHit, TypeOK
<1>8. CASE Merge
  <2>1. reading.changes_cwd \in BOOLEAN
    BY <1>8, CursorIsAddress DEF Merge, InCommand, Readings
  <2>2. cursor' \in Addr
    BY <1>8 DEF Merge, NextCommand, TypeOK, Addr
  <2>3. st' \in [block: SUBSET Reason, ask: SUBSET Reason, cwd: BOOLEAN]
    BY <1>8, <2>1 DEF Merge, TypeOK, Or
  <2> QED
    BY <1>8, <2>2, <2>3 DEF Merge, TypeOK, InCommand
<1>9. CASE NextLink
  <2>1. cursor' \in Addr
    BY <1>9 DEF NextLink, TypeOK, Addr
  <2> QED
    BY <1>9, <2>1 DEF NextLink, TypeOK, InCommand
<1>10. CASE NextItem
  BY <1>10 DEF NextItem, TypeOK, InCommand, Addr
<1>11. CASE Answer
  <2>1. FirstUncovered(script) \in SUBSET Reason
    <3>1. \A b \in Addrs(script) : b \in Addr /\ ReadingAt(script, b) \in Readings
      BY AddrsType, ReadingType DEF TypeOK
    <3> QED
      BY <3>1, ReasonTypes DEF FirstUncovered, Readings
  <2>2. verdict' \in SUBSET Verdict
    BY <1>11, <2>1 DEF Answer, TypeOK, Verdict, Decision
  <2> QED
    BY <1>11, <2>2 DEF Answer, TypeOK, InCommand
<1>12. CASE UNCHANGED vars
  BY <1>12 DEF vars, TypeOK, InCommand, AtCommand, reading
<1> QED
  BY <1>1, <1>2, <1>3, <1>4, <1>5, <1>6, <1>7, <1>8, <1>9, <1>10, <1>11, <1>12
     DEF Next

(* The initial states are typed.                                           *)
LEMMA TypeInit == Init => TypeOK /\ InCommand
BY InputsAssumption DEF Init, TypeOK, InCommand, Addr, Loops

-----------------------------------------------------------------------------
(* Stepping over a command, a link and an item.                            *)

(* Stepping over the command at p keeps the first Block reason the first.  *)
LEMMA BlockStep ==
  ASSUME NEW s \in Script, NEW rs, NEW p \in Addrs(s), NEW x, NEW y,
         FirstBlockIs(s, rs, p, x),
         IF Blocked(s, rs, p) THEN y = BlockReason(s, rs, p) /\ y # {} ELSE y = {}
  PROVE  FirstBlockIs(s, rs, [p EXCEPT !.cmd = @ + 1], Or(x, y))
<1> DEFINE q == [p EXCEPT !.cmd = @ + 1]
<1>1. \A b \in Addrs(s) : Before(b, q) <=> (Before(b, p) \/ b = p)
  BY BeforeNextCommand
<1> SUFFICES FirstBlockIs(s, rs, q, Or(x, y))
  OBVIOUS
<1> HIDE DEF q
<1>2. CASE x # {}
  BY <1>1, <1>2 DEF FirstBlockIs, Or
<1>3. CASE x = {} /\ y # {}
  BY <1>1, <1>3 DEF FirstBlockIs, Or
<1>4. CASE x = {} /\ y = {}
  BY <1>1, <1>4 DEF FirstBlockIs, Or
<1> QED
  BY <1>2, <1>3, <1>4

(* The same for the first Ask-level reason.                                *)
LEMMA AskStep ==
  ASSUME NEW s \in Script, NEW rs, NEW p \in Addrs(s), NEW x, NEW y,
         FirstAskIs(s, rs, p, x),
         IF Asked(s, rs, p) THEN y = AskReason(s, rs, p) /\ y # {} ELSE y = {}
  PROVE  FirstAskIs(s, rs, [p EXCEPT !.cmd = @ + 1], Or(x, y))
<1> DEFINE q == [p EXCEPT !.cmd = @ + 1]
<1>1. \A b \in Addrs(s) : Before(b, q) <=> (Before(b, p) \/ b = p)
  BY BeforeNextCommand
<1> SUFFICES FirstAskIs(s, rs, q, Or(x, y))
  OBVIOUS
<1> HIDE DEF q
<1>2. CASE x # {}
  BY <1>1, <1>2 DEF FirstAskIs, Or
<1>3. CASE x = {} /\ y # {}
  BY <1>1, <1>3 DEF FirstAskIs, Or
<1>4. CASE x = {} /\ y = {}
  BY <1>1, <1>4 DEF FirstAskIs, Or
<1> QED
  BY <1>2, <1>3, <1>4

(* The directory has been changed before the next command exactly when it  *)
(* was before this one, or this one changes it.                            *)
LEMMA CwdStep ==
  ASSUME NEW s \in Script, NEW p \in Addrs(s)
  PROVE  CwdBefore(s, [p EXCEPT !.cmd = @ + 1])
           = (CwdBefore(s, p) \/ (ReadingAt(s, p).covered /\ ReadingAt(s, p).changes_cwd))
BY BeforeNextCommand DEF CwdBefore

(* Where no address lies between p and q, what is known up to p is known   *)
(* up to q.                                                                *)
LEMMA SamePlace ==
  ASSUME NEW s, NEW rs, NEW p, NEW q, NEW x, NEW y,
         \A b \in Addrs(s) : Before(b, q) <=> Before(b, p)
  PROVE  /\ FirstBlockIs(s, rs, p, x) => FirstBlockIs(s, rs, q, x)
         /\ FirstAskIs(s, rs, p, y) => FirstAskIs(s, rs, q, y)
         /\ CwdBefore(s, q) = CwdBefore(s, p)
BY DEF FirstBlockIs, FirstAskIs, CwdBefore

-----------------------------------------------------------------------------
(* The verdict.                                                            *)

(* The scan starts with nothing found.                                     *)
LEMMA ScanInit == Init => ScanInv
<1> SUFFICES ASSUME Init PROVE ScanInv
  OBVIOUS
<1>1. TypeOK /\ InCommand
  BY TypeInit
<1>2. \A b \in Addrs(script) : ~Before(b, cursor)
  BY <1>1, BeforeEnds DEF Init, TypeOK
<1>3. BlockKept /\ AskKept /\ CwdKept
  BY <1>2 DEF Init, BlockKept, AskKept, CwdKept, FirstBlockIs, FirstAskIs, CwdBefore
<1> QED
  BY <1>1, <1>3 DEF Init, ScanInv, SlotsPassed, RulesPassed, VerdictIsFirstOfStrongest

(* The bounds the loops know of their own command.                         *)
LEMMA LoopBounds ==
  ASSUME ScanInv, AtCommand
  PROVE  /\ cursor \in Addrs(script) /\ reading \in Readings
         /\ reading.slots \in Seq(Slot) /\ Len(reading.slots) \in Nat
         /\ rules \in Seq(Rule) /\ Len(rules) \in Nat
         /\ k \in Nat /\ k >= 1 /\ j \in Nat /\ j >= 1
         /\ st.cwd \in BOOLEAN /\ st.cwd = CwdBefore(script, cursor)
<1>1. TypeOK
  BY DEF ScanInv
<1>2. cursor \in Addrs(script) /\ reading \in Readings
  BY <1>1, CursorIsAddress
<1> QED
  BY <1>1, <1>2 DEF ScanInv, TypeOK, Readings, CwdKept

(* A slot that fails at k is the first: the rules loop starts with its     *)
(* reason.                                                                 *)
LEMMA SlotFailsStep == ScanInv /\ SlotFails => RulesPassed'
<1> SUFFICES ASSUME ScanInv, SlotFails PROVE RulesPassed'
  OBVIOUS
<1>1. AtCommand /\ reading.covered
  BY DEF ScanInv, InCommand, SlotFails
<1>2. k \in DOMAIN reading.slots
  BY <1>1, LoopBounds DEF SlotFails
<1>3. \A i \in 1 .. k - 1 : ~Fails(reading.slots[i], st.cwd)
  <2>1. \A i \in 1 .. k - 1 : i \in DOMAIN reading.slots
    BY <1>1, <1>2, LoopBounds
  <2> QED
    BY <2>1 DEF ScanInv, SlotsPassed, SlotFails
<1>4. SlotReason(reading, cursor, st.cwd)
        = {Unknown(FaultKind(reading.slots[k]), cursor, reading.start + k)}
  BY <1>1, <1>2, <1>3, LoopBounds, FirstSlotReason DEF SlotFails
<1>5. SlotsFail(reading, st.cwd) /\ PathFails(reading, st.cwd)
  BY <1>2 DEF SlotFails, SlotsFail, PathFails
<1>6. AskReason(script, rules, cursor)
        = {Unknown(FaultKind(reading.slots[k]), cursor, reading.start + k)}
  BY <1>1, <1>4, <1>5, LoopBounds DEF AskReason, reading
<1>7. cur = [block |-> {}, ask |-> {}]
  BY DEF ScanInv, SlotsPassed, SlotFails
<1>8. cur'.block = {} /\ cur'.ask = AskReason(script, rules, cursor) /\ cur'.ask # {}
  BY <1>6, <1>7 DEF SlotFails
<1>9. ~HitBefore("Block")'
  BY DEF SlotFails, HitBefore
<1>10. /\ AskReason(script, rules, cursor)' = AskReason(script, rules, cursor)
       /\ PathFails(reading, st.cwd)' = PathFails(reading, st.cwd)
  BY DEF SlotFails, reading
<1> QED
  BY <1>5, <1>8, <1>9, <1>10 DEF RulesPassed

(* When no slot fails, only the row's flag can make the path checks fail.  *)
LEMMA SlotsPassStep == ScanInv /\ SlotsPass => RulesPassed'
<1> SUFFICES ASSUME ScanInv, SlotsPass PROVE RulesPassed'
  OBVIOUS
<1>1. AtCommand /\ reading.covered
  BY DEF ScanInv, InCommand, SlotsPass
<1>2. ~SlotsFail(reading, st.cwd)
  <2>1. \A i \in DOMAIN reading.slots : i \in 1 .. k - 1
    BY <1>1, LoopBounds DEF SlotsPass
  <2> QED
    BY <2>1 DEF ScanInv, SlotsPassed, SlotsPass, SlotsFail
<1>3. cur = [block |-> {}, ask |-> {}]
  BY DEF ScanInv, SlotsPassed, SlotsPass
<1>4. ~HitBefore("Block")' /\ ~HitBefore("Ask")'
  BY DEF SlotsPass, HitBefore
<1>5. /\ AskReason(script, rules, cursor)' = AskReason(script, rules, cursor)
      /\ PathFails(reading, st.cwd)' = PathFails(reading, st.cwd)
  BY DEF SlotsPass, reading
<1>6. CASE st.cwd /\ reading.cwd_sensitive
  <2>1. AskReason(script, rules, cursor) = {Unknown("SensitiveAfterCd", cursor, 0)}
    BY <1>1, <1>2, <1>6, LoopBounds DEF AskReason, reading
  <2>2. cur'.block = {} /\ cur'.ask = {Unknown("SensitiveAfterCd", cursor, 0)}
    BY <1>3, <1>6 DEF SlotsPass
  <2>3. PathFails(reading, st.cwd)
    BY <1>6 DEF PathFails
  <2> QED
    BY <1>4, <1>5, <2>1, <2>2, <2>3 DEF RulesPassed
<1>7. CASE ~(st.cwd /\ reading.cwd_sensitive)
  <2>1. ~PathFails(reading, st.cwd)
    BY <1>2, <1>7 DEF PathFails
  <2>2. cur'.block = {} /\ cur'.ask = {}
    BY <1>3, <1>7 DEF SlotsPass
  <2> QED
    BY <1>4, <1>5, <2>1, <2>2 DEF RulesPassed
<1> QED
  BY <1>6, <1>7

(* One more rule tried adds exactly that rule's hit.                       *)
LEMMA HitBeforeNext ==
  ASSUME ScanInv, AtCommand, j <= Len(rules), NEW o,
         rules' = rules, script' = script, cursor' = cursor, j' = j + 1
  PROVE  HitBefore(o)' <=> (HitBefore(o) \/ HitAt(script, rules, cursor, o, j))
<1>1. j \in DOMAIN rules /\ j \in Nat /\ Len(rules) \in Nat
  BY LoopBounds
<1>2. \A n : n \in 1 .. j' - 1 <=> (n \in 1 .. j - 1 \/ n = j)
  BY <1>1, LoopBounds
<1> QED
  BY <1>1, <1>2 DEF HitBefore

(* A rule that misses leaves the first hits where they are.                *)
LEMMA RuleMissesStep == ScanInv /\ RuleMisses => RulesPassed'
<1> SUFFICES ASSUME ScanInv, RuleMisses PROVE RulesPassed'
  OBVIOUS
<1>1. AtCommand
  BY DEF ScanInv, InCommand, RuleMisses
<1>2. \A o : HitBefore(o)' <=> HitBefore(o)
  BY <1>1, HitBeforeNext DEF RuleMisses, HitAt
<1>3. /\ AskReason(script, rules, cursor)' = AskReason(script, rules, cursor)
      /\ BlockReason(script, rules, cursor)' = BlockReason(script, rules, cursor)
      /\ PathFails(reading, st.cwd)' = PathFails(reading, st.cwd)
      /\ cur' = cur /\ pc = "rules"
  BY DEF RuleMisses, reading
<1>4. HitBefore("Block")' <=> HitBefore("Block")
  BY <1>2
<1>5. HitBefore("Ask")' <=> HitBefore("Ask")
  BY <1>2
<1> QED
  BY <1>3, <1>4, <1>5 DEF ScanInv, RulesPassed

(* A hit at j is kept as the reason of its outcome unless there is one,    *)
(* and then it is the first hit's.                                         *)
LEMMA RuleHitStep == ScanInv /\ RuleHit => RulesPassed'
<1> SUFFICES ASSUME ScanInv, RuleHit PROVE RulesPassed'
  OBVIOUS
<1> DEFINE o == rules[j].outcome
<1>1. AtCommand /\ reading.covered
  BY DEF ScanInv, InCommand, RuleHit
<1>2. j \in DOMAIN rules /\ rules[j] \in Rule
  BY <1>1, LoopBounds DEF RuleHit
<1>3. o \in {"Block", "Ask"} /\ HitAt(script, rules, cursor, o, j)
  BY <1>2 DEF RuleHit, HitAt, Rule
<1>4. /\ HitBefore("Block")' <=> (HitBefore("Block") \/ o = "Block")
      /\ HitBefore("Ask")' <=> (HitBefore("Ask") \/ o = "Ask")
  BY <1>1, <1>3, HitBeforeNext DEF RuleHit, HitAt
<1>5. ~HitBefore(o) => HitReason(script, rules, cursor, o) = {ByRule(rules[j], cursor)}
  <2> SUFFICES ASSUME ~HitBefore(o)
               PROVE  HitReason(script, rules, cursor, o) = {ByRule(rules[j], cursor)}
    OBVIOUS
  <2>1. \A i \in 1 .. j - 1 : i \in DOMAIN rules
    BY <1>1, <1>2, LoopBounds
  <2>2. \A i \in 1 .. j - 1 : ~HitAt(script, rules, cursor, o, i)
    BY <2>1 DEF HitBefore
  <2> QED
    BY <1>1, <1>2, <1>3, <2>2, FirstHitReason, LoopBounds
<1>6. /\ AskReason(script, rules, cursor)' = AskReason(script, rules, cursor)
      /\ BlockReason(script, rules, cursor)' = BlockReason(script, rules, cursor)
      /\ PathFails(reading, st.cwd)' = PathFails(reading, st.cwd)
      /\ pc = "rules"
  BY DEF RuleHit, reading
<1>7. cur \in [block: SUBSET Reason, ask: SUBSET Reason]
  BY DEF ScanInv, TypeOK
<1>8. CASE o = "Block"
  <2>1. /\ cur'.block = Or(cur.block, {ByRule(rules[j], cursor)})
        /\ cur'.ask = cur.ask
    BY <1>7, <1>8 DEF RuleHit
  <2>2. (HitBefore("Block")' <=> TRUE) /\ (HitBefore("Ask")' <=> HitBefore("Ask"))
    BY <1>4, <1>8
  <2>3. cur'.block = BlockReason(script, rules, cursor) /\ cur'.block # {}
    BY <1>5, <1>6, <1>8, <2>1 DEF ScanInv, RulesPassed, BlockReason, Or
  <2> QED
    BY <1>6, <2>1, <2>2, <2>3 DEF ScanInv, RulesPassed
<1>9. CASE o = "Ask"
  <2>1. /\ cur'.ask = Or(cur.ask, {ByRule(rules[j], cursor)})
        /\ cur'.block = cur.block
    BY <1>7, <1>9 DEF RuleHit
  <2>2. (HitBefore("Ask")' <=> TRUE) /\ (HitBefore("Block")' <=> HitBefore("Block"))
    BY <1>4, <1>9
  <2>3. CASE PathFails(reading, st.cwd) \/ HitBefore("Ask")
    <3>1. cur'.ask = AskReason(script, rules, cursor) /\ cur'.ask # {}
      BY <1>6, <2>1, <2>3 DEF ScanInv, RulesPassed, Or
    <3> QED
      BY <1>6, <2>1, <2>2, <3>1 DEF ScanInv, RulesPassed
  <2>4. CASE ~PathFails(reading, st.cwd) /\ ~HitBefore("Ask")
    <3>1. cur'.ask = {ByRule(rules[j], cursor)}
      BY <1>6, <2>1, <2>4 DEF ScanInv, RulesPassed, Or
    <3>2. AskReason(script, rules, cursor) = {ByRule(rules[j], cursor)}
      BY <1>1, <1>5, <1>9, <2>4, LoopBounds DEF AskReason, PathFails, reading
    <3> QED
      BY <1>6, <2>1, <2>2, <3>1, <3>2 DEF ScanInv, RulesPassed
  <2> QED
    BY <2>3, <2>4
<1> QED
  BY <1>3, <1>8, <1>9

(* What is carried past a command: the three parts of the Scan.            *)
Carried == BlockKept /\ AskKept /\ CwdKept

(* Stepping over an uncovered command keeps what is carried: it is asked   *)
(* about, never blocked, and does not change the directory.                *)
LEMMA UncoveredStep == ScanInv /\ ScanUncovered => Carried'
<1> SUFFICES ASSUME ScanInv, ScanUncovered PROVE Carried'
  OBVIOUS
<1>1. AtCommand /\ ~reading.covered /\ TypeOK /\ script \in Script
  BY DEF ScanInv, ScanUncovered, TypeOK
<1>2. cursor \in Addrs(script)
  BY <1>1, LoopBounds
<1>3. ~Blocked(script, rules, cursor) /\ Asked(script, rules, cursor)
  BY <1>1 DEF Blocked, Asked, reading
<1>4. AskReason(script, rules, cursor) = {Unknown(reading.kind, cursor, reading.word)}
  BY <1>1 DEF AskReason, reading
<1>5. /\ st'.block = st.block /\ st'.cwd = st.cwd
      /\ st'.ask = Or(st.ask, {Unknown(reading.kind, cursor, reading.word)})
  BY <1>1 DEF ScanUncovered, TypeOK
<1>6. FirstBlockIs(script, rules, [cursor EXCEPT !.cmd = @ + 1], Or(st.block, {}))
  BY <1>1, <1>2, <1>3, BlockStep DEF ScanInv, BlockKept
<1>7. FirstAskIs(script, rules, [cursor EXCEPT !.cmd = @ + 1],
                 Or(st.ask, {Unknown(reading.kind, cursor, reading.word)}))
  BY <1>1, <1>2, <1>3, <1>4, AskStep DEF ScanInv, AskKept
<1>8. CwdBefore(script, [cursor EXCEPT !.cmd = @ + 1]) = st.cwd
  <2>1. st.cwd = CwdBefore(script, cursor) /\ st.cwd \in BOOLEAN
    BY <1>1, LoopBounds
  <2> QED
    BY <1>1, <1>2, <2>1, CwdStep DEF reading
<1>9. Or(st.block, {}) = st.block
  BY DEF Or
<1> QED
  BY <1>5, <1>6, <1>7, <1>8, <1>9
     DEF Carried, BlockKept, AskKept, CwdKept, ScanUncovered, NextCommand

(* Merging what the loops found of a covered command keeps what is carried.*)
LEMMA MergeStep == ScanInv /\ Merge => Carried'
<1> SUFFICES ASSUME ScanInv, Merge PROVE Carried'
  OBVIOUS
<1>1. AtCommand /\ reading.covered /\ script \in Script
  BY DEF ScanInv, InCommand, Merge, TypeOK
<1>2. cursor \in Addrs(script)
  BY <1>1, LoopBounds
<1>3. \A o : HasHit(script, rules, cursor, o) <=> HitBefore(o)
  <2>1. \A n \in DOMAIN rules : n \in 1 .. j - 1
    BY <1>1, LoopBounds DEF Merge
  <2> QED
    BY <2>1 DEF HasHit, HitBefore
<1>4. Blocked(script, rules, cursor) <=> HitBefore("Block")
  BY <1>1, <1>3 DEF Blocked, reading
<1>5. Asked(script, rules, cursor) <=> (PathFails(reading, st.cwd) \/ HitBefore("Ask"))
  BY <1>1, <1>3, LoopBounds DEF Asked, reading
<1>6. FirstBlockIs(script, rules, [cursor EXCEPT !.cmd = @ + 1], Or(st.block, cur.block))
  BY <1>1, <1>2, <1>4, BlockStep DEF ScanInv, BlockKept, RulesPassed, Merge
<1>7. FirstAskIs(script, rules, [cursor EXCEPT !.cmd = @ + 1], Or(st.ask, cur.ask))
  BY <1>1, <1>2, <1>5, AskStep DEF ScanInv, AskKept, RulesPassed, Merge
<1>8. CwdBefore(script, [cursor EXCEPT !.cmd = @ + 1]) = (st.cwd \/ reading.changes_cwd)
  BY <1>1, <1>2, LoopBounds, CwdStep DEF reading
<1> QED
  BY <1>6, <1>7, <1>8 DEF Carried, BlockKept, AskKept, CwdKept, Merge, NextCommand

(* Leaving a pipeline or an item passes over no command.                   *)
LEMMA LoopExitStep == ScanInv /\ (NextLink \/ NextItem) => Carried'
<1> SUFFICES ASSUME ScanInv, NextLink \/ NextItem PROVE Carried'
  OBVIOUS
<1>1. script \in Script /\ cursor \in Addr
  BY DEF ScanInv, TypeOK
<1>2. script' = script /\ rules' = rules /\ st' = st
  BY DEF NextLink, NextItem
<1>3. \A b \in Addrs(script) : Before(b, cursor') <=> Before(b, cursor)
  <2>1. CASE NextLink
    BY <1>1, <2>1, BeforeNextLink DEF NextLink
  <2>2. CASE NextItem
    BY <1>1, <2>2, BeforeNextItem DEF NextItem
  <2> QED
    BY <2>1, <2>2
<1>4. /\ FirstBlockIs(script, rules, cursor', st.block)
      /\ FirstAskIs(script, rules, cursor', st.ask)
      /\ CwdBefore(script, cursor') = CwdBefore(script, cursor)
  BY <1>3, SamePlace DEF ScanInv, BlockKept, AskKept
<1> QED
  BY <1>2, <1>4 DEF ScanInv, Carried, BlockKept, AskKept, CwdKept

(* The answer, once nothing is left to scan.                               *)
LEMMA AnswerStep == ScanInv /\ Answer => VerdictIsFirstOfStrongest'
<1> SUFFICES ASSUME ScanInv, Answer PROVE VerdictIsFirstOfStrongest'
  OBVIOUS
<1>1. script \in Script /\ cursor \in Addr /\ script' = script /\ rules' = rules
  BY DEF ScanInv, TypeOK, Answer
<1>2. \A b \in Addrs(script) : Before(b, cursor)
  BY <1>1, BeforeEnds DEF Answer
<1>3. FirstBlockIs(script, rules, cursor, st.block) /\ FirstAskIs(script, rules, cursor, st.ask)
  BY DEF ScanInv, BlockKept, AskKept
<1>4. CASE st.block # {}
  <2>1. verdict' = {[decision |-> "Block", reason |-> st.block]}
    BY <1>4 DEF Answer
  <2>2. DecisionOf(script, rules) = "Block"
    BY <1>3, <1>4 DEF FirstBlockIs, DecisionOf
  <2> QED
    BY <1>1, <1>3, <1>4, <2>1, <2>2 DEF FirstBlockIs, VerdictIsFirstOfStrongest
<1>5. CASE st.block = {} /\ st.ask # {}
  <2>1. verdict' = {[decision |-> "Ask", reason |-> st.ask]}
    BY <1>5 DEF Answer
  <2>2. DecisionOf(script, rules) = "Ask"
    BY <1>2, <1>3, <1>5 DEF FirstBlockIs, FirstAskIs, DecisionOf
  <2> QED
    BY <1>1, <1>3, <1>5, <2>1, <2>2 DEF FirstAskIs, VerdictIsFirstOfStrongest
<1>6. CASE st.block = {} /\ st.ask = {}
  <2>1. \A a \in Addrs(script) : ~Blocked(script, rules, a) /\ ~Asked(script, rules, a)
    BY <1>2, <1>3, <1>6 DEF FirstBlockIs, FirstAskIs
  <2>2. FirstUncovered(script) = {}
    BY <2>1 DEF FirstUncovered, Asked
  <2>3. verdict' = {[decision |-> "Allow", reason |-> {}]}
    BY <1>6, <2>2 DEF Answer
  <2>4. DecisionOf(script, rules) = "Allow"
    BY <2>1 DEF DecisionOf
  <2> QED
    BY <1>1, <2>3, <2>4 DEF VerdictIsFirstOfStrongest
<1> QED
  BY <1>4, <1>5, <1>6

(* Every step keeps the scan's invariant.                                  *)
LEMMA ScanStep == ScanInv /\ [Next]_vars => ScanInv'
<1> SUFFICES ASSUME ScanInv, [Next]_vars PROVE ScanInv'
  OBVIOUS
<1>1. TypeOK' /\ InCommand'
  BY TypeStep DEF ScanInv
<1>2. ASSUME script' = script, rules' = rules, cursor' = cursor, st' = st
      PROVE  Carried'
  BY <1>2 DEF ScanInv, Carried, BlockKept, AskKept, CwdKept
<1>3. ASSUME script' = script, rules' = rules, verdict' = verdict
      PROVE  VerdictIsFirstOfStrongest'
  BY <1>3 DEF ScanInv, VerdictIsFirstOfStrongest
<1> DEFINE Rest == /\ Carried /\ SlotsPassed /\ RulesPassed
                   /\ (pc # "done" => verdict = {}) /\ VerdictIsFirstOfStrongest
<1> SUFFICES Rest'
  BY <1>1 DEF ScanInv, Carried
<1>4. CASE ScanUncovered
  BY <1>4, <1>3, UncoveredStep
     DEF ScanUncovered, ScanInv, SlotsPassed, RulesPassed
<1>5. CASE ScanCovered
  BY <1>5, <1>2, <1>3 DEF ScanCovered, ScanInv, SlotsPassed, RulesPassed
<1>6. CASE SlotFails
  BY <1>6, <1>2, <1>3, SlotFailsStep DEF SlotFails, ScanInv, SlotsPassed
<1>7. CASE SlotPasses
  <2>1. SlotsPassed'
    <3>1. AtCommand /\ cur' = cur /\ cur = [block |-> {}, ask |-> {}]
      BY <1>7 DEF SlotPasses, ScanInv, SlotsPassed, InCommand
    <3>2. \A i \in 1 .. k' - 1 : i \in 1 .. k - 1 \/ i = k
      BY <1>7, <3>1, LoopBounds DEF SlotPasses
    <3>3. \A i \in 1 .. k' - 1 :
            i \in DOMAIN reading.slots => ~Fails(reading.slots[i], st.cwd)
      BY <1>7, <3>2 DEF SlotPasses, ScanInv, SlotsPassed
    <3> QED
      BY <1>7, <3>1, <3>3 DEF SlotPasses, SlotsPassed, reading
  <2> QED
    BY <1>7, <1>2, <1>3, <2>1 DEF SlotPasses, ScanInv, RulesPassed
<1>8. CASE SlotsPass
  BY <1>8, <1>2, <1>3, SlotsPassStep DEF SlotsPass, ScanInv, SlotsPassed
<1>9. CASE RuleMisses
  BY <1>9, <1>2, <1>3, RuleMissesStep DEF RuleMisses, ScanInv, SlotsPassed
<1>10. CASE RuleHit
  BY <1>10, <1>2, <1>3, RuleHitStep DEF RuleHit, ScanInv, SlotsPassed
<1>11. CASE Merge
  BY <1>11, <1>3, MergeStep DEF Merge, ScanInv, SlotsPassed, RulesPassed
<1>12. CASE NextLink
  BY <1>12, <1>3, LoopExitStep DEF NextLink, ScanInv, SlotsPassed, RulesPassed
<1>13. CASE NextItem
  BY <1>13, <1>3, LoopExitStep DEF NextItem, ScanInv, SlotsPassed, RulesPassed
<1>14. CASE Answer
  BY <1>14, <1>2, AnswerStep DEF Answer, ScanInv, SlotsPassed, RulesPassed
<1>15. CASE UNCHANGED vars
  BY <1>15, <1>2, <1>3
     DEF vars, ScanInv, SlotsPassed, RulesPassed, HitBefore, reading
<1> QED
  BY <1>4, <1>5, <1>6, <1>7, <1>8, <1>9, <1>10, <1>11, <1>12, <1>13, <1>14, <1>15
     DEF Next

(* In every state the scan carries the first Block reason, the first       *)
(* Ask-level reason and the change of directory of what it has passed.     *)
THEOREM ScanCorrect == Spec => []ScanInv
<1> QED
  BY ScanInit, ScanStep, PTL DEF Spec

(* Theorem T3 of the kernel, with the reason: whatever the catalog, the    *)
(* rules and the script, the verdict is the decision they add up to and    *)
(* carries the reason of the first command that gives it.                  *)
THEOREM VerdictCorrect == Spec => []VerdictIsFirstOfStrongest
<1>1. ScanInv => VerdictIsFirstOfStrongest
  BY DEF ScanInv
<1> QED
  BY <1>1, ScanCorrect, PTL

(* The loop counters, reasons and verdict have their types in every state. *)
THEOREM TypeCorrect == Spec => []TypeOK
<1>1. ScanInv => TypeOK
  BY DEF ScanInv
<1> QED
  BY <1>1, ScanCorrect, PTL

(* An Allow verdict leaves nothing uncovered, unchecked or hit.            *)
THEOREM AllowCorrect == Spec => []AllowIsClean
<1>1. ScanInv => AllowIsClean
  <2> SUFFICES ASSUME ScanInv, NEW v \in verdict, v.decision = "Allow",
                      NEW a \in Addrs(script)
               PROVE  /\ ReadingAt(script, a).covered
                      /\ ~PathFails(ReadingAt(script, a), CwdBefore(script, a))
                      /\ \A i \in DOMAIN rules :
                           ~RuleHits(rules[i], CmdAt(script, a), Piped(a))
    BY DEF AllowIsClean
  <2>1. DecisionOf(script, rules) = "Allow"
    BY DEF ScanInv, VerdictIsFirstOfStrongest
  <2>2. ~Blocked(script, rules, a) /\ ~Asked(script, rules, a)
    BY <2>1 DEF DecisionOf
  <2>3. ASSUME NEW i \in DOMAIN rules
        PROVE  rules[i].outcome \in {"Ask", "Block"}
    <3>1. rules[i] \in Rule
      BY DEF ScanInv, TypeOK
    <3> QED
      BY <3>1 DEF Rule
  <2> QED
    BY <2>2, <2>3 DEF Blocked, Asked, HasHit, HitAt
<1> QED
  BY <1>1, ScanCorrect, PTL

(* Theorem T4 of the kernel: a rule list that contains another's rules     *)
(* never gives the lower decision.                                         *)
THEOREM DecisionMonotone ==
  ASSUME NEW s \in Script, NEW r \in Seq(Rule), NEW r2 \in Seq(Rule),
         \A i \in DOMAIN r : \E n \in DOMAIN r2 : r2[n] = r[i]
  PROVE  AtMost(DecisionOf(s, r), DecisionOf(s, r2))
<1>1. ASSUME NEW a, NEW o, HasHit(s, r, a, o)
      PROVE  HasHit(s, r2, a, o)
  BY <1>1 DEF HasHit, HitAt
<1>2. \A a : Blocked(s, r, a) => Blocked(s, r2, a)
  BY <1>1 DEF Blocked
<1>3. \A a : Asked(s, r, a) => Asked(s, r2, a)
  BY <1>1 DEF Asked
<1> QED
  BY <1>2, <1>3 DEF DecisionOf, AtMost, Rank

(* No rule is hidden from the verdict by what the scan met before it.      *)
THEOREM NoRuleHidden == Spec => []NoRuleIsHidden
<1>1. ScanInv => NoRuleIsHidden
  <2> SUFFICES ASSUME ScanInv, NEW v \in verdict,
                      NEW a \in Addrs(script), NEW i \in DOMAIN rules,
                      ReadingAt(script, a).covered,
                      RuleHits(rules[i], CmdAt(script, a), Piped(a))
               PROVE  AtMost(rules[i].outcome, v.decision)
    BY DEF NoRuleIsHidden
  <2>1. v.decision = DecisionOf(script, rules)
    BY DEF ScanInv, VerdictIsFirstOfStrongest
  <2>2. HasHit(script, rules, a, rules[i].outcome)
    BY DEF HasHit, HitAt
  <2>3. rules[i].outcome \in {"Ask", "Block"}
    <3>1. rules[i] \in Rule
      BY DEF ScanInv, TypeOK
    <3> QED
      BY <3>1 DEF Rule
  <2>4. CASE rules[i].outcome = "Block"
    BY <2>1, <2>2, <2>4 DEF Blocked, DecisionOf, AtMost, Rank
  <2>5. CASE rules[i].outcome = "Ask"
    BY <2>1, <2>2, <2>5 DEF Asked, DecisionOf, AtMost, Rank
  <2> QED
    BY <2>3, <2>4, <2>5
<1> QED
  BY <1>1, ScanCorrect, PTL

(* A change of directory in front of a script only adds reasons to ask:    *)
(* every command keeps its hits and its place in its pipeline, and the     *)
(* path checks that now read "changed" fail wherever they failed before.   *)
THEOREM CdOnlyTightens ==
  ASSUME NEW s \in Script, NEW r \in Seq(Rule), NEW c \in Cmd,
         Reading[c].covered, Reading[c].changes_cwd
  PROVE  AtMost(DecisionOf(s, r), DecisionOf(<<(<<(<<c>>)>>)>> \o s, r))
<1> DEFINE t == <<(<<(<<c>>)>>)>> \o s
           Moved(a) == [item |-> a.item + 1, link |-> a.link, cmd |-> a.cmd]
           First == [item |-> 1, link |-> 1, cmd |-> 1]
<1>1. <<(<<c>>)>> \in Item
  BY DEF Item, Pipeline
<1>2. t \in Script
  BY <1>1 DEF Script
<1>3. /\ Len(s) \in Nat /\ Len(t) = Len(s) + 1
      /\ t[1] = <<(<<c>>)>> /\ \A i \in 1 .. Len(s) : t[i + 1] = s[i]
  BY <1>1 DEF Script
<1>4. First \in Addrs(t) /\ CmdAt(t, First) = c
  <2>1. 1 \in DOMAIN t /\ 1 \in DOMAIN t[1] /\ 1 \in DOMAIN t[1][1]
    BY <1>2, <1>3 DEF Script
  <2>2. t[1][1][1] = c
    BY <1>3
  <2> HIDE DEF t
  <2>3. First \in Addrs(t)
    BY <1>2, <2>1, AddrsAre
  <2> QED
    BY <2>2, <2>3 DEF CmdAt
<1>5. ASSUME NEW a \in Addrs(s)
      PROVE  /\ Moved(a) \in Addrs(t) /\ CmdAt(t, Moved(a)) = CmdAt(s, a)
             /\ Before(First, Moved(a))
  <2>1. a \in Addr /\ a.item \in DOMAIN s /\ a.link \in DOMAIN s[a.item]
        /\ a.cmd \in DOMAIN s[a.item][a.link] /\ a.item >= 1 /\ a.item <= Len(s)
    BY AddrsType
  <2>2. a.item \in Nat /\ t[a.item + 1] = s[a.item] /\ a.item + 1 \in DOMAIN t
    BY <1>2, <1>3, <2>1 DEF Addr, Script
  <2>3. Moved(a) \in Addrs(t)
    BY <1>2, <2>1, <2>2, AddrsAre
  <2> QED
    BY <2>1, <2>2, <2>3 DEF CmdAt, Before
<1> HIDE DEF t, Moved, First
<1>6. \A a \in Addrs(s) : CwdBefore(t, Moved(a)) = TRUE
  BY <1>4, <1>5 DEF CwdBefore, ReadingAt
<1>7. \A a \in Addrs(s) : Piped(Moved(a)) = Piped(a)
  BY DEF Piped, Moved
<1>8. \A a \in Addrs(s) : \A o : HasHit(t, r, Moved(a), o) <=> HasHit(s, r, a, o)
  BY <1>5, <1>7 DEF HasHit, HitAt
<1>9. \A a \in Addrs(s) : Blocked(s, r, a) => Blocked(t, r, Moved(a))
  BY <1>5, <1>8 DEF Blocked, ReadingAt
<1>10. \A x : PathFails(x, TRUE) \/ ~PathFails(x, FALSE)
  BY DEF PathFails, SlotsFail, Fails
<1>11. \A a \in Addrs(s) : CwdBefore(s, a) \in BOOLEAN
  BY DEF CwdBefore
<1>12. \A a \in Addrs(s) : Asked(s, r, a) => Asked(t, r, Moved(a))
  BY <1>5, <1>6, <1>8, <1>10, <1>11 DEF Asked, ReadingAt
<1>13. AtMost(DecisionOf(s, r), DecisionOf(t, r))
  BY <1>5, <1>9, <1>12 DEF DecisionOf, AtMost, Rank
<1> QED
  BY <1>13 DEF t

(* So no verdict is above the one for the same script after a "cd".        *)
THEOREM CdNeverRelaxes == Spec => []CdInFrontNeverRelaxes
<1>1. ScanInv => CdInFrontNeverRelaxes
  <2> SUFFICES ASSUME ScanInv, NEW v \in verdict, NEW c \in Cmd,
                      Reading[c].covered, Reading[c].changes_cwd
               PROVE  AtMost(v.decision,
                             DecisionOf(<<(<<(<<c>>)>>)>> \o script, rules))
    BY DEF CdInFrontNeverRelaxes
  <2>1. v.decision = DecisionOf(script, rules)
    BY DEF ScanInv, VerdictIsFirstOfStrongest
  <2>2. script \in Script /\ rules \in Seq(Rule)
    BY DEF ScanInv, TypeOK
  <2> QED
    BY <2>1, <2>2, CdOnlyTightens
<1> QED
  BY <1>1, ScanCorrect, PTL

(* Nothing the scan has found is replaced or forgotten.                    *)
THEOREM NothingForgotten == Spec => FindingsStick
<1>1. TypeOK /\ [Next]_vars =>
        [/\ st.block # {} => st'.block = st.block
         /\ st.ask # {} => st'.ask = st.ask
         /\ st.cwd => st'.cwd]_vars
  BY DEF Next, vars, TypeOK, ScanUncovered, ScanCovered, SlotFails, SlotPasses,
         SlotsPass, RuleMisses, RuleHit, Merge, NextLink, NextItem, Answer, Or
<1> QED
  BY <1>1, TypeCorrect, PTL DEF Spec, FindingsStick

-----------------------------------------------------------------------------
(* The scan of Decide implements Judge, its safety part: every step of the *)
(* scan is one command judged, the answer, or nothing, whatever the        *)
(* catalog's readings, the rules and the script.  The argument needs only  *)
(* what ScanInv says before and after the step: the finding carried is the *)
(* first of the strongest before the cursor, and there is only one such.   *)

(* What Decide puts for the judge's variables.                             *)
Judged == {a \in Addrs(script) : Before(a, cursor)}

Best == [decision |-> Strongest.decision,
         reason |-> Strongest.reason,
         at |-> IF Strongest.reason = {} THEN [item |-> 0, link |-> 0, cmd |-> 0]
                ELSE (CHOOSE r \in Strongest.reason : TRUE).at]

(* The finding at an address, and one that stands for none.                *)
Nothing == [decision |-> "Allow", reason |-> {}, at |-> [item |-> 0, link |-> 0, cmd |-> 0]]

FindingAt(s, rs, a) ==
  IF Blocked(s, rs, a)
  THEN [decision |-> "Block", reason |-> BlockReason(s, rs, a), at |-> a]
  ELSE IF Asked(s, rs, a)
  THEN [decision |-> "Ask", reason |-> AskReason(s, rs, a), at |-> a]
  ELSE Nothing

Join(f, g) ==
  IF \/ Rank(g.decision) > Rank(f.decision)
     \/ g.decision = f.decision /\ Before(g.at, f.at)
  THEN g ELSE f

(* f is the first of the strongest findings before q.                      *)
NoneBefore(s, rs, q) ==
  \A b \in Addrs(s) : Before(b, q) => ~Blocked(s, rs, b) /\ ~Asked(s, rs, b)

FirstBlockAt(s, rs, q, a) ==
  /\ a \in Addrs(s) /\ Before(a, q) /\ Blocked(s, rs, a)
  /\ \A b \in Addrs(s) : Before(b, a) => ~Blocked(s, rs, b)

FirstAskAt(s, rs, q, a) ==
  /\ a \in Addrs(s) /\ Before(a, q) /\ Asked(s, rs, a)
  /\ \A b \in Addrs(s) : Before(b, a) => ~Asked(s, rs, b)
  /\ \A b \in Addrs(s) : Before(b, q) => ~Blocked(s, rs, b)

IsBest(f, s, rs, q) ==
  \/ f = Nothing /\ NoneBefore(s, rs, q)
  \/ \E a : f = FindingAt(s, rs, a) /\ (FirstBlockAt(s, rs, q, a) \/ FirstAskAt(s, rs, q, a))

-----------------------------------------------------------------------------
(* The judge's copies of the operators of Findings are these.              *)
LEMMA SameOperators ==
  /\ J!Script = Script /\ J!Rule = Rule
  /\ \A s : J!Addrs(s) = Addrs(s)
  /\ \A s, rs, a : J!FindingAt(s, rs, a) = FindingAt(s, rs, a)
  /\ J!Nothing = Nothing
  /\ \A f, g : J!Join(f, g) = Join(f, g)
<1>1. J!Script = Script /\ J!Rule = Rule
  BY DEF J!Script, J!Item, J!Pipeline, J!Rule, Script, Item, Pipeline, Rule
<1>2. \A s : J!Addrs(s) = Addrs(s)
  BY DEF J!Addrs, Addrs
<1>3. \A b, p : J!Before(b, p) <=> Before(b, p)
  BY DEF J!Before, Before
<1>4. \A s, a : J!ReadingAt(s, a) = ReadingAt(s, a)
  BY DEF J!ReadingAt, J!CmdAt, ReadingAt, CmdAt
<1>5. \A s, p : J!CwdBefore(s, p) = CwdBefore(s, p)
  BY <1>2, <1>3, <1>4 DEF J!CwdBefore, CwdBefore
<1>6. \A s, rs, a, o, n : J!HitAt(s, rs, a, o, n) <=> HitAt(s, rs, a, o, n)
  BY DEF J!HitAt, J!RuleHits, J!CmdAt, J!Piped, HitAt, RuleHits, CmdAt, Piped
<1>7. \A s, rs, a, o : J!HasHit(s, rs, a, o) <=> HasHit(s, rs, a, o)
  BY <1>6 DEF J!HasHit, HasHit
<1>8. \A r, c : J!SlotsFail(r, c) <=> SlotsFail(r, c)
  BY DEF J!SlotsFail, SlotsFail, J!Fails, Fails
<1>9. \A s, rs, a : J!Blocked(s, rs, a) <=> Blocked(s, rs, a)
  BY <1>4, <1>7 DEF J!Blocked, Blocked
<1>10. \A s, rs, a : J!Asked(s, rs, a) <=> Asked(s, rs, a)
  BY <1>4, <1>5, <1>7, <1>8 DEF J!Asked, Asked, J!PathFails, PathFails
<1>11. \A s, rs, a, o : J!HitReason(s, rs, a, o) = HitReason(s, rs, a, o)
  BY <1>6 DEF J!HitReason, HitReason, J!ByRule, ByRule
<1>12. \A s, rs, a : J!BlockReason(s, rs, a) = BlockReason(s, rs, a)
  BY <1>11 DEF J!BlockReason, BlockReason
<1>13. \A r, a, c : J!SlotReason(r, a, c) = SlotReason(r, a, c)
  BY DEF J!SlotReason, SlotReason, J!Fails, Fails, J!FaultKind, FaultKind,
         J!Unknown, Unknown
<1>14. \A s, rs, a : J!AskReason(s, rs, a) = AskReason(s, rs, a)
  BY <1>4, <1>5, <1>8, <1>11, <1>13 DEF J!AskReason, AskReason, J!Unknown, Unknown
<1>15. J!Nothing = Nothing
  BY DEF J!Nothing, Nothing
<1>16. \A s, rs, a : J!FindingAt(s, rs, a) = FindingAt(s, rs, a)
  BY <1>9, <1>10, <1>12, <1>14, <1>15 DEF J!FindingAt, FindingAt
<1>17. \A d : J!Rank(d) = Rank(d)
  BY DEF J!Rank, Rank
<1>18. \A f, g : J!Join(f, g) = Join(f, g)
  BY <1>3, <1>17 DEF J!Join, J!Stronger, Join
<1> QED
  BY <1>1, <1>2, <1>15, <1>16, <1>18

(* Addresses are totally ordered.                                          *)
LEMMA TotalOrder ==
  ASSUME NEW s \in Script, NEW a \in Addrs(s), NEW b \in Addrs(s)
  PROVE  /\ a = b \/ Before(a, b) \/ Before(b, a)
         /\ ~(Before(a, b) /\ Before(b, a))
         /\ ~Before(a, a)
<1>1. a \in Addr /\ b \in Addr
  BY AddrsType
<1> QED
  BY <1>1 DEF Addr, Before

(* A reason is at the address it was found at.                             *)
LEMMA ReasonsPlace ==
  ASSUME NEW s, NEW rs, NEW a
  PROVE  /\ \A r \in BlockReason(s, rs, a) : r.at = a
         /\ \A r \in AskReason(s, rs, a) : r.at = a
<1>1. \A o : \A r \in HitReason(s, rs, a, o) : r.at = a
  BY DEF HitReason, ByRule
<1>2. \A x, c : \A r \in SlotReason(x, a, c) : r.at = a
  BY DEF SlotReason, Unknown
<1>3. \A u, w : Unknown(u, a, w).at = a
  BY DEF Unknown
<1> QED
  BY <1>1, <1>2, <1>3 DEF BlockReason, AskReason

(* The pair the scan carries is the first of the strongest findings.       *)
LEMMA BestIsBest == ScanInv => IsBest(Best, script, rules, cursor)
<1> SUFFICES ASSUME ScanInv PROVE IsBest(Best, script, rules, cursor)
  OBVIOUS
<1>1. FirstBlockIs(script, rules, cursor, st.block) /\ FirstAskIs(script, rules, cursor, st.ask)
  BY DEF ScanInv, BlockKept, AskKept
<1>2. CASE st.block # {}
  <2>1. PICK a \in Addrs(script) :
          /\ Before(a, cursor) /\ Blocked(script, rules, a)
          /\ st.block = BlockReason(script, rules, a)
          /\ \A b \in Addrs(script) : Before(b, a) => ~Blocked(script, rules, b)
    BY <1>1, <1>2 DEF FirstBlockIs
  <2>2. (CHOOSE r \in st.block : TRUE).at = a
    BY <1>2, <2>1, ReasonsPlace
  <2>3. Strongest = [decision |-> "Block", reason |-> st.block]
    BY <1>2 DEF Strongest
  <2>4. Best = [decision |-> "Block", reason |-> st.block, at |-> a]
    BY <1>2, <2>2, <2>3 DEF Best
  <2>5. Best = FindingAt(script, rules, a)
    BY <2>1, <2>4 DEF FindingAt
  <2> QED
    BY <2>1, <2>5 DEF IsBest, FirstBlockAt
<1>3. CASE st.block = {} /\ st.ask # {}
  <2>1. PICK a \in Addrs(script) :
          /\ Before(a, cursor) /\ Asked(script, rules, a)
          /\ st.ask = AskReason(script, rules, a)
          /\ \A b \in Addrs(script) : Before(b, a) => ~Asked(script, rules, b)
    BY <1>1, <1>3 DEF FirstAskIs
  <2>2. (CHOOSE r \in st.ask : TRUE).at = a
    BY <1>3, <2>1, ReasonsPlace
  <2>3. Strongest = [decision |-> "Ask", reason |-> st.ask]
    BY <1>3 DEF Strongest
  <2>4. Best = [decision |-> "Ask", reason |-> st.ask, at |-> a]
    BY <1>3, <2>2, <2>3 DEF Best
  <2>5. \A b \in Addrs(script) : Before(b, cursor) => ~Blocked(script, rules, b)
    BY <1>1, <1>3 DEF FirstBlockIs
  <2>6. Best = FindingAt(script, rules, a)
    BY <2>1, <2>4, <2>5 DEF FindingAt
  <2> QED
    BY <2>1, <2>5, <2>6 DEF IsBest, FirstAskAt
<1>4. CASE st.block = {} /\ st.ask = {}
  <2>1. Strongest = [decision |-> "Allow", reason |-> {}]
    BY <1>4 DEF Strongest
  <2>2. Best = Nothing
    BY <2>1 DEF Best, Nothing
  <2> QED
    BY <1>1, <1>4, <2>2 DEF IsBest, NoneBefore, FirstBlockIs, FirstAskIs
<1> QED
  BY <1>2, <1>3, <1>4

(* Judging the command at p joins its finding to the best before it.       *)
LEMMA OneMoreJudged ==
  ASSUME NEW s \in Script, NEW rs, NEW p \in Addrs(s), NEW q, NEW f, NEW g,
         \A b \in Addrs(s) : Before(b, q) <=> (Before(b, p) \/ b = p),
         IsBest(f, s, rs, p), IsBest(g, s, rs, q)
  PROVE  g = Join(f, FindingAt(s, rs, p))
<1> DEFINE fp == FindingAt(s, rs, p)
<1>1. CASE Blocked(s, rs, p)
  <2>1. fp.decision = "Block" /\ fp.at = p
    BY <1>1 DEF FindingAt
  <2>2. PICK a : g = FindingAt(s, rs, a) /\ FirstBlockAt(s, rs, q, a)
    BY <1>1 DEF IsBest, NoneBefore, FirstAskAt
  <2>3. CASE f = Nothing /\ NoneBefore(s, rs, p)
    <3>1. a = p
      BY <2>2, <2>3 DEF FirstBlockAt, NoneBefore
    <3>2. Join(f, fp) = fp
      BY <2>1, <2>3 DEF Join, Rank, Nothing
    <3> QED
      BY <2>2, <3>1, <3>2
  <2>4. ASSUME NEW c, f = FindingAt(s, rs, c), FirstBlockAt(s, rs, p, c)
        PROVE  g = Join(f, fp)
    <3>1. a = c
      BY <2>2, <2>4, TotalOrder DEF FirstBlockAt
    <3>2. f.decision = "Block" /\ f.at = c /\ c \in Addrs(s) /\ Before(c, p)
      BY <2>4 DEF FindingAt, FirstBlockAt
    <3>3. ~Before(p, c)
      BY <3>2, TotalOrder
    <3>4. Join(f, fp) = f
      BY <2>1, <3>2, <3>3 DEF Join, Rank
    <3> QED
      BY <2>2, <2>4, <3>1, <3>4
  <2>5. ASSUME NEW c, f = FindingAt(s, rs, c), FirstAskAt(s, rs, p, c)
        PROVE  g = Join(f, fp)
    <3>1. a = p
      BY <2>2, <2>5 DEF FirstBlockAt, FirstAskAt
    <3>2. f.decision = "Ask"
      BY <2>5 DEF FindingAt, FirstAskAt
    <3>3. Join(f, fp) = fp
      BY <2>1, <3>2 DEF Join, Rank
    <3> QED
      BY <2>2, <3>1, <3>3
  <2> QED
    BY <2>3, <2>4, <2>5 DEF IsBest
<1>2. CASE ~Blocked(s, rs, p) /\ Asked(s, rs, p)
  <2>1. fp.decision = "Ask" /\ fp.at = p
    BY <1>2 DEF FindingAt
  <2>2. CASE f = Nothing /\ NoneBefore(s, rs, p)
    <3>1. PICK a : g = FindingAt(s, rs, a) /\ FirstAskAt(s, rs, q, a)
      BY <1>2, <2>2 DEF IsBest, NoneBefore, FirstBlockAt
    <3>2. a = p
      BY <2>2, <3>1 DEF FirstAskAt, NoneBefore
    <3>3. Join(f, fp) = fp
      BY <2>1, <2>2 DEF Join, Rank, Nothing
    <3> QED
      BY <3>1, <3>2, <3>3
  <2>3. ASSUME NEW c, f = FindingAt(s, rs, c), FirstBlockAt(s, rs, p, c)
        PROVE  g = Join(f, fp)
    <3>1. PICK a : g = FindingAt(s, rs, a) /\ FirstBlockAt(s, rs, q, a)
      BY <2>3 DEF IsBest, NoneBefore, FirstBlockAt, FirstAskAt
    <3>2. a = c
      BY <2>3, <3>1, <1>2, TotalOrder DEF FirstBlockAt
    <3>3. f.decision = "Block"
      BY <2>3 DEF FindingAt, FirstBlockAt
    <3>4. Join(f, fp) = f
      BY <2>1, <3>3 DEF Join, Rank
    <3> QED
      BY <2>3, <3>1, <3>2, <3>4
  <2>4. ASSUME NEW c, f = FindingAt(s, rs, c), FirstAskAt(s, rs, p, c)
        PROVE  g = Join(f, fp)
    <3>1. PICK a : g = FindingAt(s, rs, a) /\ FirstAskAt(s, rs, q, a)
      BY <2>4, <1>2 DEF IsBest, NoneBefore, FirstBlockAt, FirstAskAt
    <3>2. a = c
      BY <2>4, <3>1, TotalOrder DEF FirstAskAt
    <3>3. f.decision = "Ask" /\ f.at = c /\ c \in Addrs(s) /\ Before(c, p)
      BY <2>4 DEF FindingAt, FirstAskAt
    <3>4. ~Before(p, c)
      BY <3>3, TotalOrder
    <3>5. Join(f, fp) = f
      BY <2>1, <3>3, <3>4 DEF Join, Rank
    <3> QED
      BY <2>4, <3>1, <3>2, <3>5
  <2> QED
    BY <2>2, <2>3, <2>4 DEF IsBest
<1>3. CASE ~Blocked(s, rs, p) /\ ~Asked(s, rs, p)
  <2>1. fp = Nothing
    BY <1>3 DEF FindingAt
  <2>2. CASE f = Nothing /\ NoneBefore(s, rs, p)
    <3>1. NoneBefore(s, rs, q)
      BY <1>3, <2>2 DEF NoneBefore
    <3>2. g = Nothing
      BY <3>1 DEF IsBest, NoneBefore, FirstBlockAt, FirstAskAt
    <3>3. Join(f, fp) = Nothing
      BY <2>1, <2>2 DEF Join
    <3> QED
      BY <3>2, <3>3
  <2>3. ASSUME NEW c, f = FindingAt(s, rs, c), FirstBlockAt(s, rs, p, c)
        PROVE  g = Join(f, fp)
    <3>1. PICK a : g = FindingAt(s, rs, a) /\ FirstBlockAt(s, rs, q, a)
      BY <2>3 DEF IsBest, NoneBefore, FirstBlockAt, FirstAskAt
    <3>2. a = c
      BY <2>3, <3>1, <1>3, TotalOrder DEF FirstBlockAt
    <3>3. f.decision = "Block"
      BY <2>3 DEF FindingAt, FirstBlockAt
    <3>4. Join(f, fp) = f
      BY <2>1, <3>3 DEF Join, Rank, Nothing
    <3> QED
      BY <2>3, <3>1, <3>2, <3>4
  <2>4. ASSUME NEW c, f = FindingAt(s, rs, c), FirstAskAt(s, rs, p, c)
        PROVE  g = Join(f, fp)
    <3>1. PICK a : g = FindingAt(s, rs, a) /\ FirstAskAt(s, rs, q, a)
      BY <2>4, <1>3 DEF IsBest, NoneBefore, FirstBlockAt, FirstAskAt
    <3>2. a = c
      BY <2>4, <3>1, <1>3, TotalOrder DEF FirstAskAt
    <3>3. f.decision = "Ask"
      BY <2>4 DEF FindingAt, FirstAskAt
    <3>4. Join(f, fp) = f
      BY <2>1, <3>3 DEF Join, Rank, Nothing
    <3> QED
      BY <2>4, <3>1, <3>2, <3>4
  <2> QED
    BY <2>2, <2>3, <2>4 DEF IsBest
<1> QED
  BY <1>1, <1>2, <1>3

-----------------------------------------------------------------------------
(* The judge's actions, in terms of what Decide puts for its variables.    *)
LEMMA JudgeActions ==
  /\ J!Init <=> /\ script \in Script /\ rules \in Seq(Rule) /\ Judged = {}
                /\ Best = Nothing /\ verdict = {}
  /\ J!Answer <=> /\ Judged = Addrs(script) /\ verdict = {}
                  /\ verdict' = {[decision |-> Best.decision, reason |-> Best.reason]}
                  /\ UNCHANGED <<script, rules, Judged, Best>>
  /\ \A a : J!JudgeCommand(a) <=>
              /\ a \in Addrs(script) \ Judged
              /\ Judged' = Judged \cup {a}
              /\ Best' = Join(Best, FindingAt(script, rules, a))
              /\ UNCHANGED <<script, rules, verdict>>
<1>1. J!Init <=> /\ script \in Script /\ rules \in Seq(Rule) /\ Judged = {}
                 /\ Best = Nothing /\ verdict = {}
  BY SameOperators DEF J!Init, Judged, Best
<1>2. J!Answer <=> /\ Judged = Addrs(script) /\ verdict = {}
                   /\ verdict' = {[decision |-> Best.decision, reason |-> Best.reason]}
                   /\ UNCHANGED <<script, rules, Judged, Best>>
  BY SameOperators DEF J!Answer, Judged, Best
<1>3. \A a : J!JudgeCommand(a) <=>
               /\ a \in Addrs(script) \ Judged
               /\ Judged' = Judged \cup {a}
               /\ Best' = Join(Best, FindingAt(script, rules, a))
               /\ UNCHANGED <<script, rules, verdict>>
  BY SameOperators DEF J!JudgeCommand, Judged, Best
<1> QED
  BY <1>1, <1>2, <1>3

(* The scan starts where the judge does.                                   *)
LEMMA JudgeInit == Init => J!Init
<1> SUFFICES ASSUME Init PROVE J!Init
  OBVIOUS
<1>1. script \in Script /\ rules \in Seq(Rule) /\ cursor \in Addr
  BY TypeInit DEF TypeOK
<1>2. Judged = {}
  BY <1>1, BeforeEnds DEF Init, Judged
<1>3. Strongest = [decision |-> "Allow", reason |-> {}]
  BY DEF Init, Strongest
<1>4. Best = Nothing
  BY <1>3 DEF Best, Nothing
<1> QED
  BY <1>1, <1>2, <1>4, JudgeActions DEF Init

(* Scanning one command, covered or not, judges it.                        *)
LEMMA JudgeStep ==
  ASSUME ScanInv, ScanInv', ScanUncovered \/ Merge
  PROVE  \E a \in Addrs(script) : J!JudgeCommand(a)
<1>1. AtCommand /\ script \in Script
  BY DEF ScanInv, TypeOK, InCommand, ScanUncovered, Merge
<1>2. cursor \in Addrs(script)
  BY <1>1, LoopBounds
<1>3. /\ script' = script /\ rules' = rules /\ verdict' = verdict
      /\ cursor' = [cursor EXCEPT !.cmd = @ + 1]
  BY DEF ScanUncovered, Merge, NextCommand
<1>4. \A b \in Addrs(script) : Before(b, cursor') <=> (Before(b, cursor) \/ b = cursor)
  BY <1>1, <1>2, <1>3, BeforeNextCommand
<1>5. IsBest(Best, script, rules, cursor)
  BY BestIsBest
<1>6. IsBest(Best', script, rules, cursor')
  <2>1. (ScanInv => IsBest(Best, script, rules, cursor))'
    BY BestIsBest, PTL
  <2>2. IsBest(Best', script', rules', cursor')
    BY <2>1 DEF IsBest, NoneBefore, FirstBlockAt, FirstAskAt, FindingAt, Nothing
  <2> QED
    BY <1>3, <2>2
<1>7. Best' = Join(Best, FindingAt(script, rules, cursor))
  BY <1>1, <1>2, <1>4, <1>5, <1>6, OneMoreJudged
<1>8. Judged' = Judged \cup {cursor}
  BY <1>2, <1>3, <1>4 DEF Judged
<1>9. cursor \notin Judged
  BY <1>1, <1>2, TotalOrder DEF Judged
<1>10. J!JudgeCommand(cursor)
  BY <1>2, <1>3, <1>7, <1>8, <1>9, JudgeActions
<1> QED
  BY <1>2, <1>10

(* The scan answers when all is judged, with the best it carries.          *)
LEMMA JudgeAnswer == ScanInv /\ Answer => J!Answer
<1> SUFFICES ASSUME ScanInv, Answer PROVE J!Answer
  OBVIOUS
<1>1. script \in Script /\ cursor \in Addr /\ verdict = {}
  BY DEF ScanInv, TypeOK, Answer
<1>2. \A b \in Addrs(script) : Before(b, cursor)
  BY <1>1, BeforeEnds DEF Answer
<1>3. Judged = Addrs(script)
  BY <1>2 DEF Judged
<1>4. UNCHANGED <<script, rules, Judged, Best>>
  BY DEF Answer, Judged, Best, Strongest
<1>5. st.block = {} /\ st.ask = {} => FirstUncovered(script) = {}
  BY <1>2 DEF ScanInv, AskKept, FirstAskIs, FirstUncovered, Asked
<1>6. verdict' = {Strongest}
  BY <1>5 DEF Answer, Strongest
<1>7. Strongest = [decision |-> Best.decision, reason |-> Best.reason]
  BY DEF Best, Strongest
<1> QED
  BY <1>1, <1>3, <1>4, <1>6, <1>7, JudgeActions

(* The other steps of the scan are invisible to the judge.                 *)
LEMMA JudgeStutter ==
  ASSUME ScanInv,
         \/ ScanCovered \/ SlotFails \/ SlotPasses \/ SlotsPass
         \/ RuleMisses \/ RuleHit \/ NextLink \/ NextItem \/ UNCHANGED vars
  PROVE  UNCHANGED J!vars
<1>1. script' = script /\ rules' = rules /\ st' = st /\ verdict' = verdict
  BY DEF ScanCovered, SlotFails, SlotPasses, SlotsPass, RuleMisses, RuleHit,
         NextLink, NextItem, vars
<1>2. script \in Script /\ cursor \in Addr
  BY DEF ScanInv, TypeOK
<1>3. \A b \in Addrs(script) : Before(b, cursor') <=> Before(b, cursor)
  <2>1. CASE NextLink
    BY <1>2, <2>1, BeforeNextLink DEF NextLink
  <2>2. CASE NextItem
    BY <1>2, <2>2, BeforeNextItem DEF NextItem
  <2>3. CASE cursor' = cursor
    BY <2>3
  <2> QED
    BY <2>1, <2>2, <2>3
       DEF ScanCovered, SlotFails, SlotPasses, SlotsPass, RuleMisses, RuleHit, vars
<1>4. Judged' = Judged
  BY <1>1, <1>3 DEF Judged
<1>5. Best' = Best
  BY <1>1 DEF Best, Strongest
<1> QED
  BY <1>1, <1>4, <1>5 DEF J!vars, Judged, Best

(* The scan implements the order-free judge, for every catalog reading,    *)
(* rule list and script: its initial states are the judge's, and each step *)
(* of it judges one command, answers, or changes nothing the judge has.    *)
THEOREM JudgeImplemented == Spec => J!Init /\ [][J!Next]_(J!vars)
<1>1. ScanInv /\ ScanInv' /\ [Next]_vars => [J!Next]_(J!vars)
  <2> SUFFICES ASSUME ScanInv, ScanInv', [Next]_vars PROVE [J!Next]_(J!vars)
    OBVIOUS
  <2>1. CASE ScanUncovered \/ Merge
    BY <2>1, JudgeStep, SameOperators DEF J!Next
  <2>2. CASE Answer
    BY <2>2, JudgeAnswer DEF J!Next
  <2>3. CASE \/ ScanCovered \/ SlotFails \/ SlotPasses \/ SlotsPass
             \/ RuleMisses \/ RuleHit \/ NextLink \/ NextItem \/ UNCHANGED vars
    BY <2>3, JudgeStutter
  <2> QED
    BY <2>1, <2>2, <2>3 DEF Next
<1> QED
  BY <1>1, JudgeInit, ScanCorrect, PTL DEF Spec
=============================================================================

-------------------------------- MODULE Argv --------------------------------
(***************************************************************************)
(* parse_argv: the words after a row's key are read left to right against  *)
(* its grammar.  The loop over the words and the loop over the bytes of a  *)
(* cluster of short options are unrolled into one action per arm; the      *)
(* first problem ends the parse.                                           *)
(***************************************************************************)
EXTENDS Grammar

CONSTANTS
  Inputs,  \* the [g, ws, start] that parse_argv may be called with
  Texts    \* what the shell may put in place of an opaque part

ASSUME ArgvAssumption ==
  \A in \in Inputs :
    /\ in.g \in Grammar
    /\ in.ws \in Seq(Word)
    /\ in.start \in 0 .. Len(in.ws)

ASSUME TextsAssumption == Texts \subseteq Seq(Byte)

VARIABLES
  g,       \* the grammar, fixed during a parse
  ws,      \* the words of the command, fixed
  start,   \* how many of them are the key, fixed during a parse
  i,       \* the word being read
  at,      \* the byte being read of a cluster of short options, else 0
  ph,      \* where the walk is
  k,       \* how many operands were read
  slots,   \* what the words read were
  seen,    \* the options that occurred, in order
  result   \* {} until the parse ends, then its one outcome

input == <<g, ws, start>>
walk == <<i, at, ph, k, slots, seen, result>>
vars == <<g, ws, start, i, at, ph, k, slots, seen, result>>

Phase == {"Options", "AfterOperand", "AfterDashDash"}

Outcome == [kind: ArgvFault \cup {"Parsed"}, word: Nat]

Parsed == result # {} /\ \A r \in result : r.kind = "Parsed"

Failed == result # {} /\ ~Parsed

word == ws[i]

b == word.lit

StartParse(grammar, n) ==
  /\ i = n + 1 /\ at = 0 /\ ph = "Options" /\ k = 0
  /\ slots = <<>> /\ seen = <<>> /\ result = {}
  /\ g = grammar /\ start = n

Init == \E in \in Inputs : ws = in.ws /\ StartParse(in.g, in.start)

-----------------------------------------------------------------------------
(* The parse is Unknown, for a problem at word n.                          *)
Fail(fault, n) ==
  /\ result' = {[kind |-> fault, word |-> n]}
  /\ UNCHANGED <<i, at, ph, k, slots, seen, input>>

(* An option word without a value of its own is read.                      *)
TakeOpts(value) ==
  /\ slots' = Append(slots, OptsSlot(value))
  /\ i' = i + 1
  /\ at' = 0
  /\ UNCHANGED <<ph, k, result, input>>

(* The word's last option is o, and "off" bytes come before its value.     *)
TakeInline(o, off) ==
  IF g.opts[o].role = "Code"
  THEN Fail("CodeRole", i)
  ELSE TakeOpts({[role |-> g.opts[o].role, off |-> off]}) /\ seen' = Append(seen, o)

(* A variant that reads a missing value as an empty one.                   *)
TakeNextUnchecked(o) ==
  IF g.opts[o].role = "Code"
  THEN Fail("CodeRole", i + 1)
  ELSE /\ slots' = slots \o <<OptsSlot({}), OptValueSlot(g.opts[o].role)>>
       /\ seen' = Append(seen, o)
       /\ i' = i + 2
       /\ at' = 0
       /\ UNCHANGED <<ph, k, result, input>>

(* A variant that forgets the slot of the value.                           *)
TakeNextOneSlot(o) ==
  IF i = Len(ws) THEN Fail("MissingValue", i)
  ELSE IF g.opts[o].role = "Code" THEN Fail("CodeRole", i + 1)
  ELSE /\ TakeOpts({}) /\ seen' = Append(seen, o)

(* The word's last option is o, which takes the next word.                 *)
TakeNext(o) ==
  IF i = Len(ws) THEN Fail("MissingValue", i)
  ELSE IF g.opts[o].role = "Code" THEN Fail("CodeRole", i + 1)
  ELSE /\ slots' = slots \o <<OptsSlot({}), OptValueSlot(g.opts[o].role)>>
       /\ seen' = Append(seen, o)
       /\ i' = i + 2
       /\ at' = 0
       /\ UNCHANGED <<ph, k, result, input>>

-----------------------------------------------------------------------------
AtWord == result = {} /\ at = 0 /\ i <= Len(ws)

(* Words that cannot be read where they are: a word that may be an option  *)
(* but is opaque, or comes after options ended; a rejected +word; a "--"   *)
(* the grammar has no use for.                                             *)
BadWord ==
  /\ AtWord
  /\ ph # "AfterDashDash"
  /\ \/ /\ MayBeOption(word)
        /\ \/ ph = "AfterOperand" /\ Fail("OptionAfterOperand", i)
           \/ ph = "Options" /\ word.opaque /\ Fail("OpaqueOption", i)
           \/ /\ ph = "Options" /\ IsDashDash(word) /\ ~g.dashdash
              /\ Fail("DashDashNotAllowed", i)
     \/ ~MayBeOption(word) /\ PlusRejected(g, word) /\ Fail("PlusWord", i)

(* A variant that forgets that an opaque word may turn out an option.      *)
AtOperandLiteral ==
  /\ AtWord
  /\ \/ ph = "AfterDashDash"
     \/ ~(StartsWith(b, "-") /\ Len(b) > 1) /\ ~PlusRejected(g, word)

AtOperand ==
  /\ AtWord
  /\ ph = "AfterDashDash" \/ (~MayBeOption(word) /\ ~PlusRejected(g, word))

BadOperand ==
  /\ AtOperand
  /\ \/ OperandRole(g, k) = {} /\ Fail("ExtraOperand", i)
     \/ OperandRole(g, k) = {"Code"} /\ Fail("CodeRole", i)

(* A variant in which operands end options whatever the grammar says.      *)
OperandStrict ==
  /\ AtOperand
  /\ \E r \in OperandRole(g, k) \ {"Code"} : slots' = Append(slots, OperandSlot(r))
  /\ k' = k + 1
  /\ ph' = IF ph = "Options" THEN "AfterOperand" ELSE ph
  /\ i' = i + 1
  /\ UNCHANGED <<at, seen, result, input>>

Operand ==
  /\ AtOperand
  /\ \E r \in OperandRole(g, k) \ {"Code"} : slots' = Append(slots, OperandSlot(r))
  /\ k' = k + 1
  /\ ph' = IF ph = "Options" /\ ~g.permute THEN "AfterOperand" ELSE ph
  /\ i' = i + 1
  /\ UNCHANGED <<at, seen, result, input>>

EndOpts ==
  /\ AtWord
  /\ ph = "Options"
  /\ IsDashDash(word)
  /\ g.dashdash
  /\ slots' = Append(slots, DashDashSlot)
  /\ ph' = "AfterDashDash"
  /\ i' = i + 1
  /\ UNCHANGED <<at, k, seen, result, input>>

-----------------------------------------------------------------------------
AtLong == AtWord /\ ph = "Options" /\ ~word.opaque /\ IsLong(b)

BadLongOption ==
  /\ AtLong
  /\ \/ FindLong(g.opts, LongName(b)) = {} /\ Fail("UnknownOption", i)
     \/ \E o \in FindLong(g.opts, LongName(b)) :
          /\ g.opts[o].value = "Flag" /\ FindEq(b) # {}
          /\ Fail("FlagGivenValue", i)

LongOption ==
  /\ AtLong
  /\ \E o \in FindLong(g.opts, LongName(b)) :
       \/ /\ g.opts[o].value # "Flag"
          /\ \E e \in FindEq(b) : TakeInline(o, e)
       \/ /\ FindEq(b) = {} /\ g.opts[o].value # "Takes"
          /\ TakeOpts({}) /\ seen' = Append(seen, o)
       \/ FindEq(b) = {} /\ g.opts[o].value = "Takes" /\ TakeNext(o)

(* The bytes of a cluster are read from the second on.                     *)
StartCluster ==
  /\ AtWord /\ ph = "Options" /\ ~word.opaque /\ IsCluster(b)
  /\ at' = 2
  /\ UNCHANGED <<i, ph, k, slots, seen, result, input>>

AtByte == result = {} /\ at # 0 /\ at <= Len(b)

BadShortOption ==
  /\ AtByte
  /\ FindShort(g.opts, b[at]) = {}
  /\ Fail("UnknownOption", i)

ShortFlag ==
  /\ AtByte
  /\ \E o \in FindShort(g.opts, b[at]) :
       g.opts[o].value = "Flag" /\ seen' = Append(seen, o)
  /\ at' = at + 1
  /\ UNCHANGED <<i, ph, k, slots, result, input>>

(* An option that takes a value takes the rest of the cluster, if any.     *)
ShortWithValue ==
  /\ AtByte
  /\ \E o \in FindShort(g.opts, b[at]) :
       \/ g.opts[o].value # "Flag" /\ at < Len(b) /\ TakeInline(o, at)
       \/ g.opts[o].value = "Takes" /\ at = Len(b) /\ TakeNext(o)
       \/ /\ g.opts[o].value = "Optional" /\ at = Len(b)
          /\ TakeOpts({}) /\ seen' = Append(seen, o)

EndCluster ==
  /\ result = {} /\ at # 0 /\ at > Len(b)
  /\ TakeOpts({})
  /\ UNCHANGED seen

-----------------------------------------------------------------------------
Finish ==
  /\ result = {} /\ at = 0 /\ i > Len(ws)
  /\ result' = {[kind |-> "Parsed", word |-> 0]}
  /\ UNCHANGED <<i, at, ph, k, slots, seen, input>>

(* The outcome stays.                                                      *)
Done == result # {} /\ UNCHANGED vars

Next ==
  \/ BadWord \/ BadOperand \/ Operand \/ EndOpts
  \/ BadLongOption \/ LongOption
  \/ StartCluster \/ BadShortOption \/ ShortFlag \/ ShortWithValue \/ EndCluster
  \/ Finish \/ Done

Spec == Init /\ [][Next]_vars

-----------------------------------------------------------------------------
(* The counters stay within the words and the bytes of a word, and a parse *)
(* ends with at most one outcome.                                          *)
TypeOK ==
  /\ [g |-> g, ws |-> ws, start |-> start]
       \in [g: Grammar, ws: Seq(Word), start: Nat]
  /\ start <= Len(ws)
  /\ i \in start + 1 .. Len(ws) + 1
  /\ at \in Nat
  /\ at # 0 => i <= Len(ws) /\ at \in 2 .. Len(b) + 1
  /\ ph \in Phase
  /\ k \in Nat
  /\ slots \in Seq(Slot)
  /\ seen \in Seq(DOMAIN g.opts)
  /\ result \subseteq Outcome
  /\ \A r, q \in result : r = q

(* Alignment: at every step slot n is what word start + n is, given the    *)
(* words before it, although an option may take two words and options may  *)
(* end anywhere; a finished parse has a slot for every word and lists the  *)
(* options that occur; a failed one has stopped at the first word without  *)
(* a slot, or at the code that an option on that word would take.          *)
SlotsTellTheWords ==
  /\ \A n \in DOMAIN slots : Fits(g, ws, start, slots, n)
  /\ Parsed =>
       /\ Reads(g, ws, start, slots)
       /\ {seen[n] : n \in DOMAIN seen} = OptionsSeen(g, ws, start, slots)
  /\ Failed =>
       \A r \in result :
         \/ r.word = start + Len(slots) + 1
         \/ r.kind = "CodeRole" /\ r.word = start + Len(slots) + 2

(* Completeness: an argv is Unknown only when the grammar reads it in no   *)
(* way at all; a first problem is never the walk's own choice between two  *)
(* readings.                                                               *)
UnknownHasNoReading == Failed => Readings(g, ws, start) = {}

(* Whatever the shell puts in place of the opaque parts of an argv that    *)
(* was parsed, the words mean the same: no expansion turns an operand into *)
(* an option or a value into an operand.                                   *)
ExpansionsReadTheSame ==
  Parsed =>
    \A t \in [DOMAIN ws -> Texts] : Reads(g, Expanded(ws, t), start, slots)

(* What catalog.rs says of a grammar with DashDash::Literal, "`--` is an   *)
(* ordinary word": then no word is refused for being "--".                 *)
LiteralDashDashIsAWord ==
  ~g.dashdash => \A r \in result : r.kind # "DashDashNotAllowed"
=============================================================================

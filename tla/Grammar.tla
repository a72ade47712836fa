------------------------------ MODULE Grammar ------------------------------
(***************************************************************************)
(* The words of a command and the grammars of the catalog's rows, and,     *)
(* stated declaratively, how a grammar reads a list of argument words: one *)
(* slot per word, each slot fitting its word, the grammar and the slots    *)
(* before it.                                                              *)
(*                                                                         *)
(* Words, slots and options count from 1 here, from 0 in the code.  The    *)
(* argument words of ws are those after the first start words, which are   *)
(* the row's key.                                                          *)
(***************************************************************************)
EXTENDS Integers, Sequences, FiniteSets

CONSTANT Byte   \* the bytes of words; "-", "=" and "+" have a meaning

(* A word by its literal view: the bytes known before the first opaque     *)
(* part, and whether there is an opaque part.                              *)
Word == [lit: Seq(Byte), opaque: BOOLEAN]

Role == {"Inert", "Path", "Code"}

(* "short" and "long" hold at most one name, and one of them holds one;    *)
(* the role of a flag is of no account.                                    *)
Opt ==
  [short: SUBSET (Byte \ {"-"}), long: SUBSET Seq(Byte),
   value: {"Flag", "Takes", "Optional"}, role: Role]

(* "rest" holds at most one role.                                          *)
Grammar ==
  [opts: Seq(Opt), positionals: Seq(Role), rest: {{}} \cup {{r} : r \in Role},
   permute: BOOLEAN, dashdash: BOOLEAN, plus: {"Reject", "Operand"}]

(* What a word is in a successful parse.  "value" is the inline value of   *)
(* an option word: its role and the bytes of the word before it.           *)
Value == [role: Role, off: Nat]
Slot ==
  [kind: {"Opts", "OptValue", "Operand", "DashDash"}, role: Role,
   value: SUBSET Value]

OptsSlot(value) == [kind |-> "Opts", role |-> "Inert", value |-> value]
OptValueSlot(r) == [kind |-> "OptValue", role |-> r, value |-> {}]
OperandSlot(r) == [kind |-> "Operand", role |-> r, value |-> {}]
DashDashSlot == [kind |-> "DashDash", role |-> "Inert", value |-> {}]

ArgvFault ==
  {"UnknownOption", "OpaqueOption", "MissingValue", "FlagGivenValue",
   "DashDashNotAllowed", "ExtraOperand", "OptionAfterOperand", "PlusWord",
   "CodeRole"}

-----------------------------------------------------------------------------
(* Finding an option: the first in the grammar's list with the name.  Sets *)
(* of at most one.                                                         *)

FindShort(opts, c) ==
  {o \in DOMAIN opts :
     c \in opts[o].short /\ \A p \in 1 .. o - 1 : c \notin opts[p].short}

FindLong(opts, name) ==
  {o \in DOMAIN opts :
     name \in opts[o].long /\ \A p \in 1 .. o - 1 : name \notin opts[p].long}

(* The first "=" after the dashes of a long option.                        *)
FindEq(b) ==
  {e \in 3 .. Len(b) : b[e] = "=" /\ \A d \in 3 .. e - 1 : b[d] # "="}

LongName(b) ==
  SubSeq(b, 3, IF FindEq(b) = {} THEN Len(b)
               ELSE (CHOOSE e \in FindEq(b) : TRUE) - 1)

-----------------------------------------------------------------------------
(* Classes of words.                                                       *)

StartsWith(b, c) == Len(b) > 0 /\ b[1] = c

(* The real tool may read the word as an option: it starts with "-" and is *)
(* not "-" itself, or is opaque and may turn out to start with "-".        *)
MayBeOption(w) ==
  IF w.opaque THEN w.lit = <<>> \/ StartsWith(w.lit, "-")
  ELSE Len(w.lit) > 1 /\ w.lit[1] = "-"

PlusRejected(g, w) == g.plus = "Reject" /\ StartsWith(w.lit, "+")

IsDashDash(w) == ~w.opaque /\ w.lit = <<"-", "-">>

IsLong(b) == Len(b) > 2 /\ b[1] = "-" /\ b[2] = "-"

IsCluster(b) == Len(b) > 1 /\ b[1] = "-" /\ b[2] # "-"

-----------------------------------------------------------------------------
(* What a literal option word spells.                                      *)

(* Byte n of a cluster names an option: every byte before it is a flag.    *)
Named(g, b, n) ==
  /\ n \in 2 .. Len(b)
  /\ \A d \in 2 .. n - 1 : \E o \in FindShort(g.opts, b[d]) : g.opts[o].value = "Flag"

(* The options that occur in the word.                                     *)
OptionsIn(g, b) ==
  IF IsLong(b) THEN FindLong(g.opts, LongName(b))
  ELSE UNION {FindShort(g.opts, b[n]) : n \in {d \in 2 .. Len(b) : Named(g, b, d)}}

(* The word spells options of the grammar, and no flag with a value.       *)
SpeltRight(g, b) ==
  IF IsLong(b)
  THEN \E o \in FindLong(g.opts, LongName(b)) :
         g.opts[o].value = "Flag" => FindEq(b) = {}
  ELSE \A n \in 2 .. Len(b) : Named(g, b, n) => FindShort(g.opts, b[n]) # {}

(* The value given inline to the word's last option.                       *)
InlineValue(g, b) ==
  IF IsLong(b)
  THEN {[role |-> g.opts[o].role, off |-> e] :
          o \in {p \in FindLong(g.opts, LongName(b)) : g.opts[p].value # "Flag"},
          e \in FindEq(b)}
  ELSE UNION {{[role |-> g.opts[o].role, off |-> n] :
                 o \in {p \in FindShort(g.opts, b[n]) : g.opts[p].value # "Flag"}}
              : n \in {d \in 2 .. Len(b) - 1 : Named(g, b, d)}}

(* The role of the value the word's last option takes from the next word.  *)
ValueFromNext(g, b) ==
  {g.opts[o].role : o \in
     {p \in IF IsLong(b) THEN IF FindEq(b) = {} THEN FindLong(g.opts, LongName(b)) ELSE {}
            ELSE IF Named(g, b, Len(b)) THEN FindShort(g.opts, b[Len(b)]) ELSE {}
        : g.opts[p].value = "Takes"}}

-----------------------------------------------------------------------------
(* Readings: one slot per argument word.                                   *)

(* Slot n is an option word that takes word n + 1 as the value of a role.  *)
Claims(g, ws, start, slots, n) ==
  IF n \in DOMAIN slots /\ slots[n].kind = "Opts"
  THEN ValueFromNext(g, ws[start + n].lit) ELSE {}

DashDashBefore(slots, n) == \E m \in 1 .. n - 1 : slots[m].kind = "DashDash"

(* Options are still read at slot n.                                       *)
OptionsAt(g, slots, n) ==
  /\ ~DashDashBefore(slots, n)
  /\ g.permute \/ \A m \in 1 .. n - 1 : slots[m].kind # "Operand"

(* How many operands there are before slot n.                              *)
Rank(slots, n) == Cardinality({m \in 1 .. n - 1 : slots[m].kind = "Operand"})

(* The role of the operand after k others: none, or one.                   *)
OperandRole(g, k) ==
  IF k < Len(g.positionals) THEN {g.positionals[k + 1]} ELSE g.rest

(* Slot n fits word start + n, given the slots before it.                  *)
Fits(g, ws, start, slots, n) ==
  LET w == ws[start + n]
      claim == Claims(g, ws, start, slots, n - 1)
  IN  \/ /\ slots[n] \in {OptValueSlot(r) : r \in claim \ {"Code"}}
      \/ /\ claim = {} /\ OptionsAt(g, slots, n)
         /\ ~w.opaque /\ (IsLong(w.lit) \/ IsCluster(w.lit))
         /\ SpeltRight(g, w.lit)
         /\ slots[n] = OptsSlot(InlineValue(g, w.lit))
         /\ \A v \in InlineValue(g, w.lit) : v.role # "Code"
         /\ ValueFromNext(g, w.lit) # {} => start + n < Len(ws)
      \/ /\ claim = {} /\ OptionsAt(g, slots, n)
         /\ IsDashDash(w) /\ g.dashdash
         /\ slots[n] = DashDashSlot
      \/ /\ claim = {}
         /\ DashDashBefore(slots, n) \/ ~(MayBeOption(w) \/ PlusRejected(g, w))
         /\ slots[n] \in {OperandSlot(r) : r \in OperandRole(g, Rank(slots, n)) \ {"Code"}}

(* slots reads all the argument words of ws.                               *)
Reads(g, ws, start, slots) ==
  /\ Len(slots) = Len(ws) - start
  /\ \A n \in DOMAIN slots : Fits(g, ws, start, slots, n)

(* The slots a word may have in some parse, and all the readings there are *)
(* of the argument words.                                                  *)
SlotsFor(g, w) ==
  {OptsSlot(InlineValue(g, w.lit)), DashDashSlot}
    \cup {OptValueSlot(r) : r \in Role} \cup {OperandSlot(r) : r \in Role}

Readings(g, ws, start) ==
  {t \in [1 .. Len(ws) - start ->
            UNION {SlotsFor(g, ws[n]) : n \in start + 1 .. Len(ws)}] :
     Reads(g, ws, start, t)}

(* The options that occur in the words read by the slots.                  *)
OptionsSeen(g, ws, start, slots) ==
  UNION {OptionsIn(g, ws[start + n].lit) : n \in {m \in DOMAIN slots : slots[m].kind = "Opts"}}

(* What ws is once the shell has put t[n] in place of what is not known of *)
(* word n.                                                                 *)
Expanded(ws, t) ==
  [n \in DOMAIN ws |->
     IF ws[n].opaque THEN [lit |-> ws[n].lit \o t[n], opaque |-> FALSE] ELSE ws[n]]
=============================================================================

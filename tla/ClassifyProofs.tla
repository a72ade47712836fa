--------------------------- MODULE ClassifyProofs ---------------------------
(***************************************************************************)
(* Proofs about parse_argv and classify_simple.                            *)
(*                                                                         *)
(* The first part is for every grammar, argv and expansion: the walk reads *)
(* the words in the only way the grammar does.  The invariant keeps that   *)
(* every reading of the whole argv starts with the slots so far, which is  *)
(* the induction that shows a failed walk has no reading.                  *)
(*                                                                         *)
(* The second part is for every catalog the loader lets through and every  *)
(* command: a command is covered by one row at most, so the order of the   *)
(* rows does not matter, the reason of a miss is that of the longest key,  *)
(* and no expansion of an opaque part moves a command to another row.  The *)
(* parses are Argv's and so is their invariant.                            *)
(***************************************************************************)
EXTENDS Classify, FiniteSetTheorems, SequenceTheorems, TLAPS

-----------------------------------------------------------------------------
(* Names and classes of words.                                             *)

(* A short name, a long name and a "=" are found at one place at most.     *)
LEMMA FoundOnce ==
  ASSUME NEW S, NEW opts \in Seq(S), NEW c, NEW bytes \in Seq(Byte)
  PROVE  /\ \A o, p \in FindShort(opts, c) : o = p
         /\ \A o, p \in FindLong(opts, c) : o = p
         /\ \A d, e \in FindEq(bytes) : d = e
<1>1. DOMAIN opts \subseteq Nat
  OBVIOUS
<1>2. \A o, p \in DOMAIN opts : o < p \/ p < o \/ o = p
  BY <1>1
<1>3. \A o, p \in DOMAIN opts : o < p => o \in 1 .. p - 1
  OBVIOUS
<1>4. \A o, p \in FindShort(opts, c) : o = p
  BY <1>2, <1>3 DEF FindShort
<1>5. \A o, p \in FindLong(opts, c) : o = p
  BY <1>2, <1>3 DEF FindLong
<1>6. \A d, e \in FindEq(bytes) : d = e
  <2>1. \A d, e \in 3 .. Len(bytes) : d < e => d \in 3 .. e - 1
    OBVIOUS
  <2>2. \A d, e \in 3 .. Len(bytes) : d < e \/ e < d \/ d = e
    OBVIOUS
  <2> QED
    BY <2>1, <2>2 DEF FindEq
<1> QED
  BY <1>4, <1>5, <1>6

(* A literal long option, cluster or "--" may be an option; "--" is        *)
(* neither of the two, and no word is both.                                *)
LEMMA Classes ==
  ASSUME NEW w \in Word
  PROVE  /\ ~w.opaque /\ (IsLong(w.lit) \/ IsCluster(w.lit) \/ IsDashDash(w)) => MayBeOption(w)
         /\ IsDashDash(w) => ~IsLong(w.lit) /\ ~IsCluster(w.lit)
         /\ IsLong(w.lit) => ~IsCluster(w.lit)
         /\ MayBeOption(w) /\ ~w.opaque => IsLong(w.lit) \/ IsCluster(w.lit) \/ IsDashDash(w)
<1>1. w.lit \in Seq(Byte)
  BY DEF Word
<1>2. IsDashDash(w) => Len(w.lit) = 2 /\ w.lit[1] = "-" /\ w.lit[2] = "-"
  BY DEF IsDashDash
<1>3. Len(w.lit) = 2 /\ w.lit[1] = "-" /\ w.lit[2] = "-" => w.lit = <<"-", "-">>
  BY <1>1
<1>4. MayBeOption(w) /\ ~w.opaque => IsLong(w.lit) \/ IsCluster(w.lit) \/ IsDashDash(w)
  BY <1>1, <1>3 DEF MayBeOption, IsLong, IsCluster, IsDashDash
<1>5. IsDashDash(w) => ~IsLong(w.lit) /\ ~IsCluster(w.lit)
  <2>1. SUFFICES ASSUME IsDashDash(w)
                 PROVE  ~IsLong(w.lit) /\ ~IsCluster(w.lit)
    OBVIOUS
  <2>2. Len(w.lit) = 2
    BY <1>2, <2>1
  <2>3. w.lit[2] = "-"
    BY <1>2, <2>1
  <2> QED
    BY <2>2, <2>3 DEF IsLong, IsCluster
<1>6. ~w.opaque /\ (IsLong(w.lit) \/ IsCluster(w.lit) \/ IsDashDash(w)) => MayBeOption(w)
  BY <1>1, <1>2 DEF IsLong, IsCluster, MayBeOption
<1>7. IsLong(w.lit) => ~IsCluster(w.lit)
  BY DEF IsLong, IsCluster
<1> QED
  BY <1>4, <1>5, <1>6, <1>7
-----------------------------------------------------------------------------
(* What an option word spells.                                             *)

(* A long option that is found.                                            *)
LEMMA LongWord ==
  ASSUME NEW gr \in Grammar, NEW bytes \in Seq(Byte), IsLong(bytes),
         NEW o \in FindLong(gr.opts, LongName(bytes))
  PROVE  /\ OptionsIn(gr, bytes) = {o}
         /\ SpeltRight(gr, bytes) <=> (gr.opts[o].value = "Flag" => FindEq(bytes) = {})
         /\ \A e \in FindEq(bytes) :
              gr.opts[o].value # "Flag" => InlineValue(gr, bytes) = {[role |-> gr.opts[o].role, off |-> e]}
         /\ FindEq(bytes) = {} => InlineValue(gr, bytes) = {}
         /\ FindEq(bytes) # {} \/ gr.opts[o].value # "Takes" => ValueFromNext(gr, bytes) = {}
         /\ FindEq(bytes) = {} /\ gr.opts[o].value = "Takes" =>
              ValueFromNext(gr, bytes) = {gr.opts[o].role}
<1>1. gr.opts \in Seq(Opt)
  BY DEF Grammar
<1>2. FindLong(gr.opts, LongName(bytes)) = {o}
  BY <1>1, FoundOnce
<1>3. \A e \in FindEq(bytes) : FindEq(bytes) = {e}
  BY <1>1, FoundOnce
<1>4. OptionsIn(gr, bytes) = {o}
  BY <1>2 DEF OptionsIn
<1>5. SpeltRight(gr, bytes) <=> (gr.opts[o].value = "Flag" => FindEq(bytes) = {})
  BY <1>2 DEF SpeltRight
<1>6. InlineValue(gr, bytes) =
        {[role |-> gr.opts[p].role, off |-> e] :
           p \in {p \in {o} : gr.opts[p].value # "Flag"}, e \in FindEq(bytes)}
  BY <1>2 DEF InlineValue
<1>7. ASSUME NEW e \in FindEq(bytes), gr.opts[o].value # "Flag"
      PROVE  InlineValue(gr, bytes) = {[role |-> gr.opts[o].role, off |-> e]}
  <2>1. {p \in {o} : gr.opts[p].value # "Flag"} = {o}
    BY <1>7
  <2>2. FindEq(bytes) = {e}
    BY <1>3
  <2> QED
    BY <1>6, <2>1, <2>2
<1>8. FindEq(bytes) = {} => InlineValue(gr, bytes) = {}
  BY <1>6
<1>9. ValueFromNext(gr, bytes) =
        {gr.opts[q].role : q \in {p \in IF FindEq(bytes) = {} THEN {o} ELSE {} : gr.opts[p].value = "Takes"}}
  BY <1>2 DEF ValueFromNext
<1>10. FindEq(bytes) # {} \/ gr.opts[o].value # "Takes" => ValueFromNext(gr, bytes) = {}
  BY <1>9
<1>11. FindEq(bytes) = {} /\ gr.opts[o].value = "Takes" => ValueFromNext(gr, bytes) = {gr.opts[o].role}
  BY <1>9
<1> QED
  BY <1>4, <1>5, <1>7, <1>8, <1>10, <1>11

(* The bytes of a cluster before byte n are flags.                         *)
FlagsBefore(gr, bytes, n) ==
  \A d \in 2 .. n - 1 : \E o \in FindShort(gr.opts, bytes[d]) : gr.opts[o].value = "Flag"

(* The options of bytes 2 to n.                                            *)
ShortsTo(gr, bytes, n) == UNION {FindShort(gr.opts, bytes[d]) : d \in 2 .. n}

(* A short name is found at one place at most.                             *)
LEMMA ShortOnce ==
  ASSUME NEW gr \in Grammar
  PROVE  \A c : \A o, p \in FindShort(gr.opts, c) : o = p
<1>1. gr.opts \in Seq(Opt) /\ <<>> \in Seq(Byte)
  BY DEF Grammar
<1> QED
  BY <1>1, FoundOnce

(* A byte is read as an option when all those before it are flags.         *)
LEMMA NamedBytes ==
  ASSUME NEW gr, NEW bytes \in Seq(Byte), NEW n \in 2 .. Len(bytes)
  PROVE  Named(gr, bytes, n) <=> FlagsBefore(gr, bytes, n)
  BY DEF Named, FlagsBefore

(* A cluster whose first byte that names no flag is byte n, an option that *)
(* may have a value.                                                       *)
LEMMA ClusterWord ==
  ASSUME NEW gr \in Grammar, NEW bytes \in Seq(Byte), IsCluster(bytes),
         NEW n \in 2 .. Len(bytes), FlagsBefore(gr, bytes, n),
         NEW o \in FindShort(gr.opts, bytes[n]), gr.opts[o].value # "Flag"
  PROVE  /\ OptionsIn(gr, bytes) = ShortsTo(gr, bytes, n)
         /\ SpeltRight(gr, bytes)
         /\ n < Len(bytes) => InlineValue(gr, bytes) = {[role |-> gr.opts[o].role, off |-> n]}
         /\ n = Len(bytes) => InlineValue(gr, bytes) = {}
         /\ n < Len(bytes) \/ gr.opts[o].value # "Takes" => ValueFromNext(gr, bytes) = {}
         /\ n = Len(bytes) /\ gr.opts[o].value = "Takes" =>
              ValueFromNext(gr, bytes) = {gr.opts[o].role}
<1>1. gr.opts \in Seq(Opt)
  BY DEF Grammar
<1>2. ~IsLong(bytes) /\ Len(bytes) \in Nat
  BY DEF IsLong, IsCluster
<1>3. FindShort(gr.opts, bytes[n]) = {o}
  BY <1>1, FoundOnce
<1>4. \A d \in 2 .. Len(bytes) : Named(gr, bytes, d) <=> d <= n
  <2>1. ASSUME NEW d \in 2 .. Len(bytes), d <= n
        PROVE  Named(gr, bytes, d)
    BY <1>2, <2>1 DEF FlagsBefore, Named
  <2>2. ASSUME NEW d \in 2 .. Len(bytes), n < d
        PROVE  ~Named(gr, bytes, d)
    <3>1. n \in 2 .. d - 1
      BY <1>2, <2>2
    <3> QED
      BY <1>3, <3>1 DEF Named
  <2> QED
    BY <1>2, <2>1, <2>2
<1>5. \A d \in 2 .. n - 1 : \A p \in FindShort(gr.opts, bytes[d]) : gr.opts[p].value = "Flag"
  <2>1. SUFFICES ASSUME NEW d \in 2 .. n - 1, NEW p \in FindShort(gr.opts, bytes[d])
                 PROVE  gr.opts[p].value = "Flag"
    OBVIOUS
  <2>2. PICK q \in FindShort(gr.opts, bytes[d]) : gr.opts[q].value = "Flag"
    BY DEF FlagsBefore
  <2>3. p = q
    BY ShortOnce
  <2> QED
    BY <2>2, <2>3
<1>6. OptionsIn(gr, bytes) = ShortsTo(gr, bytes, n)
  <2>1. {d \in 2 .. Len(bytes) : Named(gr, bytes, d)} = 2 .. n
    BY <1>2, <1>4
  <2> QED
    BY <1>2, <2>1 DEF OptionsIn, ShortsTo
<1>7. SpeltRight(gr, bytes)
  <2>1. ASSUME NEW d \in 2 .. Len(bytes), Named(gr, bytes, d)
        PROVE  FindShort(gr.opts, bytes[d]) # {}
    <3>1. d \in 2 .. n - 1 \/ d = n
      BY <1>2, <1>4, <2>1
    <3> QED
      BY <1>3, <3>1 DEF FlagsBefore
  <2> QED
    BY <1>2, <2>1 DEF SpeltRight
<1> DEFINE Given(d) == {[role |-> gr.opts[p].role, off |-> d] :
                          p \in {q \in FindShort(gr.opts, bytes[d]) : gr.opts[q].value # "Flag"}}
<1>8. InlineValue(gr, bytes) = UNION {Given(d) : d \in {c \in 2 .. Len(bytes) - 1 : Named(gr, bytes, c)}}
  BY <1>2 DEF InlineValue
<1>9. \A d \in 2 .. n - 1 : Given(d) = {}
  BY <1>5
<1>10. Given(n) = {[role |-> gr.opts[o].role, off |-> n]}
  <2>1. {q \in FindShort(gr.opts, bytes[n]) : gr.opts[q].value # "Flag"} = {o}
    BY <1>3
  <2> QED
    BY <2>1
<1>11. n < Len(bytes) => InlineValue(gr, bytes) = {[role |-> gr.opts[o].role, off |-> n]}
  <2>1. SUFFICES ASSUME n < Len(bytes)
                 PROVE  InlineValue(gr, bytes) = Given(n)
    BY <1>10
  <2>2. {c \in 2 .. Len(bytes) - 1 : Named(gr, bytes, c)} = 2 .. n
    BY <1>2, <1>4, <2>1
  <2>3. \A d \in 2 .. n : d = n \/ d \in 2 .. n - 1
    OBVIOUS
  <2>4. n \in 2 .. n
    OBVIOUS
  <2> HIDE DEF Given
  <2> QED
    BY <1>8, <1>9, <2>2, <2>3, <2>4
<1>12. n = Len(bytes) => InlineValue(gr, bytes) = {}
  <2> HIDE DEF Given
  <2> QED
    BY <1>8, <1>9
<1>13. ValueFromNext(gr, bytes) =
        {gr.opts[q].role : q \in {p \in IF n = Len(bytes) THEN {o} ELSE {} : gr.opts[p].value = "Takes"}}
  <2>1. Len(bytes) \in 2 .. Len(bytes)
    BY <1>2
  <2>2. (IF Named(gr, bytes, Len(bytes)) THEN FindShort(gr.opts, bytes[Len(bytes)]) ELSE {})
          = IF n = Len(bytes) THEN {o} ELSE {}
    <3>1. Named(gr, bytes, Len(bytes)) <=> n = Len(bytes)
      BY <1>2, <1>4, <2>1
    <3>2. n = Len(bytes) => FindShort(gr.opts, bytes[Len(bytes)]) = {o}
      BY <1>3
    <3> QED
      BY <3>1, <3>2
  <2> QED
    BY <1>2, <2>2 DEF ValueFromNext
<1>14. n < Len(bytes) \/ gr.opts[o].value # "Takes" => ValueFromNext(gr, bytes) = {}
  BY <1>2, <1>13
<1>15. n = Len(bytes) /\ gr.opts[o].value = "Takes" => ValueFromNext(gr, bytes) = {gr.opts[o].role}
  BY <1>13
<1> QED
  BY <1>6, <1>7, <1>11, <1>12, <1>14, <1>15

(* A cluster of flags.                                                     *)
LEMMA FlagsWord ==
  ASSUME NEW gr \in Grammar, NEW bytes \in Seq(Byte), IsCluster(bytes),
         FlagsBefore(gr, bytes, Len(bytes) + 1)
  PROVE  /\ OptionsIn(gr, bytes) = ShortsTo(gr, bytes, Len(bytes))
         /\ SpeltRight(gr, bytes)
         /\ InlineValue(gr, bytes) = {} /\ ValueFromNext(gr, bytes) = {}
<1>1. gr.opts \in Seq(Opt)
  BY DEF Grammar
<1>2. ~IsLong(bytes) /\ Len(bytes) \in Nat /\ Len(bytes) \in 2 .. Len(bytes)
  BY DEF IsLong, IsCluster
<1>3. \A d \in 2 .. Len(bytes) :
        /\ Named(gr, bytes, d)
        /\ FindShort(gr.opts, bytes[d]) # {}
        /\ \A p \in FindShort(gr.opts, bytes[d]) : gr.opts[p].value = "Flag"
  <2>1. \A d \in 2 .. Len(bytes) : \E o \in FindShort(gr.opts, bytes[d]) : gr.opts[o].value = "Flag"
    BY <1>2 DEF FlagsBefore
  <2> QED
    <3>1. \A d \in 2 .. Len(bytes) : \A p \in FindShort(gr.opts, bytes[d]) : gr.opts[p].value = "Flag"
      BY <2>1, ShortOnce, ZenonT(60)
    <3>2. \A d \in 2 .. Len(bytes) : Named(gr, bytes, d)
      <4>1. \A d \in 2 .. Len(bytes) : \A c \in 2 .. d - 1 : c \in 2 .. Len(bytes)
        BY <1>2
      <4> QED
        BY <2>1, <4>1 DEF Named
    <3> QED
      BY <2>1, <3>1, <3>2
<1>4. {d \in 2 .. Len(bytes) : Named(gr, bytes, d)} = 2 .. Len(bytes)
  BY <1>3
<1>5. OptionsIn(gr, bytes) = ShortsTo(gr, bytes, Len(bytes))
  BY <1>2, <1>4 DEF OptionsIn, ShortsTo
<1>6. SpeltRight(gr, bytes)
  BY <1>2, <1>3 DEF SpeltRight
<1>7. \A d \in 2 .. Len(bytes) : {q \in FindShort(gr.opts, bytes[d]) : gr.opts[q].value # "Flag"} = {}
  BY <1>3
<1>8. \A d \in 2 .. Len(bytes) - 1 : d \in 2 .. Len(bytes)
  BY <1>2
<1>9. InlineValue(gr, bytes) = {}
  BY <1>2, <1>7, <1>8 DEF InlineValue
<1>10. {q \in FindShort(gr.opts, bytes[Len(bytes)]) : gr.opts[q].value = "Takes"} = {}
  BY <1>2, <1>3
<1>11. ValueFromNext(gr, bytes) = {}
  BY <1>2, <1>3, <1>10 DEF ValueFromNext
<1> QED
  BY <1>5, <1>6, <1>9, <1>11

(* A cluster with a byte that names nothing.                               *)
LEMMA BadCluster ==
  ASSUME NEW gr \in Grammar, NEW bytes \in Seq(Byte), IsCluster(bytes),
         NEW n \in 2 .. Len(bytes), FlagsBefore(gr, bytes, n), FindShort(gr.opts, bytes[n]) = {}
  PROVE  ~SpeltRight(gr, bytes)
<1>1. ~IsLong(bytes)
  BY DEF IsLong, IsCluster
<1> QED
  BY <1>1, NamedBytes DEF SpeltRight

-----------------------------------------------------------------------------
(* Slots and what comes before them.                                       *)

(* What Fits asks of the slot of a word that is no option's value.         *)
FitsWord(gr, w, options, literal, rank, more, x) ==
  \/ /\ options /\ ~w.opaque /\ (IsLong(w.lit) \/ IsCluster(w.lit))
     /\ SpeltRight(gr, w.lit)
     /\ x = OptsSlot(InlineValue(gr, w.lit))
     /\ \A v \in InlineValue(gr, w.lit) : v.role # "Code"
     /\ ValueFromNext(gr, w.lit) # {} => more
  \/ /\ options /\ IsDashDash(w) /\ gr.dashdash
     /\ x = DashDashSlot
  \/ /\ literal \/ ~(MayBeOption(w) \/ PlusRejected(gr, w))
     /\ x \in {OperandSlot(r) : r \in OperandRole(gr, rank) \ {"Code"}}

(* Lists of slots that are the same up to slot n.                          *)
SameBefore(s, t, n) ==
  \A m \in 1 .. n - 1 : m \in DOMAIN s /\ m \in DOMAIN t /\ s[m] = t[m]

(* They claim, end options and count operands alike there.                 *)
LEMMA SameContext ==
  ASSUME NEW gr, NEW words, NEW st, NEW s, NEW t, 0 \notin DOMAIN s, 0 \notin DOMAIN t,
         NEW n \in Nat \ {0}, SameBefore(s, t, n)
  PROVE  /\ Claims(gr, words, st, s, n - 1) = Claims(gr, words, st, t, n - 1)
         /\ DashDashBefore(s, n) <=> DashDashBefore(t, n)
         /\ OptionsAt(gr, s, n) <=> OptionsAt(gr, t, n)
         /\ Rank(s, n) = Rank(t, n)
<1>1. Claims(gr, words, st, s, n - 1) = Claims(gr, words, st, t, n - 1)
  <2>1. n - 1 = 0 \/ n - 1 \in 1 .. n - 1
    OBVIOUS
  <2> QED
    BY <2>1 DEF Claims, SameBefore
<1>2. DashDashBefore(s, n) <=> DashDashBefore(t, n)
  BY DEF DashDashBefore, SameBefore
<1>3. OptionsAt(gr, s, n) <=> OptionsAt(gr, t, n)
  BY <1>2 DEF OptionsAt, SameBefore
<1>4. {m \in 1 .. n - 1 : s[m].kind = "Operand"} = {m \in 1 .. n - 1 : t[m].kind = "Operand"}
  BY DEF SameBefore
<1> QED
  BY <1>1, <1>2, <1>3, <1>4 DEF Rank

(* Fits, in terms of the slot before it.                                   *)
LEMMA FitsEither ==
  ASSUME NEW gr, NEW words, NEW st, NEW s, NEW n
  PROVE  Fits(gr, words, st, s, n) <=>
           \/ s[n] \in {OptValueSlot(r) : r \in Claims(gr, words, st, s, n - 1) \ {"Code"}}
           \/ /\ Claims(gr, words, st, s, n - 1) = {}
              /\ FitsWord(gr, words[st + n], OptionsAt(gr, s, n), DashDashBefore(s, n), Rank(s, n),
                          st + n < Len(words), s[n])
  BY DEF Fits, FitsWord

(* So a slot fits on one list as on the other.                             *)
LEMMA SameFits ==
  ASSUME NEW gr, NEW words, NEW st, NEW s, NEW t, 0 \notin DOMAIN s, 0 \notin DOMAIN t,
         NEW n \in Nat \ {0}, SameBefore(s, t, n), s[n] = t[n]
  PROVE  Fits(gr, words, st, s, n) <=> Fits(gr, words, st, t, n)
<1>1. /\ Claims(gr, words, st, s, n - 1) = Claims(gr, words, st, t, n - 1)
      /\ DashDashBefore(s, n) = DashDashBefore(t, n)
      /\ OptionsAt(gr, s, n) = OptionsAt(gr, t, n)
      /\ Rank(s, n) = Rank(t, n)
  <2>1. /\ DashDashBefore(s, n) \in BOOLEAN /\ DashDashBefore(t, n) \in BOOLEAN
        /\ OptionsAt(gr, s, n) \in BOOLEAN /\ OptionsAt(gr, t, n) \in BOOLEAN
    BY DEF DashDashBefore, OptionsAt
  <2> QED
    BY <2>1, SameContext
<1> QED
  BY <1>1, FitsEither

(* A slot after one that claims nothing.                                   *)
LEMMA FitsUnclaimed ==
  ASSUME NEW gr, NEW words, NEW st, NEW s, NEW n, Claims(gr, words, st, s, n - 1) = {}
  PROVE  Fits(gr, words, st, s, n) <=>
           FitsWord(gr, words[st + n], OptionsAt(gr, s, n), DashDashBefore(s, n), Rank(s, n),
                    st + n < Len(words), s[n])
  BY DEF Fits, FitsWord

(* And after one that claims the next word for a value.                    *)
LEMMA FitsClaimed ==
  ASSUME NEW gr, NEW words, NEW st, NEW s, NEW n, NEW r, Claims(gr, words, st, s, n - 1) = {r}
  PROVE  Fits(gr, words, st, s, n) <=> r # "Code" /\ s[n] = OptValueSlot(r)
<1>1. {OptValueSlot(q) : q \in {r} \ {"Code"}} = IF r = "Code" THEN {} ELSE {OptValueSlot(r)}
  OBVIOUS
<1> QED
  BY <1>1 DEF Fits

(* A word has one slot at most.                                            *)
LEMMA OneFit ==
  ASSUME NEW gr \in Grammar, NEW w \in Word, NEW options \in BOOLEAN, NEW literal \in BOOLEAN,
         literal => ~options, NEW rank \in Nat, NEW more \in BOOLEAN, NEW x, NEW y,
         FitsWord(gr, w, options, literal, rank, more, x),
         FitsWord(gr, w, options, literal, rank, more, y)
  PROVE  x = y
<1>1. \A q, r \in OperandRole(gr, rank) : q = r
  BY DEF OperandRole, Grammar
<1>2. \A c, d \in {OperandSlot(r) : r \in OperandRole(gr, rank) \ {"Code"}} : c = d
  BY <1>1
<1>3. options /\ ~w.opaque /\ (IsLong(w.lit) \/ IsCluster(w.lit)) =>
        ~IsDashDash(w) /\ ~literal /\ MayBeOption(w)
  BY Classes
<1>4. options /\ IsDashDash(w) => ~literal /\ MayBeOption(w)
  BY Classes DEF IsDashDash
<1> QED
  BY <1>2, <1>3, <1>4 DEF FitsWord

(* What u, the list s with x as its n-th slot, says of the words after it. *)
AppendedTo(gr, words, st, s, x, n, u) ==
  /\ u \in Seq(Slot) /\ Len(u) = n
  /\ DashDashBefore(u, n + 1) <=> DashDashBefore(s, n) \/ x.kind = "DashDash"
  /\ OptionsAt(gr, u, n + 1) <=>
       /\ OptionsAt(gr, s, n) /\ x.kind # "DashDash"
       /\ gr.permute \/ x.kind # "Operand"
  /\ Rank(u, n + 1) = IF x.kind = "Operand" THEN Rank(s, n) + 1 ELSE Rank(s, n)
  /\ OptionsSeen(gr, words, st, u) =
       OptionsSeen(gr, words, st, s)
         \cup (IF x.kind = "Opts" THEN OptionsIn(gr, words[st + n].lit) ELSE {})
  /\ Claims(gr, words, st, u, n) =
       IF x.kind = "Opts" THEN ValueFromNext(gr, words[st + n].lit) ELSE {}

(* One more slot.                                                          *)
LEMMA Appended ==
  ASSUME NEW gr, NEW words, NEW st, NEW s \in Seq(Slot), NEW x \in Slot,
         NEW n, n = Len(s) + 1, NEW u, u = Append(s, x)
  PROVE  AppendedTo(gr, words, st, s, x, n, u)
<1>1. u \in Seq(Slot) /\ Len(u) = n /\ u[n] = x /\ n \in Nat \ {0}
  OBVIOUS
<1>2. \A m \in 1 .. n - 1 : m \in DOMAIN s /\ m \in DOMAIN u /\ u[m] = s[m]
  OBVIOUS
<1>4. \A m \in 1 .. n : m \in 1 .. n - 1 \/ m = n
  BY <1>1
<1>5. n \in 1 .. n /\ 1 .. n - 1 \subseteq 1 .. n /\ (n + 1) - 1 = n
  BY <1>1
<1>6. DashDashBefore(u, n + 1) <=> DashDashBefore(s, n) \/ x.kind = "DashDash"
  BY <1>1, <1>2, <1>4, <1>5 DEF DashDashBefore
<1>7. OptionsAt(gr, u, n + 1) <=>
        OptionsAt(gr, s, n) /\ x.kind # "DashDash" /\ (gr.permute \/ x.kind # "Operand")
  <2>1. (\A m \in 1 .. n : u[m].kind # "Operand") <=>
          (\A m \in 1 .. n - 1 : s[m].kind # "Operand") /\ x.kind # "Operand"
    BY <1>1, <1>2, <1>4, <1>5
  <2> QED
    BY <1>5, <1>6, <2>1 DEF OptionsAt
<1> DEFINE Ops == {m \in 1 .. n - 1 : s[m].kind = "Operand"}
<1>8. IsFiniteSet(Ops) /\ Cardinality(Ops) \in Nat /\ n \notin Ops
  <2>1. IsFiniteSet(1 .. n - 1)
    BY <1>1, FS_Interval
  <2>2. IsFiniteSet(Ops)
    BY <2>1, FS_Subset
  <2> QED
    BY <1>1, <2>2, FS_CardinalityType
<1>9. {m \in 1 .. n : u[m].kind = "Operand"} = IF x.kind = "Operand" THEN Ops \cup {n} ELSE Ops
  BY <1>1, <1>2, <1>4, <1>5
<1>10. Cardinality(Ops \cup {n}) = Cardinality(Ops) + 1
  BY <1>8, FS_AddElement
<1>11. Rank(u, n + 1) = IF x.kind = "Operand" THEN Rank(s, n) + 1 ELSE Rank(s, n)
  BY <1>5, <1>9, <1>10 DEF Rank
<1>13. OptionsSeen(gr, words, st, u) =
         OptionsSeen(gr, words, st, s)
           \cup (IF x.kind = "Opts" THEN OptionsIn(gr, words[st + n].lit) ELSE {})
  <2>1. {m \in DOMAIN u : u[m].kind = "Opts"} =
          {m \in DOMAIN s : s[m].kind = "Opts"} \cup (IF x.kind = "Opts" THEN {n} ELSE {})
    OBVIOUS
  <2> QED
    BY <2>1 DEF OptionsSeen
<1>14. Claims(gr, words, st, u, n) =
         IF x.kind = "Opts" THEN ValueFromNext(gr, words[st + n].lit) ELSE {}
  BY <1>1 DEF Claims
<1> QED
  BY <1>1, <1>6, <1>7, <1>11, <1>13, <1>14 DEF AppendedTo

-----------------------------------------------------------------------------
(* Lists of slots that are the beginning of every reading.                 *)

(* slots read their words, and every reading starts with them.             *)
ReadOK(gr, words, st, s) ==
  /\ \A n \in DOMAIN s : Fits(gr, words, st, s, n)
  /\ \A t \in Readings(gr, words, st) : SameBefore(t, s, Len(s) + 1)

(* Slot x fits the word after those of s, which is the n-th.               *)
FitsAfter(gr, words, st, s, n, x) ==
  \/ x \in {OptValueSlot(r) : r \in Claims(gr, words, st, s, n - 1) \ {"Code"}}
  \/ /\ Claims(gr, words, st, s, n - 1) = {}
     /\ FitsWord(gr, words[st + n], OptionsAt(gr, s, n), DashDashBefore(s, n), Rank(s, n),
                 st + n < Len(words), x)

(* Slot n of a list that starts like s fits as it would after s.           *)
LEMMA FitsLikeAfter ==
  ASSUME NEW gr, NEW words, NEW st, NEW s, NEW t, 0 \notin DOMAIN s, 0 \notin DOMAIN t,
         NEW n \in Nat \ {0}, SameBefore(t, s, n)
  PROVE  Fits(gr, words, st, t, n) <=> FitsAfter(gr, words, st, s, n, t[n])
<1>1. /\ Claims(gr, words, st, t, n - 1) = Claims(gr, words, st, s, n - 1)
      /\ DashDashBefore(t, n) = DashDashBefore(s, n)
      /\ OptionsAt(gr, t, n) = OptionsAt(gr, s, n)
      /\ Rank(t, n) = Rank(s, n)
  <2>1. /\ DashDashBefore(s, n) \in BOOLEAN /\ DashDashBefore(t, n) \in BOOLEAN
        /\ OptionsAt(gr, s, n) \in BOOLEAN /\ OptionsAt(gr, t, n) \in BOOLEAN
    BY DEF DashDashBefore, OptionsAt
  <2> QED
    BY <2>1, SameContext
<1> QED
  BY <1>1, FitsEither DEF FitsAfter

(* A reading has a slot that fits for every word.                          *)
LEMMA ReadingFits ==
  ASSUME NEW gr, NEW words \in Seq(Word), NEW st \in 0 .. Len(words),
         NEW t \in Readings(gr, words, st)
  PROVE  /\ DOMAIN t = 1 .. Len(words) - st /\ 0 \notin DOMAIN t
         /\ \A n \in DOMAIN t : Fits(gr, words, st, t, n)
  BY DEF Readings, Reads

(* Every reading goes on with a slot that fits after the slots so far.     *)
LEMMA GoesOn ==
  ASSUME NEW gr, NEW words \in Seq(Word), NEW st \in 0 .. Len(words), NEW s \in Seq(Slot),
         NEW n, n = Len(s) + 1, n <= Len(words) - st,
         ReadOK(gr, words, st, s), NEW t \in Readings(gr, words, st)
  PROVE  SameBefore(t, s, n) /\ n \in DOMAIN t /\ FitsAfter(gr, words, st, s, n, t[n])
<1>1. n \in Nat \ {0} /\ Len(words) \in Nat /\ 0 \notin DOMAIN s
  OBVIOUS
<1>2. n \in DOMAIN t
  <2>1. DOMAIN t = 1 .. Len(words) - st
    BY ReadingFits
  <2>2. n \in 1 .. Len(words) - st
    BY <1>1
  <2> QED
    BY <2>1, <2>2
<1>3. SameBefore(t, s, n)
  BY DEF ReadOK
<1>4. Fits(gr, words, st, t, n)
  BY <1>2, ReadingFits
<1>5. 0 \notin DOMAIN t
  BY ReadingFits
<1> QED
  BY <1>1, <1>2, <1>3, <1>4, <1>5, FitsLikeAfter

(* If none fits there is no reading.                                       *)
LEMMA NoFit ==
  ASSUME NEW gr, NEW words \in Seq(Word), NEW st \in 0 .. Len(words), NEW s \in Seq(Slot),
         NEW n, n = Len(s) + 1, n <= Len(words) - st,
         ReadOK(gr, words, st, s), \A x : ~FitsAfter(gr, words, st, s, n, x)
  PROVE  Readings(gr, words, st) = {}
  BY GoesOn

(* If one fits, it is in every reading.                                    *)
LEMMA Extended ==
  ASSUME NEW gr, NEW words \in Seq(Word), NEW st \in 0 .. Len(words), NEW s \in Seq(Slot),
         NEW n, n = Len(s) + 1, n <= Len(words) - st, NEW x \in Slot, NEW u, u = Append(s, x),
         ReadOK(gr, words, st, s), FitsAfter(gr, words, st, s, n, x),
         \A y : FitsAfter(gr, words, st, s, n, y) => y = x
  PROVE  ReadOK(gr, words, st, u)
<1>1. /\ n \in Nat \ {0} /\ 0 \notin DOMAIN s /\ 0 \notin DOMAIN u
      /\ DOMAIN u = 1 .. n /\ DOMAIN s = 1 .. n - 1
      /\ u[n] = x /\ Len(u) = n /\ n \in DOMAIN u
      /\ \A m \in 1 .. n - 1 : u[m] = s[m] /\ m \in DOMAIN s /\ m \in DOMAIN u
  OBVIOUS
<1>2. SameBefore(u, s, n)
  BY <1>1 DEF SameBefore
<1>3. Fits(gr, words, st, u, n)
  BY <1>1, <1>2, FitsLikeAfter
<1>4. ASSUME NEW m \in 1 .. n - 1
      PROVE  Fits(gr, words, st, u, m)
  <2>1. SameBefore(u, s, m)
    <3>1. \A p \in 1 .. m - 1 : p \in 1 .. n - 1
      BY <1>1
    <3> QED
      BY <1>1, <3>1 DEF SameBefore
  <2>2. Fits(gr, words, st, s, m)
    BY <1>1 DEF ReadOK
  <2>3. m \in Nat \ {0} /\ u[m] = s[m]
    BY <1>1
  <2> QED
    BY <1>1, <2>1, <2>2, <2>3, SameFits
<1>5. ASSUME NEW t \in Readings(gr, words, st)
      PROVE  SameBefore(t, u, n + 1)
  <2>1. SameBefore(t, s, n) /\ n \in DOMAIN t /\ t[n] = x
    BY GoesOn
  <2>2. \A p \in 1 .. (n + 1) - 1 : p \in 1 .. n - 1 \/ p = n
    BY <1>1
  <2> QED
    BY <1>1, <2>1, <2>2 DEF SameBefore
<1>6. \A m \in 1 .. n : m \in 1 .. n - 1 \/ m = n
  BY <1>1
<1> QED
  BY <1>1, <1>3, <1>4, <1>5, <1>6 DEF ReadOK

(* The next word when no option claims it: one slot fits at most.          *)
LEMMA Unclaimed ==
  ASSUME NEW gr \in Grammar, NEW words \in Seq(Word), NEW st \in 0 .. Len(words),
         NEW s \in Seq(Slot), NEW n, n = Len(s) + 1, n <= Len(words) - st,
         Claims(gr, words, st, s, n - 1) = {}
  PROVE  /\ \A x : FitsAfter(gr, words, st, s, n, x) <=>
                FitsWord(gr, words[st + n], OptionsAt(gr, s, n), DashDashBefore(s, n), Rank(s, n),
                         st + n < Len(words), x)
         /\ \A x, y : FitsAfter(gr, words, st, s, n, x) /\ FitsAfter(gr, words, st, s, n, y) => x = y
<1>1. \A x : FitsAfter(gr, words, st, s, n, x) <=>
        FitsWord(gr, words[st + n], OptionsAt(gr, s, n), DashDashBefore(s, n), Rank(s, n),
                 st + n < Len(words), x)
  BY DEF FitsAfter
<1>2. words[st + n] \in Word
  OBVIOUS
<1>3. Rank(s, n) \in Nat
  <2>1. IsFiniteSet(1 .. n - 1)
    BY FS_Interval
  <2>2. IsFiniteSet({m \in 1 .. n - 1 : s[m].kind = "Operand"})
    BY <2>1, FS_Subset
  <2> QED
    BY <2>2, FS_CardinalityType DEF Rank
<1>4. /\ OptionsAt(gr, s, n) \in BOOLEAN /\ DashDashBefore(s, n) \in BOOLEAN
      /\ DashDashBefore(s, n) => ~OptionsAt(gr, s, n)
      /\ (st + n < Len(words)) \in BOOLEAN
  BY DEF OptionsAt, DashDashBefore
<1>5. \A x, y : FitsAfter(gr, words, st, s, n, x) /\ FitsAfter(gr, words, st, s, n, y) => x = y
  <2>1. SUFFICES ASSUME NEW x, NEW y,
                        FitsAfter(gr, words, st, s, n, x), FitsAfter(gr, words, st, s, n, y)
                 PROVE  x = y
    OBVIOUS
  <2>2. PICK options \in BOOLEAN, literal \in BOOLEAN, rank \in Nat, more \in BOOLEAN, w \in Word :
          /\ options = OptionsAt(gr, s, n) /\ literal = DashDashBefore(s, n)
          /\ rank = Rank(s, n) /\ more = (st + n < Len(words)) /\ w = words[st + n]
    BY <1>2, <1>3, <1>4
  <2>3. literal => ~options
    BY <1>4, <2>2
  <2>4. FitsWord(gr, w, options, literal, rank, more, x) /\ FitsWord(gr, w, options, literal, rank, more, y)
    BY <1>1, <2>1, <2>2
  <2> QED
    BY <2>3, <2>4, OneFit
<1> QED
  BY <1>1, <1>5

(* And when one does: the value it claims, unless that is code.            *)
LEMMA Claimed ==
  ASSUME NEW gr, NEW words, NEW st, NEW s, NEW n, NEW r, Claims(gr, words, st, s, n - 1) = {r}
  PROVE  \A x : FitsAfter(gr, words, st, s, n, x) <=> r # "Code" /\ x = OptValueSlot(r)
<1>1. {OptValueSlot(q) : q \in {r} \ {"Code"}} = IF r = "Code" THEN {} ELSE {OptValueSlot(r)}
  OBVIOUS
<1> QED
  BY <1>1 DEF FitsAfter

-----------------------------------------------------------------------------
(* Types.                                                                  *)

(* What the types say of the input and of the walk.                        *)
LEMMA Typed ==
  ASSUME TypeOK
  PROVE  /\ g \in Grammar /\ ws \in Seq(Word) /\ start \in 0 .. Len(ws) /\ Len(ws) \in Nat
         /\ g.opts \in Seq(Opt) /\ DOMAIN g.opts \subseteq Nat
         /\ \A o \in DOMAIN g.opts :
              g.opts[o].role \in Role /\ g.opts[o].value \in {"Flag", "Takes", "Optional"}
         /\ \A c : FindShort(g.opts, c) \subseteq DOMAIN g.opts /\ FindLong(g.opts, c) \subseteq DOMAIN g.opts
         /\ i \in Nat /\ i \in start + 1 .. Len(ws) + 1 /\ at \in Nat /\ k \in Nat
         /\ slots \in Seq(Slot) /\ seen \in Seq(DOMAIN g.opts)
         /\ i <= Len(ws) => word \in Word /\ b \in Seq(Byte) /\ Len(b) \in Nat
<1>1. [g |-> g, ws |-> ws, start |-> start].g \in Grammar
  BY DEF TypeOK
<1>2. [g |-> g, ws |-> ws, start |-> start].ws \in Seq(Word)
  BY DEF TypeOK
<1>3. [g |-> g, ws |-> ws, start |-> start].start \in Nat
  BY DEF TypeOK
<1>4. g \in Grammar /\ ws \in Seq(Word) /\ start \in Nat /\ Len(ws) \in Nat
  BY <1>1, <1>2, <1>3
<1>5. g.opts \in Seq(Opt)
  BY <1>4 DEF Grammar
<1>6. \A o \in DOMAIN g.opts : g.opts[o] \in Opt
  BY <1>5
<1>7. \A o \in DOMAIN g.opts :
        g.opts[o].role \in Role /\ g.opts[o].value \in {"Flag", "Takes", "Optional"}
  BY <1>6 DEF Opt
<1>8. DOMAIN g.opts \subseteq Nat
  BY <1>5
<1>9. \A c : FindShort(g.opts, c) \subseteq DOMAIN g.opts /\ FindLong(g.opts, c) \subseteq DOMAIN g.opts
  BY DEF FindShort, FindLong
<1>10. start <= Len(ws) /\ i \in start + 1 .. Len(ws) + 1
  BY DEF TypeOK
<1>11. at \in Nat /\ k \in Nat /\ slots \in Seq(Slot) /\ seen \in Seq(DOMAIN g.opts)
  BY DEF TypeOK
<1>12. i <= Len(ws) => word \in Word
  BY <1>4, <1>10 DEF word
<1>13. \A w \in Word : w.lit \in Seq(Byte)
  BY DEF Word
<1>14. i <= Len(ws) => word \in Word /\ b \in Seq(Byte) /\ Len(b) \in Nat
  BY <1>12, <1>13 DEF b
<1> QED
  BY <1>4, <1>5, <1>7, <1>8, <1>9, <1>10, <1>11, <1>14

(* The step that ends a parse with a fault.                                *)
LEMMA FailType ==
  ASSUME TypeOK, result = {}, NEW fault \in ArgvFault, NEW n \in Nat, Fail(fault, n)
  PROVE  TypeOK'
<1>1. [kind |-> fault, word |-> n] \in Outcome
  BY DEF Outcome
<1>2. result' \subseteq Outcome /\ \A r, q \in result' : r = q
  BY <1>1 DEF Fail
<1> QED
  BY <1>2 DEF TypeOK, Fail, input, word, b

(* The step that reads an option word.                                     *)
LEMMA TakeOptsType ==
  ASSUME TypeOK, result = {}, i <= Len(ws), NEW value \in SUBSET Value, TakeOpts(value),
         seen' \in Seq(DOMAIN g.opts)
  PROVE  TypeOK'
<1>1. OptsSlot(value) \in Slot
  BY DEF OptsSlot, Slot, Role
<1>2. slots' \in Seq(Slot)
  BY <1>1 DEF TypeOK, TakeOpts
<1>3. Len(ws) \in Nat /\ start \in Nat
  BY DEF TypeOK
<1>4. i' \in start' + 1 .. Len(ws') + 1
  BY <1>3 DEF TypeOK, TakeOpts, input
<1> QED
  BY <1>2, <1>4 DEF TypeOK, TakeOpts, input

(* The step that reads an option and the value in the next word.           *)
LEMMA TakeNextType ==
  ASSUME TypeOK, result = {}, i <= Len(ws), NEW o \in DOMAIN g.opts, TakeNext(o)
  PROVE  TypeOK'
<1>1. Len(ws) \in Nat /\ start \in Nat /\ i \in Nat /\ i + 1 \in Nat /\ g.opts[o].role \in Role
  BY Typed
<1>2. CASE i = Len(ws)
  BY <1>1, <1>2, FailType DEF TakeNext, ArgvFault
<1>3. CASE i # Len(ws) /\ g.opts[o].role = "Code"
  BY <1>1, <1>3, FailType DEF TakeNext, ArgvFault
<1>4. CASE i # Len(ws) /\ g.opts[o].role # "Code"
  <2>1. OptsSlot({}) \in Slot /\ OptValueSlot(g.opts[o].role) \in Slot
    BY <1>1 DEF OptsSlot, OptValueSlot, Slot, Role
  <2>2. slots' = slots \o <<OptsSlot({}), OptValueSlot(g.opts[o].role)>>
    BY <1>4 DEF TakeNext
  <2>3. slots' \in Seq(Slot)
    BY <2>1, <2>2 DEF TypeOK
  <2>4. seen' = Append(seen, o) /\ i' = i + 2 /\ at' = 0 /\ UNCHANGED <<ph, k, result, g, ws, start>>
    BY <1>4 DEF TakeNext, input
  <2>6. seen' \in Seq(DOMAIN g.opts)
    BY <2>4, Typed
  <2>5. i' \in start' + 1 .. Len(ws') + 1
    BY <1>1, <1>4, <2>4 DEF TypeOK
  <2> QED
    BY <2>3, <2>4, <2>5, <2>6 DEF TypeOK
<1> QED
  BY <1>2, <1>3, <1>4

(* The step that reads an option with an inline value.                     *)
LEMMA TakeInlineType ==
  ASSUME TypeOK, result = {}, i <= Len(ws), NEW o \in DOMAIN g.opts, NEW off \in Nat,
         TakeInline(o, off)
  PROVE  TypeOK'
<1>1. i \in Nat /\ g.opts[o].role \in Role
  BY Typed
<1>2. CASE g.opts[o].role = "Code"
  BY <1>1, <1>2, FailType DEF TakeInline, ArgvFault
<1>3. CASE g.opts[o].role # "Code"
  <2>1. {[role |-> g.opts[o].role, off |-> off]} \in SUBSET Value
    BY <1>1 DEF Value
  <2>3. seen' = Append(seen, o)
    BY <1>3 DEF TakeInline
  <2>2. seen' \in Seq(DOMAIN g.opts)
    BY <2>3, Typed
  <2> QED
    BY <1>3, <2>1, <2>2, TakeOptsType DEF TakeInline
<1> QED
  BY <1>2, <1>3

(* Every step.                                                             *)
LEMMA TypeStep ==
  ASSUME TypeOK, [Next]_vars
  PROVE  TypeOK'
<1>0. /\ g \in Grammar /\ ws \in Seq(Word) /\ start \in Nat /\ Len(ws) \in Nat /\ i \in Nat
      /\ slots \in Seq(Slot) /\ seen \in Seq(DOMAIN g.opts) /\ k \in Nat
      /\ \A c : FindShort(g.opts, c) \subseteq DOMAIN g.opts /\ FindLong(g.opts, c) \subseteq DOMAIN g.opts
  BY Typed
<1>1. CASE BadWord
  BY <1>0, <1>1, FailType DEF BadWord, AtWord, ArgvFault
<1>2. CASE BadOperand
  BY <1>0, <1>2, FailType DEF BadOperand, AtOperand, AtWord, ArgvFault
<1>3. CASE Operand
  <2>1. PICK r \in OperandRole(g, k) \ {"Code"} : slots' = Append(slots, OperandSlot(r))
    BY <1>3 DEF Operand
  <2>2. OperandRole(g, k) \subseteq Role
    BY <1>0 DEF OperandRole, Grammar
  <2>3. OperandSlot(r) \in Slot
    BY <2>2 DEF OperandSlot, Slot
  <2>4. slots' \in Seq(Slot)
    BY <1>0, <2>1, <2>3
  <2>5. i' \in start' + 1 .. Len(ws') + 1 /\ k' \in Nat /\ ph' \in Phase /\ at' = 0 /\ result' = {}
    BY <1>0, <1>3 DEF Operand, AtOperand, AtWord, TypeOK, input, Phase
  <2> QED
    BY <1>3, <2>4, <2>5 DEF TypeOK, Operand, input
<1>4. CASE EndOpts
  <2>1. DashDashSlot \in Slot
    BY DEF DashDashSlot, Slot, Role
  <2>2. slots' \in Seq(Slot)
    BY <1>0, <1>4, <2>1 DEF EndOpts
  <2>3. i' \in start' + 1 .. Len(ws') + 1 /\ ph' \in Phase /\ at' = 0 /\ result' = {}
    BY <1>0, <1>4 DEF EndOpts, AtWord, TypeOK, input, Phase
  <2> QED
    BY <1>4, <2>2, <2>3 DEF TypeOK, EndOpts, input
<1>5. CASE BadLongOption
  BY <1>0, <1>5, FailType DEF BadLongOption, AtLong, AtWord, ArgvFault
<1>6. CASE LongOption
  <2>1. PICK o \in FindLong(g.opts, LongName(b)) :
          \/ \E e \in FindEq(b) : TakeInline(o, e)
          \/ TakeOpts({}) /\ seen' = Append(seen, o)
          \/ TakeNext(o)
    BY <1>6 DEF LongOption
  <2>2. o \in DOMAIN g.opts /\ result = {} /\ i <= Len(ws) /\ FindEq(b) \subseteq Nat
    BY <1>0, <1>6 DEF LongOption, AtLong, AtWord, FindEq
  <2>3. (\E e \in FindEq(b) : TakeInline(o, e)) => TypeOK'
    BY <2>2, TakeInlineType
  <2>4. TakeOpts({}) /\ seen' = Append(seen, o) => TypeOK'
    <3>1. seen' = Append(seen, o) => seen' \in Seq(DOMAIN g.opts)
      BY <1>0, <2>2
    <3> QED
      BY <2>2, <3>1, TakeOptsType
  <2>5. TakeNext(o) => TypeOK'
    BY <2>2, TakeNextType
  <2> QED
    BY <2>1, <2>3, <2>4, <2>5
<1>7. CASE StartCluster
  <2>1. at' = 2 /\ i <= Len(ws) /\ Len(b) > 1 /\ Len(b) \in Nat /\ b' = b
    BY <1>7, Typed DEF StartCluster, AtWord, IsCluster, b, word, input
  <2>2. at' \in 2 .. Len(b') + 1
    BY <2>1
  <2> QED
    BY <1>7, <2>1, <2>2 DEF TypeOK, StartCluster, input
<1>8. CASE BadShortOption
  BY <1>0, <1>8, FailType DEF BadShortOption, AtByte, ArgvFault
<1>9. CASE ShortFlag
  <2>1. PICK o \in FindShort(g.opts, b[at]) : seen' = Append(seen, o)
    BY <1>9 DEF ShortFlag
  <2>2. seen' \in Seq(DOMAIN g.opts)
    BY <1>0, <2>1
  <2>3. i <= Len(ws) /\ at <= Len(b) /\ at \in 2 .. Len(b) + 1
    BY <1>9 DEF ShortFlag, AtByte, TypeOK
  <2>4. at' = at + 1 /\ b' = b /\ Len(b) \in Nat
    BY <1>9, <2>3, Typed DEF ShortFlag, b, word, input
  <2>5. at' \in Nat /\ at' \in 2 .. Len(b') + 1
    BY <2>3, <2>4
  <2> QED
    BY <1>9, <2>2, <2>3, <2>5 DEF TypeOK, ShortFlag, input
<1>10. CASE ShortWithValue
  <2>1. PICK o \in FindShort(g.opts, b[at]) :
          \/ TakeInline(o, at)
          \/ TakeNext(o)
          \/ TakeOpts({}) /\ seen' = Append(seen, o)
    BY <1>10 DEF ShortWithValue
  <2>2. o \in DOMAIN g.opts /\ result = {} /\ i <= Len(ws) /\ at \in Nat
    BY <1>0, <1>10 DEF ShortWithValue, AtByte, TypeOK
  <2>3. TakeInline(o, at) => TypeOK'
    BY <2>2, TakeInlineType
  <2>4. TakeOpts({}) /\ seen' = Append(seen, o) => TypeOK'
    <3>1. seen' = Append(seen, o) => seen' \in Seq(DOMAIN g.opts)
      BY <1>0, <2>2
    <3> QED
      BY <2>2, <3>1, TakeOptsType
  <2>5. TakeNext(o) => TypeOK'
    BY <2>2, TakeNextType
  <2> QED
    BY <2>1, <2>3, <2>4, <2>5
<1>11. CASE EndCluster
  BY <1>0, <1>11, TakeOptsType DEF EndCluster, TypeOK
<1>12. CASE Finish
  <2>1. result' \subseteq Outcome /\ \A r, q \in result' : r = q
    BY <1>12 DEF Finish, Outcome
  <2> QED
    BY <1>12, <2>1 DEF TypeOK, Finish, input, word, b
<1>13. CASE UNCHANGED vars
  BY <1>13 DEF TypeOK, vars, word, b
<1> QED
  BY <1>1, <1>2, <1>3, <1>4, <1>5, <1>6, <1>7, <1>8, <1>9, <1>10, <1>11, <1>12, <1>13 DEF Next, Done

(* The counters, slots and outcome of a parse have their types.            *)
THEOREM TypeCorrect == Spec => []TypeOK
<1>1. Init => TypeOK
  <2>1. SUFFICES ASSUME NEW in \in Inputs, ws = in.ws, StartParse(in.g, in.start)
                 PROVE  TypeOK
    BY DEF Init
  <2>2. in.g \in Grammar /\ in.ws \in Seq(Word) /\ in.start \in 0 .. Len(in.ws)
    BY ArgvAssumption
  <2> QED
    BY <2>1, <2>2 DEF StartParse, TypeOK, Phase
<1> QED
  BY <1>1, TypeStep, PTL DEF Spec

-----------------------------------------------------------------------------
(* The inductive invariant: the walk's own state says what the slots so    *)
(* far do, no option waits for its value between two words, and every      *)
(* reading starts with these slots.                                        *)
ReadSoFar ==
  /\ i = start + (Len(slots) + 1)
  /\ Claims(g, ws, start, slots, Len(slots)) = {}
  /\ ph = "Options" <=> OptionsAt(g, slots, Len(slots) + 1)
  /\ ph = "AfterDashDash" <=> DashDashBefore(slots, Len(slots) + 1)
  /\ k = Rank(slots, Len(slots) + 1)
  /\ ReadOK(g, ws, start, slots)

(* A cluster is read up to its first option that is no flag.               *)
InCluster ==
  at # 0 => ph = "Options" /\ ~word.opaque /\ IsCluster(b) /\ FlagsBefore(g, b, at)

SeenSoFar ==
  {seen[n] : n \in DOMAIN seen}
    = OptionsSeen(g, ws, start, slots) \cup (IF at = 0 THEN {} ELSE ShortsTo(g, b, at - 1))

(* A parse ends at the end, or where no reading goes on.                   *)
Ended ==
  \A r \in result :
    \/ r.kind = "Parsed" /\ at = 0 /\ i = Len(ws) + 1
    \/ /\ r.kind # "Parsed" /\ Readings(g, ws, start) = {}
       /\ \/ r.word = start + (Len(slots) + 1)
          \/ r.kind = "CodeRole" /\ r.word = start + (Len(slots) + 1) + 1

ArgvInv == TypeOK /\ ReadSoFar /\ InCluster /\ SeenSoFar /\ Ended

-----------------------------------------------------------------------------
(* What may follow, in terms of the walk's own state.                      *)

(* Slot x fits the word being read.                                        *)
FitsHere(x) ==
  FitsWord(g, word, ph = "Options", ph = "AfterDashDash", k, i < Len(ws), x)

LEMMA Here ==
  ASSUME TypeOK, ReadSoFar, i <= Len(ws)
  PROVE  /\ \A x : FitsAfter(g, ws, start, slots, Len(slots) + 1, x) <=> FitsHere(x)
         /\ \A x, y : FitsHere(x) /\ FitsHere(y) => x = y
<1> DEFINE n == Len(slots) + 1
<1>1. /\ Len(slots) \in Nat /\ n - 1 = Len(slots) /\ start + n = i /\ n <= Len(ws) - start
      /\ g \in Grammar /\ ws \in Seq(Word) /\ start \in 0 .. Len(ws) /\ slots \in Seq(Slot)
  BY Typed DEF ReadSoFar
<1>2. Claims(g, ws, start, slots, n - 1) = {}
  BY <1>1 DEF ReadSoFar
<1>3. /\ (ph = "Options") = OptionsAt(g, slots, n)
      /\ (ph = "AfterDashDash") = DashDashBefore(slots, n)
      /\ k = Rank(slots, n) /\ word = ws[start + n] /\ (i < Len(ws)) = (start + n < Len(ws))
  <2>1. OptionsAt(g, slots, n) \in BOOLEAN /\ DashDashBefore(slots, n) \in BOOLEAN
    BY DEF OptionsAt, DashDashBefore
  <2> QED
    BY <1>1, <2>1 DEF ReadSoFar, word
<1> HIDE DEF n
<1>4. \A x : FitsAfter(g, ws, start, slots, n, x) <=>
        FitsWord(g, ws[start + n], OptionsAt(g, slots, n), DashDashBefore(slots, n), Rank(slots, n),
                 start + n < Len(ws), x)
  BY <1>2 DEF FitsAfter
<1>5. \A x : FitsAfter(g, ws, start, slots, n, x) <=> FitsHere(x)
  BY <1>3, <1>4 DEF FitsHere
<1>6. n = Len(slots) + 1
  BY DEF n
<1>7. \A x, y : FitsAfter(g, ws, start, slots, n, x) /\ FitsAfter(g, ws, start, slots, n, y) => x = y
  BY <1>1, <1>2, <1>6, Unclaimed
<1> QED
  BY <1>5, <1>6, <1>7

(* A walk that stops where no slot fits has no reading.                    *)
LEMMA StopHere ==
  ASSUME ArgvInv, result = {}, i <= Len(ws), NEW fault \in ArgvFault, Fail(fault, i),
         \A x : ~FitsHere(x)
  PROVE  ArgvInv'
<1>1. TypeOK'
  BY Typed, FailType DEF ArgvInv
<1>2. Readings(g, ws, start) = {}
  <2>1. Len(slots) + 1 <= Len(ws) - start
    BY Typed DEF ArgvInv, ReadSoFar
  <2>2. \A x : ~FitsAfter(g, ws, start, slots, Len(slots) + 1, x)
    BY Here DEF ArgvInv
  <2>3. ReadOK(g, ws, start, slots)
    BY DEF ArgvInv, ReadSoFar
  <2> QED
    BY <2>1, <2>2, <2>3, Typed, NoFit DEF ArgvInv
<1>3. UNCHANGED <<g, ws, start, i, at, ph, k, slots, seen, word, b>>
  BY DEF Fail, input, word, b
<1>4. (ReadSoFar /\ InCluster /\ SeenSoFar)'
  BY <1>3 DEF ArgvInv, ReadSoFar, InCluster, SeenSoFar
<1>5. \A r \in result' : r.kind = fault /\ r.word = i /\ fault # "Parsed"
  BY DEF Fail, ArgvFault
<1>6. Ended'
  BY <1>2, <1>3, <1>5 DEF ArgvInv, ReadSoFar, Ended
<1> QED
  BY <1>1, <1>4, <1>6 DEF ArgvInv

(* Taking the slot that fits the word being read.                          *)
LEMMA TakeHere ==
  ASSUME TypeOK, ReadSoFar, i <= Len(ws), NEW x \in Slot, FitsHere(x),
         NEW u, u = Append(slots, x)
  PROVE  /\ ReadOK(g, ws, start, u)
         /\ u \in Seq(Slot) /\ Len(u) = Len(slots) + 1
         /\ OptionsAt(g, u, Len(u) + 1) <=>
              ph = "Options" /\ x.kind # "DashDash" /\ (g.permute \/ x.kind # "Operand")
         /\ DashDashBefore(u, Len(u) + 1) <=> ph = "AfterDashDash" \/ x.kind = "DashDash"
         /\ Rank(u, Len(u) + 1) = IF x.kind = "Operand" THEN k + 1 ELSE k
         /\ OptionsSeen(g, ws, start, u) =
              OptionsSeen(g, ws, start, slots) \cup (IF x.kind = "Opts" THEN OptionsIn(g, b) ELSE {})
         /\ Claims(g, ws, start, u, Len(u)) = IF x.kind = "Opts" THEN ValueFromNext(g, b) ELSE {}
<1>1. PICK n : n = Len(slots) + 1
  OBVIOUS
<1>2. n <= Len(ws) - start /\ start + n = i
  BY <1>1, Typed DEF ReadSoFar
<1>3. slots \in Seq(Slot) /\ g \in Grammar /\ ws \in Seq(Word) /\ start \in 0 .. Len(ws)
  BY Typed
<1>4. FitsAfter(g, ws, start, slots, n, x) /\ \A y : FitsAfter(g, ws, start, slots, n, y) => y = x
  BY <1>1, Here
<1>5. ReadOK(g, ws, start, slots)
  BY DEF ReadSoFar
<1>6. ReadOK(g, ws, start, u)
  BY <1>1, <1>2, <1>3, <1>4, <1>5, Extended
<1>7. AppendedTo(g, ws, start, slots, x, n, u)
  BY <1>1, <1>3, Appended
<1>8. /\ ph = "Options" <=> OptionsAt(g, slots, n)
      /\ ph = "AfterDashDash" <=> DashDashBefore(slots, n)
      /\ k = Rank(slots, n) /\ b = ws[start + n].lit
  BY <1>1, <1>2 DEF ReadSoFar, b, word
<1> QED
  BY <1>1, <1>6, <1>7, <1>8 DEF AppendedTo

(* The slots' state after a step that takes the slot that fits.            *)
LEMMA SlotStep ==
  ASSUME TypeOK, ReadSoFar, i <= Len(ws), NEW x \in Slot, FitsHere(x),
         slots' = Append(slots, x), i' = i + 1, UNCHANGED input,
         x.kind = "Opts" => ValueFromNext(g, b) = {},
         ph' = IF x.kind = "DashDash" THEN "AfterDashDash"
               ELSE IF x.kind = "Operand" /\ ph = "Options" /\ ~g.permute THEN "AfterOperand" ELSE ph,
         k' = IF x.kind = "Operand" THEN k + 1 ELSE k
  PROVE  ReadSoFar'
<1>1. PICK u : u = Append(slots, x)
  OBVIOUS
<1>2. /\ ReadOK(g, ws, start, u) /\ Len(u) = Len(slots) + 1
      /\ OptionsAt(g, u, Len(u) + 1) <=>
           ph = "Options" /\ x.kind # "DashDash" /\ (g.permute \/ x.kind # "Operand")
      /\ DashDashBefore(u, Len(u) + 1) <=> ph = "AfterDashDash" \/ x.kind = "DashDash"
      /\ Rank(u, Len(u) + 1) = IF x.kind = "Operand" THEN k + 1 ELSE k
      /\ Claims(g, ws, start, u, Len(u)) = IF x.kind = "Opts" THEN ValueFromNext(g, b) ELSE {}
  BY <1>1, TakeHere
<1>3. slots' = u /\ g' = g /\ ws' = ws /\ start' = start
  BY <1>1 DEF input
<1>4. i' = start' + (Len(slots') + 1)
  <2>1. Len(slots) \in Nat /\ start \in Nat /\ i = start + (Len(slots) + 1)
    BY Typed DEF ReadSoFar
  <2>2. Len(slots') = Len(slots) + 1
    BY <1>2, <1>3
  <2> QED
    BY <1>3, <2>1, <2>2
<1>5. ph' = "Options" <=> OptionsAt(g, u, Len(u) + 1)
  BY <1>2
<1>6. ph' = "AfterDashDash" <=> DashDashBefore(u, Len(u) + 1)
  BY <1>2
<1>7. Claims(g, ws, start, u, Len(u)) = {}
  BY <1>2
<1> QED
  BY <1>2, <1>3, <1>4, <1>5, <1>6, <1>7 DEF ReadSoFar

(* The values of a list with one more.                                     *)
LEMMA OneMoreSeen ==
  ASSUME NEW S, NEW q \in Seq(S), NEW o
  PROVE  LET p == Append(q, o) IN {p[n] : n \in DOMAIN p} = {q[n] : n \in DOMAIN q} \cup {o}
<1>1. DOMAIN Append(q, o) = (1 .. Len(q)) \cup {Len(q) + 1} /\ DOMAIN q = 1 .. Len(q)
  OBVIOUS
<1>2. \A n \in 1 .. Len(q) : Append(q, o)[n] = q[n]
  OBVIOUS
<1>3. Append(q, o)[Len(q) + 1] = o
  OBVIOUS
<1> QED
  BY <1>1, <1>2, <1>3

(* An option word is being read.                                           *)
OptionWord == i <= Len(ws) /\ ph = "Options" /\ ~word.opaque /\ (IsLong(b) \/ IsCluster(b))

(* The only slot it can have.                                              *)
LEMMA OptionFits ==
  ASSUME TypeOK, OptionWord
  PROVE  \A x : FitsHere(x) <=>
           /\ SpeltRight(g, b) /\ x = OptsSlot(InlineValue(g, b))
           /\ \A v \in InlineValue(g, b) : v.role # "Code"
           /\ ValueFromNext(g, b) # {} => i < Len(ws)
<1>1. ~IsDashDash(word) /\ MayBeOption(word) /\ ~(ph = "AfterDashDash")
  BY Typed, Classes DEF OptionWord, b
<1> QED
  BY <1>1 DEF FitsHere, FitsWord, OptionWord, b

(* A word of options that leaves no value to the next word.                *)
LEMMA OptsStep ==
  ASSUME ArgvInv, result = {}, OptionWord, SpeltRight(g, b), ValueFromNext(g, b) = {},
         NEW value \in SUBSET Value, value = InlineValue(g, b), \A v \in value : v.role # "Code",
         TakeOpts(value), seen' \in Seq(DOMAIN g.opts),
         {seen'[n] : n \in DOMAIN seen'} = OptionsSeen(g, ws, start, slots) \cup OptionsIn(g, b)
  PROVE  ArgvInv'
<1>1. TypeOK /\ ReadSoFar /\ i <= Len(ws)
  BY DEF ArgvInv, OptionWord
<1>2. TypeOK'
  BY <1>1, TakeOptsType
<1>3. PICK x : x = OptsSlot(value) /\ x \in Slot /\ x.kind = "Opts"
  <2>1. OptsSlot(value) \in Slot
    BY DEF OptsSlot, Slot, Role
  <2>2. OptsSlot(value).kind = "Opts"
    BY DEF OptsSlot
  <2> QED
    BY <2>1, <2>2
<1>4. FitsHere(x)
  BY <1>1, <1>3, OptionFits
<1>5. slots' = Append(slots, x) /\ i' = i + 1 /\ at' = 0 /\ UNCHANGED <<ph, k, result, input>>
  BY <1>3 DEF TakeOpts
<1>6. ReadSoFar'
  BY <1>1, <1>3, <1>4, <1>5, SlotStep
<1>7. InCluster' /\ Ended'
  BY <1>5 DEF InCluster, Ended
<1>8. PICK u : u = Append(slots, x)
  OBVIOUS
<1>9. OptionsSeen(g, ws, start, u) = OptionsSeen(g, ws, start, slots) \cup OptionsIn(g, b)
  BY <1>1, <1>3, <1>4, <1>8, TakeHere
<1>10. SeenSoFar'
  BY <1>5, <1>8, <1>9 DEF SeenSoFar, input
<1> QED
  BY <1>2, <1>6, <1>7, <1>10 DEF ArgvInv

(* A word of options whose last one has its value inline.                  *)
LEMMA InlineStep ==
  ASSUME ArgvInv, result = {}, OptionWord, SpeltRight(g, b), ValueFromNext(g, b) = {},
         NEW o \in DOMAIN g.opts, NEW off \in Nat,
         InlineValue(g, b) = {[role |-> g.opts[o].role, off |-> off]}, TakeInline(o, off),
         {seen[n] : n \in DOMAIN seen} \cup {o} = OptionsSeen(g, ws, start, slots) \cup OptionsIn(g, b)
  PROVE  ArgvInv'
<1>1. TypeOK /\ i <= Len(ws)
  BY DEF ArgvInv, OptionWord
<1>2. CASE g.opts[o].role = "Code"
  <2>1. \A x : ~FitsHere(x)
    BY <1>1, <1>2, OptionFits
  <2> QED
    BY <1>1, <1>2, <2>1, StopHere DEF TakeInline, ArgvFault
<1>3. CASE g.opts[o].role # "Code"
  <2>1. PICK value : value = {[role |-> g.opts[o].role, off |-> off]}
    OBVIOUS
  <2>2. value \in SUBSET Value /\ \A v \in value : v.role # "Code"
    BY <1>1, <1>3, <2>1, Typed DEF Value
  <2>3. TakeOpts(value) /\ seen' = Append(seen, o)
    BY <1>3, <2>1 DEF TakeInline
  <2>4. seen \in Seq(DOMAIN g.opts) /\ seen' \in Seq(DOMAIN g.opts)
    BY <1>1, <2>3, Typed
  <2>5. {seen'[n] : n \in DOMAIN seen'} = {seen[n] : n \in DOMAIN seen} \cup {o}
    BY <2>3, <2>4, OneMoreSeen
  <2> QED
    BY <2>1, <2>2, <2>3, <2>4, <2>5, OptsStep
<1> QED
  BY <1>2, <1>3

(* The slots' state after a step that takes an option word and its value.  *)
LEMMA ValueStep ==
  ASSUME TypeOK, ReadSoFar, i < Len(ws), ph = "Options", NEW x \in Slot, FitsHere(x), x.kind = "Opts",
         NEW r \in Role, r # "Code", ValueFromNext(g, b) = {r},
         slots' = Append(Append(slots, x), OptValueSlot(r)), i' = i + 2, UNCHANGED <<ph, k, input>>
  PROVE  /\ ReadSoFar'
         /\ OptionsSeen(g, ws, start, slots') = OptionsSeen(g, ws, start, slots) \cup OptionsIn(g, b)
<1>1. PICK u : u = Append(slots, x)
  OBVIOUS
<1>2. PICK y : y = OptValueSlot(r) /\ y \in Slot /\ y.kind = "OptValue"
  <2>1. OptValueSlot(r) \in Slot /\ OptValueSlot(r).kind = "OptValue"
    BY DEF OptValueSlot, Slot
  <2> QED
    BY <2>1
<1>3. PICK v : v = Append(u, y)
  OBVIOUS
<1>4. /\ slots \in Seq(Slot) /\ g \in Grammar /\ ws \in Seq(Word) /\ start \in 0 .. Len(ws)
      /\ Len(slots) \in Nat /\ Len(ws) \in Nat /\ i = start + (Len(slots) + 1) /\ i <= Len(ws)
  BY Typed DEF ReadSoFar
<1>5. /\ ReadOK(g, ws, start, u) /\ u \in Seq(Slot) /\ Len(u) = Len(slots) + 1
      /\ OptionsAt(g, u, Len(u) + 1) <=> ph = "Options"
      /\ DashDashBefore(u, Len(u) + 1) <=> ph = "AfterDashDash"
      /\ Rank(u, Len(u) + 1) = k
      /\ OptionsSeen(g, ws, start, u) = OptionsSeen(g, ws, start, slots) \cup OptionsIn(g, b)
      /\ Claims(g, ws, start, u, Len(u)) = {r}
  BY <1>1, <1>4, TakeHere
<1>6. PICK n : n = Len(u) + 1 /\ n - 1 = Len(u) /\ n = Len(slots) + 2
  BY <1>4, <1>5
<1>7. \A z : FitsAfter(g, ws, start, u, n, z) <=> z = y
  <2>1. Claims(g, ws, start, u, n - 1) = {r}
    BY <1>5, <1>6
  <2>2. \A z : FitsAfter(g, ws, start, u, n, z) <=> r # "Code" /\ z = OptValueSlot(r)
    BY <2>1, Claimed
  <2> QED
    BY <1>2, <2>2
<1>8. n <= Len(ws) - start
  BY <1>4, <1>6
<1>9. ReadOK(g, ws, start, v)
  BY <1>2, <1>3, <1>4, <1>5, <1>6, <1>7, <1>8, Extended
<1>10. AppendedTo(g, ws, start, u, y, n, v)
  BY <1>2, <1>3, <1>5, <1>6, Appended
<1>11. /\ Len(v) = n
       /\ DashDashBefore(v, n + 1) <=> ph = "AfterDashDash"
       /\ OptionsAt(g, v, n + 1) <=> ph = "Options"
       /\ Rank(v, n + 1) = k
       /\ OptionsSeen(g, ws, start, v) = OptionsSeen(g, ws, start, slots) \cup OptionsIn(g, b)
       /\ Claims(g, ws, start, v, n) = {}
  BY <1>2, <1>5, <1>6, <1>10 DEF AppendedTo
<1>12. slots' = v /\ g' = g /\ ws' = ws /\ start' = start /\ ph' = ph /\ k' = k
  BY <1>1, <1>2, <1>3 DEF input
<1>13. i' = start' + (Len(slots') + 1)
  BY <1>4, <1>6, <1>11, <1>12, SMTT(60)
<1> QED
  BY <1>9, <1>11, <1>12, <1>13 DEF ReadSoFar

(* A word of options whose last one takes the next word.                   *)
LEMMA NextWordStep ==
  ASSUME ArgvInv, result = {}, OptionWord, SpeltRight(g, b), InlineValue(g, b) = {},
         NEW o \in DOMAIN g.opts, ValueFromNext(g, b) = {g.opts[o].role}, TakeNext(o),
         {seen[n] : n \in DOMAIN seen} \cup {o} = OptionsSeen(g, ws, start, slots) \cup OptionsIn(g, b)
  PROVE  ArgvInv'
<1>1. /\ TypeOK /\ ReadSoFar /\ i <= Len(ws) /\ i \in Nat /\ Len(ws) \in Nat
      /\ g.opts[o].role \in Role /\ ph = "Options"
  BY Typed DEF ArgvInv, OptionWord
<1>2. TypeOK'
  BY <1>1, TakeNextType
<1>3. CASE i = Len(ws)
  <2>1. \A x : ~FitsHere(x)
    BY <1>1, <1>3, OptionFits
  <2> QED
    BY <1>1, <1>3, <2>1, StopHere DEF TakeNext, ArgvFault
<1>4. PICK x : x = OptsSlot({}) /\ x \in Slot /\ x.kind = "Opts"
  <2>1. OptsSlot({}) \in Slot /\ OptsSlot({}).kind = "Opts"
    BY DEF OptsSlot, Slot, Role
  <2> QED
    BY <2>1
<1>5. CASE i # Len(ws) /\ g.opts[o].role = "Code"
  <2>1. i < Len(ws)
    BY <1>1, <1>5
  <2>2. FitsHere(x)
    BY <1>1, <1>4, <2>1, OptionFits
  <2>3. PICK u : u = Append(slots, x)
    OBVIOUS
  <2>4. /\ ReadOK(g, ws, start, u) /\ u \in Seq(Slot) /\ Len(u) = Len(slots) + 1
        /\ Claims(g, ws, start, u, Len(u)) = {"Code"}
    BY <1>1, <1>4, <1>5, <2>2, <2>3, TakeHere
  <2>5. PICK n : n = Len(u) + 1 /\ n - 1 = Len(u)
    BY <2>4
  <2>6. \A z : ~FitsAfter(g, ws, start, u, n, z)
    <3>1. Claims(g, ws, start, u, n - 1) = {"Code"}
      BY <2>4, <2>5
    <3>2. \A z : FitsAfter(g, ws, start, u, n, z) <=> "Code" # "Code" /\ z = OptValueSlot("Code")
      BY <3>1, Claimed
    <3> QED
      BY <3>2
  <2>7. n <= Len(ws) - start
    BY <1>1, <2>1, <2>4, <2>5, Typed DEF ReadSoFar
  <2>8. Readings(g, ws, start) = {}
    BY <1>1, <2>4, <2>5, <2>6, <2>7, Typed, NoFit
  <2>9. UNCHANGED <<g, ws, start, i, at, ph, k, slots, seen, word, b>>
    BY <1>5 DEF TakeNext, Fail, input, word, b
  <2>10. (ReadSoFar /\ InCluster /\ SeenSoFar)'
    BY <2>9 DEF ArgvInv, ReadSoFar, InCluster, SeenSoFar
  <2>11. \A q \in result' : q.kind = "CodeRole" /\ q.word = i + 1
    BY <1>5 DEF TakeNext, Fail
  <2>12. i = start + (Len(slots) + 1)
    BY <1>1 DEF ReadSoFar
  <2>13. Ended'
    BY <2>8, <2>9, <2>11, <2>12 DEF Ended
  <2> QED
    BY <1>2, <2>10, <2>13 DEF ArgvInv
<1>6. CASE i # Len(ws) /\ g.opts[o].role # "Code"
  <2>1. i < Len(ws)
    BY <1>1, <1>6
  <2>2. FitsHere(x)
    BY <1>1, <1>4, <2>1, OptionFits
  <2>3. /\ slots' = slots \o <<OptsSlot({}), OptValueSlot(g.opts[o].role)>>
        /\ seen' = Append(seen, o) /\ i' = i + 2 /\ at' = 0 /\ UNCHANGED <<ph, k, result, input>>
    BY <1>6 DEF TakeNext
  <2>4. slots' = Append(Append(slots, x), OptValueSlot(g.opts[o].role))
    <3>1. PICK y : y = OptValueSlot(g.opts[o].role)
      OBVIOUS
    <3>2. slots \in Seq(Slot) /\ y \in Slot
      BY <1>1, <3>1, Typed DEF OptValueSlot, Slot
    <3>3. slots \o <<x, y>> = Append(Append(slots, x), y)
      BY <1>4, <3>2
    <3> QED
      BY <1>4, <2>3, <3>1, <3>3
  <2>5. /\ ReadSoFar'
        /\ OptionsSeen(g, ws, start, slots') = OptionsSeen(g, ws, start, slots) \cup OptionsIn(g, b)
    BY <1>1, <1>4, <1>6, <2>1, <2>2, <2>3, <2>4, ValueStep
  <2>6. {seen'[n] : n \in DOMAIN seen'} = {seen[n] : n \in DOMAIN seen} \cup {o}
    <3>1. seen \in Seq(DOMAIN g.opts)
      BY <1>1, Typed
    <3>2. seen' = Append(seen, o) /\ seen' \in Seq(DOMAIN g.opts)
      BY <2>3, <3>1
    <3> QED
      BY <3>1, <3>2, OneMoreSeen
  <2>7. SeenSoFar'
    BY <2>3, <2>5, <2>6 DEF SeenSoFar, input
  <2>8. InCluster' /\ Ended'
    BY <2>3 DEF InCluster, Ended
  <2> QED
    BY <1>2, <2>5, <2>7, <2>8 DEF ArgvInv
<1> QED
  BY <1>3, <1>5, <1>6

-----------------------------------------------------------------------------
(* The steps.                                                              *)

(* Words that cannot be read where they are.                               *)
LEMMA BadWordStep ==
  ASSUME ArgvInv, BadWord \/ BadOperand
  PROVE  ArgvInv'
<1>1. TypeOK /\ word \in Word /\ i <= Len(ws) /\ result = {}
  BY Typed DEF ArgvInv, BadWord, BadOperand, AtOperand, AtWord
<1>2. /\ ~word.opaque /\ (IsLong(word.lit) \/ IsCluster(word.lit) \/ IsDashDash(word)) => MayBeOption(word)
      /\ IsDashDash(word) => ~word.opaque /\ ~IsLong(word.lit) /\ ~IsCluster(word.lit)
  BY <1>1, Classes DEF IsDashDash
<1>3. ASSUME BadWord
      PROVE  \A x : ~FitsHere(x)
  BY <1>2, <1>3 DEF BadWord, FitsHere, FitsWord
<1>4. ASSUME BadOperand
      PROVE  \A x : ~FitsHere(x)
  <2>1. OperandRole(g, k) \ {"Code"} = {}
    BY <1>4 DEF BadOperand
  <2>2. ph = "AfterDashDash" \/ ~MayBeOption(word)
    BY <1>4 DEF BadOperand, AtOperand
  <2> QED
    BY <1>2, <2>1, <2>2 DEF FitsHere, FitsWord
<1>5. \E fault \in ArgvFault : Fail(fault, i)
  BY DEF BadWord, BadOperand, ArgvFault
<1> QED
  BY <1>1, <1>3, <1>4, <1>5, StopHere

(* An operand.                                                             *)
LEMMA OperandStep ==
  ASSUME ArgvInv, Operand
  PROVE  ArgvInv'
<1>1. TypeOK /\ ReadSoFar /\ i <= Len(ws) /\ result = {} /\ at = 0 /\ g \in Grammar /\ k \in Nat
  BY Typed DEF ArgvInv, Operand, AtOperand, AtWord
<1>2. PICK r \in OperandRole(g, k) \ {"Code"} : slots' = Append(slots, OperandSlot(r))
  BY DEF Operand
<1>3. r \in Role
  BY <1>1 DEF OperandRole, Grammar
<1>4. PICK x : x = OperandSlot(r) /\ x \in Slot /\ x.kind = "Operand"
  <2>1. OperandSlot(r) \in Slot /\ OperandSlot(r).kind = "Operand"
    BY <1>3 DEF OperandSlot, Slot
  <2> QED
    BY <2>1
<1>5. FitsHere(x)
  BY <1>2, <1>4 DEF Operand, AtOperand, FitsHere, FitsWord
<1>6. /\ slots' = Append(slots, x) /\ k' = k + 1 /\ i' = i + 1
      /\ ph' = IF ph = "Options" /\ ~g.permute THEN "AfterOperand" ELSE ph
      /\ UNCHANGED <<at, seen, result, input>>
  BY <1>2, <1>4 DEF Operand
<1>7. ReadSoFar'
  BY <1>1, <1>4, <1>5, <1>6, SlotStep
<1>8. InCluster' /\ Ended'
  BY <1>1, <1>6 DEF InCluster, Ended
<1>9. PICK u : u = Append(slots, x)
  OBVIOUS
<1>10. OptionsSeen(g, ws, start, u) = OptionsSeen(g, ws, start, slots) \cup {}
  BY <1>1, <1>4, <1>5, <1>9, TakeHere
<1>11. SeenSoFar'
  BY <1>1, <1>6, <1>9, <1>10 DEF ArgvInv, SeenSoFar, input
<1>12. TypeOK'
  BY <1>1, TypeStep DEF Next
<1> QED
  BY <1>7, <1>8, <1>11, <1>12 DEF ArgvInv

(* The word that ends options.                                             *)
LEMMA EndOptsStep ==
  ASSUME ArgvInv, EndOpts
  PROVE  ArgvInv'
<1>1. TypeOK /\ ReadSoFar /\ i <= Len(ws) /\ result = {} /\ at = 0
  BY DEF ArgvInv, EndOpts, AtWord
<1>2. PICK x : x = DashDashSlot /\ x \in Slot /\ x.kind = "DashDash"
  <2>1. DashDashSlot \in Slot /\ DashDashSlot.kind = "DashDash"
    BY DEF DashDashSlot, Slot, Role
  <2> QED
    BY <2>1
<1>3. FitsHere(x)
  BY <1>2 DEF EndOpts, FitsHere, FitsWord
<1>4. /\ slots' = Append(slots, x) /\ i' = i + 1 /\ ph' = "AfterDashDash"
      /\ UNCHANGED <<at, k, seen, result, input>>
  BY <1>2 DEF EndOpts
<1>5. ReadSoFar'
  BY <1>1, <1>2, <1>3, <1>4, SlotStep
<1>6. InCluster' /\ Ended'
  BY <1>1, <1>4 DEF InCluster, Ended
<1>7. PICK u : u = Append(slots, x)
  OBVIOUS
<1>8. OptionsSeen(g, ws, start, u) = OptionsSeen(g, ws, start, slots) \cup {}
  BY <1>1, <1>2, <1>3, <1>7, TakeHere
<1>9. SeenSoFar'
  BY <1>1, <1>4, <1>7, <1>8 DEF ArgvInv, SeenSoFar, input
<1>10. TypeOK'
  BY <1>1, TypeStep DEF Next
<1> QED
  BY <1>5, <1>6, <1>9, <1>10 DEF ArgvInv

(* A long option.                                                          *)
LEMMA LongStep ==
  ASSUME ArgvInv, BadLongOption \/ LongOption
  PROVE  ArgvInv'
<1>1. /\ TypeOK /\ OptionWord /\ IsLong(b) /\ i <= Len(ws) /\ result = {} /\ at = 0
      /\ g \in Grammar /\ b \in Seq(Byte)
  <2>1. AtLong /\ TypeOK
    BY DEF BadLongOption, LongOption, ArgvInv
  <2>2. OptionWord /\ IsLong(b) /\ i <= Len(ws) /\ result = {} /\ at = 0
    BY <2>1 DEF AtLong, AtWord, OptionWord
  <2> QED
    BY <2>1, <2>2, Typed
<1>2. CASE BadLongOption
  <2>1. FindLong(g.opts, LongName(b)) = {} => ~SpeltRight(g, b)
    BY <1>1 DEF SpeltRight
  <2>2. \A o \in FindLong(g.opts, LongName(b)) :
          g.opts[o].value = "Flag" /\ FindEq(b) # {} => ~SpeltRight(g, b)
    BY <1>1, LongWord
  <2>3. ~SpeltRight(g, b)
    BY <1>2, <2>1, <2>2 DEF BadLongOption
  <2>4. \A x : ~FitsHere(x)
    BY <1>1, <2>3, OptionFits
  <2>5. \E fault \in ArgvFault : Fail(fault, i)
    BY <1>2 DEF BadLongOption, ArgvFault
  <2> QED
    BY <1>1, <2>4, <2>5, StopHere
<1>3. CASE LongOption
  <2>1. PICK o \in FindLong(g.opts, LongName(b)) :
          \/ g.opts[o].value # "Flag" /\ \E e \in FindEq(b) : TakeInline(o, e)
          \/ /\ FindEq(b) = {} /\ g.opts[o].value # "Takes"
             /\ TakeOpts({}) /\ seen' = Append(seen, o)
          \/ FindEq(b) = {} /\ g.opts[o].value = "Takes" /\ TakeNext(o)
    BY <1>3 DEF LongOption
  <2>2. o \in DOMAIN g.opts /\ FindEq(b) \subseteq Nat /\ seen \in Seq(DOMAIN g.opts)
    BY <1>1, Typed DEF FindEq
  <2>3. /\ OptionsIn(g, b) = {o}
        /\ SpeltRight(g, b) <=> (g.opts[o].value = "Flag" => FindEq(b) = {})
        /\ \A e \in FindEq(b) :
             g.opts[o].value # "Flag" => InlineValue(g, b) = {[role |-> g.opts[o].role, off |-> e]}
        /\ FindEq(b) = {} => InlineValue(g, b) = {}
        /\ FindEq(b) # {} \/ g.opts[o].value # "Takes" => ValueFromNext(g, b) = {}
        /\ FindEq(b) = {} /\ g.opts[o].value = "Takes" => ValueFromNext(g, b) = {g.opts[o].role}
    BY <1>1, LongWord
  <2>4. {seen[n] : n \in DOMAIN seen} \cup {o} = OptionsSeen(g, ws, start, slots) \cup OptionsIn(g, b)
    BY <1>1, <2>3 DEF ArgvInv, SeenSoFar
  <2>5. CASE g.opts[o].value # "Flag" /\ \E e \in FindEq(b) : TakeInline(o, e)
    <3>1. PICK e \in FindEq(b) : TakeInline(o, e)
      BY <2>5
    <3>2. InlineValue(g, b) = {[role |-> g.opts[o].role, off |-> e]} /\ ValueFromNext(g, b) = {} /\ SpeltRight(g, b)
      BY <2>3, <2>5, <3>1
    <3>3. e \in Nat
      BY <2>2
    <3> QED
      BY <1>1, <2>2, <2>4, <3>1, <3>2, <3>3, InlineStep
  <2>6. CASE FindEq(b) = {} /\ g.opts[o].value # "Takes" /\ TakeOpts({}) /\ seen' = Append(seen, o)
    <3>1. InlineValue(g, b) = {} /\ ValueFromNext(g, b) = {} /\ SpeltRight(g, b)
      BY <2>3, <2>6
    <3>2. seen' = Append(seen, o) /\ seen' \in Seq(DOMAIN g.opts)
      BY <2>2, <2>6
    <3>3. {seen'[n] : n \in DOMAIN seen'} = {seen[n] : n \in DOMAIN seen} \cup {o}
      BY <2>2, <3>2, OneMoreSeen
    <3>4. {} \in SUBSET Value
      OBVIOUS
    <3> QED
      BY <1>1, <2>4, <2>6, <3>1, <3>2, <3>3, <3>4, OptsStep
  <2>7. CASE FindEq(b) = {} /\ g.opts[o].value = "Takes" /\ TakeNext(o)
    <3>1. InlineValue(g, b) = {} /\ ValueFromNext(g, b) = {g.opts[o].role} /\ SpeltRight(g, b)
      BY <2>3, <2>7
    <3> QED
      BY <1>1, <2>2, <2>4, <2>7, <3>1, NextWordStep
  <2> QED
    BY <2>1, <2>5, <2>6, <2>7
<1> QED
  BY <1>2, <1>3

(* The options of a cluster up to a byte, and up to the one before.        *)
LEMMA OneMoreShort ==
  ASSUME NEW gr \in Grammar, NEW bytes, NEW n \in Nat, n >= 2, NEW o, o \in FindShort(gr.opts, bytes[n])
  PROVE  ShortsTo(gr, bytes, n) = ShortsTo(gr, bytes, n - 1) \cup {o}
<1>1. FindShort(gr.opts, bytes[n]) = {o}
  BY ShortOnce
<1>2. 2 .. n = (2 .. n - 1) \cup {n}
  OBVIOUS
<1> QED
  BY <1>1, <1>2 DEF ShortsTo

(* The first byte of a cluster, a flag, and its end.                       *)
LEMMA FlagStep ==
  ASSUME ArgvInv, StartCluster \/ ShortFlag
  PROVE  ArgvInv'
<1>1. TypeOK /\ result = {} /\ at \in Nat /\ g \in Grammar /\ seen \in Seq(DOMAIN g.opts)
  BY Typed DEF ArgvInv, StartCluster, AtWord, ShortFlag, AtByte
<1>2. UNCHANGED <<g, ws, start, i, ph, k, slots, result, word, b>>
  BY DEF StartCluster, ShortFlag, input, word, b
<1>3. ReadSoFar' /\ Ended'
  BY <1>1, <1>2 DEF ArgvInv, ReadSoFar, Ended
<1>4. TypeOK'
  BY <1>1, TypeStep DEF Next
<1>5. CASE StartCluster
  <2>1. /\ at' = 2 /\ at = 0 /\ seen' = seen
        /\ ph = "Options" /\ ~word.opaque /\ IsCluster(b)
    BY <1>5 DEF StartCluster, AtWord
  <2>2. FlagsBefore(g, b, 2) /\ ShortsTo(g, b, 2 - 1) = {}
    BY DEF FlagsBefore, ShortsTo
  <2>3. InCluster'
    BY <1>2, <2>1, <2>2 DEF InCluster
  <2>4. SeenSoFar'
    BY <1>2, <2>1, <2>2 DEF ArgvInv, SeenSoFar
  <2> QED
    BY <1>3, <1>4, <2>3, <2>4 DEF ArgvInv
<1>6. CASE ShortFlag
  <2>1. PICK o \in FindShort(g.opts, b[at]) : g.opts[o].value = "Flag" /\ seen' = Append(seen, o)
    BY <1>6 DEF ShortFlag
  <2>2. at' = at + 1 /\ at # 0 /\ at' # 0 /\ at' - 1 = at
    BY <1>1, <1>6 DEF ShortFlag, AtByte
  <2>3. at >= 2
    BY <1>1, <2>2 DEF TypeOK
  <2>4. ph = "Options" /\ ~word.opaque /\ IsCluster(b) /\ FlagsBefore(g, b, at)
    BY <2>2 DEF ArgvInv, InCluster
  <2>5. FlagsBefore(g, b, at + 1)
    <3>1. \A d \in 2 .. (at + 1) - 1 : d \in 2 .. at - 1 \/ d = at
      BY <1>1
    <3> QED
      BY <2>1, <2>4, <3>1 DEF FlagsBefore
  <2>6. InCluster'
    BY <1>2, <2>2, <2>4, <2>5 DEF InCluster
  <2>7. ShortsTo(g, b, at) = ShortsTo(g, b, at - 1) \cup {o}
    <3>1. PICK n \in Nat : n = at /\ n >= 2
      BY <1>1, <2>3
    <3>2. o \in FindShort(g.opts, b[n])
      BY <3>1
    <3>3. ShortsTo(g, b, n) = ShortsTo(g, b, n - 1) \cup {o}
      BY <1>1, <3>1, <3>2, OneMoreShort
    <3> QED
      BY <3>1, <3>3
  <2>8. {seen'[n] : n \in DOMAIN seen'} = {seen[n] : n \in DOMAIN seen} \cup {o}
    BY <1>1, <2>1, OneMoreSeen
  <2>9. {seen[n] : n \in DOMAIN seen} = OptionsSeen(g, ws, start, slots) \cup ShortsTo(g, b, at - 1)
    BY <2>2 DEF ArgvInv, SeenSoFar
  <2>10. SeenSoFar'
    BY <1>2, <2>2, <2>7, <2>8, <2>9 DEF SeenSoFar
  <2> QED
    BY <1>3, <1>4, <2>6, <2>10 DEF ArgvInv
<1> QED
  BY <1>5, <1>6

(* The end of a cluster of flags, and an option that may have a value.     *)
LEMMA ClusterStep ==
  ASSUME ArgvInv, BadShortOption \/ ShortWithValue \/ EndCluster
  PROVE  ArgvInv'
<1>1. /\ TypeOK /\ result = {} /\ at \in Nat /\ at # 0 /\ i <= Len(ws) /\ at \in 2 .. Len(b) + 1
      /\ ph = "Options" /\ ~word.opaque /\ IsCluster(b) /\ FlagsBefore(g, b, at)
      /\ {seen[n] : n \in DOMAIN seen} = OptionsSeen(g, ws, start, slots) \cup ShortsTo(g, b, at - 1)
  <2>1. TypeOK /\ result = {} /\ at # 0
    BY DEF ArgvInv, BadShortOption, ShortWithValue, EndCluster, AtByte
  <2>2. at \in Nat /\ i <= Len(ws) /\ at \in 2 .. Len(b) + 1
    BY <2>1 DEF TypeOK
  <2> QED
    BY <2>1, <2>2 DEF ArgvInv, InCluster, SeenSoFar
<1>2. OptionWord
  BY <1>1 DEF OptionWord
<1>3. g \in Grammar /\ b \in Seq(Byte) /\ Len(b) \in Nat /\ seen \in Seq(DOMAIN g.opts)
  BY <1>1, Typed
<1>4. CASE BadShortOption
  <2>1. at \in 2 .. Len(b) /\ FindShort(g.opts, b[at]) = {}
    BY <1>1, <1>3, <1>4 DEF BadShortOption, AtByte
  <2>2. ~SpeltRight(g, b)
    BY <1>1, <1>3, <2>1, BadCluster
  <2>3. \A x : ~FitsHere(x)
    BY <1>1, <1>2, <2>2, OptionFits
  <2>4. Fail("UnknownOption", i) /\ "UnknownOption" \in ArgvFault
    BY <1>4 DEF BadShortOption, ArgvFault
  <2> QED
    BY <1>1, <2>3, <2>4, StopHere
<1>5. CASE ShortWithValue
  <2>1. PICK o \in FindShort(g.opts, b[at]) :
          \/ g.opts[o].value # "Flag" /\ at < Len(b) /\ TakeInline(o, at)
          \/ g.opts[o].value = "Takes" /\ at = Len(b) /\ TakeNext(o)
          \/ /\ g.opts[o].value = "Optional" /\ at = Len(b)
             /\ TakeOpts({}) /\ seen' = Append(seen, o)
    BY <1>5 DEF ShortWithValue
  <2>2. at \in 2 .. Len(b) /\ at >= 2
    BY <1>1, <1>3, <1>5 DEF ShortWithValue, AtByte
  <2>3. o \in DOMAIN g.opts /\ g.opts[o].value # "Flag"
    BY <1>1, <2>1, Typed
  <2>4. /\ OptionsIn(g, b) = ShortsTo(g, b, at)
        /\ SpeltRight(g, b)
        /\ at < Len(b) => InlineValue(g, b) = {[role |-> g.opts[o].role, off |-> at]}
        /\ at = Len(b) => InlineValue(g, b) = {}
        /\ at < Len(b) \/ g.opts[o].value # "Takes" => ValueFromNext(g, b) = {}
        /\ at = Len(b) /\ g.opts[o].value = "Takes" => ValueFromNext(g, b) = {g.opts[o].role}
    BY <1>1, <1>3, <2>2, <2>3, ClusterWord
  <2>5. {seen[n] : n \in DOMAIN seen} \cup {o} = OptionsSeen(g, ws, start, slots) \cup OptionsIn(g, b)
    <3>1. ShortsTo(g, b, at) = ShortsTo(g, b, at - 1) \cup {o}
      <4>1. PICK n \in Nat : n = at /\ n >= 2
        BY <1>1, <2>2
      <4>2. o \in FindShort(g.opts, b[n])
        BY <4>1
      <4>3. g \in Grammar /\ n \in Nat /\ n >= 2
        BY <1>3, <4>1
      <4>4. ShortsTo(g, b, n) = ShortsTo(g, b, n - 1) \cup {o}
        BY <4>2, <4>3, OneMoreShort
      <4> QED
        BY <4>1, <4>4
    <3> QED
      BY <1>1, <2>4, <3>1
  <2>6. CASE at < Len(b) /\ TakeInline(o, at)
    BY <1>1, <1>2, <2>3, <2>4, <2>5, <2>6, InlineStep
  <2>7. CASE g.opts[o].value = "Takes" /\ at = Len(b) /\ TakeNext(o)
    BY <1>1, <1>2, <2>3, <2>4, <2>5, <2>7, NextWordStep
  <2>8. CASE g.opts[o].value = "Optional" /\ at = Len(b) /\ TakeOpts({}) /\ seen' = Append(seen, o)
    <3>1. InlineValue(g, b) = {} /\ ValueFromNext(g, b) = {}
      BY <2>4, <2>8
    <3>2. seen' = Append(seen, o) /\ seen' \in Seq(DOMAIN g.opts)
      BY <1>3, <2>3, <2>8
    <3>3. {seen'[n] : n \in DOMAIN seen'} = {seen[n] : n \in DOMAIN seen} \cup {o}
      BY <1>3, <3>2, OneMoreSeen
    <3>4. {} \in SUBSET Value
      OBVIOUS
    <3> QED
      BY <1>1, <1>2, <2>4, <2>5, <2>8, <3>1, <3>2, <3>3, <3>4, OptsStep
  <2> QED
    BY <2>1, <2>6, <2>7, <2>8
<1>6. CASE EndCluster
  <2>1. at = Len(b) + 1 /\ at - 1 = Len(b)
    BY <1>1, <1>3, <1>6 DEF EndCluster
  <2>2. /\ OptionsIn(g, b) = ShortsTo(g, b, Len(b)) /\ SpeltRight(g, b)
        /\ InlineValue(g, b) = {} /\ ValueFromNext(g, b) = {}
    BY <1>1, <1>3, <2>1, FlagsWord
  <2>3. TakeOpts({}) /\ seen' = seen /\ {} \in SUBSET Value
    BY <1>6 DEF EndCluster
  <2>4. {seen'[n] : n \in DOMAIN seen'} = OptionsSeen(g, ws, start, slots) \cup OptionsIn(g, b)
    BY <1>1, <2>1, <2>2, <2>3
  <2>5. seen' \in Seq(DOMAIN g.opts)
    BY <1>3, <2>3
  <2> QED
    BY <1>1, <1>2, <2>2, <2>3, <2>4, <2>5, OptsStep
<1> QED
  BY <1>4, <1>5, <1>6

(* The end of the words.                                                   *)
LEMMA FinishStep ==
  ASSUME ArgvInv, Finish
  PROVE  ArgvInv'
<1>1. TypeOK'
  BY TypeStep DEF ArgvInv, Next
<1>2. UNCHANGED <<g, ws, start, i, at, ph, k, slots, seen, word, b>>
  BY DEF Finish, input, word, b
<1>3. (ReadSoFar /\ InCluster /\ SeenSoFar)'
  BY <1>2 DEF ArgvInv, ReadSoFar, InCluster, SeenSoFar
<1>4. at = 0 /\ i = Len(ws) + 1
  <2>1. i \in start + 1 .. Len(ws) + 1 /\ Len(ws) \in Nat /\ start \in 0 .. Len(ws) /\ i > Len(ws)
    BY Typed DEF ArgvInv, Finish
  <2> QED
    BY <2>1 DEF Finish
<1>5. \A r \in result' : r.kind = "Parsed"
  BY DEF Finish
<1> QED
  BY <1>1, <1>2, <1>3, <1>4, <1>5 DEF ArgvInv, Ended

(* A parse that is about to start.                                         *)
Fresh ==
  /\ g \in Grammar /\ ws \in Seq(Word) /\ start \in 0 .. Len(ws)
  /\ i = start + 1 /\ at = 0 /\ ph = "Options" /\ k = 0
  /\ slots = <<>> /\ seen = <<>> /\ result = {}

(* Before the first word nothing has been read.                            *)
LEMMA ArgvStart == Fresh => ArgvInv
<1> SUFFICES ASSUME Fresh PROVE ArgvInv
  OBVIOUS
<1>1. start \in Nat /\ Len(ws) \in Nat
  BY DEF Fresh
<1>2. TypeOK
  BY <1>1 DEF Fresh, TypeOK, Phase
<1>3. Len(slots) = 0 /\ DOMAIN slots = {} /\ DOMAIN seen = {} /\ 1 .. 0 = {}
  BY DEF Fresh
<1>4. /\ Claims(g, ws, start, slots, 0) = {} /\ OptionsAt(g, slots, 1) /\ ~DashDashBefore(slots, 1)
      /\ OptionsSeen(g, ws, start, slots) = {}
  BY <1>3 DEF Claims, OptionsAt, DashDashBefore, OptionsSeen
<1>5. Rank(slots, 1) = 0
  BY <1>3, FS_EmptySet DEF Rank
<1>6. ReadOK(g, ws, start, slots)
  BY <1>3 DEF ReadOK, SameBefore
<1>7. ReadSoFar
  BY <1>1, <1>3, <1>4, <1>5, <1>6 DEF Fresh, ReadSoFar
<1> QED
  BY <1>2, <1>3, <1>4, <1>7 DEF Fresh, ArgvInv, InCluster, SeenSoFar, Ended

(* Every step keeps the walk's invariant.                                  *)
LEMMA ArgvStep == ArgvInv /\ [Next]_vars => ArgvInv'
<1>1. ASSUME ArgvInv, UNCHANGED vars
      PROVE  ArgvInv'
  <2>1. TypeOK'
    BY <1>1, TypeStep DEF ArgvInv
  <2>2. UNCHANGED <<g, ws, start, i, at, ph, k, slots, seen, result, word, b>>
    BY <1>1 DEF vars, word, b
  <2>3. ReadSoFar'
    BY <1>1, <2>2 DEF ArgvInv, ReadSoFar
  <2>4. InCluster' /\ SeenSoFar' /\ Ended'
    BY <1>1, <2>2 DEF ArgvInv, InCluster, SeenSoFar, Ended
  <2> QED
    BY <2>1, <2>3, <2>4 DEF ArgvInv
<1> QED
  BY <1>1, BadWordStep, OperandStep, EndOptsStep, LongStep, FlagStep, ClusterStep, FinishStep
     DEF Next, Done

(* The walk reads the words in the only way there is: at every step, and   *)
(* for every grammar and argv, its slots fit and begin every reading.      *)
THEOREM ArgvCorrect == Spec => []ArgvInv
<1>1. Init => ArgvInv
  <2>1. SUFFICES ASSUME NEW in \in Inputs, ws = in.ws, StartParse(in.g, in.start)
                 PROVE  Fresh
    BY ArgvStart DEF Init
  <2>2. in.g \in Grammar /\ in.ws \in Seq(Word) /\ in.start \in 0 .. Len(in.ws)
    BY ArgvAssumption
  <2> QED
    BY <2>1, <2>2 DEF StartParse, Fresh
<1> QED
  BY <1>1, ArgvStep, PTL DEF Spec

(* A finished parse has a reading and only that one.                       *)
LEMMA ParsedReads ==
  ASSUME ArgvInv, Parsed
  PROVE  Reads(g, ws, start, slots) /\ at = 0
<1>1. at = 0 /\ i = Len(ws) + 1
  BY DEF ArgvInv, Ended, Parsed
<1>2. Len(slots) = Len(ws) - start
  BY <1>1, Typed DEF ArgvInv, ReadSoFar
<1> QED
  BY <1>1, <1>2 DEF ArgvInv, ReadSoFar, ReadOK, Reads

(* Slots stay aligned with the words, and a failed parse stopped at the    *)
(* first word without a slot or at the code an option would take.          *)
THEOREM SlotsTellTheWordsAlways == Spec => []SlotsTellTheWords
<1>1. ArgvInv => SlotsTellTheWords
  <2>1. SUFFICES ASSUME ArgvInv PROVE SlotsTellTheWords
    OBVIOUS
  <2>2. \A n \in DOMAIN slots : Fits(g, ws, start, slots, n)
    BY <2>1 DEF ArgvInv, ReadSoFar, ReadOK
  <2>3. Parsed =>
          /\ Reads(g, ws, start, slots)
          /\ {seen[n] : n \in DOMAIN seen} = OptionsSeen(g, ws, start, slots)
    BY <2>1, ParsedReads DEF ArgvInv, SeenSoFar
  <2>4. ASSUME Failed, NEW r \in result
        PROVE  \/ r.word = start + Len(slots) + 1
               \/ r.kind = "CodeRole" /\ r.word = start + Len(slots) + 2
    <3>1. \A q \in result : q = r
      BY <2>1 DEF ArgvInv, TypeOK
    <3>2. r.kind # "Parsed"
      BY <2>4, <3>1 DEF Failed, Parsed
    <3>3. /\ start + (Len(slots) + 1) = start + Len(slots) + 1
          /\ start + (Len(slots) + 1) + 1 = start + Len(slots) + 2
      BY <2>1, Typed DEF ArgvInv
    <3> QED
      BY <2>1, <3>2, <3>3 DEF ArgvInv, Ended
  <2> QED
    BY <2>2, <2>3, <2>4 DEF SlotsTellTheWords
<1> QED
  BY <1>1, ArgvCorrect, PTL

(* An argv is Unknown only when the grammar reads it in no way at all.     *)
THEOREM UnknownHasNoReadingAlways == Spec => []UnknownHasNoReading
<1>1. ArgvInv => UnknownHasNoReading
  <2>1. SUFFICES ASSUME ArgvInv, Failed PROVE Readings(g, ws, start) = {}
    BY DEF UnknownHasNoReading
  <2>2. PICK r \in result : r.kind # "Parsed"
    BY <2>1 DEF Failed, Parsed
  <2> QED
    BY <2>1, <2>2 DEF ArgvInv, Ended
<1> QED
  BY <1>1, ArgvCorrect, PTL

-----------------------------------------------------------------------------
(* Expansions.                                                             *)

(* A word read as options is known to its last byte.                       *)
LEMMA OptsKnown ==
  ASSUME NEW gr, NEW words, NEW st, NEW s, NEW n, Fits(gr, words, st, s, n), s[n].kind = "Opts"
  PROVE  ~words[st + n].opaque
<1>1. \A r : OptValueSlot(r).kind = "OptValue" /\ OperandSlot(r).kind = "Operand"
  BY DEF OptValueSlot, OperandSlot
<1>2. DashDashSlot.kind = "DashDash"
  BY DEF DashDashSlot
<1>3. \A S : s[n] \notin {OptValueSlot(r) : r \in S} /\ s[n] \notin {OperandSlot(r) : r \in S}
  BY <1>1
<1> QED
  BY <1>2, <1>3, FitsEither DEF FitsWord

(* What a word may be, its expansion is.                                   *)
LEMMA ExpandedWord ==
  ASSUME NEW gr, NEW w \in Word, NEW text \in Seq(Byte), NEW v,
         v = IF w.opaque THEN [lit |-> w.lit \o text, opaque |-> FALSE] ELSE w,
         ~MayBeOption(w), ~PlusRejected(gr, w)
  PROVE  ~MayBeOption(v) /\ ~PlusRejected(gr, v)
<1>1. SUFFICES ASSUME w.opaque
               PROVE  ~MayBeOption(v) /\ ~PlusRejected(gr, v)
  OBVIOUS
<1>2. v.lit = w.lit \o text /\ v.opaque = FALSE
  BY <1>1
<1>3. w.lit \in Seq(Byte) /\ w.lit # <<>> /\ ~StartsWith(w.lit, "-")
  BY <1>1 DEF MayBeOption, Word
<1>4. Len(w.lit) > 0 /\ v.lit[1] = w.lit[1]
  BY <1>2, <1>3
<1>5. v.lit[1] # "-"
  BY <1>3, <1>4 DEF StartsWith
<1>6. gr.plus = "Reject" => v.lit[1] # "+"
  BY <1>4 DEF PlusRejected, StartsWith
<1> QED
  BY <1>2, <1>5, <1>6 DEF MayBeOption, PlusRejected, StartsWith

(* A slot that fits a word fits every expansion of it.                     *)
LEMMA FitsExpanded ==
  ASSUME NEW gr \in Grammar, NEW words \in Seq(Word), NEW st \in 0 .. Len(words),
         NEW s \in Seq(Slot), Len(s) = Len(words) - st,
         \A m \in DOMAIN s : Fits(gr, words, st, s, m),
         NEW t \in [DOMAIN words -> Seq(Byte)], NEW n \in DOMAIN s,
         NEW e, e = Expanded(words, t)
  PROVE  Fits(gr, e, st, s, n)
<1>1. /\ DOMAIN s = 1 .. Len(s) /\ DOMAIN words = 1 .. Len(words) /\ Len(words) \in Nat /\ Len(s) \in Nat
      /\ \A m \in DOMAIN s : st + m \in DOMAIN words
  OBVIOUS
<1>2. /\ DOMAIN e = DOMAIN words
      /\ \A m \in DOMAIN words :
           e[m] = IF words[m].opaque THEN [lit |-> words[m].lit \o t[m], opaque |-> FALSE] ELSE words[m]
  BY DEF Expanded
<1>3. \A m \in DOMAIN words : words[m] \in Word
  OBVIOUS
<1>4. Len(e) = Len(words)
  BY <1>1, <1>2
<1>5. \A m \in DOMAIN s : s[m].kind = "Opts" => e[st + m] = words[st + m]
  BY <1>1, <1>2, OptsKnown
<1>6. Claims(gr, e, st, s, n - 1) = Claims(gr, words, st, s, n - 1)
  BY <1>5 DEF Claims
<1>7. PICK options, literal, rank, more :
        /\ options = OptionsAt(gr, s, n) /\ literal = DashDashBefore(s, n)
        /\ rank = Rank(s, n) /\ more = (st + n < Len(words))
  OBVIOUS
<1>8. PICK w, v : w \in Word /\ w = words[st + n] /\ v = e[st + n]
  BY <1>1, <1>3
<1>9. v = IF w.opaque THEN [lit |-> w.lit \o t[st + n], opaque |-> FALSE] ELSE w
  BY <1>1, <1>2, <1>8
<1>10. t[st + n] \in Seq(Byte)
  BY <1>1
<1>11. FitsWord(gr, w, options, literal, rank, more, s[n]) => FitsWord(gr, v, options, literal, rank, more, s[n])
  <2>1. ~w.opaque => v = w
    BY <1>9
  <2>2. IsDashDash(w) => v = w
    BY <2>1 DEF IsDashDash
  <2>3. ~(MayBeOption(w) \/ PlusRejected(gr, w)) => ~(MayBeOption(v) \/ PlusRejected(gr, v))
    BY <1>8, <1>9, <1>10, ExpandedWord
  <2> QED
    BY <2>1, <2>2, <2>3 DEF FitsWord
<1>12. Fits(gr, words, st, s, n)
  OBVIOUS
<1> QED
  BY <1>4, <1>6, <1>7, <1>8, <1>11, <1>12, FitsEither

(* Whatever the shell puts in place of the opaque parts of a parsed argv,  *)
(* its words mean the same.                                                *)
THEOREM ExpansionsReadTheSameAlways == Spec => []ExpansionsReadTheSame
<1>1. ArgvInv => ExpansionsReadTheSame
  <2>1. SUFFICES ASSUME ArgvInv, Parsed, NEW t \in [DOMAIN ws -> Texts]
                 PROVE  Reads(g, Expanded(ws, t), start, slots)
    BY DEF ExpansionsReadTheSame
  <2>2. /\ g \in Grammar /\ ws \in Seq(Word) /\ start \in 0 .. Len(ws) /\ slots \in Seq(Slot)
        /\ Len(slots) = Len(ws) - start /\ \A n \in DOMAIN slots : Fits(g, ws, start, slots, n)
    BY <2>1, Typed, ParsedReads DEF ArgvInv, Reads
  <2>3. t \in [DOMAIN ws -> Seq(Byte)]
    BY TextsAssumption
  <2>4. PICK e : e = Expanded(ws, t)
    OBVIOUS
  <2>5. \A n \in DOMAIN slots : Fits(g, e, start, slots, n)
    BY <2>2, <2>3, <2>4, FitsExpanded
  <2>6. Len(e) = Len(ws)
    <3>1. DOMAIN e = DOMAIN ws
      BY <2>4 DEF Expanded
    <3> QED
      BY <2>2, <3>1
  <2> QED
    BY <2>2, <2>4, <2>5, <2>6 DEF Reads
<1> QED
  BY <1>1, ArgvCorrect, PTL

-----------------------------------------------------------------------------
(* Keys.                                                                   *)

(* What the types say of a row.                                            *)
LEMMA RowTypes ==
  ASSUME NEW rs \in Seq(Row), NEW m \in DOMAIN rs
  PROVE  /\ rs[m].key \in Seq(Seq(Byte)) /\ Len(rs[m].key) \in Nat
         /\ DOMAIN rs[m].key = 1 .. Len(rs[m].key)
         /\ rs[m].grammar \in Grammar /\ rs[m].runs_code \in BOOLEAN
<1>1. rs[m] \in Row
  OBVIOUS
<1>2. rs[m].key \in Seq(Seq(Byte)) /\ rs[m].grammar \in Grammar /\ rs[m].runs_code \in BOOLEAN
  BY <1>1 DEF Row
<1> QED
  BY <1>2

(* Of two keys that match, the longer extends the shorter.                 *)
LEMMA LongerExtends ==
  ASSUME NEW rs \in Seq(Row), NEW words \in Seq(Word), NEW m \in DOMAIN rs, NEW n \in DOMAIN rs,
         KeyMatches(rs[m].key, words), KeyMatches(rs[n].key, words),
         Len(rs[m].key) < Len(rs[n].key)
  PROVE  Extends(rs[n].key, rs[m].key)
<1>1. \A p \in DOMAIN rs[m].key : p \in DOMAIN rs[n].key
  BY RowTypes
<1> QED
  BY <1>1 DEF Extends, KeyMatches

(* Two keys of one length that match are one row's.                        *)
LEMMA SameLength ==
  ASSUME NEW rs \in Seq(Row), LoaderChecked(rs), NEW words \in Seq(Word),
         NEW m \in DOMAIN rs, NEW n \in DOMAIN rs,
         KeyMatches(rs[m].key, words), KeyMatches(rs[n].key, words),
         Len(rs[m].key) = Len(rs[n].key)
  PROVE  m = n
<1>1. PICK x, y : x = rs[m].key /\ y = rs[n].key
  OBVIOUS
<1>2. /\ x \in Seq(Seq(Byte)) /\ y \in Seq(Seq(Byte)) /\ Len(x) = Len(y)
      /\ DOMAIN x = 1 .. Len(x) /\ DOMAIN y = 1 .. Len(y)
  BY <1>1, RowTypes
<1>3. \A p \in DOMAIN x : x[p] = y[p]
  BY <1>1, <1>2 DEF KeyMatches
<1>4. x = y
  BY <1>2, <1>3, SeqEqual
<1> QED
  BY <1>1, <1>4 DEF LoaderChecked

-----------------------------------------------------------------------------
(* The first word after a key.                                             *)

(* Unless it is an operand, the first argument word is literal and starts  *)
(* with "-".                                                               *)
LEMMA FirstSlot ==
  ASSUME NEW gr \in Grammar, NEW words \in Seq(Word), NEW st \in 0 .. Len(words),
         NEW t \in Readings(gr, words, st), 1 \in DOMAIN t
  PROVE  \/ t[1].kind = "Operand"
         \/ ~words[st + 1].opaque /\ StartsWith(words[st + 1].lit, "-")
<1>1. 0 \notin DOMAIN t /\ Fits(gr, words, st, t, 1)
  BY ReadingFits
<1>2. Claims(gr, words, st, t, 1 - 1) = {}
  BY <1>1 DEF Claims
<1>3. PICK w : w = words[st + 1]
  OBVIOUS
<1>4. FitsWord(gr, w, OptionsAt(gr, t, 1), DashDashBefore(t, 1), Rank(t, 1),
               st + 1 < Len(words), t[1])
  BY <1>1, <1>2, <1>3, FitsUnclaimed
<1>5. w \in Word
  <2>1. st + 1 \in DOMAIN words
    BY DEF Readings
  <2> QED
    BY <1>3, <2>1
<1>6. w.lit \in Seq(Byte)
  BY <1>5 DEF Word
<1>7. IsLong(w.lit) \/ IsCluster(w.lit) \/ IsDashDash(w) => StartsWith(w.lit, "-")
  BY <1>6 DEF IsLong, IsCluster, IsDashDash, StartsWith
<1>8. IsDashDash(w) => ~w.opaque
  BY DEF IsDashDash
<1>9. \A r : OperandSlot(r).kind = "Operand"
  BY DEF OperandSlot
<1> QED
  BY <1>3, <1>4, <1>7, <1>8, <1>9 DEF FitsWord

(* A row with a longer key that matches, and so is no word's expansion,    *)
(* starts with a word that its parent reads as an operand: the two do not  *)
(* both cover the command.                                                 *)
LEMMA ChildTakesItAll ==
  ASSUME NEW rs \in Seq(Row), LoaderChecked(rs), NEW words \in Seq(Word),
         NEW m \in DOMAIN rs, NEW n \in DOMAIN rs,
         CoversRow(rs, m, words), CoversRow(rs, n, words),
         Len(rs[m].key) < Len(rs[n].key)
  PROVE  FALSE
<1> DEFINE gr == rs[m].grammar
           st == Len(rs[m].key)
<1>1. KeyMatches(rs[m].key, words) /\ KeyMatches(rs[n].key, words) /\ ~rs[n].runs_code
  BY DEF CoversRow
<1>2. Extends(rs[n].key, rs[m].key) /\ IsParent(rs, m)
  BY <1>1, LongerExtends DEF IsParent
<1>3. PICK t \in Readings(gr, words, st) : ~HasOperand(t)
  BY <1>2 DEF CoversRow
<1>4. /\ gr \in Grammar /\ st \in Nat /\ st + 1 \in DOMAIN rs[n].key /\ Len(rs[n].key) <= Len(words)
      /\ st \in 0 .. Len(words) /\ 1 \in 1 .. Len(words) - st
  BY <1>1, RowTypes DEF KeyMatches
<1>5. 1 \in DOMAIN t
  BY <1>3, <1>4 DEF Readings
<1>6. t[1].kind # "Operand"
  BY <1>3, <1>5 DEF HasOperand, IsOperand
<1>7. StartsWith(words[st + 1].lit, "-")
  BY <1>3, <1>4, <1>5, <1>6, FirstSlot
<1>8. words[st + 1].lit = rs[n].key[st + 1]
  BY <1>1, <1>4 DEF KeyMatches
<1> HIDE DEF st
<1>9. OptionLike(rs[n].key[st + 1])
  BY <1>7, <1>8 DEF OptionLike
<1> QED
  BY <1>1, <1>4, <1>9 DEF LoaderChecked

(* At most one row covers a command.                                       *)
LEMMA OneCovers ==
  ASSUME NEW rs \in Seq(Row), LoaderChecked(rs), NEW words \in Seq(Word),
         NEW m \in DOMAIN rs, NEW n \in DOMAIN rs,
         CoversRow(rs, m, words), CoversRow(rs, n, words)
  PROVE  m = n
<1>1. Len(rs[m].key) \in Nat /\ Len(rs[n].key) \in Nat
  BY RowTypes
<1>2. ~(Len(rs[m].key) < Len(rs[n].key)) /\ ~(Len(rs[n].key) < Len(rs[m].key))
  BY ChildTakesItAll
<1> QED
  BY <1>1, <1>2, SameLength DEF CoversRow

-----------------------------------------------------------------------------
(* Readings of expansions.                                                 *)

(* The roles that occur in a reading are roles.                            *)
LEMMA RolesOf ==
  ASSUME NEW gr \in Grammar
  PROVE  /\ \A bytes : ValueFromNext(gr, bytes) \subseteq Role
         /\ \A n \in Nat : OperandRole(gr, n) \subseteq Role
         /\ \A bytes \in Seq(Byte) : InlineValue(gr, bytes) \subseteq Value
<1>1. gr.opts \in Seq(Opt) /\ gr.positionals \in Seq(Role) /\ gr.rest \subseteq Role
  BY DEF Grammar
<1>2. \A o \in DOMAIN gr.opts : gr.opts[o].role \in Role
  <2>1. \A o \in DOMAIN gr.opts : gr.opts[o] \in Opt
    BY <1>1
  <2> QED
    BY <2>1 DEF Opt
<1>3. \A c : FindShort(gr.opts, c) \subseteq DOMAIN gr.opts /\ FindLong(gr.opts, c) \subseteq DOMAIN gr.opts
  BY DEF FindShort, FindLong
<1>4. ASSUME NEW bytes
      PROVE  ValueFromNext(gr, bytes) \subseteq Role
  BY <1>2, <1>3 DEF ValueFromNext
<1>5. ASSUME NEW n \in Nat
      PROVE  OperandRole(gr, n) \subseteq Role
  BY <1>1 DEF OperandRole
<1>6. ASSUME NEW bytes \in Seq(Byte)
      PROVE  InlineValue(gr, bytes) \subseteq Value
  <2>1. FindEq(bytes) \subseteq Nat /\ 2 .. Len(bytes) - 1 \subseteq Nat
    BY DEF FindEq
  <2>2. \A o \in DOMAIN gr.opts, e \in Nat : [role |-> gr.opts[o].role, off |-> e] \in Value
    BY <1>2 DEF Value
  <2>3. CASE IsLong(bytes)
    BY <1>3, <2>1, <2>2, <2>3 DEF InlineValue
  <2>4. CASE ~IsLong(bytes)
    <3>1. ASSUME NEW v \in InlineValue(gr, bytes)
          PROVE  v \in Value
      <4>1. PICK n \in 2 .. Len(bytes) - 1 :
              v \in {[role |-> gr.opts[o].role, off |-> n] :
                       o \in {p \in FindShort(gr.opts, bytes[n]) : gr.opts[p].value # "Flag"}}
        BY <2>4, <3>1 DEF InlineValue
      <4>2. PICK o \in FindShort(gr.opts, bytes[n]) : v = [role |-> gr.opts[o].role, off |-> n]
        BY <4>1
      <4> QED
        BY <1>3, <2>1, <2>2, <4>1, <4>2
    <3> QED
      BY <3>1
  <2> QED
    BY <2>3, <2>4
<1> QED
  BY <1>4, <1>5, <1>6

(* A slot that fits a word is one of those the word may have.              *)
LEMMA FitsIsSlotFor ==
  ASSUME NEW gr \in Grammar, NEW words, NEW st, NEW s, NEW n \in Nat, Fits(gr, words, st, s, n)
  PROVE  s[n] \in SlotsFor(gr, words[st + n])
<1>1. Claims(gr, words, st, s, n - 1) \subseteq Role
  BY RolesOf DEF Claims
<1>2. OperandRole(gr, Rank(s, n)) \subseteq Role
  <2>1. IsFiniteSet(1 .. n - 1)
    BY FS_Interval
  <2>2. IsFiniteSet({m \in 1 .. n - 1 : s[m].kind = "Operand"})
    BY <2>1, FS_Subset
  <2>3. Rank(s, n) \in Nat
    BY <2>2, FS_CardinalityType DEF Rank
  <2> QED
    BY <2>3, RolesOf
<1>3. PICK claim \in SUBSET Role, role \in SUBSET Role :
        claim = Claims(gr, words, st, s, n - 1) /\ role = OperandRole(gr, Rank(s, n))
  BY <1>1, <1>2
<1>4. \/ s[n] \in {OptValueSlot(r) : r \in claim \ {"Code"}}
      \/ s[n] = OptsSlot(InlineValue(gr, words[st + n].lit))
      \/ s[n] = DashDashSlot
      \/ s[n] \in {OperandSlot(r) : r \in role \ {"Code"}}
  BY <1>3 DEF Fits
<1> QED
  BY <1>4 DEF SlotsFor

(* A reading is a list of slots.                                           *)
LEMMA ReadingType ==
  ASSUME NEW gr \in Grammar, NEW words \in Seq(Word), NEW st \in 0 .. Len(words),
         NEW t \in Readings(gr, words, st)
  PROVE  t \in Seq(Slot) /\ Len(t) = Len(words) - st
<1>1. ASSUME NEW w \in Word
      PROVE  SlotsFor(gr, w) \subseteq Slot
  <2>1. w.lit \in Seq(Byte)
    BY DEF Word
  <2>2. InlineValue(gr, w.lit) \in SUBSET Value
    BY <2>1, RolesOf
  <2>3. OptsSlot(InlineValue(gr, w.lit)) \in Slot
    BY <2>2 DEF OptsSlot, Slot, Role
  <2>4. DashDashSlot \in Slot /\ \A r \in Role : OptValueSlot(r) \in Slot /\ OperandSlot(r) \in Slot
    BY DEF DashDashSlot, OptValueSlot, OperandSlot, Slot, Role
  <2> QED
    BY <2>3, <2>4 DEF SlotsFor
<1>2. Len(words) - st \in Nat /\ \A n \in st + 1 .. Len(words) : words[n] \in Word
  OBVIOUS
<1>3. UNION {SlotsFor(gr, words[n]) : n \in st + 1 .. Len(words)} \subseteq Slot
  BY <1>1, <1>2
<1>4. t \in [1 .. Len(words) - st -> Slot]
  BY <1>3 DEF Readings
<1> QED
  BY <1>2, <1>4

(* Slots that read the words are a reading of them.                        *)
LEMMA ReadsIsReading ==
  ASSUME NEW gr \in Grammar, NEW words, NEW st \in Nat, Len(words) \in Nat,
         NEW s \in Seq(Slot), Reads(gr, words, st, s)
  PROVE  s \in Readings(gr, words, st)
<1>1. DOMAIN s = 1 .. Len(words) - st
  BY DEF Reads
<1>2. \A n \in DOMAIN s : s[n] \in SlotsFor(gr, words[st + n]) /\ st + n \in st + 1 .. Len(words)
  BY <1>1, FitsIsSlotFor DEF Reads
<1>3. s \in [1 .. Len(words) - st -> UNION {SlotsFor(gr, words[n]) : n \in st + 1 .. Len(words)}]
  BY <1>1, <1>2
<1> QED
  BY <1>3 DEF Readings

(* A row that covers a command covers each of its expansions: the first    *)
(* word after the key is literal or an operand, so no row that runs code   *)
(* comes to match, and the words are read as before.                       *)
LEMMA CoversExpanded ==
  ASSUME NEW rs \in Seq(Row), LoaderChecked(rs), NEW words \in Seq(Word), NEW m \in DOMAIN rs,
         CoversRow(rs, m, words), NEW t \in [DOMAIN words -> Seq(Byte)],
         NEW e, e = Expanded(words, t)
  PROVE  CoversRow(rs, m, e)
<1> DEFINE gr == rs[m].grammar
           st == Len(rs[m].key)
<1>1. /\ gr \in Grammar /\ st \in Nat /\ Len(words) \in Nat /\ DOMAIN words = 1 .. Len(words)
      /\ DOMAIN rs[m].key = 1 .. st /\ rs[m].key \in Seq(Seq(Byte))
  BY RowTypes
<1>2. /\ DOMAIN e = DOMAIN words
      /\ \A p \in DOMAIN words :
           e[p] = IF words[p].opaque THEN [lit |-> words[p].lit \o t[p], opaque |-> FALSE] ELSE words[p]
  BY DEF Expanded
<1>3. Len(e) = Len(words)
  BY <1>1, <1>2
<1>4. st \in 0 .. Len(words) /\ \A p \in DOMAIN rs[m].key : p \in DOMAIN words
  BY <1>1 DEF CoversRow, KeyMatches
<1>5. KeyMatches(rs[m].key, e)
  BY <1>2, <1>3, <1>4 DEF CoversRow, KeyMatches
<1>6. PICK u \in Readings(gr, words, st) : ~(IsParent(rs, m) /\ HasOperand(u))
  BY DEF CoversRow
<1>7. u \in Seq(Slot) /\ Len(u) = Len(words) - st /\ \A n \in DOMAIN u : Fits(gr, words, st, u, n)
  <2> HIDE DEF gr, st
  <2>1. \A n \in DOMAIN u : Fits(gr, words, st, u, n)
    BY <1>1, <1>4, <1>6, ReadingFits
  <2>2. u \in Seq(Slot) /\ Len(u) = Len(words) - st
    BY <1>1, <1>4, <1>6, ReadingType
  <2> QED
    BY <2>1, <2>2
<1>8. u \in Readings(gr, e, st)
  <2>1. \A n \in DOMAIN u : Fits(gr, e, st, u, n)
    BY <1>1, <1>4, <1>7, FitsExpanded
  <2>2. Reads(gr, e, st, u)
    BY <1>3, <1>7, <2>1 DEF Reads
  <2> QED
    BY <1>1, <1>3, <1>7, <2>2, ReadsIsReading
<1>9. ASSUME NEW n \in DOMAIN rs, rs[n].runs_code, Extends(rs[n].key, rs[m].key),
             KeyMatches(rs[n].key, e)
      PROVE  FALSE
  <2>1. /\ rs[n].key \in Seq(Seq(Byte)) /\ Len(rs[n].key) \in Nat /\ DOMAIN rs[n].key = 1 .. Len(rs[n].key)
        /\ st < Len(rs[n].key) /\ Len(rs[n].key) <= Len(words)
    BY <1>3, <1>9, RowTypes DEF Extends, KeyMatches
  <2>2. 1 \in DOMAIN u /\ st + 1 \in DOMAIN words /\ st + 1 \in DOMAIN rs[n].key
    <3> HIDE DEF st
    <3>1. 1 <= Len(u) /\ Len(u) \in Nat /\ DOMAIN u = 1 .. Len(u)
      BY <1>1, <1>7, <2>1
    <3> QED
      BY <1>1, <2>1, <3>1
  <2>3. u[1].kind # "Operand"
    BY <1>6, <1>9, <2>2 DEF IsParent, HasOperand, IsOperand
  <2>4. ~words[st + 1].opaque /\ StartsWith(words[st + 1].lit, "-")
    BY <1>1, <1>4, <1>6, <2>2, <2>3, FirstSlot
  <2>5. rs[n].key[st + 1] = words[st + 1].lit
    BY <1>2, <1>9, <2>2, <2>4 DEF KeyMatches
  <2> HIDE DEF st
  <2>6. OptionLike(rs[n].key[st + 1])
    BY <2>4, <2>5 DEF OptionLike
  <2>7. Len(rs[n].key) = st + 1
    BY <2>2, <2>6 DEF LoaderChecked
  <2>8. ASSUME NEW p \in DOMAIN rs[n].key
        PROVE  ~words[p].opaque /\ words[p].lit = rs[n].key[p]
    <3>1. CASE p = st + 1
      BY <2>4, <2>5, <3>1
    <3>2. CASE p # st + 1
      <4>1. p \in DOMAIN rs[m].key
        BY <1>1, <2>1, <2>7, <3>2
      <4>2. ~words[p].opaque /\ words[p].lit = rs[m].key[p]
        BY <4>1 DEF CoversRow, KeyMatches
      <4>3. rs[n].key[p] = rs[m].key[p]
        BY <1>9, <4>1 DEF Extends
      <4> QED
        BY <4>2, <4>3
    <3> QED
      BY <3>1, <3>2
  <2>9. KeyMatches(rs[n].key, words)
    BY <2>1, <2>8 DEF KeyMatches
  <2> QED
    BY <1>9, <2>9 DEF CoversRow, CodeChild
<1>10. ~CodeChild(rs, m, e)
  BY <1>9 DEF CodeChild
<1> QED
  BY <1>5, <1>6, <1>8, <1>10 DEF CoversRow

-----------------------------------------------------------------------------
(* Faults are at a word of the command.                                    *)

FaultInWords == \A r \in result : r.kind # "Parsed" => r.word \in start + 1 .. Len(ws)

(* A parse fails at the word it is at, or at the one after it.             *)
LEMMA FailPlace ==
  ASSUME TypeOK, i <= Len(ws), NEW fault, NEW n \in {i, i + 1}, n <= Len(ws), Fail(fault, n)
  PROVE  FaultInWords'
<1>1. n \in start + 1 .. Len(ws) /\ start' = start /\ ws' = ws
  BY Typed DEF Fail, input
<1> QED
  BY <1>1 DEF Fail, FaultInWords

(* Taking a value from the next word fails at a word.                      *)
LEMMA TakePlace ==
  ASSUME TypeOK, result = {}, i <= Len(ws), NEW o,
         TakeNext(o) \/ \E off \in Nat : TakeInline(o, off)
  PROVE  FaultInWords'
<1>1. i \in Nat /\ Len(ws) \in Nat
  BY Typed
<1>2. ASSUME result' = result
      PROVE  FaultInWords'
  BY <1>2 DEF FaultInWords
<1>3. CASE TakeNext(o)
  <2>1. CASE i = Len(ws)
    BY <1>1, <1>3, <2>1, FailPlace DEF TakeNext
  <2>2. CASE i # Len(ws) /\ g.opts[o].role = "Code"
    BY <1>1, <1>3, <2>2, FailPlace DEF TakeNext
  <2>3. CASE i # Len(ws) /\ g.opts[o].role # "Code"
    BY <1>2, <1>3, <2>3 DEF TakeNext
  <2> QED
    BY <2>1, <2>2, <2>3
<1>4. ASSUME NEW off \in Nat, TakeInline(o, off)
      PROVE  FaultInWords'
  <2>1. CASE g.opts[o].role = "Code"
    BY <1>1, <1>4, <2>1, FailPlace DEF TakeInline
  <2>2. CASE g.opts[o].role # "Code"
    BY <1>2, <1>4, <2>2 DEF TakeInline, TakeOpts
  <2> QED
    BY <2>1, <2>2
<1> QED
  BY <1>3, <1>4

(* So does every step of a parse.                                          *)
LEMMA FaultStep == TypeOK /\ FaultInWords /\ [Next]_vars => FaultInWords'
<1> SUFFICES ASSUME TypeOK, FaultInWords, [Next]_vars PROVE FaultInWords'
  OBVIOUS
<1>1. ASSUME result' = result, start' = start, ws' = ws
      PROVE  FaultInWords'
  BY <1>1 DEF FaultInWords
<1>2. ASSUME result = {}, result' = result
      PROVE  FaultInWords'
  BY <1>2 DEF FaultInWords
<1>3. i \in Nat /\ Len(ws) \in Nat
  BY Typed
<1>4. ASSUME i <= Len(ws), NEW fault, Fail(fault, i)
      PROVE  FaultInWords'
  BY <1>3, <1>4, FailPlace
<1>5. at # 0 => i <= Len(ws)
  BY DEF TypeOK
<1>6. CASE BadWord
  BY <1>4, <1>6 DEF BadWord, AtWord
<1>7. CASE BadOperand
  BY <1>4, <1>7 DEF BadOperand, AtOperand, AtWord
<1>8. CASE BadLongOption
  BY <1>4, <1>8 DEF BadLongOption, AtLong, AtWord
<1>9. CASE BadShortOption
  BY <1>4, <1>5, <1>9 DEF BadShortOption, AtByte
<1>10. CASE LongOption
  <2>1. result = {} /\ i <= Len(ws)
    BY <1>10 DEF LongOption, AtLong, AtWord
  <2>2. PICK o \in FindLong(g.opts, LongName(b)) :
          \/ g.opts[o].value # "Flag" /\ \E e \in FindEq(b) : TakeInline(o, e)
          \/ /\ FindEq(b) = {} /\ g.opts[o].value # "Takes"
             /\ TakeOpts({}) /\ seen' = Append(seen, o)
          \/ FindEq(b) = {} /\ g.opts[o].value = "Takes" /\ TakeNext(o)
    BY <1>10 DEF LongOption
  <2>3. FindEq(b) \subseteq Nat
    BY DEF FindEq
  <2>4. TakeOpts({}) => result' = result
    BY DEF TakeOpts
  <2> QED
    BY <1>2, <2>1, <2>2, <2>3, <2>4, TakePlace
<1>11. CASE ShortWithValue
  <2>1. result = {} /\ i <= Len(ws) /\ at \in Nat
    BY <1>5, <1>11 DEF ShortWithValue, AtByte, TypeOK
  <2>2. PICK o \in FindShort(g.opts, b[at]) :
          \/ g.opts[o].value # "Flag" /\ at < Len(b) /\ TakeInline(o, at)
          \/ g.opts[o].value = "Takes" /\ at = Len(b) /\ TakeNext(o)
          \/ /\ g.opts[o].value = "Optional" /\ at = Len(b)
             /\ TakeOpts({}) /\ seen' = Append(seen, o)
    BY <1>11 DEF ShortWithValue
  <2>3. TakeOpts({}) => result' = result
    BY DEF TakeOpts
  <2> QED
    BY <1>2, <2>1, <2>2, <2>3, TakePlace
<1>12. CASE Operand \/ EndOpts \/ StartCluster \/ ShortFlag \/ EndCluster
  <2>1. result' = result /\ start' = start /\ ws' = ws
    BY <1>12 DEF Operand, EndOpts, StartCluster, ShortFlag, EndCluster, TakeOpts, input
  <2> QED
    BY <1>1, <2>1
<1>13. CASE Finish
  BY <1>13 DEF Finish, FaultInWords
<1>14. CASE Done \/ UNCHANGED vars
  BY <1>1, <1>14 DEF Done, vars
<1> QED
  BY <1>6, <1>7, <1>8, <1>9, <1>10, <1>11, <1>12, <1>13, <1>14 DEF Next

-----------------------------------------------------------------------------
(* The inductive invariant: what the rows tried so far have shown.         *)

Checked ==
  /\ rows \in Seq(Row) /\ rows # <<>> /\ LoaderChecked(rows)
  /\ ws \in Seq(Word) /\ ws # <<>>

Where ==
  /\ j \in 1 .. Len(rows) + 1
  /\ stage \in {"name", "rows", "parse", "done"}
  /\ stage = "parse" => j <= Len(rows)
  /\ class # {} <=> stage = "done"

(* The parse is of the words after the row's key.                          *)
OfRow ==
  stage = "parse" =>
    /\ KeyMatches(row.key, ws) /\ ~row.runs_code /\ ~CodeChild(rows, j, ws)
    /\ g = row.grammar /\ start = Len(row.key)

MissOK(m) ==
  /\ m \in Miss1 /\ m.row < j /\ m.word \in DOMAIN ws
  /\ KeyMatches(rows[m.row].key, ws)
  /\ m.kind = "RunsCode" <=> rows[m.row].runs_code \/ CodeChild(rows, m.row, ws)

BestMiss ==
  /\ \A m \in best : MissOK(m)
  /\ \A m, n \in best : m = n

(* No row tried covers, and the best miss has the longest key of those     *)
(* that match.                                                             *)
Tried(n) ==
  /\ ~CoversRow(rows, n, ws)
  /\ KeyMatches(rows[n].key, ws) => \E m \in best : Len(rows[n].key) <= Len(rows[m.row].key)

NoneYet == \A n \in 1 .. j - 1 : Tried(n)

Answered ==
  \A c \in class :
    \/ c.kind = "OpaqueCommandName" /\ ws[1].opaque
    \/ c.kind = "Covered" /\ c.row \in DOMAIN rows /\ CoversRow(rows, c.row, ws)
    \/ j > Len(rows) /\ c.kind = "NoRow" /\ c.word = 1 /\ best = {}
    \/ j > Len(rows) /\ \E m \in best : c.kind = m.kind /\ c.word = m.word /\ c.row = m.row

ClassInv ==
  /\ Checked /\ ArgvInv /\ FaultInWords
  /\ Where /\ OfRow /\ BestMiss /\ NoneYet /\ Answered

(* Where the walk stands does not matter to what it has shown.             *)
LEMMA SameWalk ==
  ASSUME ArgvInv, FaultInWords, UNCHANGED argv, UNCHANGED ws
  PROVE  ArgvInv' /\ FaultInWords'
<1>1. UNCHANGED vars
  BY DEF argv, vars
<1>2. [Next]_vars
  BY <1>1
<1> QED
  BY <1>2, ArgvStep, FaultStep DEF ArgvInv

(* For every miss of old there is one of new with no shorter a key.        *)
NoShorter(old, new) ==
  \A m \in old : \E q \in new : Len(rows[m.row].key) <= Len(rows[q.row].key)

(* Only one row is tried more.                                             *)
LEMMA OneMoreTried ==
  ASSUME ClassInv, j <= Len(rows), j' = j + 1, rows' = rows, ws' = ws,
         NoShorter(best, best'), ~CoversRow(rows, j, ws),
         KeyMatches(rows[j].key, ws) => \E n \in best' : Len(rows[j].key) <= Len(rows[n.row].key),
         \A n \in best' : n.row \in DOMAIN rows
  PROVE  NoneYet'
<1>1. j \in Nat /\ rows \in Seq(Row) /\ Len(rows) \in Nat
  BY DEF ClassInv, Where, Checked
<1>2. \A n \in DOMAIN rows : Len(rows[n].key) \in Nat
  BY <1>1, RowTypes
<1>3. \A m \in best : m.row \in DOMAIN rows
  BY DEF ClassInv, BestMiss, MissOK, Miss1
<1>4. ASSUME NEW n \in 1 .. j' - 1
      PROVE  Tried(n)'
  <2>1. n \in DOMAIN rows
    BY <1>1, <1>4
  <2>2. CASE n = j
    BY <2>2 DEF Tried
  <2>3. CASE n # j
    <3>1. Tried(n)
      BY <1>1, <1>4, <2>3 DEF ClassInv, NoneYet
    <3>2. ASSUME KeyMatches(rows[n].key, ws)
          PROVE  \E q \in best' : Len(rows[n].key) <= Len(rows[q.row].key)
      <4>1. PICK m \in best : Len(rows[n].key) <= Len(rows[m.row].key)
        BY <3>1, <3>2 DEF Tried
      <4>2. PICK q \in best' : Len(rows[m.row].key) <= Len(rows[q.row].key)
        BY <4>1 DEF NoShorter
      <4>3. PICK x \in DOMAIN rows, y \in DOMAIN rows : x = m.row /\ y = q.row
        BY <1>3
      <4>4. Len(rows[n].key) \in Nat /\ Len(rows[x].key) \in Nat /\ Len(rows[y].key) \in Nat
        BY <1>2, <2>1, <4>3
      <4>5. Len(rows[n].key) <= Len(rows[x].key) /\ Len(rows[x].key) <= Len(rows[y].key)
        BY <4>1, <4>2, <4>3
      <4>6. Len(rows[n].key) <= Len(rows[y].key)
        BY <4>4, <4>5, SMTT(60)
      <4> QED
        BY <4>3, <4>6
    <3> QED
      BY <3>1, <3>2 DEF Tried
  <2> QED
    BY <2>2, <2>3
<1> QED
  BY <1>4 DEF NoneYet

(* A row that misses.                                                      *)
LEMMA MissStep ==
  ASSUME ClassInv, NEW kind, NEW n, Miss(kind, n), stage \in {"rows", "parse"}, j <= Len(rows),
         kind \in ArgvFault \cup {"RunsCode", "UnknownSubcommand"}, n \in DOMAIN ws,
         KeyMatches(row.key, ws), ~CoversRow(rows, j, ws),
         kind = "RunsCode" <=> row.runs_code \/ CodeChild(rows, j, ws)
  PROVE  ClassInv'
<1>1. j \in Nat /\ j \in DOMAIN rows /\ rows \in Seq(Row) /\ Len(rows) \in Nat /\ ws \in Seq(Word)
  BY DEF ClassInv, Where, Checked
<1>2. /\ j' = j + 1 /\ stage' = "rows" /\ rows' = rows /\ ws' = ws /\ class' = class /\ class = {}
      /\ UNCHANGED argv
  BY DEF Miss, ClassInv, Where
<1>3. ArgvInv' /\ FaultInWords'
  BY <1>2, SameWalk DEF ClassInv
<1>4. PICK x : x = [kind |-> kind, word |-> n, row |-> j]
  OBVIOUS
<1>5. x.kind = kind /\ x.word = n /\ x.row = j /\ x \in Miss1
  <2>1. n \in Nat
    BY <1>1
  <2> QED
    BY <1>1, <1>4, <2>1 DEF Miss1
<1>6. MissOK(x)'
  BY <1>1, <1>2, <1>5 DEF MissOK, Miss1, row
<1>7. \A m \in best : MissOK(m)' /\ m.row \in DOMAIN rows
  <2>1. SUFFICES ASSUME NEW m \in best PROVE MissOK(m)' /\ m.row \in DOMAIN rows
    OBVIOUS
  <2>2. MissOK(m) /\ m.row \in DOMAIN rows
    BY DEF ClassInv, BestMiss, MissOK, Miss1
  <2>3. m.row < j'
    BY <1>1, <1>2, <2>2 DEF MissOK
  <2> QED
    BY <1>2, <2>2, <2>3 DEF MissOK, Miss1
<1>8. \A m, q \in best : m = q
  BY DEF ClassInv, BestMiss
<1>9. best' = IF \A m \in best : Len(rows[m.row].key) < Len(row.key) THEN {x} ELSE best
  BY <1>4 DEF Miss
<1>10. BestMiss'
  BY <1>6, <1>7, <1>8, <1>9 DEF BestMiss
<1>11. \A m \in best : Len(rows[m.row].key) \in Nat
  BY <1>1, <1>7, RowTypes
<1>12. Len(rows[j].key) \in Nat
  BY <1>1, RowTypes
<1>13. NoShorter(best, best')
  BY <1>5, <1>9, <1>11, <1>12 DEF row, NoShorter
<1>14. \E q \in best' : Len(rows[j].key) <= Len(rows[q.row].key)
  BY <1>5, <1>9, <1>11, <1>12 DEF row
<1>15. \A q \in best' : q.row \in DOMAIN rows
  BY <1>1, <1>5, <1>7, <1>9
<1>16. NoneYet'
  BY <1>2, <1>13, <1>14, <1>15, OneMoreTried
<1>17. Checked' /\ Where' /\ OfRow' /\ Answered'
  BY <1>1, <1>2 DEF ClassInv, Checked, Where, OfRow, Answered
<1> QED
  BY <1>3, <1>10, <1>16, <1>17 DEF ClassInv

(* classify_simple returns.                                                *)
LEMMA AnswerStep ==
  ASSUME ClassInv, NEW kind, NEW n, NEW m, Answer(kind, n, m),
         \/ kind = "OpaqueCommandName" /\ ws[1].opaque
         \/ kind = "Covered" /\ m \in DOMAIN rows /\ CoversRow(rows, m, ws)
         \/ j > Len(rows) /\ kind = "NoRow" /\ n = 1 /\ best = {}
         \/ j > Len(rows) /\ \E x \in best : kind = x.kind /\ n = x.word /\ m = x.row
  PROVE  ClassInv'
<1>1. /\ class' = {[kind |-> kind, word |-> n, row |-> m]} /\ stage' = "done"
      /\ rows' = rows /\ ws' = ws /\ j' = j /\ best' = best /\ UNCHANGED argv
  BY DEF Answer
<1>2. ArgvInv' /\ FaultInWords'
  BY <1>1, SameWalk DEF ClassInv
<1>3. Checked' /\ Where' /\ OfRow'
  BY <1>1 DEF ClassInv, Checked, Where, OfRow
<1>4. BestMiss'
  BY <1>1 DEF ClassInv, BestMiss, MissOK, Miss1
<1>5. NoneYet'
  BY <1>1 DEF ClassInv, NoneYet, Tried
<1>6. Answered'
  BY <1>1 DEF Answered
<1> QED
  BY <1>2, <1>3, <1>4, <1>5, <1>6 DEF ClassInv

(* The name of the command.                                                *)
LEMMA NameStep == ClassInv /\ (OpaqueName \/ LiteralName) => ClassInv'
<1>1. ASSUME ClassInv, OpaqueName
      PROVE  ClassInv'
  BY <1>1, AnswerStep DEF OpaqueName
<1>2. ASSUME ClassInv, LiteralName
      PROVE  ClassInv'
  <2>1. /\ stage' = "rows" /\ stage = "name" /\ rows' = rows /\ ws' = ws /\ j' = j /\ best' = best
        /\ class' = class /\ UNCHANGED argv
    BY <1>2 DEF LiteralName
  <2>2. ArgvInv' /\ FaultInWords'
    BY <1>2, <2>1, SameWalk DEF ClassInv
  <2>3. Checked' /\ Where' /\ OfRow'
    BY <1>2, <2>1 DEF ClassInv, Checked, Where, OfRow
  <2>4. BestMiss'
    BY <1>2, <2>1 DEF ClassInv, BestMiss, MissOK, Miss1
  <2>5. NoneYet' /\ Answered'
    BY <1>2, <2>1 DEF ClassInv, NoneYet, Tried, Answered
  <2> QED
    BY <2>2, <2>3, <2>4, <2>5 DEF ClassInv
<1> QED
  BY <1>1, <1>2

(* A row of another command.                                               *)
LEMMA OtherKeyStep == ClassInv /\ OtherKey => ClassInv'
<1> SUFFICES ASSUME ClassInv, OtherKey PROVE ClassInv'
  OBVIOUS
<1>1. /\ stage' = stage /\ stage = "rows" /\ rows' = rows /\ ws' = ws /\ j' = j + 1 /\ j <= Len(rows)
      /\ best' = best /\ class' = class /\ UNCHANGED argv /\ ~KeyMatches(rows[j].key, ws)
  BY DEF OtherKey, AtRow, row
<1>2. j \in Nat /\ rows \in Seq(Row) /\ Len(rows) \in Nat
  BY DEF ClassInv, Where, Checked
<1>3. ArgvInv' /\ FaultInWords'
  BY <1>1, SameWalk DEF ClassInv
<1>4. Checked' /\ Where' /\ OfRow' /\ Answered'
  BY <1>1, <1>2 DEF ClassInv, Checked, Where, OfRow, Answered
<1>5. \A m \in best : MissOK(m) /\ m.row \in DOMAIN rows /\ m.row \in Nat
  BY <1>2 DEF ClassInv, BestMiss, MissOK, Miss1
<1>6. BestMiss'
  <2>1. \A m \in best : m.row < j'
    BY <1>1, <1>2, <1>5 DEF MissOK
  <2> QED
    BY <1>1, <1>5, <2>1 DEF ClassInv, BestMiss, MissOK, Miss1
<1>7. NoShorter(best, best')
  <2>1. \A m \in best : Len(rows[m.row].key) \in Nat
    BY <1>2, <1>5, RowTypes
  <2> QED
    BY <1>1, <2>1 DEF NoShorter
<1>8. NoneYet'
  BY <1>1, <1>5, <1>7, OneMoreTried DEF CoversRow
<1> QED
  BY <1>3, <1>4, <1>6, <1>8 DEF ClassInv

(* A row that runs code, or whose longer sibling does.                     *)
LEMMA CodeStep == ClassInv /\ (CodeRow \/ CodeInChild) => ClassInv'
<1>1. ASSUME ClassInv, CodeRow
      PROVE  ClassInv'
  <2>1. 1 \in DOMAIN ws
    BY <1>1 DEF ClassInv, Checked
  <2>2. ~CoversRow(rows, j, ws)
    BY <1>1 DEF CodeRow, CoversRow, row
  <2> QED
    BY <1>1, <2>1, <2>2, MissStep DEF CodeRow, AtRow
<1>2. ASSUME ClassInv, CodeInChild
      PROVE  ClassInv'
  <2>1. PICK n \in DOMAIN rows :
          rows[n].runs_code /\ Extends(rows[n].key, rows[j].key) /\ KeyMatches(rows[n].key, ws)
    BY <1>2 DEF CodeInChild, CodeChild
  <2>2. rows \in Seq(Row) /\ j \in DOMAIN rows /\ ws \in Seq(Word)
    BY <1>2 DEF ClassInv, Checked, Where, CodeInChild, AtRow
  <2>3. Len(row.key) \in Nat /\ Len(rows[n].key) \in Nat
    BY <2>2, RowTypes DEF row
  <2>4. Len(row.key) + 1 \in DOMAIN ws
    BY <2>1, <2>2, <2>3 DEF Extends, KeyMatches, row
  <2>5. ~CoversRow(rows, j, ws)
    BY <1>2 DEF CodeInChild, CoversRow
  <2> QED
    BY <1>2, <2>4, <2>5, MissStep DEF CodeInChild, AtRow
<1> QED
  BY <1>1, <1>2

(* A parse starts afresh on the words after the key.                       *)
LEMMA BeginStep == ClassInv /\ BeginParse => ClassInv'
<1> SUFFICES ASSUME ClassInv, BeginParse PROVE ClassInv'
  OBVIOUS
<1>1. /\ stage' = "parse" /\ stage = "rows" /\ rows' = rows /\ ws' = ws /\ j' = j /\ best' = best
      /\ class' = class /\ j <= Len(rows) /\ result' = {}
      /\ KeyMatches(row.key, ws) /\ ~row.runs_code /\ ~CodeChild(rows, j, ws)
      /\ g' = row.grammar /\ start' = Len(row.key)
  BY DEF BeginParse, AtRow
<1>2. rows \in Seq(Row) /\ j \in DOMAIN rows /\ ws \in Seq(Word) /\ Len(ws) \in Nat
  BY <1>1 DEF ClassInv, Checked, Where
<1>3. row.grammar \in Grammar /\ Len(row.key) \in Nat
  BY <1>2, RowTypes DEF row
<1>4. Fresh'
  <2>1. start' \in 0 .. Len(ws)
    BY <1>1, <1>2, <1>3 DEF KeyMatches
  <2> QED
    BY <1>1, <1>2, <1>3, <2>1 DEF BeginParse, Fresh
<1>5. ArgvInv'
  <2>1. (Fresh => ArgvInv)'
    BY ArgvStart, PTL
  <2> QED
    BY <1>4, <2>1
<1>6. FaultInWords'
  BY <1>1 DEF FaultInWords
<1>7. Checked' /\ Where' /\ OfRow' /\ Answered'
  BY <1>1 DEF ClassInv, Checked, Where, OfRow, Answered, row
<1>8. BestMiss' /\ NoneYet'
  BY <1>1 DEF ClassInv, BestMiss, MissOK, Miss1, NoneYet, Tried
<1> QED
  BY <1>5, <1>6, <1>7, <1>8 DEF ClassInv

(* No step of a parse changes what is parsed.                              *)
LEMMA InputKept == [Next]_vars => UNCHANGED input
<1>1. \A fault, n : Fail(fault, n) => UNCHANGED input
  BY DEF Fail
<1>2. \A value : TakeOpts(value) => UNCHANGED input
  BY DEF TakeOpts
<1>3. \A o, off : TakeInline(o, off) => UNCHANGED input
  BY <1>1, <1>2 DEF TakeInline
<1>4. \A o : TakeNext(o) => UNCHANGED input
  BY <1>1 DEF TakeNext
<1>5. BadWord \/ BadOperand \/ BadLongOption \/ BadShortOption => UNCHANGED input
  BY <1>1 DEF BadWord, BadOperand, BadLongOption, BadShortOption
<1>6. LongOption \/ ShortWithValue \/ EndCluster => UNCHANGED input
  BY <1>2, <1>3, <1>4 DEF LongOption, ShortWithValue, EndCluster
<1>7. Operand \/ EndOpts \/ StartCluster \/ ShortFlag \/ Finish => UNCHANGED input
  BY DEF Operand, EndOpts, StartCluster, ShortFlag, Finish
<1>8. Done \/ UNCHANGED vars => UNCHANGED input
  BY DEF Done, vars, input
<1> QED
  BY <1>5, <1>6, <1>7, <1>8 DEF Next

(* A step of a row's parse.                                                *)
LEMMA ParseStep == ClassInv /\ Parse => ClassInv'
<1> SUFFICES ASSUME ClassInv, Parse PROVE ClassInv'
  OBVIOUS
<1>1. UNCHANGED <<g, ws, start, rows, j, stage, best, class>>
  BY InputKept DEF Parse, input
<1>2. ArgvInv' /\ FaultInWords'
  BY ArgvStep, FaultStep DEF Parse, ClassInv, ArgvInv
<1>3. Checked' /\ Where' /\ OfRow' /\ Answered'
  BY <1>1 DEF ClassInv, Checked, Where, OfRow, Answered, row
<1>4. BestMiss' /\ NoneYet'
  BY <1>1 DEF ClassInv, BestMiss, MissOK, Miss1, NoneYet, Tried
<1> QED
  BY <1>2, <1>3, <1>4 DEF ClassInv

(* What is known of the row while it is parsed.                            *)
LEMMA Parsing ==
  ASSUME ClassInv, stage = "parse"
  PROVE  /\ j \in DOMAIN rows /\ j <= Len(rows) /\ rows \in Seq(Row) /\ ws \in Seq(Word) /\ Len(ws) \in Nat
         /\ KeyMatches(row.key, ws) /\ ~row.runs_code /\ ~CodeChild(rows, j, ws)
         /\ g = rows[j].grammar /\ start = Len(rows[j].key) /\ start \in 0 .. Len(ws) /\ start \in Nat
         /\ g \in Grammar /\ slots \in Seq(Slot)
<1>1. TypeOK
  BY DEF ClassInv, ArgvInv
<1>2. start \in 0 .. Len(ws) /\ g \in Grammar /\ slots \in Seq(Slot) /\ Len(ws) \in Nat
  BY <1>1, Typed
<1> QED
  BY <1>2 DEF ClassInv, Checked, Where, OfRow, row

(* An argv the grammar cannot read.                                        *)
LEMMA GrammarMissStep == ClassInv /\ GrammarMiss => ClassInv'
<1> SUFFICES ASSUME ClassInv, GrammarMiss PROVE ClassInv'
  OBVIOUS
<1>1. PICK r \in result : Miss(r.kind, r.word)
  BY DEF GrammarMiss
<1>2. stage = "parse" /\ Failed
  BY DEF GrammarMiss
<1>3. r \in Outcome /\ \A q \in result : q = r
  BY DEF ClassInv, ArgvInv, TypeOK
<1>4. r.kind # "Parsed" /\ r.kind \in ArgvFault
  BY <1>2, <1>3 DEF Failed, Parsed, Outcome
<1>5. r.kind # "RunsCode"
  BY <1>4 DEF ArgvFault
<1>6. Readings(g, ws, start) = {}
  BY <1>4 DEF ClassInv, ArgvInv, Ended
<1>7. ~CoversRow(rows, j, ws)
  BY <1>2, <1>6, Parsing DEF CoversRow
<1>8. r.word \in DOMAIN ws
  <2>1. r.word \in start + 1 .. Len(ws)
    BY <1>4 DEF ClassInv, FaultInWords
  <2> QED
    BY <1>2, <2>1, Parsing
<1> QED
  BY <1>1, <1>2, <1>4, <1>5, <1>7, <1>8, Parsing, MissStep

(* Every reading of a parsed argv is the parse.                            *)
LEMMA OnlyReading ==
  ASSUME ArgvInv, Parsed, NEW t \in Readings(g, ws, start), NEW n \in DOMAIN slots
  PROVE  n \in DOMAIN t /\ t[n] = slots[n]
<1>1. slots \in Seq(Slot) /\ n \in Nat /\ n \in 1 .. Len(slots)
  BY Typed DEF ArgvInv
<1>2. SameBefore(t, slots, Len(slots) + 1)
  BY DEF ArgvInv, ReadSoFar, ReadOK
<1> QED
  BY <1>1, <1>2 DEF SameBefore

(* A parent row with an operand, and a row that covers.                    *)
LEMMA ParsedStep == ClassInv /\ (OperandOfParent \/ RowCovers) => ClassInv'
<1> SUFFICES ASSUME ClassInv, OperandOfParent \/ RowCovers PROVE ClassInv'
  OBVIOUS
<1>1. stage = "parse" /\ Parsed /\ ArgvInv
  BY DEF OperandOfParent, RowCovers, ClassInv
<1>2. Reads(g, ws, start, slots)
  BY <1>1, ParsedReads
<1>3. CASE OperandOfParent
  <2>1. PICK n \in FirstOperand(slots) : Miss("UnknownSubcommand", start + n)
    BY <1>3 DEF OperandOfParent
  <2>2. n \in DOMAIN slots /\ slots[n].kind = "Operand"
    BY <2>1 DEF FirstOperand, IsOperand
  <2>3. \A t \in Readings(g, ws, start) : HasOperand(t)
    BY <1>1, <2>2, OnlyReading DEF HasOperand, IsOperand
  <2>4. ~CoversRow(rows, j, ws)
    BY <1>1, <1>3, <2>3, Parsing DEF CoversRow, OperandOfParent
  <2>5. start + n \in DOMAIN ws
    BY <1>1, <1>2, <2>2, Parsing DEF Reads
  <2> QED
    BY <1>1, <2>1, <2>4, <2>5, Parsing, MissStep
<1>4. CASE RowCovers
  <2>1. slots \in Readings(g, ws, start)
    BY <1>1, <1>2, Parsing, ReadsIsReading
  <2>2. ~(IsParent(rows, j) /\ HasOperand(slots))
    BY <1>4 DEF RowCovers
  <2>3. CoversRow(rows, j, ws)
    BY <1>1, <2>1, <2>2, Parsing DEF CoversRow, row
  <2>4. Answer("Covered", 0, j) /\ j \in DOMAIN rows
    BY <1>1, <1>4, Parsing DEF RowCovers
  <2> QED
    BY <2>3, <2>4, AnswerStep
<1> QED
  BY <1>3, <1>4

(* No row covers.                                                          *)
LEMMA NoRowStep == ClassInv /\ NoRowCovers => ClassInv'
<1> SUFFICES ASSUME ClassInv, NoRowCovers PROVE ClassInv'
  OBVIOUS
<1>1. CASE best = {} /\ Answer("NoRow", 1, 0)
  BY <1>1, AnswerStep DEF NoRowCovers
<1>2. ASSUME NEW m \in best, Answer(m.kind, m.word, m.row)
      PROVE  ClassInv'
  BY <1>2, AnswerStep DEF NoRowCovers
<1> QED
  BY <1>1, <1>2 DEF NoRowCovers

(* The scan of the rows starts with none tried.                            *)
LEMMA ClassInit == ClassifyInit => ClassInv
<1> SUFFICES ASSUME ClassifyInit PROVE ClassInv
  OBVIOUS
<1>1. /\ rows \in Seq(Row) /\ rows # <<>> /\ LoaderChecked(rows)
      /\ ws \in Seq(Word) /\ ws # <<>> /\ Len(rows) \in Nat /\ Len(ws) \in Nat
  BY CatalogAssumption DEF ClassifyInit
<1>2. j = 1 /\ stage = "name" /\ best = {} /\ class = {}
  BY DEF ClassifyInit
<1>3. 1 \in DOMAIN rows /\ 1 <= Len(rows) + 1 /\ 1 .. 1 - 1 = {}
  BY <1>1
<1>4. rows[1].grammar \in Grammar
  BY <1>1, <1>3, RowTypes
<1>5. Fresh
  BY <1>1, <1>4 DEF ClassifyInit, StartParse, Fresh
<1>6. ArgvInv /\ FaultInWords
  BY <1>5, ArgvStart DEF Fresh, FaultInWords
<1> QED
  BY <1>1, <1>2, <1>3, <1>6
     DEF ClassInv, Checked, Where, OfRow, BestMiss, NoneYet, Answered

(* Whatever the catalog and the command, the scan knows of the rows tried  *)
(* that none covers and which of those that match has the longest key.     *)
THEOREM ClassifyCorrect == ClassifySpec => []ClassInv
<1>1. ClassInv /\ [ClassifyNext]_cvars => ClassInv'
  <2>1. ASSUME ClassInv, UNCHANGED cvars
        PROVE  ClassInv'
    <3>1. UNCHANGED <<argv, ws, rows, j, stage, best, class, g, start>>
      BY <2>1 DEF cvars, argv
    <3>2. ArgvInv' /\ FaultInWords'
      BY <2>1, <3>1, SameWalk DEF ClassInv
    <3>3. Checked' /\ Where' /\ OfRow' /\ Answered'
      BY <2>1, <3>1 DEF ClassInv, Checked, Where, OfRow, Answered, row
    <3>4. BestMiss' /\ NoneYet'
      BY <2>1, <3>1 DEF ClassInv, BestMiss, MissOK, Miss1, NoneYet, Tried
    <3> QED
      BY <3>2, <3>3, <3>4 DEF ClassInv
  <2> QED
    BY <2>1, NameStep, OtherKeyStep, CodeStep, BeginStep, ParseStep, GrammarMissStep,
       ParsedStep, NoRowStep
       DEF ClassifyNext, Classified
<1> QED
  BY <1>1, ClassInit, PTL DEF ClassifySpec

-----------------------------------------------------------------------------
(* The counters and the best miss have their types.                        *)
THEOREM ClassifyTypeCorrect == ClassifySpec => []ClassifyTypeOK
<1>1. ClassInv => ClassifyTypeOK
  BY DEF ClassInv, ClassifyTypeOK, ArgvInv, Checked, Where, BestMiss, MissOK
<1> QED
  BY <1>1, ClassifyCorrect, PTL

(* What an answer says of all rows.                                        *)
LEMMA AnswerSays ==
  ASSUME ClassInv, NEW c \in class, NEW n \in DOMAIN rows
  PROVE  CoversRow(rows, n, ws) <=> c.kind = "Covered" /\ n = c.row
<1>1. rows \in Seq(Row) /\ LoaderChecked(rows) /\ ws \in Seq(Word) /\ j \in Nat /\ Len(rows) \in Nat
      /\ n \in Nat /\ n >= 1 /\ n <= Len(rows)
  BY DEF ClassInv, Checked, Where
<1>2. CASE c.kind = "OpaqueCommandName" /\ ws[1].opaque
  <2>1. rows[n].key # <<>> /\ rows[n].key \in Seq(Seq(Byte))
    BY <1>1, RowTypes DEF LoaderChecked
  <2>2. 1 \in DOMAIN rows[n].key
    BY <2>1
  <2> QED
    BY <1>2, <2>2 DEF CoversRow, KeyMatches
<1>3. CASE c.kind = "Covered" /\ c.row \in DOMAIN rows /\ CoversRow(rows, c.row, ws)
  BY <1>1, <1>3, OneCovers
<1>4. CASE j > Len(rows) /\ c.kind # "Covered"
  <2>1. n \in 1 .. j - 1
    BY <1>1, <1>4
  <2> QED
    BY <1>4, <2>1 DEF ClassInv, NoneYet, Tried
<1>5. \A m \in best : m.kind # "Covered"
  BY DEF ClassInv, BestMiss, MissOK, Miss1, ArgvFault
<1> QED
  BY <1>2, <1>3, <1>4, <1>5 DEF ClassInv, Answered

(* Coverage does not depend on the order of the rows: a command is covered *)
(* exactly when some row covers it, and that row is the only one.          *)
THEOREM CoveredByTheOnlyRowAlways == ClassifySpec => []CoveredByTheOnlyRow
<1>1. ClassInv => CoveredByTheOnlyRow
  BY AnswerSays DEF CoveredByTheOnlyRow
<1> QED
  BY <1>1, ClassifyCorrect, PTL

(* The reason of an uncovered command is of its most specific row.         *)
THEOREM ReasonIsOfTheLongestKeyAlways == ClassifySpec => []ReasonIsOfTheLongestKey
<1>1. ClassInv => ReasonIsOfTheLongestKey
  <2>1. SUFFICES ASSUME ClassInv, NEW c \in class, c.kind \notin {"Covered", "OpaqueCommandName"}
                 PROVE  /\ c.word \in DOMAIN ws
                        /\ c.kind = "NoRow" <=> \A n \in DOMAIN rows : ~KeyMatches(rows[n].key, ws)
                        /\ c.kind # "NoRow" =>
                             /\ KeyMatches(rows[c.row].key, ws)
                             /\ \A n \in DOMAIN rows :
                                  KeyMatches(rows[n].key, ws) =>
                                    Len(rows[n].key) <= Len(rows[c.row].key)
                             /\ rows[c.row].runs_code <=> c.kind = "RunsCode"
    BY DEF ReasonIsOfTheLongestKey
  <2>2. /\ rows \in Seq(Row) /\ ws \in Seq(Word) /\ ws # <<>> /\ j \in Nat /\ Len(rows) \in Nat
        /\ j > Len(rows)
    BY <2>1 DEF ClassInv, Checked, Where, Answered
  <2>3. \A n \in DOMAIN rows : Tried(n)
    <3>1. \A n \in DOMAIN rows : n \in 1 .. j - 1
      BY <2>2
    <3> QED
      BY <2>1, <3>1 DEF ClassInv, NoneYet
  <2>4. CASE c.kind = "NoRow" /\ c.word = 1 /\ best = {}
    <3>1. \A n \in DOMAIN rows : ~KeyMatches(rows[n].key, ws)
      BY <2>3, <2>4 DEF Tried
    <3>2. 1 \in DOMAIN ws
      BY <2>2
    <3> QED
      BY <2>4, <3>1, <3>2
  <2>5. ASSUME NEW m \in best, c.kind = m.kind, c.word = m.word, c.row = m.row
        PROVE  /\ c.word \in DOMAIN ws /\ c.kind # "NoRow" /\ c.row \in DOMAIN rows
               /\ KeyMatches(rows[c.row].key, ws)
               /\ \A n \in DOMAIN rows :
                    KeyMatches(rows[n].key, ws) => Len(rows[n].key) <= Len(rows[c.row].key)
               /\ rows[c.row].runs_code <=> c.kind = "RunsCode"
    <3>1. MissOK(m) /\ \A q \in best : q = m
      BY <2>1, <2>5 DEF ClassInv, BestMiss
    <3>2. c.word \in DOMAIN ws /\ KeyMatches(rows[c.row].key, ws) /\ c.row \in DOMAIN rows
      BY <2>5, <3>1 DEF MissOK, Miss1
    <3>3. c.kind # "NoRow"
      BY <2>5, <3>1 DEF MissOK, Miss1, ArgvFault
    <3>4. \A n \in DOMAIN rows :
            KeyMatches(rows[n].key, ws) => Len(rows[n].key) <= Len(rows[c.row].key)
      BY <2>3, <2>5, <3>1 DEF Tried
    <3>5. ~CodeChild(rows, c.row, ws)
      <4>1. SUFFICES ASSUME NEW n \in DOMAIN rows, Extends(rows[n].key, rows[c.row].key),
                            KeyMatches(rows[n].key, ws)
                     PROVE  FALSE
        BY DEF CodeChild
      <4>2. Len(rows[n].key) \in Nat /\ Len(rows[c.row].key) \in Nat
        BY <2>2, <3>2, RowTypes
      <4> QED
        BY <3>4, <4>1, <4>2 DEF Extends
    <3>6. rows[c.row].runs_code <=> c.kind = "RunsCode"
      BY <2>5, <3>1, <3>5 DEF MissOK
    <3> QED
      BY <3>2, <3>3, <3>4, <3>6
  <2>6. \/ c.kind = "NoRow" /\ c.word = 1 /\ best = {}
        \/ \E m \in best : c.kind = m.kind /\ c.word = m.word /\ c.row = m.row
    BY <2>1 DEF ClassInv, Answered
  <2>7. CASE \E m \in best : c.kind = m.kind /\ c.word = m.word /\ c.row = m.row
    <3>1. /\ c.word \in DOMAIN ws /\ c.kind # "NoRow" /\ c.row \in DOMAIN rows
          /\ KeyMatches(rows[c.row].key, ws)
          /\ \A n \in DOMAIN rows :
               KeyMatches(rows[n].key, ws) => Len(rows[n].key) <= Len(rows[c.row].key)
          /\ rows[c.row].runs_code <=> c.kind = "RunsCode"
      BY <2>5, <2>7
    <3> QED
      BY <3>1
  <2> QED
    BY <2>4, <2>6, <2>7
<1> QED
  BY <1>1, ClassifyCorrect, PTL

(* No expansion of an opaque part makes a covered command uncovered or     *)
(* moves it to another row.                                                *)
THEOREM ExpansionsKeepTheRowAlways == ClassifySpec => []ExpansionsKeepTheRow
<1>1. ClassInv => ExpansionsKeepTheRow
  <2>1. SUFFICES ASSUME ClassInv, NEW c \in class, c.kind = "Covered",
                        NEW t \in [DOMAIN ws -> Texts], NEW n \in DOMAIN rows
                 PROVE  CoversRow(rows, n, Expanded(ws, t)) <=> n = c.row
    BY DEF ExpansionsKeepTheRow
  <2>2. rows \in Seq(Row) /\ LoaderChecked(rows) /\ ws \in Seq(Word)
    BY <2>1 DEF ClassInv, Checked
  <2>3. c.row \in DOMAIN rows /\ CoversRow(rows, c.row, ws)
    <3>1. \A m \in best : m.kind # "Covered"
      BY <2>1 DEF ClassInv, BestMiss, MissOK, Miss1, ArgvFault
    <3> QED
      BY <2>1, <3>1 DEF ClassInv, Answered
  <2>4. PICK e : e = Expanded(ws, t)
    OBVIOUS
  <2>5. t \in [DOMAIN ws -> Seq(Byte)]
    BY TextsAssumption
  <2>6. CoversRow(rows, c.row, e)
    BY <2>2, <2>3, <2>4, <2>5, CoversExpanded
  <2>7. e \in Seq(Word)
    <3>1. \A p \in DOMAIN ws : ws[p] \in Word /\ t[p] \in Seq(Byte)
      BY <2>2, <2>5
    <3>2. \A p \in DOMAIN ws : [lit |-> ws[p].lit \o t[p], opaque |-> FALSE] \in Word
      BY <3>1 DEF Word
    <3>3. \A p \in DOMAIN ws : (IF ws[p].opaque THEN [lit |-> ws[p].lit \o t[p], opaque |-> FALSE]
                                ELSE ws[p]) \in Word
      BY <3>1, <3>2
    <3>4. e \in [DOMAIN ws -> Word]
      BY <2>4, <3>3 DEF Expanded
    <3>5. DOMAIN ws = 1 .. Len(ws) /\ Len(ws) \in Nat
      BY <2>2
    <3> QED
      BY <3>4, <3>5
  <2>8. CoversRow(rows, n, e) => n = c.row
    BY <2>2, <2>3, <2>6, <2>7, OneCovers
  <2> QED
    BY <2>4, <2>6, <2>8
<1> QED
  BY <1>1, ClassifyCorrect, PTL
=============================================================================

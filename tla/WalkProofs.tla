----------------------------- MODULE WalkProofs -----------------------------
(***************************************************************************)
(* Proofs about the lexer against its reference Quoting, for every input   *)
(* and every set of character classes.  The walk of the lexer goes by      *)
(* look-aheads from place to place; the reference is a fold over all the   *)
(* bytes that says of each how it is quoted.  At every step the bytes      *)
(* behind the walk are quoted as the walk took them to be, each of them is *)
(* a blank or is told by a lexeme, by the parts read so far or by those in *)
(* the double quotes, and nothing is wrong with any of them (WalkInv).     *)
(*                                                                         *)
(* First what the quoting is, byte by byte, and what bytes and parts stand *)
(* for; then the problems by kind and place; then the invariant, what it   *)
(* needs of each unit of text, and each step of the walk.                  *)
(***************************************************************************)
EXTENDS ParserProofs, Quoting

-----------------------------------------------------------------------------
(* The quoting of the bytes.                                               *)

Quoted == {"Bare", "Single", "Double", "BareEscape", "DoubleEscape"}

(* cs is the quoting of every byte of s, and of its end.                   *)
Reads(s, cs) ==
  /\ s \in Seq(Byte)
  /\ cs \in Seq(Quoted) /\ Len(cs) = Len(s) + 1
  /\ cs[1] = "Bare"
  /\ \A k \in 1 .. Len(s) : cs[k + 1] = After(cs[k], s[k])

(* The quoting after a byte, arm by arm.                                   *)
LEMMA AfterIs ==
  ASSUME NEW c \in Quoted, NEW b
  PROVE  /\ After(c, b) \in Quoted
         /\ c = "Bare" /\ b = "'" => After(c, b) = "Single"
         /\ c = "Bare" /\ b = "\"" => After(c, b) = "Double"
         /\ c = "Bare" /\ b = "\\" => After(c, b) = "BareEscape"
         /\ c = "Bare" /\ b \notin {"'", "\"", "\\"} => After(c, b) = "Bare"
         /\ c = "Single" /\ b = "'" => After(c, b) = "Bare"
         /\ c = "Single" /\ b # "'" => After(c, b) = "Single"
         /\ c = "Double" /\ b = "\\" => After(c, b) = "DoubleEscape"
         /\ c = "Double" /\ b = "\"" => After(c, b) = "Bare"
         /\ c = "Double" /\ b \notin {"\"", "\\"} => After(c, b) = "Double"
         /\ c = "BareEscape" => After(c, b) = "Bare"
         /\ c = "DoubleEscape" => After(c, b) = "Double"
<1>1. CASE c = "Bare"
  BY <1>1, Zenon DEF After, Quoted
<1>2. CASE c = "Single"
  BY <1>2, Zenon DEF After, Quoted
<1>3. CASE c = "Double"
  BY <1>3, Zenon DEF After, Quoted
<1>4. CASE c = "BareEscape"
  BY <1>4, Zenon DEF After, Quoted
<1>5. CASE c = "DoubleEscape"
  BY <1>5, Zenon DEF After, Quoted
<1> QED
  BY <1>1, <1>2, <1>3, <1>4, <1>5, Zenon DEF Quoted

Quotings == Seq(Quoted) \ {<<>>}

(* The quoting of one more byte.                                           *)
LEMMA OneMoreQuoted ==
  ASSUME NEW cs \in Quotings, NEW b
  PROVE  Append(cs, After(Last(cs), b)) \in Quotings
<1>1. Last(cs) \in Quoted
  BY DEF Last, Quotings
<1>2. After(Last(cs), b) \in Quoted
  BY <1>1, AfterIs
<1> QED
  BY <1>2 DEF Quotings

(* The quoting is told one byte after the other.                           *)
LEMMA ContextsRun ==
  ASSUME NEW s \in Seq(Byte)
  PROVE  \E h \in [0 .. Len(s) -> Quotings] :
           /\ h[0] = <<"Bare">>
           /\ \A k \in 1 .. Len(s) : h[k] = Append(h[k - 1], After(Last(h[k - 1]), s[k]))
           /\ Contexts(s) = h[Len(s)]
<1> DEFINE G == [cs \in Quotings |-> [b \in Byte |-> Append(cs, After(Last(cs), b))]]
           base == <<"Bare">>
           IsIter(iter) ==
             iter = [t \in SUBSET DOMAIN s |->
                       IF t = {} THEN base
                       ELSE Append(iter[t \ {Max(t)}], After(Last(iter[t \ {Max(t)}]), s[Max(t)]))]
<1>1. G \in [Quotings -> [Byte -> Quotings]]
  BY OneMoreQuoted
<1>2. DOMAIN s = 1 .. Len(s) /\ Len(s) \in Nat
  OBVIOUS
<1>3. base \in Quotings
  BY DEF Quotings, Quoted
<1>4. HasFold(Quotings, G, base, s)
  <2> HIDE DEF G, base
  <2> QED
    BY <1>1, <1>3, FoldExists, Zenon
<1>5. PICK f \in [SUBSET (1 .. Len(s)) -> Quotings] :
             \A t \in SUBSET (1 .. Len(s)) : f[t] = FoldStep(G, base, s, f, t)
  <2> HIDE DEF G, base
  <2> QED
    BY <1>4 DEF HasFold
<1>6. ASSUME NEW t \in SUBSET (1 .. Len(s))
      PROVE  f[t] = IF t = {} THEN base
                    ELSE Append(f[t \ {Max(t)}], After(Last(f[t \ {Max(t)}]), s[Max(t)]))
  <2>1. CASE t = {}
    BY <1>5, <2>1 DEF FoldStep
  <2>2. CASE t # {}
    <3>1. Max(t) \in t
      BY <1>2, <2>2, GreatestOfIndices
    <3>2. s[Max(t)] \in Byte /\ f[t \ {Max(t)}] \in Quotings
      <4>1. Max(t) \in 1 .. Len(s) /\ t \ {Max(t)} \in SUBSET (1 .. Len(s))
        BY <3>1
      <4> QED
        BY <1>2, <4>1
    <3>3. f[t] = G[f[t \ {Max(t)}]][s[Max(t)]]
      BY <1>5, <2>2 DEF FoldStep
    <3> QED
      BY <2>2, <3>2, <3>3
  <2> QED
    BY <2>1, <2>2
<1>7. IsIter(f)
  BY <1>2, <1>5, <1>6
<1>8. Contexts(s) = (CHOOSE iter : IsIter(iter))[DOMAIN s]
  BY Zenon DEF Contexts, FoldLeft, MapThenFoldSet
<1> HIDE DEF IsIter
<1>9. PICK g : IsIter(g) /\ Contexts(s) = g[1 .. Len(s)]
  BY <1>2, <1>7, <1>8
<1> DEFINE h == [k \in 0 .. Len(s) |-> g[1 .. k]]
<1>10. h[0] = base
  BY <1>2, <1>9 DEF IsIter
<1>11. ASSUME NEW k \in 1 .. Len(s) PROVE h[k] = Append(h[k - 1], After(Last(h[k - 1]), s[k]))
  <2>1. k \in Nat \ {0} /\ 1 .. k \in SUBSET DOMAIN s
    BY <1>2
  <2>2. g[1 .. k] = Append(g[1 .. k - 1], After(Last(g[1 .. k - 1]), s[k]))
    BY <1>9, <2>1, IndexSets DEF IsIter
  <2> QED
    BY <1>2, <2>1, <2>2
<1>12. h = [k \in 0 .. Len(s) |-> h[k]] /\ Contexts(s) = h[Len(s)]
  BY <1>2, <1>9
<1> HIDE DEF h
<1> DEFINE P == {k \in 0 .. Len(s) : h[k] \in Quotings}
<1>13. 0 \in P /\ \A k \in 1 .. Len(s) : k - 1 \in P => k \in P
  <2>1. 0 \in P
    BY <1>2, <1>3, <1>10
  <2>2. ASSUME NEW k \in 1 .. Len(s), h[k - 1] \in Quotings PROVE h[k] \in Quotings
    BY <1>11, <2>2, OneMoreQuoted
  <2> QED
    BY <2>1, <2>2
<1>14. \A k \in 0 .. Len(s) : k \in P
  <2> HIDE DEF P
  <2> QED
    BY <1>2, <1>13, Along
<1>15. h \in [0 .. Len(s) -> Quotings]
  BY <1>12, <1>14
<1> QED
  BY <1>10, <1>11, <1>12, <1>15

(* Every byte is quoted as what is before it says.                         *)
LEMMA ContextsRead ==
  ASSUME NEW s \in Seq(Byte)
  PROVE  Reads(s, Contexts(s))
<1>1. PICK h \in [0 .. Len(s) -> Quotings] :
             /\ h[0] = <<"Bare">>
             /\ \A k \in 1 .. Len(s) : h[k] = Append(h[k - 1], After(Last(h[k - 1]), s[k]))
             /\ Contexts(s) = h[Len(s)]
  BY ContextsRun
<1>2. Len(s) \in Nat
  OBVIOUS
<1> DEFINE Good(k) ==
             /\ Len(h[k]) = k + 1 /\ h[k][1] = "Bare"
             /\ \A m \in 1 .. k : h[k][m + 1] = After(h[k][m], s[m])
           P == {k \in 0 .. Len(s) : Good(k)}
<1>3. Good(0)
  BY <1>1
<1>4. ASSUME NEW k \in 1 .. Len(s), Good(k - 1) PROVE Good(k)
  <2>1. h[k - 1] \in Quotings /\ k - 1 \in Nat /\ k \in Nat
    BY <1>2
  <2> DEFINE cs == h[k - 1]
             x == After(Last(cs), s[k])
  <2>2. cs \in Seq(Quoted) /\ Len(cs) = k /\ Last(cs) = cs[k]
    BY <1>4, <2>1 DEF Quotings, Last
  <2>3. x \in Quoted
    <3>1. cs[k] \in Quoted
      BY <2>1, <2>2
    <3> HIDE DEF cs
    <3> QED
      BY <2>2, <3>1, AfterIs
  <2>4. h[k] = Append(cs, x)
    BY <1>1
  <2>5. Len(h[k]) = k + 1 /\ h[k][k + 1] = x /\ \A m \in 1 .. k : h[k][m] = cs[m]
    BY <2>1, <2>2, <2>3, <2>4
  <2>6. ASSUME NEW m \in 1 .. k PROVE h[k][m + 1] = After(h[k][m], s[m])
    <3>1. CASE m = k
      BY <2>2, <2>5, <3>1
    <3>2. CASE m # k
      <4>1. m \in 1 .. k - 1 /\ m + 1 \in 1 .. k
        BY <2>1, <3>2
      <4>2. cs[m + 1] = After(cs[m], s[m])
        BY <1>4, <4>1
      <4> QED
        BY <2>5, <4>1, <4>2
    <3> QED
      BY <3>1, <3>2
  <2>7. h[k][1] = "Bare"
    BY <1>4, <2>1, <2>5
  <2> QED
    BY <2>5, <2>6, <2>7
<1>5. 0 \in P /\ \A k \in 1 .. Len(s) : k - 1 \in P => k \in P
  <2> HIDE DEF Good
  <2>1. \A k \in 1 .. Len(s) : k - 1 \in 0 .. Len(s) /\ k \in 0 .. Len(s)
    BY <1>2
  <2> QED
    BY <1>2, <1>3, <1>4, <2>1
<1>6. Len(s) \in P
  <2> HIDE DEF P
  <2>1. \A k \in 0 .. Len(s) : k \in P
    BY <1>2, <1>5, Along
  <2> QED
    BY <1>2, <2>1
<1>7. h[Len(s)] \in Seq(Quoted)
  BY <1>2 DEF Quotings
<1> QED
  BY <1>1, <1>6, <1>7 DEF Reads

(* The second bytes of pairs, one byte after the other.                    *)
LEMMA SecondsRun ==
  ASSUME NEW s \in Seq(Byte), NEW cs
  PROVE  \E h \in [0 .. Len(s) -> SUBSET (1 .. Len(s))] :
           /\ h[0] = {}
           /\ \A k \in 1 .. Len(s) :
                h[k] = IF Twice(s, cs, k) /\ k - 1 \notin h[k - 1] THEN h[k - 1] \cup {k} ELSE h[k - 1]
           /\ Seconds(s, cs) = h[Len(s)]
<1> DEFINE N == 1 .. Len(s)
           All == SUBSET N
           ids == [k \in DOMAIN s |-> k]
           Step(set, k) == IF Twice(s, cs, k) /\ k - 1 \notin set THEN set \cup {k} ELSE set
           G == [set \in All |-> [k \in N |-> Step(set, k)]]
           IsIter(iter) ==
             iter = [t \in SUBSET DOMAIN ids |->
                       IF t = {} THEN {} ELSE Step(iter[t \ {Max(t)}], ids[Max(t)])]
<1>1. G \in [All -> [N -> All]]
  OBVIOUS
<1>2. DOMAIN s = N /\ Len(s) \in Nat /\ DOMAIN ids = N /\ ids \in Seq(N) /\ Len(ids) = Len(s)
  OBVIOUS
<1>3. {} \in All
  OBVIOUS
<1>4. HasFold(All, G, {}, ids)
  <2> HIDE DEF G, All, N, ids
  <2> QED
    BY <1>1, <1>2, <1>3, FoldExists, Zenon
<1>5. PICK f \in [SUBSET N -> All] : \A t \in SUBSET N : f[t] = FoldStep(G, {}, ids, f, t)
  <2> HIDE DEF G, All, ids
  <2> QED
    BY <1>2, <1>4 DEF HasFold
<1>6. ASSUME NEW t \in SUBSET N
      PROVE  f[t] = IF t = {} THEN {} ELSE Step(f[t \ {Max(t)}], ids[Max(t)])
  <2>1. CASE t = {}
    <3> HIDE DEF G, Step, ids
    <3> QED
      BY <1>5, <2>1 DEF FoldStep
  <2>2. CASE t # {}
    <3>1. Max(t) \in t
      BY <1>2, <2>2, GreatestOfIndices
    <3>2. ids[Max(t)] \in N /\ f[t \ {Max(t)}] \in All
      <4>1. Max(t) \in N /\ t \ {Max(t)} \in SUBSET N
        BY <3>1
      <4>2. ids[Max(t)] = Max(t)
        BY <1>2, <4>1
      <4> HIDE DEF All, N, ids
      <4> QED
        BY <4>1, <4>2
    <3>3. f[t] = G[f[t \ {Max(t)}]][ids[Max(t)]]
      <4> HIDE DEF G, Step, ids
      <4> QED
        BY <1>5, <2>2 DEF FoldStep
    <3> HIDE DEF Step, ids
    <3> QED
      BY <2>2, <3>2, <3>3
  <2> QED
    BY <2>1, <2>2
<1>7. IsIter(f)
  <2> HIDE DEF Step
  <2> QED
    BY <1>2, <1>5, <1>6
<1>8. Seconds(s, cs) = (CHOOSE iter : IsIter(iter))[DOMAIN ids]
  BY Zenon DEF Seconds, FoldLeft, MapThenFoldSet
<1> HIDE DEF IsIter
<1>9. PICK g : IsIter(g) /\ Seconds(s, cs) = g[N]
  BY <1>2, <1>7, <1>8
<1> DEFINE h == [k \in 0 .. Len(s) |-> g[1 .. k]]
<1>10. h[0] = {}
  BY <1>2, <1>9 DEF IsIter
<1>11. ASSUME NEW k \in N PROVE h[k] = Step(h[k - 1], k)
  <2>1. k \in Nat \ {0} /\ 1 .. k \in SUBSET DOMAIN ids
    BY <1>2
  <2>2. g[1 .. k] = Step(g[1 .. k - 1], ids[k])
    <3> HIDE DEF Step, ids
    <3> QED
      BY <1>9, <2>1, IndexSets DEF IsIter
  <2>3. h[k] = g[1 .. k] /\ h[k - 1] = g[1 .. k - 1] /\ ids[k] = k
    BY <1>2, <2>1
  <2> HIDE DEF Step, ids, h
  <2> QED
    BY <2>2, <2>3
<1>12. h = [k \in 0 .. Len(s) |-> h[k]] /\ Seconds(s, cs) = h[Len(s)]
  BY <1>2, <1>9
<1> HIDE DEF h
<1> DEFINE P == {k \in 0 .. Len(s) : h[k] \in All}
<1>13. 0 \in P /\ \A k \in 1 .. Len(s) : k - 1 \in P => k \in P
  <2>1. 0 \in P
    BY <1>2, <1>3, <1>10
  <2>2. ASSUME NEW k \in 1 .. Len(s), h[k - 1] \in All PROVE h[k] \in All
    BY <1>11, <2>2
  <2> QED
    BY <2>1, <2>2
<1>14. \A k \in 0 .. Len(s) : k \in P
  <2> HIDE DEF P
  <2> QED
    BY <1>2, <1>13, Along
<1>15. h \in [0 .. Len(s) -> All]
  BY <1>12, <1>14
<1> QED
  BY <1>10, <1>11, <1>12, <1>15

(* A byte is the second of a pair unless the one before it already is.     *)
LEMMA SecondsAre ==
  ASSUME NEW s \in Seq(Byte), NEW cs
  PROVE  /\ Seconds(s, cs) \subseteq 1 .. Len(s)
         /\ \A k \in 1 .. Len(s) :
              k \in Seconds(s, cs) <=> Twice(s, cs, k) /\ k - 1 \notin Seconds(s, cs)
<1>1. PICK h \in [0 .. Len(s) -> SUBSET (1 .. Len(s))] :
           /\ h[0] = {}
           /\ \A k \in 1 .. Len(s) :
                h[k] = IF Twice(s, cs, k) /\ k - 1 \notin h[k - 1] THEN h[k - 1] \cup {k} ELSE h[k - 1]
           /\ Seconds(s, cs) = h[Len(s)]
  BY SecondsRun
<1>2. Len(s) \in Nat
  OBVIOUS
<1> DEFINE Same(k) == \A j \in 0 .. k : \A m \in 1 .. Len(s) : m \in h[j] <=> m <= j /\ m \in h[k]
           P == {k \in 0 .. Len(s) : Same(k)}
<1>3. Same(0)
  BY <1>1, <1>2
<1>4. ASSUME NEW k \in 1 .. Len(s), Same(k - 1) PROVE Same(k)
  <2>1. k - 1 \in 0 .. Len(s) /\ k \in 0 .. Len(s) /\ k \in Nat
    BY <1>2
  <2>2. \A m \in 1 .. Len(s) : m \in h[k - 1] => m <= k - 1
    BY <1>4, <2>1
  <2>3. \A m \in 1 .. Len(s) : m \in h[k] => m <= k
    <3>1. \A m \in 1 .. Len(s) : m \in h[k] => m \in h[k - 1] \/ m = k
      BY <1>1
    <3>2. \A m \in 1 .. Len(s) : m <= k - 1 => m <= k
      BY <2>1
    <3> QED
      BY <2>1, <2>2, <3>1, <3>2
  <2>4. \A m \in 1 .. Len(s) : m <= k - 1 => (m \in h[k] <=> m \in h[k - 1])
    BY <1>1, <2>1
  <2>5. ASSUME NEW j \in 0 .. k, NEW m \in 1 .. Len(s) PROVE m \in h[j] <=> m <= j /\ m \in h[k]
    <3>1. CASE j = k
      BY <2>3, <3>1
    <3>2. CASE j # k
      <4>1. j \in 0 .. k - 1 /\ j \in Nat /\ m \in Nat
        BY <2>1, <3>2
      <4>2. m \in h[j] <=> m <= j /\ m \in h[k - 1]
        BY <1>4, <4>1
      <4>3. m <= j => m <= k - 1
        BY <2>1, <4>1
      <4> QED
        BY <2>4, <4>2, <4>3
    <3> QED
      BY <3>1, <3>2
  <2> QED
    BY <2>5
<1>5. 0 \in P /\ \A k \in 1 .. Len(s) : k - 1 \in P => k \in P
  <2>1. \A k \in 1 .. Len(s) : k - 1 \in 0 .. Len(s) /\ k \in 0 .. Len(s)
    BY <1>2
  <2> HIDE DEF Same
  <2> QED
    BY <1>2, <1>3, <1>4, <2>1
<1>6. Same(Len(s))
  <2> HIDE DEF Same
  <2>1. \A k \in 0 .. Len(s) : k \in P
    <3> HIDE DEF P
    <3> QED
      BY <1>2, <1>5, Along
  <2> QED
    BY <1>2, <2>1
<1>7. ASSUME NEW k \in 1 .. Len(s)
      PROVE  k \in Seconds(s, cs) <=> Twice(s, cs, k) /\ k - 1 \notin Seconds(s, cs)
  <2>1. k - 1 \in 0 .. Len(s) /\ k \in 0 .. Len(s) /\ k \in Nat /\ k <= k /\ k - 1 <= k - 1
    BY <1>2
  <2>2. k \in h[Len(s)] <=> k \in h[k]
    BY <1>6, <2>1
  <2>3. k - 1 \in h[Len(s)] <=> k - 1 \in h[k - 1]
    <3>1. CASE k - 1 \in 1 .. Len(s)
      BY <1>6, <2>1, <3>1
    <3>2. CASE k - 1 \notin 1 .. Len(s)
      <4>1. h[Len(s)] \subseteq 1 .. Len(s) /\ h[k - 1] \subseteq 1 .. Len(s)
        BY <1>2, <2>1
      <4> QED
        BY <3>2, <4>1
    <3> QED
      BY <3>1, <3>2
  <2>4. k \notin h[k - 1]
    BY <1>6, <2>1
  <2> QED
    BY <1>1, <2>2, <2>3, <2>4
<1> QED
  BY <1>1, <1>2, <1>7

-----------------------------------------------------------------------------
(* What the bytes stand for.                                               *)

(* A variable's name is within the string.                                 *)
LEMMA NameIsHere ==
  ASSUME NEW s \in Seq(Byte), NEW k \in 1 .. Len(s)
  PROVE  /\ NamePlace(s, k) \in {k + 1, k + 2} /\ NamePlace(s, k) \in 1 .. Len(s) + 1
         /\ NameEnd(s, NamePlace(s, k)) \in NamePlace(s, k) .. Len(s) + 1
<1>1. k \in Nat /\ Len(s) \in Nat /\ k + 1 \in Int
  OBVIOUS
<1>2. ByteAt(s, k + 1) = "{" => k + 1 \in 1 .. Len(s)
  BY <1>1, Bytes DEF None
<1>3. NamePlace(s, k) \in {k + 1, k + 2} /\ NamePlace(s, k) \in 1 .. Len(s) + 1
  <2>1. CASE ByteAt(s, k + 1) = "{"
    <3>1. NamePlace(s, k) = k + 2
      BY <2>1 DEF NamePlace
    <3>2. k + 2 \in 1 .. Len(s) + 1
      <4>1. k + 1 \in 1 .. Len(s)
        BY <1>2, <2>1, Zenon
      <4> QED
        BY <1>1, <4>1
    <3> QED
      BY <3>1, <3>2, Zenon
  <2>2. CASE ByteAt(s, k + 1) # "{"
    <3>1. NamePlace(s, k) = k + 1
      BY <2>2 DEF NamePlace
    <3>2. k + 1 \in 1 .. Len(s) + 1
      BY <1>1
    <3> QED
      BY <3>1, <3>2, Zenon
  <2> QED
    BY <2>1, <2>2
<1> QED
  BY <1>3, NameEnds

(* A byte stands for parts.                                                *)
LEMMA MeaningIsParts ==
  ASSUME NEW s, NEW cs, Reads(s, cs), NEW k \in 1 .. Len(s)
  PROVE  Meaning(s, cs, k) \in Parts
<1>1. s \in Seq(Byte) /\ s[k] \in Byte /\ Len(s) \in Nat /\ <<s[k]>> \in Seq(Byte)
  BY DEF Reads
<1> DEFINE name == SubSeq(s, NamePlace(s, k), NameEnd(s, NamePlace(s, k)) - 1)
<1>2. name \in Seq(Byte)
  <2>1. /\ NamePlace(s, k) \in 1 .. Len(s) + 1
        /\ NameEnd(s, NamePlace(s, k)) - 1 \in 0 .. Len(s)
    BY <1>1, NameIsHere
  <2> QED
    BY <1>1, <2>1, Pieces
<1>3. Var(name) \in Part /\ Tilde \in Part /\ \A q \in BOOLEAN : Lit(<<s[k]>>, q) \in Part
  <2> HIDE DEF name
  <2> QED
    BY <1>1, <1>2, PartsAre
<1>4. (cs[k] # "Bare") \in BOOLEAN
  OBVIOUS
<1> DEFINE lit == Lit(<<s[k]>>, cs[k] # "Bare")
<1>5. lit \in Part
  BY <1>3, <1>4
<1>6. /\ <<>> \in Parts /\ <<Var(name)>> \in Parts /\ <<Tilde>> \in Parts /\ <<lit>> \in Parts
  <2> HIDE DEF name, lit
  <2> QED
    BY <1>3, <1>5 DEF Parts
<1>7. Meaning(s, cs, k) \in {<<>>, <<Var(name)>>, <<Tilde>>, <<lit>>}
  BY Zenon DEF Meaning
<1> HIDE DEF name, lit
<1> QED
  BY <1>6, <1>7

Meanings(s, cs, first, len) == [k \in 1 .. len |-> Meaning(s, cs, first + k - 1)]

(* One byte more stands for its meaning more.                              *)
LEMMA TextGrows ==
  ASSUME NEW s, NEW cs, Reads(s, cs), NEW first \in 1 .. Len(s) + 1, NEW end \in first .. Len(s)
  PROVE  /\ TextMeaning(s, cs, first, end + 1) = TextMeaning(s, cs, first, end) \o Meaning(s, cs, end)
         /\ TextMeaning(s, cs, first, end) \in Parts
<1> DEFINE len == end - first
           ms == Meanings(s, cs, first, len)
           more == Meanings(s, cs, first, len + 1)
           x == Meaning(s, cs, end)
<1>1. /\ Len(s) \in Nat /\ first \in Nat /\ end \in Nat /\ len \in Nat /\ end + 1 - first = len + 1
      /\ end \in 1 .. Len(s) /\ first + (len + 1) - 1 = end
  BY DEF Reads
<1>2. \A k \in 1 .. len + 1 : first + k - 1 \in 1 .. Len(s)
  BY <1>1
<1>3. x \in Parts /\ \A k \in 1 .. len + 1 : Meaning(s, cs, first + k - 1) \in Parts
  BY <1>1, <1>2, MeaningIsParts
<1>4. ms \in Seq(Parts) /\ more \in Seq(Parts) /\ Len(ms) = len /\ Len(more) = len + 1
  <2>1. \A k \in 1 .. len : k \in 1 .. len + 1
    BY <1>1
  <2>2. ms \in [1 .. len -> Parts] /\ more \in [1 .. len + 1 -> Parts]
    <3> HIDE DEF len
    <3> QED
      BY <1>3, <2>1 DEF Meanings
  <2> HIDE DEF ms, more, len
  <2> QED
    BY <1>1, <2>2
<1>5. more = Append(ms, x)
  <2>1. more[len + 1] = x
    BY <1>1 DEF Meanings
  <2>2. \A i \in 1 .. len : more[i] = ms[i]
    BY <1>1 DEF Meanings
  <2> HIDE DEF more, ms, x, len
  <2> QED
    BY <1>3, <1>4, <2>1, <2>2, OneLonger
<1>6. /\ FlattenSeq(ms) \in Seq(Part)
      /\ FlattenSeq(Append(ms, x)) = FlattenSeq(ms) \o x
  <2>1. ms \in Seq(Seq(Part)) /\ x \in Seq(Part)
    BY <1>3, <1>4 DEF Parts
  <2> HIDE DEF ms, x
  <2> QED
    BY <2>1, Flattened
<1>7. TextMeaning(s, cs, first, end) = FlattenSeq(ms) /\ TextMeaning(s, cs, first, end + 1) = FlattenSeq(more)
  BY <1>1 DEF TextMeaning, Meanings
<1> HIDE DEF ms, more, x
<1> QED
  BY <1>5, <1>6, <1>7 DEF Parts, x

(* No bytes stand for nothing.                                             *)
LEMMA NoText ==
  ASSUME NEW s, NEW cs, NEW first \in Nat
  PROVE  TextMeaning(s, cs, first, first) = <<>>
<1>1. [k \in 1 .. first - first |-> Meaning(s, cs, first + k - 1)] = <<>>
  OBVIOUS
<1>2. FlattenSeq(<<>>) = <<>>
  <2>1. <<>> \in Seq(Seq(Part)) /\ <<>> \in Seq(Part)
    OBVIOUS
  <2> QED
    BY <2>1, Flattened
<1> QED
  BY <1>1, <1>2, Zenon DEF TextMeaning

(* What stands for nothing adds nothing.                                   *)
LEMMA TextIsParts ==
  ASSUME NEW s, NEW cs, Reads(s, cs), NEW first \in 1 .. Len(s) + 1, NEW end \in first .. Len(s) + 1
  PROVE  TextMeaning(s, cs, first, end) \in Parts
<1>0. Len(s) \in Nat
  BY DEF Reads
<1>1. CASE end \in first .. Len(s)
  BY <1>1, TextGrows
<1>2. CASE end = Len(s) + 1 /\ first = end
  <2>1. end \in Nat /\ TextMeaning(s, cs, end, end) = <<>>
    BY <1>0, <1>2, NoText
  <2>2. TextMeaning(s, cs, first, end) = <<>>
    BY <1>2, <2>1, Zenon
  <2> QED
    BY <2>2 DEF Parts
<1>3. CASE end = Len(s) + 1 /\ first # end
  <2>1. Len(s) \in first .. Len(s) /\ Len(s) \in 1 .. Len(s)
    BY <1>0, <1>3
  <2>2. /\ TextMeaning(s, cs, first, end) = TextMeaning(s, cs, first, Len(s)) \o Meaning(s, cs, Len(s))
        /\ TextMeaning(s, cs, first, Len(s)) \in Parts
    BY <1>3, <2>1, TextGrows
  <2>3. Meaning(s, cs, Len(s)) \in Parts
    BY <2>1, MeaningIsParts
  <2> QED
    BY <2>2, <2>3 DEF Parts
<1> QED
  BY <1>0, <1>1, <1>2, <1>3

(* Two texts, one behind the other, stand for what each stands for.        *)
LEMMA TextsJoin ==
  ASSUME NEW s, NEW cs, Reads(s, cs), NEW first \in 1 .. Len(s) + 1, NEW mid \in first .. Len(s) + 1,
         NEW end \in mid .. Len(s) + 1
  PROVE  TextMeaning(s, cs, first, end) = TextMeaning(s, cs, first, mid) \o TextMeaning(s, cs, mid, end)
<1> DEFINE T(a, b) == TextMeaning(s, cs, a, b)
           N == end - mid
           P == {k \in 0 .. N : T(first, mid + k) = T(first, mid) \o T(mid, mid + k)}
<1>1. /\ Len(s) \in Nat /\ N \in Nat /\ first \in Nat /\ mid \in Nat /\ end \in Nat /\ mid + N = end
      /\ mid \in 1 .. Len(s) + 1
  BY DEF Reads
<1>2. T(first, mid) \in Parts
  BY TextIsParts
<1>3. 0 \in P
  <2>1. T(mid, mid) = <<>>
    BY <1>1, NoText
  <2>2. mid + 0 = mid /\ 0 \in 0 .. N
    BY <1>1
  <2> HIDE DEF T, N
  <2> QED
    BY <1>2, <2>1, <2>2 DEF Parts
<1>4. ASSUME NEW k \in 1 .. N, k - 1 \in P PROVE k \in P
  <2> DEFINE e == mid + (k - 1)
  <2>1. e \in first .. Len(s) /\ e \in mid .. Len(s) /\ e + 1 = mid + k /\ k \in 0 .. N /\ e \in 1 .. Len(s)
    BY <1>1
  <2>2. T(first, e + 1) = T(first, e) \o Meaning(s, cs, e)
    BY <2>1, TextGrows
  <2>3. T(mid, e + 1) = T(mid, e) \o Meaning(s, cs, e) /\ T(mid, e) \in Parts
    BY <1>1, <2>1, TextGrows
  <2>4. Meaning(s, cs, e) \in Parts
    BY <2>1, MeaningIsParts
  <2>5. T(first, e) = T(first, mid) \o T(mid, e)
    BY <1>4
  <2>6. (T(first, mid) \o T(mid, e)) \o Meaning(s, cs, e) = T(first, mid) \o (T(mid, e) \o Meaning(s, cs, e))
    <3> HIDE DEF T, e
    <3> QED
      BY <1>2, <2>3, <2>4, Associates, SMTT(20) DEF Parts
  <2> HIDE DEF T, e
  <2> QED
    BY <2>1, <2>2, <2>3, <2>5, <2>6
<1>5. N \in P
  <2> HIDE DEF P
  <2>1. \A k \in 0 .. N : k \in P
    <3> HIDE DEF N
    <3> QED
      BY <1>1, <1>3, <1>4, Along
  <2> QED
    BY <1>1, <2>1
<1> QED
  BY <1>1, <1>5

-----------------------------------------------------------------------------
(* What parts stand for, and which are apart.                              *)

(* Parts are put together in any order of the steps.                       *)
LEMMA PartsAssociate ==
  ASSUME NEW ps \in Parts, NEW qs \in Parts, NEW rs \in Parts
  PROVE  (ps \o qs) \o rs = ps \o (qs \o rs)
BY Associates DEF Parts

(* All but the last part, and the last.                                    *)
LEMMA FrontAndLast ==
  ASSUME NEW ps \in Parts \ {<<>>}
  PROVE  /\ Front(ps) \in Parts /\ Last(ps) \in Part /\ ps = Append(Front(ps), Last(ps))
         /\ Len(Front(ps)) = Len(ps) - 1 /\ Last(ps) = ps[Len(ps)] /\ Len(ps) \in Nat \ {0}
         /\ \A i \in 1 .. Len(ps) - 1 : Front(ps)[i] = ps[i]
<1>1. Front(ps) = SubSeq(ps, 1, Len(ps) - 1) /\ Last(ps) = ps[Len(ps)]
  BY DEF Front, Last
<1>2. ps \in Seq(Part) /\ Len(ps) \in Nat \ {0}
  BY DEF Parts
<1>3. /\ SubSeq(ps, 1, Len(ps) - 1) \in Seq(Part) /\ ps[Len(ps)] \in Part
      /\ Len(SubSeq(ps, 1, Len(ps) - 1)) = Len(ps) - 1
      /\ \A i \in 1 .. Len(ps) - 1 : SubSeq(ps, 1, Len(ps) - 1)[i] = ps[i]
  <2>1. SubSeq(ps, 1, Len(ps) - 1) \in Seq(Part) /\ ps[Len(ps)] \in Part
    BY <1>2
  <2>2. Len(SubSeq(ps, 1, Len(ps) - 1)) = Len(ps) - 1
    BY <1>2
  <2>3. ASSUME NEW i \in 1 .. Len(ps) - 1 PROVE SubSeq(ps, 1, Len(ps) - 1)[i] = ps[i]
    <3>1. Len(ps) - 1 \in Nat /\ i \in 1 .. Len(ps)
      BY <1>2
    <3> QED
      BY <1>2, <3>1
  <2> QED
    BY <2>1, <2>2, <2>3
<1> DEFINE f == SubSeq(ps, 1, Len(ps) - 1)
           x == ps[Len(ps)]
<1>4. ps = Append(f, x)
  <2>1. Len(ps) = Len(f) + 1 /\ ps[Len(f) + 1] = x /\ \A i \in 1 .. Len(f) : ps[i] = f[i]
    BY <1>2, <1>3
  <2>2. f \in Seq(Part) /\ x \in Part
    BY <1>3
  <2> HIDE DEF f, x
  <2> QED
    BY <1>2, <2>1, <2>2, OneLonger
<1> QED
  BY <1>1, <1>2, <1>3, <1>4 DEF Parts

(* A part stands for parts.                                                *)
LEMMA PartIsParts ==
  ASSUME NEW part \in Part
  PROVE  /\ PartMeaning(part) \in Parts
         /\ part.kind = "Lit" => /\ Len(PartMeaning(part)) = Len(part.bytes)
                                 /\ \A k \in 1 .. Len(part.bytes) :
                                      PartMeaning(part)[k] = Lit(<<part.bytes[k]>>, part.quoted)
         /\ part.kind # "Lit" => PartMeaning(part) = <<part>>
<1>1. part.bytes \in Seq(Byte) /\ part.quoted \in BOOLEAN
  BY DEF Part
<1>2. DOMAIN part.bytes = 1 .. Len(part.bytes) /\ Len(part.bytes) \in Nat
  BY <1>1
<1>3. CASE part.kind = "Lit"
  <2>1. \A k \in 1 .. Len(part.bytes) : <<part.bytes[k]>> \in Seq(Byte)
    BY <1>1
  <2>2. \A k \in 1 .. Len(part.bytes) : Lit(<<part.bytes[k]>>, part.quoted) \in Part
    BY <1>1, <2>1, PartsAre
  <2>3. PartMeaning(part) = [k \in 1 .. Len(part.bytes) |-> Lit(<<part.bytes[k]>>, part.quoted)]
    BY <1>2, <1>3 DEF PartMeaning
  <2> QED
    BY <1>2, <1>3, <2>2, <2>3 DEF Parts
<1>4. CASE part.kind # "Lit"
  BY <1>4 DEF PartMeaning, Parts
<1> QED
  BY <1>3, <1>4

(* One part more stands for its meaning more.                              *)
LEMMA PartsGrow ==
  ASSUME NEW ps \in Parts, NEW part \in Part
  PROVE  /\ PartsMeaning(Append(ps, part)) = PartsMeaning(ps) \o PartMeaning(part)
         /\ PartsMeaning(ps) \in Parts
         /\ PartsMeaning(<<>>) = <<>>
<1> DEFINE more == Append(ps, part)
           ms == [k \in DOMAIN ps |-> PartMeaning(ps[k])]
           ns == [k \in DOMAIN more |-> PartMeaning(more[k])]
           x == PartMeaning(part)
<1>1. /\ DOMAIN ps = 1 .. Len(ps) /\ Len(ps) \in Nat /\ DOMAIN more = 1 .. Len(ps) + 1
      /\ \A k \in 1 .. Len(ps) : more[k] = ps[k] /\ ps[k] \in Part
      /\ more[Len(ps) + 1] = part
  BY DEF Parts
<1>2. x \in Parts /\ \A k \in 1 .. Len(ps) : PartMeaning(ps[k]) \in Parts
  BY <1>1, PartIsParts
<1>3. ms \in Seq(Parts) /\ Len(ms) = Len(ps)
  <2> HIDE DEF more
  <2> QED
    BY <1>1, <1>2
<1>4. ns = Append(ms, x)
  <2>1. /\ \A k \in 1 .. Len(ps) : ns[k] = ms[k]
        /\ ns[Len(ps) + 1] = x
    <3>1. \A k \in 1 .. Len(ps) : k \in DOMAIN more /\ k \in DOMAIN ps
      BY <1>1
    <3>2. Len(ps) + 1 \in DOMAIN more
      BY <1>1
    <3> HIDE DEF more
    <3> QED
      BY <1>1, <3>1, <3>2
  <2>2. ns \in [1 .. Len(ps) + 1 -> Parts]
    <3>1. \A k \in 1 .. Len(ps) + 1 : PartMeaning(more[k]) \in Parts
      <4>1. \A k \in 1 .. Len(ps) + 1 : k \in 1 .. Len(ps) \/ k = Len(ps) + 1
        BY <1>1
      <4> HIDE DEF more
      <4> QED
        BY <1>1, <1>2, <4>1
    <3> HIDE DEF more
    <3> QED
      BY <1>1, <3>1
  <2>3. ns \in Seq(Parts) /\ Len(ns) = Len(ps) + 1
    <3> HIDE DEF ns
    <3> QED
      BY <1>1, <2>2
  <2> HIDE DEF ns, ms, x
  <2> QED
    BY <1>2, <1>3, <2>1, <2>3, OneLonger
<1>5. /\ FlattenSeq(ms) \in Seq(Part) /\ FlattenSeq(<<>>) = <<>>
      /\ FlattenSeq(Append(ms, x)) = FlattenSeq(ms) \o x
  <2>1. ms \in Seq(Seq(Part)) /\ x \in Seq(Part)
    BY <1>2, <1>3 DEF Parts
  <2> HIDE DEF ms, x
  <2> QED
    BY <2>1, Flattened
<1>6. PartsMeaning(ps) = FlattenSeq(ms) /\ PartsMeaning(more) = FlattenSeq(ns)
  BY Zenon DEF PartsMeaning
<1>7. PartsMeaning(<<>>) = <<>>
  <2>1. [k \in DOMAIN <<>> |-> PartMeaning(<<>>[k])] = <<>>
    OBVIOUS
  <2> QED
    BY <1>5, <2>1, Zenon DEF PartsMeaning
<1> HIDE DEF ms, ns, more, x
<1> QED
  BY <1>4, <1>5, <1>6, <1>7 DEF Parts, more, x

(* Bytes behind bytes of one literal stand for the ones behind the others. *)
LEMMA LiteralsJoin ==
  ASSUME NEW part \in Part, NEW other \in Part, NEW joined \in Part,
         part.kind = "Lit", other.kind = "Lit", joined.kind = "Lit",
         part.quoted = other.quoted, joined.quoted = other.quoted,
         joined.bytes = part.bytes \o other.bytes
  PROVE  PartMeaning(joined) = PartMeaning(part) \o PartMeaning(other)
<1> DEFINE a == PartMeaning(part)
           b == PartMeaning(other)
           c == PartMeaning(joined)
           x == part.bytes
           y == other.bytes
           z == joined.bytes
<1>1. x \in Seq(Byte) /\ y \in Seq(Byte) /\ z \in Seq(Byte)
  BY DEF Part
<1>2. /\ Len(z) = Len(x) + Len(y) /\ Len(x) \in Nat /\ Len(y) \in Nat
      /\ \A k \in 1 .. Len(z) : z[k] = IF k <= Len(x) THEN x[k] ELSE y[k - Len(x)]
  <2>1. z = x \o y
    OBVIOUS
  <2> HIDE DEF x, y, z
  <2>2. Len(z) = Len(x) + Len(y) /\ Len(x) \in Nat /\ Len(y) \in Nat
    BY <1>1, <2>1
  <2>3. \A k \in 1 .. Len(x) + Len(y) : (x \o y)[k] = IF k <= Len(x) THEN x[k] ELSE y[k - Len(x)]
    BY <1>1
  <2> QED
    BY <2>1, <2>2, <2>3
<1>3. /\ a \in Seq(Part) /\ Len(a) = Len(x) /\ \A k \in 1 .. Len(x) : a[k] = Lit(<<x[k]>>, other.quoted)
      /\ b \in Seq(Part) /\ Len(b) = Len(y) /\ \A k \in 1 .. Len(y) : b[k] = Lit(<<y[k]>>, other.quoted)
      /\ c \in Seq(Part) /\ Len(c) = Len(z) /\ \A k \in 1 .. Len(z) : c[k] = Lit(<<z[k]>>, other.quoted)
  BY PartIsParts DEF Parts
<1> HIDE DEF a, b, c, x, y, z
<1>4. ASSUME NEW k \in 1 .. Len(z) PROVE c[k] = (a \o b)[k]
  <2>1. CASE k <= Len(x)
    <3>1. k \in 1 .. Len(x)
      BY <1>2, <2>1
    <3>2. (a \o b)[k] = a[k]
      BY <1>3, <3>1
    <3> QED
      BY <1>2, <1>3, <2>1, <3>1, <3>2
  <2>2. CASE ~(k <= Len(x))
    <3>1. k - Len(x) \in 1 .. Len(y) /\ k \in 1 .. Len(x) + Len(y)
      BY <1>2, <2>2
    <3>2. (a \o b)[k] = b[k - Len(x)]
      BY <1>2, <1>3, <2>2, <3>1
    <3>3. z[k] = y[k - Len(x)]
      BY <1>2, <2>2
    <3> QED
      BY <1>3, <3>1, <3>2, <3>3
  <2> QED
    BY <2>1, <2>2
<1>5. Len(a \o b) = Len(c) /\ a \o b \in Seq(Part)
  <2>0. a \in Seq(Part) /\ b \in Seq(Part)
    BY <1>3
  <2>1. Len(a \o b) = Len(a) + Len(b) /\ a \o b \in Seq(Part)
    BY <2>0
  <2> QED
    BY <1>2, <1>3, <2>1
<1> DEFINE d == a \o b
<1>6. d = c
  <2> HIDE DEF d
  <2>1. d \in Seq(Part) /\ c \in Seq(Part) /\ Len(d) = Len(c) /\ \A k \in 1 .. Len(c) : c[k] = d[k]
    BY <1>3, <1>4, <1>5 DEF d
  <2> QED
    BY <2>1
<1> QED
  BY <1>6 DEF a, b, c

(* A part pushed stands for its meaning more.                              *)
LEMMA PushMeans ==
  ASSUME NEW ps \in Parts, NEW part \in Part
  PROVE  PartsMeaning(Push(ps, part)) = PartsMeaning(ps) \o PartMeaning(part)
<1> DEFINE merges == ps # <<>> /\ part.kind = "Lit" /\ Last(ps).kind = "Lit" /\ Last(ps).quoted = part.quoted
<1>1. CASE merges
  <2>1. ps \in Parts \ {<<>>}
    BY <1>1
  <2> DEFINE f == Front(ps)
             x == Last(ps)
             y == [x EXCEPT !.bytes = @ \o part.bytes]
  <2>2. f \in Parts /\ x \in Part /\ ps = Append(f, x)
    BY <2>1, FrontAndLast
  <2>3. Push(ps, part) = f \o <<y>>
    BY <1>1 DEF Push
  <2>4. y \in Part /\ y.kind = "Lit" /\ y.quoted = x.quoted /\ y.bytes = x.bytes \o part.bytes
    <3>1. x.bytes \o part.bytes \in Seq(Byte)
      BY <2>2 DEF Part
    <3> HIDE DEF x
    <3> QED
      BY <1>1, <2>2, <3>1 DEF Part, x
  <2>5. PartMeaning(y) = PartMeaning(x) \o PartMeaning(part)
    <3> HIDE DEF x, y
    <3> QED
      BY <1>1, <2>2, <2>4, LiteralsJoin DEF x
  <2>6. f \o <<y>> = Append(f, y)
    <3> HIDE DEF f, x, y
    <3> QED
      BY <2>2, <2>4 DEF Parts
  <2>7. /\ PartsMeaning(Append(f, y)) = PartsMeaning(f) \o PartMeaning(y)
        /\ PartsMeaning(Append(f, x)) = PartsMeaning(f) \o PartMeaning(x)
        /\ PartsMeaning(f) \in Parts
    <3> HIDE DEF f, x, y
    <3> QED
      BY <2>2, <2>4, PartsGrow
  <2>8. PartMeaning(x) \in Parts /\ PartMeaning(part) \in Parts
    <3> HIDE DEF f, x, y
    <3> QED
      BY <2>2, PartIsParts
  <2>9. (PartsMeaning(f) \o PartMeaning(x)) \o PartMeaning(part) = PartsMeaning(f) \o (PartMeaning(x) \o PartMeaning(part))
    <3> HIDE DEF f, x, y
    <3> QED
      BY <2>7, <2>8, PartsAssociate, Zenon
  <2> HIDE DEF f, x, y
  <2> QED
    BY <2>2, <2>3, <2>5, <2>6, <2>7, <2>9
<1>2. CASE ~merges
  <2>1. Push(ps, part) = Append(ps, part)
    BY <1>2 DEF Push
  <2> QED
    BY <2>1, PartsGrow
<1> QED
  BY <1>1, <1>2

(* A variable pushed stands for itself more.                               *)
LEMMA PushVarMeans ==
  ASSUME NEW ps \in Parts \ {<<>>}, NEW name \in Seq(Byte)
  PROVE  PartsMeaning(PushVar(ps, name)) = PartsMeaning(ps) \o <<Var(name)>>
<1> DEFINE f == Front(ps)
           x == Last(ps)
           v == Var(name)
<1>1. f \in Parts /\ x \in Part /\ ps = Append(f, x) /\ v \in Part /\ ps \in Parts
  BY FrontAndLast, PartsAre
<1>2. PartMeaning(v) = <<v>>
  BY DEF Var, PartMeaning
<1>3. CASE x.kind = "Lit" /\ x.bytes = <<>>
  <2>1. PushVar(ps, name) = Append(f, v)
    BY <1>3 DEF PushVar
  <2>2. PartMeaning(x) = <<>>
    BY <1>3 DEF PartMeaning
  <2> HIDE DEF f, x, v
  <2>3. PartsMeaning(Append(f, x)) = PartsMeaning(f) \o <<>> /\ PartsMeaning(f) \in Parts
    BY <1>1, <2>2, PartsGrow
  <2>4. PartsMeaning(ps) = PartsMeaning(f)
    BY <1>1, <2>3 DEF Parts
  <2>5. PartsMeaning(Append(f, v)) = PartsMeaning(f) \o <<v>>
    BY <1>1, <1>2, PartsGrow
  <2> QED
    BY <2>1, <2>4, <2>5 DEF v
<1>4. CASE ~(x.kind = "Lit" /\ x.bytes = <<>>)
  <2>1. PushVar(ps, name) = Append(ps, v)
    BY <1>4 DEF PushVar
  <2> HIDE DEF f, x, v
  <2>2. PartsMeaning(Append(ps, v)) = PartsMeaning(ps) \o <<v>>
    BY <1>1, <1>2, PartsGrow
  <2> QED
    BY <2>1, <2>2 DEF v
<1> QED
  BY <1>3, <1>4

(* Parts appended stand for themselves behind the others.                  *)
LEMMA AppendMeans ==
  ASSUME NEW ps \in Parts, NEW others \in Parts
  PROVE  PartsMeaning(AppendParts(ps, others)) = PartsMeaning(ps) \o PartsMeaning(others)
<1>1. PICK h \in [0 .. Len(others) -> Parts] :
           /\ h[0] = ps
           /\ \A k \in 1 .. Len(others) : h[k] = Push(h[k - 1], others[k])
           /\ AppendParts(ps, others) = h[Len(others)]
  BY AppendedByPushes
<1>2. /\ Len(others) \in Nat /\ others \in Seq(Part)
      /\ \A k \in 1 .. Len(others) : others[k] \in Part
  BY DEF Parts
<1> DEFINE first(k) == SubSeq(others, 1, k)
           P == {k \in 0 .. Len(others) : PartsMeaning(h[k]) = PartsMeaning(ps) \o PartsMeaning(first(k))}
<1>3. PartsMeaning(ps) \in Parts /\ PartsMeaning(<<>>) = <<>>
  <2>1. Tilde \in Part
    BY PartsAre
  <2> QED
    BY <2>1, PartsGrow
<1>4. 0 \in P
  <2>1. first(0) = <<>>
    BY <1>2
  <2>2. PartsMeaning(ps) \o <<>> = PartsMeaning(ps)
    BY <1>3 DEF Parts
  <2> HIDE DEF first
  <2>3. PartsMeaning(h[0]) = PartsMeaning(ps) \o PartsMeaning(first(0))
    BY <1>1, <1>3, <2>1, <2>2, Zenon
  <2>4. 0 \in 0 .. Len(others)
    BY <1>2
  <2> QED
    BY <2>3, <2>4, Zenon
<1>5. ASSUME NEW k \in 1 .. Len(others), k - 1 \in P PROVE k \in P
  <2> DEFINE r == first(k - 1)
             x == others[k]
  <2>1. k - 1 \in 0 .. Len(others) /\ k \in 0 .. Len(others) /\ h[k - 1] \in Parts /\ x \in Part
    BY <1>2
  <2>2. r \in Parts
    BY <1>2 DEF Parts
  <2>3. first(k) = Append(r, x)
    <3>1. <<>> \in Seq(Part)
      OBVIOUS
    <3>2. <<>> \o SubSeq(others, 1, k) = Append(<<>> \o SubSeq(others, 1, k - 1), others[k])
      BY <1>2, <3>1, OneElementMore
    <3>3. SubSeq(others, 1, k) \in Seq(Part) /\ SubSeq(others, 1, k - 1) \in Seq(Part)
      BY <1>2
    <3>4. <<>> \o SubSeq(others, 1, k) = SubSeq(others, 1, k)
      BY <3>3
    <3>5. <<>> \o SubSeq(others, 1, k - 1) = SubSeq(others, 1, k - 1)
      BY <3>3
    <3> QED
      BY <3>2, <3>4, <3>5, Zenon
  <2> HIDE DEF r, x, first
  <2>4. PartsMeaning(Append(r, x)) = PartsMeaning(r) \o PartMeaning(x) /\ PartsMeaning(r) \in Parts
    BY <2>1, <2>2, PartsGrow
  <2>5. PartsMeaning(Push(h[k - 1], x)) = PartsMeaning(h[k - 1]) \o PartMeaning(x)
    BY <2>1, PushMeans
  <2>6. PartMeaning(x) \in Parts
    BY <2>1, PartIsParts
  <2>7. (PartsMeaning(ps) \o PartsMeaning(r)) \o PartMeaning(x) = PartsMeaning(ps) \o (PartsMeaning(r) \o PartMeaning(x))
    BY <1>3, <2>4, <2>6, PartsAssociate, Zenon
  <2>8. PartsMeaning(h[k - 1]) = PartsMeaning(ps) \o PartsMeaning(r)
    BY <1>5 DEF r
  <2>9. h[k] = Push(h[k - 1], x)
    BY <1>1 DEF x
  <2> QED
    BY <2>1, <2>3, <2>4, <2>5, <2>7, <2>8, <2>9
<1>6. Len(others) \in P
  <2> HIDE DEF P
  <2>1. \A k \in 0 .. Len(others) : k \in P
    BY <1>2, <1>4, <1>5, Along
  <2> QED
    BY <1>2, <2>1
<1>7. first(Len(others)) = others
  BY <1>2, NoneAndAll
<1> QED
  BY <1>1, <1>6, <1>7

-----------------------------------------------------------------------------
(* How parts are joined where a part is pushed.                            *)

Alike(a, b) == a.kind = "Lit" /\ b.kind = "Lit" /\ a.quoted = b.quoted

(* No two adjacent literals are quoted alike.                              *)
Apart(ps) == \A m \in 2 .. Len(ps) : ~Alike(ps[m], ps[m - 1])

(* A part pushed stays apart from the others.                              *)
LEMMA PushApart ==
  ASSUME NEW ps \in Parts, NEW part \in Part, Apart(ps)
  PROVE  Apart(Push(ps, part))
<1>1. CASE ps # <<>> /\ Alike(part, Last(ps))
  <2> DEFINE f == Front(ps)
             x == Last(ps)
             y == [x EXCEPT !.bytes = @ \o part.bytes]
             N == Len(ps)
  <2>1. /\ f \in Parts /\ x \in Part /\ Len(f) = N - 1 /\ x = ps[N] /\ N \in Nat \ {0}
        /\ \A i \in 1 .. N - 1 : f[i] = ps[i]
    BY <1>1, FrontAndLast
  <2>2. Push(ps, part) = f \o <<y>>
    BY <1>1 DEF Push, Alike
  <2>3. y \in Part /\ y.kind = "Lit" /\ y.quoted = x.quoted
    <3>1. x.bytes \o part.bytes \in Seq(Byte)
      BY <2>1 DEF Part
    <3> HIDE DEF x
    <3> QED
      BY <1>1, <2>1, <3>1 DEF Part, x, Alike
  <2> DEFINE t == Append(f, y)
  <2>4. f \o <<y>> = t /\ Len(t) = N /\ t[N] = y /\ \A i \in 1 .. N - 1 : t[i] = ps[i]
    <3> HIDE DEF f, x, y
    <3>1. f \in Seq(Part)
      BY <2>1 DEF Parts
    <3>2. f \o <<y>> = Append(f, y) /\ Len(Append(f, y)) = Len(f) + 1 /\ Append(f, y)[Len(f) + 1] = y
      BY <2>3, <3>1
    <3>3. \A i \in 1 .. Len(f) : Append(f, y)[i] = f[i]
      BY <2>3, <3>1
    <3>4. N - 1 + 1 = N
      BY <2>1
    <3> QED
      BY <2>1, <3>2, <3>3, <3>4
  <2> HIDE DEF f, x, y, t
  <2>5. ASSUME NEW m \in 2 .. N PROVE ~Alike(t[m], t[m - 1])
    <3>0. m \in 1 .. N /\ m - 1 \in 1 .. N - 1
      BY <2>1
    <3>1. ~Alike(ps[m], ps[m - 1]) /\ t[m - 1] = ps[m - 1]
      BY <2>4, <3>0 DEF Apart
    <3>2. CASE m = N
      <4>1. Alike(x, part) /\ x.quoted = part.quoted /\ x.kind = "Lit"
        BY <1>1 DEF Alike, x
      <4> QED
        BY <2>1, <2>3, <2>4, <3>1, <3>2, <4>1 DEF Alike
    <3>3. CASE m # N
      <4>1. m \in 1 .. N - 1
        BY <2>1, <3>3
      <4> QED
        BY <2>4, <3>1, <4>1
    <3> QED
      BY <3>2, <3>3
  <2> QED
    BY <2>2, <2>4, <2>5 DEF Apart
<1>2. CASE ~(ps # <<>> /\ Alike(part, Last(ps)))
  <2> DEFINE t == Append(ps, part)
             N == Len(ps)
  <2>1. Push(ps, part) = t
    BY <1>2 DEF Push, Alike
  <2>2. N \in Nat /\ Len(t) = N + 1 /\ t[N + 1] = part /\ \A i \in 1 .. N : t[i] = ps[i]
    BY DEF Parts
  <2>3. ps # <<>> => Last(ps) = ps[N]
    BY DEF Last
  <2>4. N # 0 => ps # <<>>
    OBVIOUS
  <2> HIDE DEF t, N
  <2>5. ASSUME NEW m \in 2 .. N + 1 PROVE ~Alike(t[m], t[m - 1])
    <3>1. CASE m = N + 1
      <4>1. N # 0 /\ m - 1 = N /\ N \in 1 .. N
        BY <2>2, <3>1
      <4>2. ~Alike(part, ps[N])
        BY <1>2, <2>3, <2>4, <4>1
      <4> QED
        BY <2>2, <3>1, <4>1, <4>2
    <3>2. CASE m # N + 1
      <4>1. m \in 2 .. N /\ m \in 1 .. N /\ m - 1 \in 1 .. N
        BY <2>2, <3>2
      <4> QED
        BY <2>2, <4>1 DEF Apart, N
    <3> QED
      BY <3>1, <3>2
  <2> QED
    BY <2>1, <2>2, <2>5 DEF Apart
<1> QED
  BY <1>1, <1>2

(* A variable pushed leaves the others apart.                              *)
LEMMA PushVarApart ==
  ASSUME NEW ps \in Parts \ {<<>>}, NEW name \in Seq(Byte), Apart(ps)
  PROVE  Apart(PushVar(ps, name))
<1> DEFINE v == Var(name)
           f == Front(ps)
           N == Len(ps)
<1>1. /\ f \in Parts /\ Len(f) = N - 1 /\ N \in Nat \ {0} /\ \A i \in 1 .. N - 1 : f[i] = ps[i]
      /\ v \in Part /\ ps \in Parts
  BY FrontAndLast, PartsAre
<1>2. \A a : ~Alike(v, a)
  BY DEF Alike, Var
<1> HIDE DEF v
<1>3. ASSUME NEW qs \in Parts, Apart(qs) PROVE Apart(Append(qs, v))
  <2> DEFINE M == Len(qs)
             t == Append(qs, v)
  <2>1. M \in Nat /\ Len(t) = M + 1 /\ t[M + 1] = v /\ \A i \in 1 .. M : t[i] = qs[i]
    BY <1>1 DEF Parts
  <2> HIDE DEF t, M
  <2>2. ASSUME NEW m \in 2 .. M + 1 PROVE ~Alike(t[m], t[m - 1])
    <3>1. CASE m = M + 1
      BY <1>2, <2>1, <3>1
    <3>2. CASE m # M + 1
      <4>1. m \in 2 .. M /\ m \in 1 .. M /\ m - 1 \in 1 .. M
        BY <2>1, <3>2
      <4> QED
        BY <1>3, <2>1, <4>1 DEF Apart, M
    <3> QED
      BY <3>1, <3>2
  <2> QED
    BY <2>1, <2>2 DEF Apart, t
<1>4. Apart(f)
  <2> HIDE DEF f
  <2>1. ASSUME NEW m \in 2 .. N - 1 PROVE ~Alike(f[m], f[m - 1])
    <3>1. m \in 2 .. N /\ m \in 1 .. N - 1 /\ m - 1 \in 1 .. N - 1
      BY <1>1
    <3> QED
      BY <1>1, <3>1 DEF Apart
  <2> QED
    BY <1>1, <2>1 DEF Apart
<1>5. PushVar(ps, name) = Append(f, v) \/ PushVar(ps, name) = Append(ps, v)
  BY DEF PushVar, v
<1> HIDE DEF f, N
<1> QED
  BY <1>1, <1>3, <1>4, <1>5

(* Parts pushed one after the other stay apart.                            *)
LEMMA AppendApart ==
  ASSUME NEW ps \in Parts, NEW others \in Parts, Apart(ps)
  PROVE  Apart(AppendParts(ps, others))
<1>1. PICK h \in [0 .. Len(others) -> Parts] :
           /\ h[0] = ps
           /\ \A k \in 1 .. Len(others) : h[k] = Push(h[k - 1], others[k])
           /\ AppendParts(ps, others) = h[Len(others)]
  BY AppendedByPushes
<1>2. /\ Len(others) \in Nat
      /\ \A k \in 1 .. Len(others) : others[k] \in Part
  BY DEF Parts
<1> DEFINE P == {k \in 0 .. Len(others) : Apart(h[k])}
<1>3. 0 \in P
  BY <1>1, <1>2
<1>4. ASSUME NEW k \in 1 .. Len(others), k - 1 \in P PROVE k \in P
  <2>1. k - 1 \in 0 .. Len(others) /\ k \in 0 .. Len(others) /\ h[k - 1] \in Parts /\ others[k] \in Part
    BY <1>2
  <2>2. Apart(h[k - 1])
    BY <1>4
  <2> QED
    BY <1>1, <2>1, <2>2, PushApart
<1>5. Len(others) \in P
  <2> HIDE DEF P
  <2>1. \A k \in 0 .. Len(others) : k \in P
    BY <1>2, <1>3, <1>4, Along
  <2> QED
    BY <1>2, <2>1
<1> QED
  BY <1>1, <1>5

(* Parts of double quotes are quoted, and behind them the first part of a  *)
(* word is what it was, unless it was quoted too.                          *)
LEMMA PushFirst ==
  ASSUME NEW ps \in Parts, NEW part \in Part
  PROVE  /\ Push(ps, part) \in Parts \ {<<>>}
         /\ ps = <<>> => Push(ps, part) = <<part>>
         /\ ps # <<>> /\ ~(Len(ps) = 1 /\ Alike(part, ps[1])) => Push(ps, part)[1] = ps[1]
         /\ ps # <<>> /\ Len(ps) = 1 /\ Alike(part, ps[1]) =>
              /\ Len(Push(ps, part)) = 1 /\ Push(ps, part)[1].kind = "Lit"
              /\ Push(ps, part)[1].bytes = ps[1].bytes \o part.bytes
              /\ Push(ps, part)[1].quoted = part.quoted
         /\ Len(Push(ps, part)) >= Len(ps) /\ Len(Push(ps, part)) \in Nat \ {0}
         /\ ps # <<>> /\ ~Alike(part, Last(ps)) => Len(Push(ps, part)) = Len(ps) + 1
         /\ Last(Push(ps, part)).quoted = part.quoted
         /\ Last(Push(ps, part)).kind = part.kind
         /\ Last(Push(ps, part)).bytes =
              (IF ps # <<>> /\ Alike(part, Last(ps)) THEN Last(ps).bytes \o part.bytes ELSE part.bytes)
<1> DEFINE N == Len(ps)
           t == Push(ps, part)
<1>0. t \in Parts \ {<<>>}
  BY Pushed
<1>1. CASE ps # <<>> /\ Alike(part, Last(ps))
  <2> DEFINE f == Front(ps)
             x == Last(ps)
             y == [x EXCEPT !.bytes = @ \o part.bytes]
  <2>1. /\ f \in Seq(Part) /\ x \in Part /\ Len(f) = N - 1 /\ x = ps[N] /\ N \in Nat \ {0}
        /\ \A i \in 1 .. N - 1 : f[i] = ps[i]
    BY <1>1, FrontAndLast DEF Parts
  <2>2. t = f \o <<y>>
    BY <1>1 DEF Push, Alike
  <2>3. y \in Part /\ y.kind = "Lit" /\ y.quoted = x.quoted /\ y.bytes = x.bytes \o part.bytes
    <3>1. x.bytes \o part.bytes \in Seq(Byte)
      BY <2>1 DEF Part
    <3> HIDE DEF x
    <3> QED
      BY <1>1, <2>1, <3>1 DEF Part, x, Alike
  <2> HIDE DEF f, x, y
  <2>4. Len(f \o <<y>>) = N /\ (f \o <<y>>)[N] = y
    BY <2>1, <2>3
  <2>5. N > 1 => (f \o <<y>>)[1] = ps[1]
    <3>1. N > 1 => 1 \in 1 .. Len(f) /\ 1 \in 1 .. N - 1
      BY <2>1
    <3> QED
      BY <2>1, <2>3, <3>1
  <2>6. Alike(part, x) /\ x.quoted = part.quoted /\ x.kind = "Lit" /\ part.kind = "Lit"
    BY <1>1 DEF Alike, x
  <2>7. Last(t) = y
    BY <2>2, <2>4 DEF Last
  <2>8. Len(t) = N
    BY <2>2, <2>4
  <2>9. N = 1 => t[1] = y /\ ps[1] = x
    BY <2>1, <2>2, <2>4
  <2>10. N # 1 => N > 1
    BY <2>1
  <2> HIDE DEF t
  <2>11. ps # <<>> /\ N \in Nat \ {0} /\ N >= N
    BY <1>1, <2>1
  <2>12. Last(ps) = x
    BY DEF x
  <2> QED
    BY <1>0, <2>2, <2>3, <2>5, <2>6, <2>7, <2>8, <2>9, <2>10, <2>11, <2>12 DEF t
<1>2. CASE ~(ps # <<>> /\ Alike(part, Last(ps)))
  <2>1. t = Append(ps, part)
    BY <1>2 DEF Push, Alike
  <2>2. ps \in Seq(Part) /\ N \in Nat
    BY DEF Parts
  <2>3. /\ Len(t) = N + 1 /\ t[N + 1] = part /\ \A i \in 1 .. N : t[i] = ps[i]
        /\ (ps = <<>> <=> N = 0)
    BY <2>1, <2>2
  <2>4. ps # <<>> => Last(ps) = ps[N]
    BY DEF Last
  <2>5. Last(t) = part
    BY <2>3 DEF Last
  <2>6. ps = <<>> => t = <<part>>
    BY <2>1
  <2>7. ps # <<>> => 1 \in 1 .. N
    BY <2>2, <2>3
  <2>8. ps # <<>> /\ N = 1 => ~Alike(part, ps[1])
    BY <1>2, <2>4
  <2> HIDE DEF t
  <2>9. N + 1 >= N /\ N + 1 \in Nat \ {0}
    BY <2>2
  <2> QED
    BY <1>0, <1>2, <2>3, <2>5, <2>6, <2>7, <2>8, <2>9 DEF t
<1> QED
  BY <1>1, <1>2

-----------------------------------------------------------------------------
(* The path of the null device.                                            *)

(* Parts are their beginnings, one part after the other.                   *)
LEMMA Beginnings ==
  ASSUME NEW ps \in Parts
  PROVE  /\ SubSeq(ps, 1, 0) = <<>> /\ SubSeq(ps, 1, Len(ps)) = ps /\ Len(ps) \in Nat
         /\ \A k \in 1 .. Len(ps) :
              /\ SubSeq(ps, 1, k - 1) \in Parts /\ ps[k] \in Part
              /\ SubSeq(ps, 1, k) = Append(SubSeq(ps, 1, k - 1), ps[k])
<1>1. ps \in Seq(Part) /\ Len(ps) \in Nat /\ SubSeq(ps, 1, Len(ps)) = ps
  BY NoneAndAll DEF Parts
<1>2. ASSUME NEW k \in 1 .. Len(ps)
      PROVE  /\ SubSeq(ps, 1, k - 1) \in Parts /\ ps[k] \in Part
             /\ SubSeq(ps, 1, k) = Append(SubSeq(ps, 1, k - 1), ps[k])
  <2>1. <<>> \in Seq(Part)
    OBVIOUS
  <2>2. <<>> \o SubSeq(ps, 1, k) = Append(<<>> \o SubSeq(ps, 1, k - 1), ps[k])
    BY <1>1, <2>1, OneElementMore
  <2>3. SubSeq(ps, 1, k) \in Seq(Part) /\ SubSeq(ps, 1, k - 1) \in Seq(Part) /\ ps[k] \in Part
    BY <1>1
  <2>4. <<>> \o SubSeq(ps, 1, k) = SubSeq(ps, 1, k)
    BY <2>3
  <2>5. <<>> \o SubSeq(ps, 1, k - 1) = SubSeq(ps, 1, k - 1)
    BY <2>3
  <2>6. SubSeq(ps, 1, k) = Append(SubSeq(ps, 1, k - 1), ps[k])
    BY <2>2, <2>4, <2>5, Zenon
  <2> QED
    BY <2>3, <2>6 DEF Parts
<1>3. SubSeq(ps, 1, 0) = <<>>
  BY <1>1
<1> QED
  BY <1>1, <1>2, <1>3

BytesOf(ps) == FlattenSeq([k \in DOMAIN ps |-> ps[k].bytes])

(* One part more has its bytes more.                                       *)
LEMMA BytesGrow ==
  ASSUME NEW ps \in Parts, NEW part \in Part
  PROVE  /\ BytesOf(Append(ps, part)) = BytesOf(ps) \o part.bytes
         /\ BytesOf(ps) \in Seq(Byte)
         /\ BytesOf(<<>>) = <<>>
<1> DEFINE more == Append(ps, part)
           ms == [k \in DOMAIN ps |-> ps[k].bytes]
           ns == [k \in DOMAIN more |-> more[k].bytes]
           x == part.bytes
           All == Seq(Byte)
<1>1. /\ DOMAIN ps = 1 .. Len(ps) /\ Len(ps) \in Nat /\ DOMAIN more = 1 .. Len(ps) + 1
      /\ \A k \in 1 .. Len(ps) : more[k] = ps[k] /\ ps[k] \in Part
      /\ more[Len(ps) + 1] = part
  BY DEF Parts
<1>2. x \in All /\ \A k \in 1 .. Len(ps) : ps[k].bytes \in All
  BY <1>1 DEF Part
<1> HIDE DEF All
<1>3. ms \in Seq(All) /\ Len(ms) = Len(ps)
  <2> HIDE DEF more
  <2> QED
    BY <1>1, <1>2
<1>4. ns = Append(ms, x)
  <2>1. /\ \A k \in 1 .. Len(ps) : ns[k] = ms[k]
        /\ ns[Len(ps) + 1] = x
    <3>1. \A k \in 1 .. Len(ps) : k \in DOMAIN more /\ k \in DOMAIN ps
      BY <1>1
    <3>2. Len(ps) + 1 \in DOMAIN more
      BY <1>1
    <3> HIDE DEF more
    <3> QED
      BY <1>1, <3>1, <3>2
  <2>2. ns \in [1 .. Len(ps) + 1 -> All]
    <3>1. \A k \in 1 .. Len(ps) + 1 : more[k].bytes \in All
      <4>1. \A k \in 1 .. Len(ps) + 1 : k \in 1 .. Len(ps) \/ k = Len(ps) + 1
        BY <1>1
      <4> HIDE DEF more
      <4> QED
        BY <1>1, <1>2, <4>1
    <3> HIDE DEF more
    <3> QED
      BY <1>1, <3>1
  <2>3. ns \in Seq(All) /\ Len(ns) = Len(ps) + 1
    <3> HIDE DEF ns
    <3> QED
      BY <1>1, <2>2
  <2> HIDE DEF ns, ms, x
  <2> QED
    BY <1>2, <1>3, <2>1, <2>3, OneLonger
<1>5. /\ FlattenSeq(ms) \in All /\ FlattenSeq(<<>>) = <<>>
      /\ FlattenSeq(Append(ms, x)) = FlattenSeq(ms) \o x
  <2>1. ms \in Seq(Seq(Byte)) /\ x \in Seq(Byte)
    BY <1>2, <1>3 DEF All
  <2> HIDE DEF ms, x
  <2> QED
    BY <2>1, Flattened DEF All
<1>6. BytesOf(ps) = FlattenSeq(ms) /\ BytesOf(more) = FlattenSeq(ns)
  BY Zenon DEF BytesOf
<1>7. BytesOf(<<>>) = <<>>
  <2>1. [k \in DOMAIN <<>> |-> <<>>[k].bytes] = <<>>
    OBVIOUS
  <2> QED
    BY <1>5, <2>1, Zenon DEF BytesOf
<1> HIDE DEF ms, ns, more, x
<1> QED
  BY <1>4, <1>5, <1>6, <1>7 DEF All, more, x

(* m stands for the bytes b, one by one.                                   *)
Spells(m, b) ==
  /\ Len(m) = Len(b)
  /\ \A k \in 1 .. Len(m) : m[k].kind = "Lit" /\ m[k].bytes = <<b[k]>>

AllLits(ps) == \A k \in 1 .. Len(ps) : ps[k].kind = "Lit"

(* Literals spell their bytes; what is more than literals spells none.     *)
LEMMA PartsSpell ==
  ASSUME NEW ps \in Parts
  PROVE  /\ AllLits(ps) => Spells(PartsMeaning(ps), BytesOf(ps))
         /\ ~AllLits(ps) => \E k \in 1 .. Len(PartsMeaning(ps)) : PartsMeaning(ps)[k].kind # "Lit"
<1> DEFINE Says(qs) == /\ AllLits(qs) => Spells(PartsMeaning(qs), BytesOf(qs))
                       /\ ~AllLits(qs) =>
                            \E k \in 1 .. Len(PartsMeaning(qs)) : PartsMeaning(qs)[k].kind # "Lit"
           P == {k \in 0 .. Len(ps) : Says(SubSeq(ps, 1, k))}
<1>1. Says(<<>>)
  <2>1. Tilde \in Part /\ <<>> \in Parts
    BY PartsAre DEF Parts
  <2>2. PartsMeaning(<<>>) = <<>> /\ BytesOf(<<>>) = <<>>
    BY <2>1, PartsGrow, BytesGrow
  <2> QED
    BY <2>2 DEF AllLits, Spells
<1>2. ASSUME NEW qs \in Parts, NEW x \in Part, Says(qs) PROVE Says(Append(qs, x))
  <2> DEFINE m == PartsMeaning(qs)
             b == BytesOf(qs)
             y == PartMeaning(x)
             z == x.bytes
             t == Append(qs, x)
  <2>1. /\ m \in Seq(Part) /\ y \in Seq(Part) /\ b \in Seq(Byte) /\ z \in Seq(Byte)
        /\ PartsMeaning(t) = m \o y /\ BytesOf(t) = b \o z
    BY PartsGrow, BytesGrow, PartIsParts DEF Parts, Part
  <2>2. /\ Len(qs) \in Nat /\ Len(t) = Len(qs) + 1 /\ t[Len(qs) + 1] = x
        /\ \A k \in 1 .. Len(qs) : t[k] = qs[k]
    BY DEF Parts
  <2>3. AllLits(t) <=> AllLits(qs) /\ x.kind = "Lit"
    <3>1. AllLits(t) => AllLits(qs) /\ x.kind = "Lit"
      <4>1. \A k \in 1 .. Len(qs) : k \in 1 .. Len(qs) + 1
        BY <2>2
      <4>2. Len(qs) + 1 \in 1 .. Len(qs) + 1
        BY <2>2
      <4> HIDE DEF t
      <4> QED
        BY <2>2, <4>1, <4>2 DEF AllLits
    <3>2. AllLits(qs) /\ x.kind = "Lit" => AllLits(t)
      <4>1. \A k \in 1 .. Len(qs) + 1 : k \in 1 .. Len(qs) \/ k = Len(qs) + 1
        BY <2>2
      <4> HIDE DEF t
      <4> QED
        BY <2>2, <4>1 DEF AllLits
    <3> QED
      BY <3>1, <3>2
  <2>4. x.kind = "Lit" => /\ Len(y) = Len(z)
                          /\ \A k \in 1 .. Len(z) : y[k].kind = "Lit" /\ y[k].bytes = <<z[k]>>
    <3>1. \A bytes, q : Lit(bytes, q).kind = "Lit" /\ Lit(bytes, q).bytes = bytes
      BY DEF Lit
    <3>2. x.kind = "Lit" => /\ Len(y) = Len(z)
                            /\ \A k \in 1 .. Len(z) : y[k] = Lit(<<z[k]>>, x.quoted)
      BY PartIsParts
    <3> HIDE DEF y, z
    <3>3. ASSUME x.kind = "Lit", NEW k \in 1 .. Len(z)
          PROVE  y[k].kind = "Lit" /\ y[k].bytes = <<z[k]>>
      <4>1. y[k] = Lit(<<z[k]>>, x.quoted)
        BY <3>2, <3>3
      <4> QED
        BY <4>1 DEF Lit
    <3> QED
      BY <3>2, <3>3
  <2>5. x.kind # "Lit" => y = <<x>>
    BY PartIsParts
  <2> HIDE DEF m, b, y, z, t
  <2>6. /\ Len(m) \in Nat /\ Len(y) \in Nat /\ Len(m \o y) = Len(m) + Len(y)
        /\ \A k \in 1 .. Len(m) : (m \o y)[k] = m[k]
        /\ \A k \in 1 .. Len(y) : (m \o y)[Len(m) + k] = y[k]
    <3>1. m \in Seq(Part) /\ y \in Seq(Part)
      BY <2>1
    <3>2. Len(m) \in Nat /\ Len(y) \in Nat /\ Len(m \o y) = Len(m) + Len(y)
      BY <3>1
    <3>3. \A k \in 1 .. Len(m) : (m \o y)[k] = m[k]
      BY <3>1
    <3>4. ASSUME NEW k \in 1 .. Len(y) PROVE (m \o y)[Len(m) + k] = y[k]
      <4>1. Len(m) + k \in 1 .. Len(m) + Len(y) /\ ~(Len(m) + k <= Len(m)) /\ (Len(m) + k) - Len(m) = k
        BY <3>2
      <4>2. \A j \in 1 .. Len(m) + Len(y) : (m \o y)[j] = IF j <= Len(m) THEN m[j] ELSE y[j - Len(m)]
        BY <3>1
      <4> QED
        BY <4>1, <4>2
    <3> QED
      BY <3>2, <3>3, <3>4
  <2>7. CASE AllLits(t)
    <3>1. AllLits(qs) /\ x.kind = "Lit"
      BY <2>3, <2>7
    <3>2. Len(m) = Len(b) /\ \A k \in 1 .. Len(m) : m[k].kind = "Lit" /\ m[k].bytes = <<b[k]>>
      BY <1>2, <3>1 DEF Spells, m, b
    <3>3. Len(y) = Len(z) /\ \A k \in 1 .. Len(z) : y[k].kind = "Lit" /\ y[k].bytes = <<z[k]>>
      BY <2>4, <3>1
    <3>4. /\ Len(b \o z) = Len(b) + Len(z)
          /\ \A j \in 1 .. Len(b) + Len(z) : (b \o z)[j] = IF j <= Len(b) THEN b[j] ELSE z[j - Len(b)]
      <4>1. b \in Seq(Byte) /\ z \in Seq(Byte)
        BY <2>1
      <4> QED
        BY <4>1
    <3>5. ASSUME NEW j \in 1 .. Len(m \o y)
          PROVE  (m \o y)[j].kind = "Lit" /\ (m \o y)[j].bytes = <<(b \o z)[j]>>
      <4>1. CASE j <= Len(m)
        <5>1. j \in 1 .. Len(m) /\ j \in 1 .. Len(b) + Len(z) /\ j <= Len(b)
          BY <2>6, <3>2, <3>3, <4>1
        <5>2. (b \o z)[j] = b[j]
          BY <3>4, <5>1
        <5> QED
          BY <2>6, <3>2, <5>1, <5>2
      <4>2. CASE ~(j <= Len(m))
        <5>1. j - Len(m) \in 1 .. Len(y) /\ j = Len(m) + (j - Len(m)) /\ j \in 1 .. Len(b) + Len(z) /\ ~(j <= Len(b))
          BY <2>6, <3>2, <3>3, <4>2
        <5>2. (b \o z)[j] = z[j - Len(m)]
          BY <3>2, <3>4, <5>1
        <5>3. (m \o y)[j] = y[j - Len(m)]
          BY <2>6, <5>1
        <5> QED
          BY <3>3, <5>1, <5>2, <5>3
      <4> QED
        BY <4>1, <4>2
    <3>6. Len(m \o y) = Len(b \o z)
      BY <2>6, <3>2, <3>3, <3>4
    <3> QED
      BY <2>1, <2>7, <3>5, <3>6 DEF Spells, t
  <2>8. CASE ~AllLits(t)
    <3>1. SUFFICES \E j \in 1 .. Len(m \o y) : (m \o y)[j].kind # "Lit"
      BY <2>1, <2>8 DEF t
    <3>2. CASE ~AllLits(qs)
      <4>1. PICK k \in 1 .. Len(m) : m[k].kind # "Lit"
        BY <1>2, <3>2 DEF m
      <4>2. k \in 1 .. Len(m \o y) /\ (m \o y)[k] = m[k]
        BY <2>6
      <4> QED
        BY <4>1, <4>2
    <3>3. CASE x.kind # "Lit"
      <4>1. y = <<x>>
        BY <2>5, <3>3
      <4>2. Len(y) = 1 /\ y[1] = x /\ 1 \in 1 .. Len(y)
        BY <4>1
      <4>3. Len(m) + 1 \in 1 .. Len(m \o y) /\ (m \o y)[Len(m) + 1] = x
        BY <2>6, <4>2
      <4> QED
        BY <3>3, <4>3
    <3> QED
      BY <2>3, <2>8, <3>2, <3>3
  <2> QED
    BY <2>7, <2>8
<1>3. 0 \in P
  <2>1. SubSeq(ps, 1, 0) = <<>> /\ Len(ps) \in Nat
    BY Beginnings
  <2> HIDE DEF Says
  <2>2. Says(SubSeq(ps, 1, 0))
    BY <1>1, <2>1, Zenon
  <2> QED
    BY <2>1, <2>2
<1>4. ASSUME NEW k \in 1 .. Len(ps), k - 1 \in P PROVE k \in P
  <2>1. /\ SubSeq(ps, 1, k - 1) \in Parts /\ ps[k] \in Part
        /\ SubSeq(ps, 1, k) = Append(SubSeq(ps, 1, k - 1), ps[k])
    BY Beginnings
  <2>2. Says(SubSeq(ps, 1, k - 1)) /\ k \in 0 .. Len(ps)
    BY <1>4
  <2> HIDE DEF Says
  <2> QED
    BY <1>2, <2>1, <2>2
<1>5. Len(ps) \in P
  <2> HIDE DEF P
  <2>1. Len(ps) \in Nat
    BY Beginnings
  <2>2. \A k \in 0 .. Len(ps) : k \in P
    BY <1>3, <1>4, <2>1, Along
  <2> QED
    BY <2>1, <2>2
<1> QED
  BY <1>5, Beginnings

(* What is the null device is so by what it stands for.                    *)
LEMMA NullDevice ==
  ASSUME NEW ps \in Parts
  PROVE  IsDevNull(ps) <=> Spells(PartsMeaning(ps), DevNull)
<1> DEFINE m == PartsMeaning(ps)
           b == BytesOf(ps)
<1>1. DOMAIN ps = 1 .. Len(ps)
  BY DEF Parts
<1>2. IsDevNull(ps) <=> AllLits(ps) /\ b = DevNull
  BY <1>1, Zenon DEF IsDevNull, AllLits, BytesOf
<1>3. b \in Seq(Byte) /\ DevNull \in Seq(STRING)
  <2>1. Tilde \in Part
    BY PartsAre
  <2> QED
    BY <2>1, BytesGrow, ClassesAssumption
<1>4. /\ AllLits(ps) => Spells(m, b)
      /\ ~AllLits(ps) => \E k \in 1 .. Len(m) : m[k].kind # "Lit"
  BY PartsSpell
<1> HIDE DEF m, b
<1>5. Spells(m, b) /\ Spells(m, DevNull) => b = DevNull
  <2>1. SUFFICES ASSUME Spells(m, b), Spells(m, DevNull) PROVE b = DevNull
    OBVIOUS
  <2>2. Len(b) = Len(DevNull) /\ \A k \in 1 .. Len(b) : b[k] = DevNull[k]
    BY <2>1 DEF Spells
  <2>3. b \in Seq(STRING)
    BY <1>3 DEF Byte
  <2> QED
    BY <1>3, <2>2, <2>3
<1>6. Spells(m, DevNull) => AllLits(ps)
  BY <1>4 DEF Spells
<1> QED
  BY <1>2, <1>4, <1>5, <1>6 DEF m

-----------------------------------------------------------------------------
(* How the quoting goes on.                                                *)

Quoters == {"'", "\"", "\\"}

(* The quoting of a byte and of the next.                                  *)
LEMMA NextQuoting ==
  ASSUME NEW s, NEW cs, Reads(s, cs)
  PROVE  /\ s \in Seq(Byte) /\ DOMAIN s = 1 .. Len(s) /\ Len(s) \in Nat /\ cs[1] = "Bare"
         /\ \A k \in 1 .. Len(s) : s[k] \in Byte /\ s[k] # None
         /\ \A k \in 1 .. Len(s) + 1 : cs[k] \in Quoted
         /\ \A k \in 1 .. Len(s) :
              /\ cs[k] = "Bare" /\ s[k] = "'" => cs[k + 1] = "Single"
              /\ cs[k] = "Bare" /\ s[k] = "\"" => cs[k + 1] = "Double"
              /\ cs[k] = "Bare" /\ s[k] = "\\" => cs[k + 1] = "BareEscape"
              /\ cs[k] = "Bare" /\ s[k] \notin Quoters => cs[k + 1] = "Bare"
              /\ cs[k] = "Single" /\ s[k] = "'" => cs[k + 1] = "Bare"
              /\ cs[k] = "Single" /\ s[k] # "'" => cs[k + 1] = "Single"
              /\ cs[k] = "Double" /\ s[k] = "\\" => cs[k + 1] = "DoubleEscape"
              /\ cs[k] = "Double" /\ s[k] = "\"" => cs[k + 1] = "Bare"
              /\ cs[k] = "Double" /\ s[k] \notin {"\"", "\\"} => cs[k + 1] = "Double"
              /\ cs[k] = "BareEscape" => cs[k + 1] = "Bare"
              /\ cs[k] = "DoubleEscape" => cs[k + 1] = "Double"
<1>1. s \in Seq(Byte) /\ DOMAIN s = 1 .. Len(s) /\ Len(s) \in Nat /\ cs[1] = "Bare"
  BY DEF Reads
<1>2. \A k \in 1 .. Len(s) : s[k] \in Byte /\ s[k] # None
  BY <1>1, Bytes
<1>3. \A k \in 1 .. Len(s) + 1 : cs[k] \in Quoted
  BY DEF Reads
<1>4. ASSUME NEW k \in 1 .. Len(s)
      PROVE  /\ cs[k] = "Bare" /\ s[k] = "'" => cs[k + 1] = "Single"
             /\ cs[k] = "Bare" /\ s[k] = "\"" => cs[k + 1] = "Double"
             /\ cs[k] = "Bare" /\ s[k] = "\\" => cs[k + 1] = "BareEscape"
             /\ cs[k] = "Bare" /\ s[k] \notin Quoters => cs[k + 1] = "Bare"
             /\ cs[k] = "Single" /\ s[k] = "'" => cs[k + 1] = "Bare"
             /\ cs[k] = "Single" /\ s[k] # "'" => cs[k + 1] = "Single"
             /\ cs[k] = "Double" /\ s[k] = "\\" => cs[k + 1] = "DoubleEscape"
             /\ cs[k] = "Double" /\ s[k] = "\"" => cs[k + 1] = "Bare"
             /\ cs[k] = "Double" /\ s[k] \notin {"\"", "\\"} => cs[k + 1] = "Double"
             /\ cs[k] = "BareEscape" => cs[k + 1] = "Bare"
             /\ cs[k] = "DoubleEscape" => cs[k + 1] = "Double"
  <2>1. k \in 1 .. Len(s) + 1
    BY <1>1
  <2>2. cs[k] \in Quoted /\ cs[k + 1] = After(cs[k], s[k])
    BY <1>3, <2>1 DEF Reads
  <2> QED
    BY <2>2, AfterIs, Zenon DEF Quoters
<1> QED
  BY <1>1, <1>2, <1>3, <1>4

(* The bytes from a to before b leave the quoting c.                       *)
Leaves(s, c, a, b) ==
  \A m \in a .. b - 1 : \/ c = "Bare" /\ s[m] \notin Quoters
                        \/ c = "Single" /\ s[m] # "'"
                        \/ c = "Double" /\ s[m] \notin {"\"", "\\"}

(* Bytes after which the quoting is the same leave it so.                  *)
LEMMA StaysQuoted ==
  ASSUME NEW s, NEW cs, Reads(s, cs), NEW a \in 1 .. Len(s) + 1, NEW b \in a .. Len(s) + 1,
         NEW c \in {"Bare", "Single", "Double"}, cs[a] = c, Leaves(s, c, a, b)
  PROVE  \A m \in a .. b : cs[m] = c
<1> DEFINE N == b - a
           P == {k \in 0 .. N : cs[a + k] = c}
<1>0. Len(s) \in Nat
  BY DEF Reads
<1>1. a \in Nat /\ b \in Nat /\ N \in Nat /\ a + N = b
  BY <1>0
<1>2. 0 \in P
  <2>1. a + 0 = a /\ 0 \in 0 .. N
    BY <1>1
  <2> QED
    BY <2>1
<1>3. ASSUME NEW k \in 1 .. N, k - 1 \in P PROVE k \in P
  <2> DEFINE m == a + (k - 1)
  <2>1. m \in a .. b - 1 /\ m \in 1 .. Len(s) /\ m + 1 = a + k /\ k \in 0 .. N
    BY <1>0, <1>1
  <2>2. cs[m] = c
    BY <1>3
  <2>3. cs[m + 1] = c
    <3>1. \/ c = "Bare" /\ s[m] \notin Quoters
          \/ c = "Single" /\ s[m] # "'"
          \/ c = "Double" /\ s[m] \notin {"\"", "\\"}
      BY <2>1 DEF Leaves
    <3>2. /\ cs[m] = "Bare" /\ s[m] \notin Quoters => cs[m + 1] = "Bare"
          /\ cs[m] = "Single" /\ s[m] # "'" => cs[m + 1] = "Single"
          /\ cs[m] = "Double" /\ s[m] \notin {"\"", "\\"} => cs[m + 1] = "Double"
      <4> HIDE DEF m
      <4> QED
        BY <2>1, NextQuoting
    <3> HIDE DEF m
    <3> QED
      BY <2>2, <3>1, <3>2
  <2> QED
    BY <2>1, <2>3
<1>4. \A k \in 0 .. N : k \in P
  <2> HIDE DEF P, N
  <2> QED
    BY <1>1, <1>2, <1>3, Along
<1>5. ASSUME NEW m \in a .. b PROVE cs[m] = c
  <2>1. m - a \in 0 .. N /\ a + (m - a) = m
    BY <1>1
  <2>2. m - a \in P
    BY <1>4, <2>1
  <2> QED
    BY <2>1, <2>2
<1> QED
  BY <1>5

(* Which bytes are which.                                                  *)
LEMMA ClassesApart ==
  /\ \A b \in Letter \cup Control \cup NonAscii :
       /\ b \notin Digit /\ b \notin WordTerminator /\ b \notin Special /\ b \notin SpecialParameter
       /\ b \notin {"=", "+", ":", "/"} /\ b \notin TokenEnd /\ b \notin Blank /\ b # None
       /\ b \notin Quoters
  /\ \A b \in Letter : b \notin Control /\ b \notin NonAscii
  /\ \A b \in Control : b \notin Letter /\ b \notin NonAscii
  /\ \A b \in NonAscii : b \notin Letter /\ b \notin Control
<1>1. \A b \in Letter \cup Control \cup NonAscii : b \notin Named /\ b # None
  BY ClassesAssumption, NoneIsNoByte
<1>2. Digit \subseteq Named /\ WordTerminator \subseteq Named /\ Special \subseteq Named
      /\ SpecialParameter \subseteq Named /\ {"=", "+", ":", "/"} \subseteq Named
  BY DEF Named, SpecialParameter
<1>3. TokenEnd \ {None} \subseteq WordTerminator /\ Blank \subseteq WordTerminator
  BY DEF WordTerminator, TokenEnd, Blank, None
<1>4. Quoters \subseteq Special
  BY DEF Quoters, Special
<1> QED
  BY <1>1, <1>2, <1>3, <1>4, ClassesAssumption

-----------------------------------------------------------------------------
(* The problems, by kind and place.                                        *)

NeverCloses(s, cs, k, c) ==
  cs[k] = "Bare" /\ cs[k + 1] = c /\ \A m \in k + 1 .. Len(s) + 1 : cs[m] # "Bare"

ByteTrouble(s, cs, kind, k) ==
  \/ kind = "ControlByte" /\ s[k] \in Control
  \/ kind = "Parenthesis" /\ cs[k] = "Bare" /\ s[k] \in {"(", ")"}
  \/ kind = "InputRedirect" /\ cs[k] = "Bare" /\ s[k] = "<"
  \/ kind = "UnquotedDollar" /\ cs[k] = "Bare" /\ s[k] = "$"
  \/ kind = "Brace" /\ cs[k] = "Bare" /\ s[k] \in {"{", "}"}
  \/ kind = "Glob" /\ cs[k] = "Bare" /\ s[k] \in {"*", "?", "["}
  \/ kind = "Backquote" /\ s[k] = Backquote /\ cs[k] \in {"Bare", "Double"}
  \/ kind = "Comment" /\ cs[k] = "Bare" /\ s[k] = "#" /\ WordStart(s, cs, k)
  \/ kind = "TildeForm" /\ cs[k] = "Bare" /\ s[k] = "~" /\ WordStart(s, cs, k)
       /\ ByteAt(s, k + 1) \notin TokenEnd \cup {"/"}
  \/ kind = "TildeAssignment" /\ k \in AssignmentTildes(s, cs)

QuoteTrouble(s, cs, kind, k) ==
  \/ kind = "UnterminatedSingleQuote" /\ NeverCloses(s, cs, k, "Single")
  \/ kind = "UnterminatedDoubleQuote" /\ NeverCloses(s, cs, k, "Double")
  \/ /\ k \in Escapes(s, cs)
     /\ \/ kind = "BackslashAfterNonAscii" /\ ByteAt(s, k - 1) \in NonAscii
        \/ kind = "BackslashAtEnd" /\ ByteAt(s, k + 1) = None
        \/ kind = "LineContinuation" /\ ByteAt(s, k + 1) = "\n"

OpTrouble(s, cs, kind, k) ==
  /\ k \notin Seconds(s, cs) /\ cs[k] = "Bare"
  /\ \/ kind = "DoubleSemicolon" /\ s[k] = ";" /\ ByteAt(s, k + 1) = ";"
     \/ kind = "SemicolonAmpersand" /\ s[k] = ";" /\ ByteAt(s, k + 1) = "&"
     \/ kind = "AmpersandRedirect" /\ s[k] = "&" /\ ByteAt(s, k + 1) = ">"
     \/ kind = "PipeAmpersand" /\ s[k] = "|" /\ ByteAt(s, k + 1) = "&"
     \/ kind = "BackgroundAmpersand" /\ s[k] = "&" /\ ByteAt(s, k + 1) \notin {"&", ">"}
          /\ ~Is(s, cs, k - 1, "Bare", ">")

DollarTrouble(s, cs, kind, k) ==
  /\ kind = DollarKind(s, k) /\ Is(s, cs, k, "Double", "$")
  /\ ~VarAt(s, k) /\ ByteAt(s, k + 1) # "\""

(* The troubles of the byte at k.                                          *)
Trouble(s, cs, kind, k) ==
  /\ k \in DOMAIN s
  /\ \/ ByteTrouble(s, cs, kind, k) \/ QuoteTrouble(s, cs, kind, k)
     \/ OpTrouble(s, cs, kind, k) \/ DollarTrouble(s, cs, kind, k)

(* A problem of a kind is at one of its places.                            *)
LEMMA ProblemIs ==
  ASSUME NEW kind, NEW places, NEW p
  PROVE  p \in Problem(kind, places) <=> \E k \in places : p = Finding(kind, k)
BY DEF Problem, Finding

(* What is wrong with a byte itself.                                       *)
LEMMA ByteProblemsAre ==
  ASSUME NEW s, NEW cs, NEW p
  PROVE  p \in ByteProblems(s, cs) <=>
           \E k \in DOMAIN s : \E kind : p = Finding(kind, k) /\ ByteTrouble(s, cs, kind, k)
<1> DEFINE bare(set) == BareAmong(s, cs, set)
           commented == {j \in bare({"#"}) : WordStart(s, cs, j)}
           tilded == {j \in bare({"~"}) : WordStart(s, cs, j) /\ ByteAt(s, j + 1) \notin TokenEnd \cup {"/"}}
           ticked == {j \in DOMAIN s : s[j] = Backquote /\ cs[j] \in {"Bare", "Double"}}
           control == {j \in DOMAIN s : s[j] \in Control}
<1>1. p \in ByteProblems(s, cs) <=>
        \/ p \in Problem("ControlByte", control)
        \/ p \in Problem("Parenthesis", bare({"(", ")"}))
        \/ p \in Problem("InputRedirect", bare({"<"}))
        \/ p \in Problem("UnquotedDollar", bare({"$"}))
        \/ p \in Problem("Brace", bare({"{", "}"}))
        \/ p \in Problem("Glob", bare({"*", "?", "["}))
        \/ p \in Problem("Backquote", ticked)
        \/ p \in Problem("Comment", commented)
        \/ p \in Problem("TildeForm", tilded)
        \/ p \in Problem("TildeAssignment", AssignmentTildes(s, cs))
  BY Zenon DEF ByteProblems
<1>2. \A set, k : k \in bare(set) <=> k \in DOMAIN s /\ cs[k] = "Bare" /\ s[k] \in set
  BY DEF BareAmong
<1>3. \A k : k \in AssignmentTildes(s, cs) => k \in DOMAIN s
  BY DEF AssignmentTildes
<1> HIDE DEF bare
<1> DEFINE BareAt(kind, set) == \E k \in DOMAIN s : p = Finding(kind, k) /\ cs[k] = "Bare" /\ s[k] \in set
<1>10. ASSUME NEW kind, NEW set
       PROVE  p \in Problem(kind, bare(set)) <=> BareAt(kind, set)
  BY <1>2, ProblemIs
<1>4. /\ p \in Problem("Parenthesis", bare({"(", ")"})) <=> BareAt("Parenthesis", {"(", ")"})
      /\ p \in Problem("InputRedirect", bare({"<"})) <=> BareAt("InputRedirect", {"<"})
      /\ p \in Problem("UnquotedDollar", bare({"$"})) <=> BareAt("UnquotedDollar", {"$"})
      /\ p \in Problem("Brace", bare({"{", "}"})) <=> BareAt("Brace", {"{", "}"})
      /\ p \in Problem("Glob", bare({"*", "?", "["})) <=> BareAt("Glob", {"*", "?", "["})
  <2> HIDE DEF BareAt
  <2> QED
    BY <1>10, Zenon
<1>5. /\ p \in Problem("ControlByte", control) <=> \E k \in DOMAIN s : p = Finding("ControlByte", k) /\ s[k] \in Control
      /\ p \in Problem("Backquote", ticked) <=>
           \E k \in DOMAIN s : p = Finding("Backquote", k) /\ s[k] = Backquote /\ cs[k] \in {"Bare", "Double"}
      /\ p \in Problem("Comment", commented) <=>
           \E k \in DOMAIN s : p = Finding("Comment", k) /\ cs[k] = "Bare" /\ s[k] = "#" /\ WordStart(s, cs, k)
      /\ p \in Problem("TildeForm", tilded) <=>
           \E k \in DOMAIN s : p = Finding("TildeForm", k) /\ cs[k] = "Bare" /\ s[k] = "~" /\ WordStart(s, cs, k)
             /\ ByteAt(s, k + 1) \notin TokenEnd \cup {"/"}
      /\ p \in Problem("TildeAssignment", AssignmentTildes(s, cs)) <=>
           \E k \in DOMAIN s : p = Finding("TildeAssignment", k) /\ k \in AssignmentTildes(s, cs)
  BY <1>2, <1>3, ProblemIs
<1> HIDE DEF control, ticked, commented, tilded
<1>6. p \in ByteProblems(s, cs) <=>
        \/ \E k \in DOMAIN s : p = Finding("ControlByte", k) /\ s[k] \in Control
        \/ BareAt("Parenthesis", {"(", ")"})
        \/ BareAt("InputRedirect", {"<"})
        \/ BareAt("UnquotedDollar", {"$"})
        \/ BareAt("Brace", {"{", "}"})
        \/ BareAt("Glob", {"*", "?", "["})
        \/ \E k \in DOMAIN s : p = Finding("Backquote", k) /\ s[k] = Backquote /\ cs[k] \in {"Bare", "Double"}
        \/ \E k \in DOMAIN s : p = Finding("Comment", k) /\ cs[k] = "Bare" /\ s[k] = "#" /\ WordStart(s, cs, k)
        \/ \E k \in DOMAIN s : p = Finding("TildeForm", k) /\ cs[k] = "Bare" /\ s[k] = "~" /\ WordStart(s, cs, k)
             /\ ByteAt(s, k + 1) \notin TokenEnd \cup {"/"}
        \/ \E k \in DOMAIN s : p = Finding("TildeAssignment", k) /\ k \in AssignmentTildes(s, cs)
  <2> HIDE DEF BareAt
  <2> QED
    BY <1>1, <1>4, <1>5, Zenon
<1>7. ASSUME p \in ByteProblems(s, cs)
      PROVE  \E k \in DOMAIN s : \E kind : p = Finding(kind, k) /\ ByteTrouble(s, cs, kind, k)
  BY <1>6, <1>7 DEF ByteTrouble
<1>8. ASSUME NEW k \in DOMAIN s, NEW kind, p = Finding(kind, k), ByteTrouble(s, cs, kind, k)
      PROVE  p \in ByteProblems(s, cs)
  BY <1>6, <1>8 DEF ByteTrouble
<1> QED
  BY <1>7, <1>8

(* What is wrong with a quote or a backslash.                              *)
LEMMA QuoteProblemsAre ==
  ASSUME NEW s, NEW cs, NEW p
  PROVE  p \in QuoteProblems(s, cs) <=>
           \E k \in DOMAIN s : \E kind : p = Finding(kind, k) /\ QuoteTrouble(s, cs, kind, k)
<1> DEFINE open(c) == {j \in DOMAIN s : NeverCloses(s, cs, j, c)}
           after == {j \in Escapes(s, cs) : ByteAt(s, j - 1) \in NonAscii}
           escaped(set) == {j \in Escapes(s, cs) : ByteAt(s, j + 1) \in set}
<1>0. \A c : open(c) = {j \in DOMAIN s : /\ cs[j] = "Bare" /\ cs[j + 1] = c
                                       /\ \A m \in j + 1 .. Len(s) + 1 : cs[m] # "Bare"}
  BY DEF NeverCloses
<1>1. p \in QuoteProblems(s, cs) <=>
        \/ p \in Problem("UnterminatedSingleQuote", open("Single"))
        \/ p \in Problem("UnterminatedDoubleQuote", open("Double"))
        \/ p \in Problem("BackslashAfterNonAscii", after)
        \/ p \in Problem("BackslashAtEnd", escaped({None}))
        \/ p \in Problem("LineContinuation", escaped({"\n"}))
  <2> HIDE DEF open
  <2> QED
    BY <1>0, Zenon DEF QuoteProblems
<1>2. \A k : k \in Escapes(s, cs) => k \in DOMAIN s
  BY DEF Escapes
<1>3. /\ p \in Problem("UnterminatedSingleQuote", open("Single")) <=>
           \E k \in DOMAIN s : p = Finding("UnterminatedSingleQuote", k) /\ NeverCloses(s, cs, k, "Single")
      /\ p \in Problem("UnterminatedDoubleQuote", open("Double")) <=>
           \E k \in DOMAIN s : p = Finding("UnterminatedDoubleQuote", k) /\ NeverCloses(s, cs, k, "Double")
  BY ProblemIs
<1>4. /\ p \in Problem("BackslashAfterNonAscii", after) <=>
           \E k \in DOMAIN s : p = Finding("BackslashAfterNonAscii", k) /\ k \in Escapes(s, cs) /\ ByteAt(s, k - 1) \in NonAscii
      /\ p \in Problem("BackslashAtEnd", escaped({None})) <=>
           \E k \in DOMAIN s : p = Finding("BackslashAtEnd", k) /\ k \in Escapes(s, cs) /\ ByteAt(s, k + 1) = None
      /\ p \in Problem("LineContinuation", escaped({"\n"})) <=>
           \E k \in DOMAIN s : p = Finding("LineContinuation", k) /\ k \in Escapes(s, cs) /\ ByteAt(s, k + 1) = "\n"
  BY <1>2, ProblemIs
<1> HIDE DEF open, after, escaped
<1> QED
  BY <1>1, <1>3, <1>4 DEF QuoteTrouble

(* What is wrong with an operator.                                         *)
LEMMA OpProblemsAre ==
  ASSUME NEW s, NEW cs, NEW p, DOMAIN s \subseteq Int
  PROVE  p \in OpProblems(s, cs) <=>
           \E k \in DOMAIN s : \E kind : p = Finding(kind, k) /\ OpTrouble(s, cs, kind, k)
<1> DEFINE first == DOMAIN s \ Seconds(s, cs)
           followed(b, c) == {j \in first : Is(s, cs, j, "Bare", b) /\ ByteAt(s, j + 1) = c}
           behind == {j + 1 : j \in Greaters(s, cs)}
           lone == (first \cap BareAmong(s, cs, {"&"}))
                     \ (followed("&", "&") \cup followed("&", ">") \cup behind)
<1>1. p \in OpProblems(s, cs) <=>
        \/ p \in Problem("DoubleSemicolon", followed(";", ";"))
        \/ p \in Problem("SemicolonAmpersand", followed(";", "&"))
        \/ p \in Problem("AmpersandRedirect", followed("&", ">"))
        \/ p \in Problem("PipeAmpersand", followed("|", "&"))
        \/ p \in Problem("BackgroundAmpersand", lone)
  BY Zenon DEF OpProblems
<1>2. \A b, c, k : k \in followed(b, c) <=>
        k \in DOMAIN s /\ k \notin Seconds(s, cs) /\ cs[k] = "Bare" /\ s[k] = b /\ ByteAt(s, k + 1) = c
  BY DEF Is
<1>3. \A k \in DOMAIN s : k \in behind <=> Is(s, cs, k - 1, "Bare", ">")
  <2>1. ASSUME NEW k \in DOMAIN s, k \in behind PROVE Is(s, cs, k - 1, "Bare", ">")
    <3>1. PICK j \in Greaters(s, cs) : k = j + 1
      BY <2>1
    <3>2. j \in Int /\ Is(s, cs, j, "Bare", ">")
      BY DEF Greaters
    <3>3. k - 1 = j
      BY <3>1, <3>2
    <3> QED
      BY <3>2, <3>3
  <2>2. ASSUME NEW k \in DOMAIN s, Is(s, cs, k - 1, "Bare", ">") PROVE k \in behind
    <3>1. k - 1 \in Greaters(s, cs)
      BY <2>2 DEF Greaters, Is
    <3>2. (k - 1) + 1 = k
      OBVIOUS
    <3> QED
      BY <3>1, <3>2
  <2> HIDE DEF behind
  <2> QED
    BY <2>1, <2>2
<1>4. \A k : k \in lone <=> /\ k \in DOMAIN s /\ k \notin Seconds(s, cs) /\ cs[k] = "Bare" /\ s[k] = "&"
                            /\ ByteAt(s, k + 1) \notin {"&", ">"} /\ ~Is(s, cs, k - 1, "Bare", ">")
  <2>1. \A k : k \in BareAmong(s, cs, {"&"}) <=> k \in DOMAIN s /\ cs[k] = "Bare" /\ s[k] = "&"
    BY DEF BareAmong
  <2> HIDE DEF behind, followed
  <2> QED
    BY <1>2, <1>3, <2>1
<1> HIDE DEF lone, followed
<1>5. \A kind, set : p \in Problem(kind, set) <=> \E k \in set : p = Finding(kind, k)
  BY ProblemIs
<1>6. p \in OpProblems(s, cs) <=>
        \/ \E k \in followed(";", ";") : p = Finding("DoubleSemicolon", k)
        \/ \E k \in followed(";", "&") : p = Finding("SemicolonAmpersand", k)
        \/ \E k \in followed("&", ">") : p = Finding("AmpersandRedirect", k)
        \/ \E k \in followed("|", "&") : p = Finding("PipeAmpersand", k)
        \/ \E k \in lone : p = Finding("BackgroundAmpersand", k)
  BY <1>1, <1>5, Zenon
<1>7. ASSUME p \in OpProblems(s, cs)
      PROVE  \E k \in DOMAIN s : \E kind : p = Finding(kind, k) /\ OpTrouble(s, cs, kind, k)
  <2>1. PICK kind, k : /\ p = Finding(kind, k)
                       /\ \/ kind = "DoubleSemicolon" /\ k \in followed(";", ";")
                          \/ kind = "SemicolonAmpersand" /\ k \in followed(";", "&")
                          \/ kind = "AmpersandRedirect" /\ k \in followed("&", ">")
                          \/ kind = "PipeAmpersand" /\ k \in followed("|", "&")
                          \/ kind = "BackgroundAmpersand" /\ k \in lone
    BY <1>6, <1>7
  <2>2. k \in DOMAIN s /\ OpTrouble(s, cs, kind, k)
    <3>1. ASSUME NEW b, NEW c, k \in followed(b, c)
          PROVE  k \in DOMAIN s /\ k \notin Seconds(s, cs) /\ cs[k] = "Bare" /\ s[k] = b /\ ByteAt(s, k + 1) = c
      BY <1>2, <3>1, Zenon
    <3>2. CASE kind = "DoubleSemicolon" /\ k \in followed(";", ";")
      BY <3>1, <3>2, Zenon DEF OpTrouble
    <3>3. CASE kind = "SemicolonAmpersand" /\ k \in followed(";", "&")
      BY <3>1, <3>3, Zenon DEF OpTrouble
    <3>4. CASE kind = "AmpersandRedirect" /\ k \in followed("&", ">")
      BY <3>1, <3>4, Zenon DEF OpTrouble
    <3>5. CASE kind = "PipeAmpersand" /\ k \in followed("|", "&")
      BY <3>1, <3>5, Zenon DEF OpTrouble
    <3>6. CASE kind = "BackgroundAmpersand" /\ k \in lone
      BY <1>4, <3>6, Zenon DEF OpTrouble
    <3> QED
      BY <2>1, <3>2, <3>3, <3>4, <3>5, <3>6, Zenon
  <2> QED
    BY <2>1, <2>2
<1>8. ASSUME NEW k \in DOMAIN s, NEW kind, p = Finding(kind, k), OpTrouble(s, cs, kind, k)
      PROVE  p \in OpProblems(s, cs)
  BY <1>2, <1>4, <1>6, <1>8 DEF OpTrouble
<1> QED
  BY <1>7, <1>8

(* What is wrong with a dollar in double quotes.                           *)
LEMMA DollarProblemsAre ==
  ASSUME NEW s, NEW cs, NEW p
  PROVE  p \in DollarProblems(s, cs) <=>
           \E k \in DOMAIN s : \E kind : p = Finding(kind, k) /\ DollarTrouble(s, cs, kind, k)
BY DEF DollarProblems, DollarTrouble, Finding

(* What is wrong at all is a byte's trouble or a redirect's.               *)
LEMMA ProblemsAre ==
  ASSUME NEW s \in Seq(Byte), NEW p
  PROVE  LET cs == Contexts(s) IN
         p \in Problems(s) <=>
           \/ \E k \in DOMAIN s : \E kind : p = Finding(kind, k) /\ Trouble(s, cs, kind, k)
           \/ \E g \in Greaters(s, cs) :
                /\ p = Finding(RedirectKind(s, cs, g), RedirectStart(s, cs, g))
                /\ RedirectKind(s, cs, g) \notin Accepted
<1> DEFINE cs == Contexts(s)
<1>1. p \in Problems(s) <=> \/ p \in ByteProblems(s, cs) \/ p \in QuoteProblems(s, cs)
                            \/ p \in OpProblems(s, cs) \/ p \in RedirectProblems(s, cs)
                            \/ p \in DollarProblems(s, cs)
  BY Zenon DEF Problems
<1>2. DOMAIN s \subseteq Int
  OBVIOUS
<1> HIDE DEF cs
<1>3. p \in RedirectProblems(s, cs) <=>
        \E g \in Greaters(s, cs) : /\ p = Finding(RedirectKind(s, cs, g), RedirectStart(s, cs, g))
                                   /\ RedirectKind(s, cs, g) \notin Accepted
  BY DEF RedirectProblems, Finding
<1> QED
  BY <1>1, <1>2, <1>3, ByteProblemsAre, QuoteProblemsAre, OpProblemsAre, DollarProblemsAre
     DEF Trouble, cs

-----------------------------------------------------------------------------
(* Where nothing is wrong.                                                 *)
Untroubled(s, cs, k) == \A kind : ~Trouble(s, cs, kind, k)

(* What may be wrong with an unquoted byte.                                *)
LEMMA BareTroubles ==
  ASSUME NEW s, NEW cs, Reads(s, cs), NEW k \in 1 .. Len(s), NEW kind, Trouble(s, cs, kind, k),
         cs[k] = "Bare", s[k] \notin Control
  PROVE  \/ s[k] \in {"(", ")", "<", "$", "{", "}", "*", "?", "[", Backquote}
         \/ s[k] = "#" /\ WordStart(s, cs, k)
         \/ s[k] = "~" /\ WordStart(s, cs, k) /\ ByteAt(s, k + 1) \notin TokenEnd \cup {"/"}
         \/ s[k] = "~" /\ k \in AssignmentTildes(s, cs)
         \/ /\ s[k] = "'" /\ kind = "UnterminatedSingleQuote"
            /\ \A m \in k + 1 .. Len(s) + 1 : cs[m] # "Bare"
         \/ /\ s[k] = "\"" /\ kind = "UnterminatedDoubleQuote"
            /\ \A m \in k + 1 .. Len(s) + 1 : cs[m] # "Bare"
         \/ /\ s[k] = "\\"
            /\ \/ ByteAt(s, k - 1) \in NonAscii \/ ByteAt(s, k + 1) = None \/ ByteAt(s, k + 1) = "\n"
         \/ OpTrouble(s, cs, kind, k)
<1>1. CASE ByteTrouble(s, cs, kind, k)
  <2>1. k \in AssignmentTildes(s, cs) => s[k] = "~"
    BY DEF AssignmentTildes, Is
  <2> QED
    BY <1>1, <2>1 DEF ByteTrouble
<1>2. CASE QuoteTrouble(s, cs, kind, k)
  <2>1. CASE kind = "UnterminatedSingleQuote" /\ NeverCloses(s, cs, k, "Single")
    <3>1. cs[k + 1] = "Single" /\ \A m \in k + 1 .. Len(s) + 1 : cs[m] # "Bare"
      BY <2>1 DEF NeverCloses
    <3>2. s[k] = "'"
      <4>1. /\ s[k] = "\"" => cs[k + 1] = "Double"
            /\ s[k] = "\\" => cs[k + 1] = "BareEscape"
            /\ s[k] \notin Quoters => cs[k + 1] = "Bare"
        BY NextQuoting
      <4> QED
        BY <3>1, <4>1 DEF Quoters
    <3> QED
      BY <2>1, <3>1, <3>2
  <2>2. CASE kind = "UnterminatedDoubleQuote" /\ NeverCloses(s, cs, k, "Double")
    <3>1. cs[k + 1] = "Double" /\ \A m \in k + 1 .. Len(s) + 1 : cs[m] # "Bare"
      BY <2>2 DEF NeverCloses
    <3>2. s[k] = "\""
      <4>1. /\ s[k] = "'" => cs[k + 1] = "Single"
            /\ s[k] = "\\" => cs[k + 1] = "BareEscape"
            /\ s[k] \notin Quoters => cs[k + 1] = "Bare"
        BY NextQuoting
      <4> QED
        BY <3>1, <4>1 DEF Quoters
    <3> QED
      BY <2>2, <3>1, <3>2
  <2>3. CASE k \in Escapes(s, cs) /\ (\/ ByteAt(s, k - 1) \in NonAscii \/ ByteAt(s, k + 1) = None \/ ByteAt(s, k + 1) = "\n")
    BY <2>3 DEF Escapes
  <2> QED
    BY <1>2, <2>1, <2>2, <2>3 DEF QuoteTrouble
<1>3. CASE DollarTrouble(s, cs, kind, k)
  BY <1>3 DEF DollarTrouble, Is
<1> QED
  BY <1>1, <1>2, <1>3 DEF Trouble

(* What may be wrong with a byte in double quotes.                         *)
LEMMA DoubleTroubles ==
  ASSUME NEW s, NEW cs, Reads(s, cs), NEW k \in 1 .. Len(s), NEW kind, Trouble(s, cs, kind, k),
         cs[k] = "Double", s[k] \notin Control
  PROVE  \/ s[k] = Backquote
         \/ /\ s[k] = "\\"
            /\ \/ ByteAt(s, k - 1) \in NonAscii \/ ByteAt(s, k + 1) = None \/ ByteAt(s, k + 1) = "\n"
         \/ s[k] = "$" /\ ~VarAt(s, k) /\ ByteAt(s, k + 1) # "\""
<1>1. CASE ByteTrouble(s, cs, kind, k)
  <2>1. k \notin AssignmentTildes(s, cs)
    BY DEF AssignmentTildes, Is
  <2> QED
    BY <1>1, <2>1 DEF ByteTrouble
<1>2. CASE QuoteTrouble(s, cs, kind, k)
  BY <1>2 DEF QuoteTrouble, NeverCloses, Escapes
<1>3. CASE DollarTrouble(s, cs, kind, k)
  BY <1>3 DEF DollarTrouble, Is
<1>4. ~OpTrouble(s, cs, kind, k)
  BY DEF OpTrouble
<1> QED
  BY <1>1, <1>2, <1>3, <1>4 DEF Trouble

(* Nothing but a control byte is wrong in single quotes or when escaped.   *)
LEMMA NoOtherTroubles ==
  ASSUME NEW s, NEW cs, Reads(s, cs), NEW k \in 1 .. Len(s), NEW kind, Trouble(s, cs, kind, k),
         cs[k] \in {"Single", "BareEscape", "DoubleEscape"}
  PROVE  s[k] \in Control
<1>1. CASE ByteTrouble(s, cs, kind, k)
  <2>1. k \notin AssignmentTildes(s, cs)
    BY DEF AssignmentTildes, Is
  <2> QED
    BY <1>1, <2>1 DEF ByteTrouble
<1>2. ~QuoteTrouble(s, cs, kind, k)
  BY DEF QuoteTrouble, NeverCloses, Escapes
<1>3. ~DollarTrouble(s, cs, kind, k)
  BY DEF DollarTrouble, Is
<1>4. ~OpTrouble(s, cs, kind, k)
  BY DEF OpTrouble
<1> QED
  BY <1>1, <1>2, <1>3, <1>4 DEF Trouble

-----------------------------------------------------------------------------
(* Where redirects start and targets end.                                  *)

AllDigits(s, d, g) == \A m \in d .. g - 1 : s[m] \in Digit

StartsRun(s, cs, d, g) == TokenStart(s, cs, d) /\ AllDigits(s, d, g)

(* A redirect starts at the first of the runs of digits before it, if any. *)
LEMMA RedirectStarts ==
  ASSUME NEW s, NEW cs, NEW g \in Nat \ {0}
  PROVE  /\ RedirectStart(s, cs, g) \in 1 .. g
         /\ RedirectStart(s, cs, g) # g => StartsRun(s, cs, RedirectStart(s, cs, g), g)
         /\ \A d \in 1 .. g - 1 : StartsRun(s, cs, d, g) => RedirectStart(s, cs, g) <= d
<1> DEFINE runs == {d \in 1 .. g - 1 : TokenStart(s, cs, d) /\ \A m \in d .. g - 1 : s[m] \in Digit}
           P(d) == d \in runs /\ \A e \in runs : d <= e
<1>1. RedirectStart(s, cs, g) = IF runs = {} THEN g ELSE CHOOSE d \in runs : \A e \in runs : d <= e
  BY Zenon DEF RedirectStart
<1>2. \A d : d \in runs <=> d \in 1 .. g - 1 /\ StartsRun(s, cs, d, g)
  BY DEF StartsRun, AllDigits
<1>3. CASE runs = {}
  <2>1. RedirectStart(s, cs, g) = g
    BY <1>1, <1>3
  <2> HIDE DEF runs
  <2> QED
    BY <1>2, <1>3, <2>1
<1>4. CASE runs # {}
  <2>1. runs \in SUBSET Nat
    OBVIOUS
  <2> HIDE DEF runs
  <2>2. \E d \in runs : \A e \in runs : d <= e
    BY <1>4, <2>1, Least
  <2>3. RedirectStart(s, cs, g) \in runs /\ \A e \in runs : RedirectStart(s, cs, g) <= e
    BY <1>1, <1>4, <2>2
  <2> QED
    BY <1>2, <2>3
<1> QED
  BY <1>3, <1>4

(* A run of a set of bytes ends at one place only.                         *)
LEMMA RunEndIs ==
  ASSUME NEW s \in Seq(Byte), NEW k \in 1 .. Len(s) + 1, NEW set, None \notin set,
         NEW e \in k .. Len(s) + 1, \A m \in k .. e - 1 : s[m] \in set, ByteAt(s, e) \notin set
  PROVE  RunEnd(s, k, set) = e
<1> DEFINE r == RunEnd(s, k, set)
<1>1. /\ r \in k .. Len(s) + 1 /\ ByteAt(s, r) \notin set
      /\ \A m \in k .. r - 1 : s[m] \in set
  BY RunEnds
<1>2. Len(s) \in Nat
  OBVIOUS
<1> HIDE DEF r
<1>3. ~(r < e)
  <2>1. SUFFICES ASSUME r < e PROVE FALSE
    OBVIOUS
  <2>2. r \in k .. e - 1 /\ r \in 1 .. Len(s)
    BY <1>1, <1>2, <2>1
  <2> QED
    BY <1>1, <2>2, Bytes
<1>4. ~(e < r)
  <2>1. SUFFICES ASSUME e < r PROVE FALSE
    OBVIOUS
  <2>2. e \in k .. r - 1 /\ e \in 1 .. Len(s)
    BY <1>1, <1>2, <2>1
  <2> QED
    BY <1>1, <2>2, Bytes
<1>5. r = e
  BY <1>1, <1>2, <1>3, <1>4
<1> QED
  BY <1>5 DEF r

(* A target ends where the first byte is that ends a word.                 *)
LEMMA TargetEnds ==
  ASSUME NEW s \in Seq(Byte), NEW cs, NEW g, NEW a \in 1 .. Len(s) + 1, TargetStart(s, g) = a,
         NEW e \in a .. Len(s) + 1, e = Len(s) + 1 \/ Terminates(s, cs, e),
         \A m \in a .. e - 1 : ~Terminates(s, cs, m)
  PROVE  TargetEnd(s, cs, g) = e
<1> DEFINE P(d) == /\ d = Len(s) + 1 \/ Terminates(s, cs, d)
                   /\ \A m \in a .. d - 1 : ~Terminates(s, cs, m)
           r == TargetEnd(s, cs, g)
<1>1. TargetEnd(s, cs, g) = CHOOSE d \in a .. Len(s) + 1 : P(d)
  BY DEF TargetEnd
<1>2. P(e) /\ Len(s) \in Nat
  OBVIOUS
<1>3. r \in a .. Len(s) + 1 /\ P(r)
  <2> HIDE DEF P
  <2> QED
    BY <1>1, <1>2
<1> HIDE DEF r
<1>4. ~(r < e)
  <2>1. SUFFICES ASSUME r < e PROVE FALSE
    OBVIOUS
  <2>2. r \in a .. e - 1 /\ r # Len(s) + 1
    BY <1>2, <1>3, <2>1
  <2> QED
    BY <1>3, <2>2
<1>5. ~(e < r)
  <2>1. SUFFICES ASSUME e < r PROVE FALSE
    OBVIOUS
  <2>2. e \in a .. r - 1 /\ e # Len(s) + 1
    BY <1>2, <1>3, <2>1
  <2> QED
    BY <1>3, <2>2
<1>6. r = e
  BY <1>2, <1>3, <1>4, <1>5
<1> QED
  BY <1>6 DEF r

-----------------------------------------------------------------------------
(* How far the walk has come, and what it knows of the bytes behind it.    *)

(* Between tokens: the byte at k is unquoted, no part of a token, and      *)
(* either starts a word or ends one.                                       *)
Boundary(s, cs, k) ==
  /\ cs[k] = "Bare"
  /\ k = 1 \/ Terminates(s, cs, k - 1) \/ ByteAt(s, k) \in WordTerminator \cup {None}
  /\ k \notin Seconds(s, cs)
  /\ ~Is(s, cs, k - 1, "Bare", ">")
  /\ ~(Is(s, cs, k - 1, "Bare", "&") /\ Is(s, cs, k - 2, "Bare", ">"))
  /\ ByteAt(s, k) = ">" => RedirectStart(s, cs, k) = k

(* The ">" of the redirect that starts at k.                               *)
GreaterAt(s, k) == IF s[k] = ">" THEN k ELSE k + 1

(* A redirect of descriptor fd starts at k, and its target is a word.      *)
RedirectBegun(s, cs, k, fd) ==
  LET g == GreaterAt(s, k) IN
    /\ Is(s, cs, g, "Bare", ">") /\ RedirectStart(s, cs, g) = k
    /\ ByteAt(s, g + 1) \notin {">", "|", "(", "&"}
    /\ fd = {Descriptor(s, cs, g)}

(* No ">" is directly behind a number that starts at w.                    *)
NoNumber(s, w) == \A g \in w + 1 .. Len(s) : s[g] = ">" => ~AllDigits(s, w, g)

(* A word starts at w and has not ended before k.                          *)
WordBegun(s, cs, w, k) ==
  /\ w \in 1 .. Len(s) /\ WordStart(s, cs, w)
  /\ \A m \in w .. k - 1 : ~Terminates(s, cs, m)

(* The first part is the first bytes if it is an unquoted literal.         *)
FirstRead(s, cs, w, k, ps) ==
  IF Unquoted(ps[1])
  THEN LET len == Len(ps[1].bytes) IN
         /\ len > 0 /\ w + len <= k
         /\ \A m \in 1 .. len : ps[1].bytes[m] = s[w + m - 1] /\ cs[w + m - 1] = "Bare"
         /\ Len(ps) = 1 => w + len = k
         /\ Len(ps) > 1 => s[w + len] \in Quoters
  ELSE s[w] \in Quoters \cup {"~"}

(* The last part has the last byte if it is an unquoted literal.           *)
LastRead(s, cs, k, ps) ==
  IF Unquoted(Last(ps))
  THEN /\ Last(ps).bytes # <<>> /\ Last(Last(ps).bytes) = s[k - 1] /\ cs[k - 1] = "Bare"
  ELSE ~(cs[k - 1] = "Bare" /\ s[k - 1] \in {"=", ":"})

(* The parts ps say what the bytes from w to before k do.                  *)
PartsRead(s, cs, w, k, ps) ==
  /\ w <= k /\ cs[k] = "Bare" /\ (w = k <=> ps = <<>>)
  /\ PartsMeaning(ps) = TextMeaning(s, cs, w, k) /\ Apart(ps)
  /\ ps # <<>> => FirstRead(s, cs, w, k, ps) /\ LastRead(s, cs, k, ps)

(* The last byte of the variable at k.                                     *)
VarEnd(s, k) == NameEnd(s, NamePlace(s, k)) - (IF ByteAt(s, k + 1) = "{" THEN 0 ELSE 1)

VarHere(s, cs, k) == Is(s, cs, k, "Double", "$") /\ VarAt(s, k)

(* The parts ps say what the bytes from the double quote at o to before k  *)
(* do.                                                                     *)
QuotesRead(s, cs, o, k, ps) ==
  /\ o < k /\ cs[o] = "Bare" /\ s[o] = "\"" /\ cs[k] = "Double" /\ \A m \in o + 1 .. k : cs[m] # "Bare"
  /\ PartsMeaning(ps) = TextMeaning(s, cs, o, k) /\ Apart(ps)
  /\ \A m \in 1 .. Len(ps) : ps[m].quoted
  /\ \A m \in o + 1 .. k - 1 : VarHere(s, cs, m) => VarEnd(s, m) < k

(* Nothing is wrong before k but with double quotes that are still open.   *)
Clean(s, cs, k, open) ==
  \A m \in 1 .. k - 1 : \A kind :
    Trouble(s, cs, kind, m) => m \in open /\ kind = "UnterminatedDoubleQuote"

(* Every redirect before k is accepted but one whose target is read.       *)
RedirectsRead(s, cs, k, reading) ==
  \A g \in 1 .. k - 1 :
    g \in Greaters(s, cs) => RedirectKind(s, cs, g) \in Accepted \/ g \in reading

(* Every byte before k is a blank or in a lexeme.                          *)
Covered(s, lexs, k) ==
  \A m \in 1 .. k - 1 :
    s[m] \in Blank \/ \E l \in 1 .. Len(lexs) : m \in lexs[l].offset .. lexs[l].end - 1

(* Every lexeme says what its text does.                                   *)
TokenSays(s, cs, l) ==
  SaysItsText(s, cs, l) /\ (l.token.is = "Word" => Apart(l.token.parts))

TokensSay(s, cs, lexs) == \A l \in 1 .. Len(lexs) : TokenSays(s, cs, lexs[l])

(* A problem with only late ones before it.                                *)
FirstFound(s, e) ==
  e \in Problems(s) /\ \A p \in Problems(s) : p.offset < e.offset => p.kind \in Late

(* Where the word, or the target, starts, how far its parts go, and which  *)
(* double quotes and redirect are being read.                              *)
Cs == Contexts(input)

WordAt == IF from = {} THEN start ELSE TargetStart(input, GreaterAt(input, start))

Upto == IF mode = "Quotes" THEN opened ELSE pos

Open == IF mode = "Quotes" THEN {opened} ELSE {}

Redirecting == IF mode = "Between" \/ from = {} THEN {} ELSE {GreaterAt(input, start)}

InTheWord ==
  /\ WordBegun(input, Cs, WordAt, pos)
  /\ PartsRead(input, Cs, WordAt, Upto, parts)
  /\ from = {} => NoNumber(input, WordAt)
  /\ from # {} => RedirectBegun(input, Cs, start, from)

Walked ==
  /\ mode = "Between" => Boundary(input, Cs, pos)
  /\ mode # "Between" => InTheWord
  /\ mode = "Quotes" => QuotesRead(input, Cs, opened, pos, inner)
  /\ Clean(input, Cs, pos, Open)
  /\ RedirectsRead(input, Cs, pos, Redirecting)
  /\ Covered(input, lexemes, Lexed)
  /\ TokensSay(input, Cs, lexemes)

Found ==
  /\ lexed => mode = "Between" /\ pos = Len(input) + 1 /\ Problems(input) = {}
  /\ ~lexed => \A e \in err : FirstFound(input, e)

(* Of input within the cap; of any other nothing is read.                  *)
WalkInv ==
  IF Len(input) <= MaxInputLen THEN Walked /\ Found ELSE lexemes = <<>> /\ ~lexed

-----------------------------------------------------------------------------
(* What the bytes of a word stand for.                                     *)

(* A variable in double quotes is within them.                             *)
LEMMA VarSpans ==
  ASSUME NEW s, NEW cs, Reads(s, cs), NEW k \in 1 .. Len(s), VarHere(s, cs, k)
  PROVE  /\ VarEnd(s, k) \in k + 1 .. Len(s)
         /\ \A m \in k + 1 .. VarEnd(s, k) : s[m] \in NameByte \cup {"{", "}"}
         /\ \A m \in k .. VarEnd(s, k) + 1 : cs[m] = "Double"
<1> DEFINE a == NamePlace(s, k)
           e == NameEnd(s, a)
           v == VarEnd(s, k)
           braced == ByteAt(s, k + 1) = "{"
<1>1. cs[k] = "Double" /\ s[k] = "$"
  BY DEF VarHere, Is
<1>2. s \in Seq(Byte) /\ Len(s) \in Nat
  BY DEF Reads
<1>3. e > a
  BY Zenon DEF VarHere, VarAt
<1>4. braced => ByteAt(s, e) = "}"
  BY Zenon DEF VarHere, VarAt
<1>5. a = (IF braced THEN k + 2 ELSE k + 1) /\ v = e - (IF braced THEN 0 ELSE 1)
  BY Zenon DEF NamePlace, VarEnd
<1>6. a \in 1 .. Len(s) + 1
  BY <1>2, NameIsHere
<1>7. e \in a .. Len(s) + 1 /\ \A m \in a .. e - 1 : s[m] \in NameByte
  <2>1. /\ RunEnd(s, a, NameByte) \in a .. Len(s) + 1
        /\ \A m \in a .. RunEnd(s, a, NameByte) - 1 : s[m] \in NameByte
    BY <1>2, <1>6, RunEnds, NoneIsNoByte
  <2>2. CASE ByteAt(s, a) \in Letter
    <3>1. e = RunEnd(s, a, NameByte)
      BY <2>2, Zenon DEF NameEnd
    <3> QED
      BY <2>1, <3>1
  <2>3. CASE ByteAt(s, a) \notin Letter
    <3>1. e = a
      BY <2>3, Zenon DEF NameEnd
    <3> HIDE DEF e, a
    <3> QED
      BY <1>2, <1>3, <1>6, <3>1
  <2> QED
    BY <2>2, <2>3
<1> HIDE DEF a, e, v
<1>8. /\ braced => k + 1 \in 1 .. Len(s) /\ s[k + 1] = "{"
      /\ braced => e \in 1 .. Len(s) /\ s[e] = "}"
  <2>1. "{" # None /\ "}" # None
    BY DEF None
  <2>2. e \in Int
    BY <1>2, <1>6, <1>7
  <2>3. ASSUME NEW m \in Int, NEW c, c # None, ByteAt(s, m) = c PROVE m \in 1 .. Len(s) /\ s[m] = c
    BY <1>2, <2>3, Bytes
  <2>4. k + 1 \in Int
    OBVIOUS
  <2> QED
    BY <1>4, <2>1, <2>2, <2>3, <2>4, Zenon
<1>9. v \in k + 1 .. Len(s) /\ \A m \in k + 1 .. v : s[m] \in NameByte \cup {"{", "}"}
  <2>1. CASE braced
    <3>1. a = k + 2 /\ v = e - 0
      BY <1>5, <2>1, Zenon
    <3>2. s[k + 1] = "{" /\ s[e] = "}" /\ e \in 1 .. Len(s)
      BY <1>8, <2>1
    <3> HIDE DEF braced
    <3>3. ASSUME NEW m \in k + 1 .. v PROVE s[m] \in NameByte \cup {"{", "}"}
      <4>1. m = k + 1 \/ m = e \/ m \in a .. e - 1
        BY <1>2, <1>6, <1>7, <3>1
      <4> QED
        BY <1>7, <3>2, <4>1
    <3>4. v \in k + 1 .. Len(s)
      <4>1. e \in 1 .. Len(s)
        BY <3>2
      <4> QED
        BY <1>2, <1>3, <1>6, <1>7, <3>1, <4>1
    <3> QED
      BY <3>3, <3>4
  <2>2. CASE ~braced
    <3>1. a = k + 1 /\ v = e - 1
      BY <1>5, <2>2, Zenon
    <3> HIDE DEF braced
    <3>2. v \in k + 1 .. Len(s) /\ a .. e - 1 = k + 1 .. v
      BY <1>2, <1>3, <1>6, <1>7, <3>1
    <3> QED
      BY <1>7, <3>2
  <2> QED
    BY <2>1, <2>2
<1>12. v \in k + 1 .. Len(s)
  BY <1>9
<1>10. Leaves(s, "Double", k, v + 1)
  <2>1. ASSUME NEW m \in k .. v PROVE s[m] \notin {"\"", "\\"}
    <3>1. m = k \/ m \in k + 1 .. v
      BY <1>12
    <3>2. "\"" \notin Letter /\ "\\" \notin Letter
      BY ClassesApart, Zenon DEF Special
    <3> QED
      BY <1>1, <1>9, <3>1, <3>2 DEF NameByte, Digit
  <2>2. (v + 1) - 1 = v
    BY <1>12
  <2> QED
    BY <2>1, <2>2 DEF Leaves
<1>11. \A m \in k .. v + 1 : cs[m] = "Double"
  <2>1. k \in 1 .. Len(s) + 1 /\ v + 1 \in k .. Len(s) + 1
    BY <1>2, <1>12
  <2> QED
    BY <1>1, <1>10, <2>1, StaysQuoted
<1> QED
  BY <1>9, <1>11 DEF v

(* The bytes of variables are the ones from its dollar to its end.         *)
LEMMA VarBytesAre ==
  ASSUME NEW s, NEW cs, NEW k
  PROVE  k \in VarBytes(s, cs) <=> \E m \in DOMAIN s : VarHere(s, cs, m) /\ k \in m .. VarEnd(s, m)
BY DEF VarBytes, VarHere, VarEnd

(* Outside double quotes there are no variables.                           *)
LEMMA NoVarByte ==
  ASSUME NEW s, NEW cs, Reads(s, cs), NEW k, cs[k] # "Double"
  PROVE  k \notin VarBytes(s, cs)
<1>1. SUFFICES ASSUME NEW m \in DOMAIN s, VarHere(s, cs, m), k \in m .. VarEnd(s, m) PROVE FALSE
  BY VarBytesAre
<1>2. m \in 1 .. Len(s) /\ Len(s) \in Nat
  BY DEF Reads
<1>3. VarEnd(s, m) \in m + 1 .. Len(s) /\ \A j \in m .. VarEnd(s, m) + 1 : cs[j] = "Double"
  BY <1>1, <1>2, VarSpans
<1>4. k \in m .. VarEnd(s, m) + 1
  BY <1>1, <1>2, <1>3
<1> QED
  BY <1>3, <1>4

(* What a byte stands for outside double quotes.                           *)
LEMMA MeaningOutside ==
  ASSUME NEW s, NEW cs, Reads(s, cs), NEW k \in 1 .. Len(s)
  PROVE  /\ cs[k] = "Bare" /\ s[k] \in Quoters => Meaning(s, cs, k) = <<>>
         /\ cs[k] = "Bare" /\ s[k] = "~" /\ WordStart(s, cs, k) => Meaning(s, cs, k) = <<Tilde>>
         /\ cs[k] = "Bare" /\ s[k] \notin Quoters /\ ~(s[k] = "~" /\ WordStart(s, cs, k)) =>
              Meaning(s, cs, k) = <<Lit(<<s[k]>>, FALSE)>>
         /\ cs[k] = "Single" /\ s[k] = "'" => Meaning(s, cs, k) = <<>>
         /\ cs[k] = "Single" /\ s[k] # "'" => Meaning(s, cs, k) = <<Lit(<<s[k]>>, TRUE)>>
         /\ cs[k] \in {"BareEscape", "DoubleEscape"} => Meaning(s, cs, k) = <<Lit(<<s[k]>>, TRUE)>>
<1>1. SUFFICES ASSUME cs[k] # "Double" PROVE
         /\ cs[k] = "Bare" /\ s[k] \in Quoters => Meaning(s, cs, k) = <<>>
         /\ cs[k] = "Bare" /\ s[k] = "~" /\ WordStart(s, cs, k) => Meaning(s, cs, k) = <<Tilde>>
         /\ cs[k] = "Bare" /\ s[k] \notin Quoters /\ ~(s[k] = "~" /\ WordStart(s, cs, k)) =>
              Meaning(s, cs, k) = <<Lit(<<s[k]>>, FALSE)>>
         /\ cs[k] = "Single" /\ s[k] = "'" => Meaning(s, cs, k) = <<>>
         /\ cs[k] = "Single" /\ s[k] # "'" => Meaning(s, cs, k) = <<Lit(<<s[k]>>, TRUE)>>
         /\ cs[k] \in {"BareEscape", "DoubleEscape"} => Meaning(s, cs, k) = <<Lit(<<s[k]>>, TRUE)>>
  OBVIOUS
<1>2. Meaning(s, cs, k) =
        IF WordStart(s, cs, k) /\ s[k] = "~" THEN <<Tilde>>
        ELSE IF OnlyQuotes(s, cs, k) THEN <<>>
        ELSE <<Lit(<<s[k]>>, cs[k] # "Bare")>>
  BY <1>1, NoVarByte DEF Meaning
<1>3. /\ cs[k] = "Bare" => (OnlyQuotes(s, cs, k) <=> s[k] \in Quoters)
      /\ cs[k] = "Single" => (OnlyQuotes(s, cs, k) <=> s[k] = "'")
      /\ cs[k] \in {"BareEscape", "DoubleEscape"} => ~OnlyQuotes(s, cs, k)
  BY <1>1 DEF OnlyQuotes, Quoters
<1>4. WordStart(s, cs, k) => cs[k] = "Bare"
  BY DEF WordStart
<1> DEFINE W == WordStart(s, cs, k)
           O == OnlyQuotes(s, cs, k)
           M == Meaning(s, cs, k)
<1> HIDE DEF W, O, M
<1>5. /\ M = IF W /\ s[k] = "~" THEN <<Tilde>> ELSE IF O THEN <<>> ELSE <<Lit(<<s[k]>>, cs[k] # "Bare")>>
      /\ cs[k] = "Bare" => (O <=> s[k] \in Quoters)
      /\ cs[k] = "Single" => (O <=> s[k] = "'")
      /\ cs[k] \in {"BareEscape", "DoubleEscape"} => ~O
      /\ W => cs[k] = "Bare"
  BY <1>2, <1>3, <1>4 DEF W, O, M
<1>6. /\ cs[k] = "Bare" /\ s[k] \in Quoters => M = <<>>
      /\ cs[k] = "Bare" /\ s[k] = "~" /\ W => M = <<Tilde>>
      /\ cs[k] = "Bare" /\ s[k] \notin Quoters /\ ~(s[k] = "~" /\ W) => M = <<Lit(<<s[k]>>, FALSE)>>
      /\ cs[k] = "Single" /\ s[k] = "'" => M = <<>>
      /\ cs[k] = "Single" /\ s[k] # "'" => M = <<Lit(<<s[k]>>, TRUE)>>
      /\ cs[k] \in {"BareEscape", "DoubleEscape"} => M = <<Lit(<<s[k]>>, TRUE)>>
  <2>1. "~" \notin Quoters
    BY DEF Quoters
  <2>2. cs[k] # "Bare" => (cs[k] # "Bare") = TRUE
    OBVIOUS
  <2>3. cs[k] = "Bare" => (cs[k] # "Bare") = FALSE
    OBVIOUS
  <2> QED
    BY <1>5, <2>1, <2>2, <2>3, Zenon
<1> QED
  BY <1>6 DEF W, M

(* What a byte stands for in double quotes.                                *)
LEMMA MeaningInside ==
  ASSUME NEW s, NEW cs, NEW k \in 1 .. Len(s), cs[k] = "Double"
  PROVE  /\ k \in VarBytes(s, cs) /\ s[k] # "$" => Meaning(s, cs, k) = <<>>
         /\ k \in VarBytes(s, cs) /\ s[k] = "$" =>
              Meaning(s, cs, k) = <<Var(SubSeq(s, NamePlace(s, k), NameEnd(s, NamePlace(s, k)) - 1))>>
         /\ k \notin VarBytes(s, cs) =>
              /\ s[k] = "\"" => Meaning(s, cs, k) = <<>>
              /\ s[k] = "\\" /\ ByteAt(s, k + 1) \in {"$", Backquote, "\"", "\\"} => Meaning(s, cs, k) = <<>>
              /\ s[k] # "\"" /\ ~(s[k] = "\\" /\ ByteAt(s, k + 1) \in {"$", Backquote, "\"", "\\"}) =>
                   Meaning(s, cs, k) = <<Lit(<<s[k]>>, TRUE)>>
<1>1. ~WordStart(s, cs, k)
  BY DEF WordStart
<1>2. OnlyQuotes(s, cs, k) <=>
        s[k] = "\"" \/ (s[k] = "\\" /\ ByteAt(s, k + 1) \in {"$", Backquote, "\"", "\\"})
  BY DEF OnlyQuotes
<1>3. (cs[k] # "Bare") = TRUE
  OBVIOUS
<1> QED
  BY <1>1, <1>2, <1>3, Zenon DEF Meaning

-----------------------------------------------------------------------------
(* Nothing, before or behind parts, adds nothing.                          *)
LEMMA NothingMore ==
  ASSUME NEW ps \in Parts
  PROVE  ps \o <<>> = ps /\ <<>> \o ps = ps
<1>1. ps \in Seq(Part)
  BY DEF Parts
<1> QED
  BY <1>1

(* A text of one byte, and of two.                                         *)
LEMMA ShortTexts ==
  ASSUME NEW s, NEW cs, Reads(s, cs), NEW k \in 1 .. Len(s)
  PROVE  /\ TextMeaning(s, cs, k, k + 1) = Meaning(s, cs, k)
         /\ k + 1 \in 1 .. Len(s) =>
              TextMeaning(s, cs, k, k + 2) = Meaning(s, cs, k) \o Meaning(s, cs, k + 1)
<1>0. Len(s) \in Nat
  BY DEF Reads
<1>1. k \in Nat /\ k \in 1 .. Len(s) + 1 /\ k \in k .. Len(s)
  BY <1>0
<1>2. Meaning(s, cs, k) \in Parts
  BY MeaningIsParts
<1>3. TextMeaning(s, cs, k, k + 1) = Meaning(s, cs, k)
  <2>1. TextMeaning(s, cs, k, k + 1) = TextMeaning(s, cs, k, k) \o Meaning(s, cs, k)
    BY <1>1, TextGrows
  <2>2. TextMeaning(s, cs, k, k) = <<>>
    BY <1>1, NoText
  <2>3. <<>> \o Meaning(s, cs, k) = Meaning(s, cs, k)
    BY <1>2, NothingMore
  <2> QED
    BY <2>1, <2>2, <2>3
<1>4. ASSUME k + 1 \in 1 .. Len(s)
      PROVE  TextMeaning(s, cs, k, k + 2) = Meaning(s, cs, k) \o Meaning(s, cs, k + 1)
  <2>1. k + 1 \in k .. Len(s) /\ (k + 1) + 1 = k + 2
    BY <1>0, <1>4
  <2>2. TextMeaning(s, cs, k, (k + 1) + 1) = TextMeaning(s, cs, k, k + 1) \o Meaning(s, cs, k + 1)
    BY <1>1, <2>1, TextGrows
  <2> QED
    BY <1>3, <2>1, <2>2
<1> QED
  BY <1>3, <1>4

(* Quoted bytes, one after the other, are a quoted literal.                *)
LEMMA QuotedText ==
  ASSUME NEW s, NEW cs, Reads(s, cs), NEW a \in 1 .. Len(s) + 1, NEW b \in a .. Len(s) + 1,
         \A m \in a .. b - 1 : Meaning(s, cs, m) = <<Lit(<<s[m]>>, TRUE)>>
  PROVE  TextMeaning(s, cs, a, b) = PartMeaning(Lit(SubSeq(s, a, b - 1), TRUE))
<1> DEFINE N == b - a
           T(k) == TextMeaning(s, cs, a, a + k)
           P == {k \in 0 .. N : /\ T(k) \in Seq(Part) /\ Len(T(k)) = k
                                /\ \A i \in 1 .. k : T(k)[i] = Lit(<<s[a + i - 1]>>, TRUE)}
<1>0. Len(s) \in Nat /\ s \in Seq(Byte)
  BY DEF Reads
<1>1. a \in Nat /\ b \in Nat /\ N \in Nat /\ a + N = b /\ a + 0 = a
  BY <1>0
<1>2. 0 \in P
  <2>1. T(0) = <<>>
    BY <1>1, NoText, Zenon
  <2>2. <<>> \in Seq(Part) /\ Len(<<>>) = 0 /\ 1 .. 0 = {} /\ 0 \in 0 .. N
    BY <1>1
  <2> HIDE DEF T, N
  <2> QED
    BY <2>1, <2>2
<1>3. ASSUME NEW k \in 1 .. N, k - 1 \in P PROVE k \in P
  <2> DEFINE m == a + (k - 1)
             l == Lit(<<s[m]>>, TRUE)
             t == T(k - 1)
  <2>1. m \in a .. Len(s) /\ m \in a .. b - 1 /\ m \in 1 .. Len(s) /\ m + 1 = a + k /\ k \in 0 .. N
        /\ a + k - 1 = m /\ k \in Nat /\ (k - 1) + 1 = k
    BY <1>0, <1>1
  <2>2. TextMeaning(s, cs, a, m + 1) = TextMeaning(s, cs, a, m) \o Meaning(s, cs, m)
    BY <2>1, TextGrows
  <2>3. T(k) = t \o <<l>>
    BY <2>1, <2>2
  <2>4. /\ t \in Seq(Part) /\ Len(t) = k - 1
        /\ \A i \in 1 .. k - 1 : t[i] = Lit(<<s[a + i - 1]>>, TRUE)
    BY <1>3
  <2>5. l \in Part
    <3>1. <<s[m]>> \in Seq(Byte)
      BY <1>0, <2>1
    <3> QED
      BY <3>1, PartsAre
  <2> HIDE DEF T, N, t, l
  <2>6. /\ t \o <<l>> \in Seq(Part) /\ Len(t \o <<l>>) = k /\ (t \o <<l>>)[k] = l
        /\ \A i \in 1 .. k - 1 : (t \o <<l>>)[i] = t[i]
    BY <2>1, <2>4, <2>5
  <2>7. ASSUME NEW i \in 1 .. k PROVE T(k)[i] = Lit(<<s[a + i - 1]>>, TRUE)
    <3>1. CASE i = k
      BY <2>1, <2>3, <2>6, <3>1 DEF l
    <3>2. CASE i # k
      <4>1. i \in 1 .. k - 1
        BY <2>1, <3>2
      <4> QED
        BY <2>3, <2>4, <2>6, <4>1
    <3> QED
      BY <3>1, <3>2
  <2> QED
    BY <2>1, <2>3, <2>6, <2>7
<1>4. \A k \in 0 .. N : k \in P
  <2> HIDE DEF P, N
  <2> QED
    BY <1>1, <1>2, <1>3, Along
<1>5. N \in P
  <2>1. N \in 0 .. N
    BY <1>1
  <2> HIDE DEF P, N
  <2> QED
    BY <1>4, <2>1
<1> DEFINE part == Lit(SubSeq(s, a, b - 1), TRUE)
           t == T(N)
           p == PartMeaning(part)
<1>6. /\ SubSeq(s, a, b - 1) \in Seq(Byte) /\ Len(SubSeq(s, a, b - 1)) = N
      /\ \A i \in 1 .. N : SubSeq(s, a, b - 1)[i] = s[a + i - 1]
  <2>1. a \in 1 .. Len(s) + 1 /\ b - 1 \in 0 .. Len(s) /\ a <= (b - 1) + 1 /\ N = (b - 1) - a + 1
    BY <1>0, <1>1
  <2> HIDE DEF N
  <2>2. SubSeq(s, a, b - 1) \in Seq(Byte)
    BY <1>0, <2>1, Pieces
  <2>3. SubSeq(s, a, b - 1) = [i \in 1 .. (b - 1) - a + 1 |-> s[i + a - 1]]
    BY <1>0
  <2>4. Len(SubSeq(s, a, b - 1)) = N
    BY <1>0, <1>1, <2>1, <2>3
  <2>5. ASSUME NEW i \in 1 .. N PROVE SubSeq(s, a, b - 1)[i] = s[a + i - 1]
    <3>1. a + i - 1 = i + a - 1
      BY <1>1
    <3> QED
      BY <1>1, <2>1, <2>3, <3>1
  <2> QED
    BY <2>2, <2>4, <2>5
<1>7. part \in Part /\ part.kind = "Lit" /\ part.bytes = SubSeq(s, a, b - 1) /\ part.quoted = TRUE
  BY <1>6, PartsAre DEF Lit
<1>8. p \in Seq(Part) /\ Len(p) = N /\ \A i \in 1 .. N : p[i] = Lit(<<s[a + i - 1]>>, TRUE)
  <2>1. /\ p \in Parts /\ Len(p) = Len(part.bytes)
        /\ \A i \in 1 .. Len(part.bytes) : p[i] = Lit(<<part.bytes[i]>>, part.quoted)
    <3> HIDE DEF part
    <3> QED
      BY <1>7, PartIsParts
  <2> HIDE DEF part, p, N
  <2> QED
    BY <1>6, <1>7, <2>1 DEF Parts
<1>9. t \in Seq(Part) /\ Len(t) = N /\ \A i \in 1 .. N : t[i] = Lit(<<s[a + i - 1]>>, TRUE)
  BY <1>5
<1>10. t = p
  <2>1. \A i \in 1 .. N : t[i] = p[i]
    BY <1>8, <1>9
  <2>2. t \in Seq(Part) /\ p \in Seq(Part) /\ Len(t) = N /\ Len(p) = N
    BY <1>8, <1>9
  <2> HIDE DEF t, p, N
  <2> QED
    BY <2>1, <2>2
<1> QED
  BY <1>1, <1>10

(* What stands for nothing adds nothing.                                   *)
LEMMA SilentText ==
  ASSUME NEW s, NEW cs, Reads(s, cs), NEW a \in 1 .. Len(s) + 1, NEW b \in a .. Len(s) + 1,
         \A m \in a .. b - 1 : Meaning(s, cs, m) = <<>>
  PROVE  TextMeaning(s, cs, a, b) = <<>>
<1> DEFINE N == b - a
           T(k) == TextMeaning(s, cs, a, a + k)
           P == {k \in 0 .. N : T(k) = <<>>}
<1>0. Len(s) \in Nat
  BY DEF Reads
<1>1. a \in Nat /\ b \in Nat /\ N \in Nat /\ a + N = b /\ a + 0 = a
  BY <1>0
<1>2. 0 \in P
  <2>1. T(0) = <<>>
    BY <1>1, NoText, Zenon
  <2> HIDE DEF T, N
  <2> QED
    BY <1>1, <2>1
<1>3. ASSUME NEW k \in 1 .. N, k - 1 \in P PROVE k \in P
  <2> DEFINE m == a + (k - 1)
  <2>1. m \in a .. Len(s) /\ m \in a .. b - 1 /\ m + 1 = a + k /\ k \in 0 .. N
    BY <1>0, <1>1
  <2>2. TextMeaning(s, cs, a, m + 1) = TextMeaning(s, cs, a, m) \o Meaning(s, cs, m)
    BY <2>1, TextGrows
  <2>3. T(k) = T(k - 1) \o <<>>
    BY <2>1, <2>2
  <2>4. T(k - 1) = <<>>
    BY <1>3
  <2>5. <<>> \o <<>> = <<>>
    OBVIOUS
  <2> HIDE DEF T, N
  <2> QED
    BY <2>1, <2>3, <2>4, <2>5
<1>4. \A k \in 0 .. N : k \in P
  <2> HIDE DEF P, N
  <2> QED
    BY <1>1, <1>2, <1>3, Along
<1>5. N \in P
  <2>1. N \in 0 .. N
    BY <1>1
  <2> HIDE DEF P, N
  <2> QED
    BY <1>4, <2>1
<1> QED
  BY <1>1, <1>5

-----------------------------------------------------------------------------
(* How words go on.                                                        *)

(* A word that has not ended is the only one that started before its end.  *)
LEMMA OneWord ==
  ASSUME NEW s, NEW cs, Reads(s, cs), NEW w, NEW k \in 1 .. Len(s) + 1, WordBegun(s, cs, w, k),
         NEW v \in 1 .. k, v <= Len(s), WordStart(s, cs, v), v > w \/ \A m \in v .. k - 1 : ~Terminates(s, cs, m),
         w <= k
  PROVE  v = w
<1>1. Len(s) \in Nat /\ w \in 1 .. Len(s)
  BY DEF Reads, WordBegun
<1>2. v = 1 \/ Terminates(s, cs, v - 1)
  BY DEF WordStart
<1>3. w = 1 \/ Terminates(s, cs, w - 1)
  BY DEF WordStart, WordBegun
<1>4. ~(v > w)
  <2>1. SUFFICES ASSUME v > w PROVE FALSE
    OBVIOUS
  <2>2. v - 1 \in w .. k - 1 /\ v # 1
    BY <1>1, <2>1
  <2> QED
    BY <1>2, <2>2 DEF WordBegun
<1>5. ~(v < w)
  <2>1. SUFFICES ASSUME v < w PROVE FALSE
    OBVIOUS
  <2>2. w - 1 \in v .. k - 1 /\ w # 1 /\ ~(v > w)
    BY <1>1, <2>1
  <2> QED
    BY <1>3, <2>2
<1> QED
  BY <1>1, <1>4, <1>5

-----------------------------------------------------------------------------
(* What the bytes from k to before e are to the first and the last part,   *)
(* the first of a word if begins.                                          *)
Unit(s, cs, k, e, part, begins) ==
  IF Unquoted(part)
  THEN e = k + 1 /\ part.bytes = <<s[k]>> /\ cs[k] = "Bare"
  ELSE /\ s[k] \in Quoters \/ (begins /\ s[k] = "~")
       /\ ~(cs[e - 1] = "Bare" /\ s[e - 1] \in {"=", ":"})

(* The first part of a word after one more.                                *)
LEMMA FirstOn ==
  ASSUME NEW s, NEW cs, Reads(s, cs), NEW ps \in Parts, NEW part \in Part,
         NEW w \in 1 .. Len(s), NEW k \in w .. Len(s), NEW e \in k + 1 .. Len(s) + 1,
         w = k <=> ps = <<>>, ps # <<>> => FirstRead(s, cs, w, k, ps),
         Unit(s, cs, k, e, part, ps = <<>>)
  PROVE  FirstRead(s, cs, w, e, Push(ps, part))
<1> DEFINE qs == Push(ps, part)
<1>0. /\ Len(s) \in Nat /\ w \in Nat /\ k \in Nat /\ e \in Nat /\ w <= k /\ k < e
  BY DEF Reads
<1>1. /\ ps = <<>> => qs = <<part>>
      /\ ps # <<>> /\ ~(Len(ps) = 1 /\ Alike(part, ps[1])) => qs[1] = ps[1]
      /\ ps # <<>> /\ Len(ps) = 1 /\ Alike(part, ps[1]) =>
           /\ Len(qs) = 1 /\ qs[1].kind = "Lit" /\ qs[1].quoted = part.quoted
           /\ qs[1].bytes = ps[1].bytes \o part.bytes
      /\ Len(qs) >= Len(ps) /\ Len(qs) \in Nat \ {0}
      /\ ps # <<>> /\ ~Alike(part, Last(ps)) => Len(qs) = Len(ps) + 1
  BY PushFirst
<1>2. Len(ps) \in Nat /\ (ps # <<>> => ps[1] \in Part /\ Len(ps) # 0)
  BY DEF Parts
<1> HIDE DEF qs
<1>3. CASE ps = <<>>
  <2>1. w = k /\ qs[1] = part /\ Len(qs) = 1
    BY <1>1, <1>3
  <2>2. CASE Unquoted(part)
    <3>1. e = k + 1 /\ part.bytes = <<s[k]>> /\ cs[k] = "Bare"
      BY <2>2 DEF Unit
    <3>2. Len(part.bytes) = 1 /\ part.bytes[1] = s[k]
      BY <3>1
    <3>3. w + 1 = e /\ 1 > 0 /\ w + 1 <= e /\ \A m \in 1 .. 1 : m = 1 /\ w + m - 1 = k
      BY <1>0, <2>1, <3>1
    <3> QED
      BY <2>1, <2>2, <3>1, <3>2, <3>3 DEF FirstRead, qs
  <2>3. CASE ~Unquoted(part)
    <3>1. s[w] \in Quoters \/ s[w] = "~"
      BY <1>3, <2>1, <2>3 DEF Unit
    <3> QED
      BY <2>1, <2>3, <3>1 DEF FirstRead, qs
  <2> QED
    BY <2>2, <2>3
<1>4. CASE ps # <<>> /\ ~Unquoted(ps[1])
  <2>1. s[w] \in Quoters \cup {"~"}
    BY <1>4 DEF FirstRead
  <2>2. ~Unquoted(qs[1])
    BY <1>1, <1>4 DEF Unquoted, Alike
  <2> QED
    BY <2>1, <2>2 DEF FirstRead, qs
<1>5. CASE ps # <<>> /\ Unquoted(ps[1])
  <2> DEFINE len == Len(ps[1].bytes)
  <2>1. /\ len > 0 /\ w + len <= k
        /\ \A m \in 1 .. len : ps[1].bytes[m] = s[w + m - 1] /\ cs[w + m - 1] = "Bare"
        /\ Len(ps) = 1 => w + len = k
        /\ Len(ps) > 1 => s[w + len] \in Quoters
    BY <1>5 DEF FirstRead
  <2>0. ps[1].bytes \in Seq(Byte) /\ len \in Nat /\ part.bytes \in Seq(Byte)
    <3>1. ps[1].bytes \in Seq(Byte) /\ part.bytes \in Seq(Byte)
      BY <1>2, <1>5 DEF Part
    <3> QED
      BY <3>1
  <2>2. CASE Len(ps) = 1 /\ Alike(part, ps[1])
    <3>1. Unquoted(part)
      BY <1>5, <2>2 DEF Alike, Unquoted
    <3>2. e = k + 1 /\ part.bytes = <<s[k]>> /\ cs[k] = "Bare"
      BY <3>1 DEF Unit
    <3>3. Len(qs) = 1 /\ Unquoted(qs[1]) /\ qs[1].bytes = ps[1].bytes \o <<s[k]>>
      BY <1>1, <1>5, <2>2, <3>1, <3>2 DEF Unquoted
    <3> DEFINE x == ps[1].bytes
               z == qs[1].bytes
    <3>4. Len(z) = len + 1 /\ z[len + 1] = s[k] /\ \A m \in 1 .. len : z[m] = x[m]
      <4>1. z = x \o <<s[k]>> /\ x \in Seq(Byte) /\ len = Len(x)
        BY <2>0, <3>3
      <4>2. s[k] \in Byte
        <5>1. s \in Seq(Byte) /\ k \in 1 .. Len(s)
          BY <1>0 DEF Reads
        <5> QED
          BY <5>1
      <4> HIDE DEF x, z, len
      <4> QED
        BY <4>1, <4>2
    <3>5. w + len = k
      BY <2>1, <2>2
    <3> HIDE DEF len
    <3>6. w + (len + 1) = e /\ len + 1 > 0 /\ w + (len + 1) <= e /\ w + (len + 1) - 1 = k
      BY <1>0, <2>0, <3>2, <3>5
    <3>7. ASSUME NEW m \in 1 .. len + 1 PROVE z[m] = s[w + m - 1] /\ cs[w + m - 1] = "Bare"
      <4>1. CASE m = len + 1
        BY <3>2, <3>4, <3>6, <4>1
      <4>2. CASE m # len + 1
        <5>1. m \in 1 .. len
          BY <2>0, <4>2
        <5> QED
          BY <2>1, <3>4, <5>1 DEF len
      <4> QED
        BY <4>1, <4>2
    <3>8. ~(Len(qs) > 1)
      BY <3>3
    <3> QED
      BY <3>3, <3>4, <3>6, <3>7, <3>8 DEF FirstRead, qs
  <2>3. CASE ~(Len(ps) = 1 /\ Alike(part, ps[1]))
    <3>1. qs[1] = ps[1]
      BY <1>1, <1>5, <2>3
    <3>2. len > 0 /\ w + len <= e
      <4>1. len \in Nat /\ len > 0 /\ w + len <= k
        BY <2>0, <2>1
      <4> HIDE DEF len
      <4> QED
        BY <1>0, <4>1
    <3>3. Len(qs) # 1 /\ s[w + len] \in Quoters
      <4>1. CASE Len(ps) = 1
        <5>1. ~Alike(part, ps[1]) /\ Last(ps) = ps[1]
          BY <1>5, <2>3, <4>1 DEF Last
        <5>2. Len(qs) = 2 /\ w + len = k
          BY <1>1, <1>5, <2>1, <4>1, <5>1
        <5>3. ~Unquoted(part)
          <6>1. part.kind = "Lit" /\ ~part.quoted => part.quoted = ps[1].quoted
            <7>1. part.quoted \in BOOLEAN /\ ps[1].quoted \in BOOLEAN
              BY <1>2, <1>5 DEF Part
            <7> QED
              BY <1>5, <7>1 DEF Unquoted
          <6> QED
            BY <1>5, <5>1, <6>1 DEF Unquoted, Alike
        <5>4. s[k] \in Quoters
          BY <1>5, <5>3 DEF Unit
        <5> QED
          BY <5>2, <5>4
      <4>2. CASE Len(ps) # 1
        <5>1. Len(ps) \in Nat /\ Len(ps) # 0 /\ Len(qs) \in Nat /\ Len(qs) >= Len(ps)
          BY <1>1, <1>2, <1>5
        <5>3. \A i, j \in Nat : i # 0 /\ i # 1 /\ j >= i => i > 1 /\ j # 1
          OBVIOUS
        <5>2. Len(ps) > 1 /\ Len(qs) # 1
          BY <4>2, <5>1, <5>3, Zenon
        <5> QED
          BY <2>1, <5>2, Zenon
      <4> QED
        BY <4>1, <4>2
    <3> QED
      BY <1>5, <2>1, <3>1, <3>2, <3>3 DEF FirstRead, qs
  <2> QED
    BY <2>2, <2>3
<1> QED
  BY <1>3, <1>4, <1>5

(* The last part of a word after one more.                                 *)
LEMMA LastOn ==
  ASSUME NEW s, NEW cs, Reads(s, cs), NEW ps \in Parts, NEW part \in Part,
         NEW k \in 1 .. Len(s), NEW e \in k + 1 .. Len(s) + 1,
         Unit(s, cs, k, e, part, ps = <<>>)
  PROVE  LastRead(s, cs, e, Push(ps, part))
<1> DEFINE qs == Push(ps, part)
           l == Last(qs)
<1>1. /\ l.quoted = part.quoted /\ l.kind = part.kind
      /\ l.bytes = (IF ps # <<>> /\ Alike(part, Last(ps)) THEN Last(ps).bytes \o part.bytes ELSE part.bytes)
  BY PushFirst
<1>2. Unquoted(l) <=> Unquoted(part)
  BY <1>1 DEF Unquoted
<1>3. CASE Unquoted(part)
  <2>1. e = k + 1 /\ part.bytes = <<s[k]>> /\ cs[k] = "Bare"
    BY <1>3 DEF Unit
  <2>2. e - 1 = k /\ s[k] \in Byte
    <3>1. s \in Seq(Byte) /\ Len(s) \in Nat
      BY DEF Reads
    <3> QED
      BY <2>1, <3>1
  <2>3. CASE ps # <<>> /\ Alike(part, Last(ps))
    <3> DEFINE x == Last(ps).bytes
    <3>1. x \in Seq(Byte)
      <4>1. Last(ps) \in Part
        BY <2>3, FrontAndLast
      <4> QED
        BY <4>1 DEF Part
    <3>2. l.bytes = x \o <<s[k]>>
      BY <1>1, <2>1, <2>3
    <3> HIDE DEF x, l
    <3>3. x \o <<s[k]>> # <<>> /\ Last(x \o <<s[k]>>) = s[k]
      BY <2>2, <3>1 DEF Last
    <3> QED
      BY <1>2, <1>3, <2>1, <2>2, <3>2, <3>3 DEF LastRead, l
  <2>4. CASE ~(ps # <<>> /\ Alike(part, Last(ps)))
    <3>1. l.bytes = <<s[k]>>
      BY <1>1, <2>1, <2>4
    <3>2. <<s[k]>> # <<>> /\ Last(<<s[k]>>) = s[k]
      BY DEF Last
    <3> HIDE DEF l
    <3> QED
      BY <1>2, <1>3, <2>1, <2>2, <3>1, <3>2 DEF LastRead, l
  <2> QED
    BY <2>3, <2>4
<1>4. CASE ~Unquoted(part)
  BY <1>2, <1>4 DEF LastRead, Unit
<1> QED
  BY <1>3, <1>4

(* One part more says what the bytes it was read from do.                  *)
LEMMA PartsReadOn ==
  ASSUME NEW s, NEW cs, Reads(s, cs), NEW ps \in Parts, NEW part \in Part,
         NEW w \in 1 .. Len(s), NEW k \in w .. Len(s), NEW e \in k + 1 .. Len(s) + 1,
         PartsRead(s, cs, w, k, ps), cs[e] = "Bare",
         PartMeaning(part) = TextMeaning(s, cs, k, e),
         Unit(s, cs, k, e, part, ps = <<>>)
  PROVE  PartsRead(s, cs, w, e, Push(ps, part))
<1>0. Len(s) \in Nat
  BY DEF Reads
<1>1. /\ w = k <=> ps = <<>>
      /\ PartsMeaning(ps) = TextMeaning(s, cs, w, k) /\ Apart(ps)
      /\ ps # <<>> => FirstRead(s, cs, w, k, ps)
  BY DEF PartsRead
<1>2. FirstRead(s, cs, w, e, Push(ps, part))
  BY <1>1, FirstOn
<1>3. LastRead(s, cs, e, Push(ps, part))
  <2>1. k \in 1 .. Len(s)
    BY <1>0
  <2> QED
    BY <2>1, LastOn
<1>4. PartsMeaning(Push(ps, part)) = TextMeaning(s, cs, w, e)
  <2>1. w \in 1 .. Len(s) + 1 /\ k \in w .. Len(s) + 1 /\ e \in k .. Len(s) + 1
    BY <1>0
  <2>2. TextMeaning(s, cs, w, e) = TextMeaning(s, cs, w, k) \o TextMeaning(s, cs, k, e)
    BY <2>1, TextsJoin
  <2> QED
    BY <1>1, <2>2, PushMeans
<1>5. Push(ps, part) # <<>> /\ Apart(Push(ps, part))
  BY <1>1, Pushed, PushApart
<1>6. w <= e /\ w # e
  BY <1>0
<1> QED
  BY <1>2, <1>3, <1>4, <1>5, <1>6 DEF PartsRead

-----------------------------------------------------------------------------
(* Parts of quoted text, pushed behind others.                             *)
AllQuoted(ps) == \A m \in 1 .. Len(ps) : ps[m].quoted

(* What is known of parts that quoted ones were pushed behind.             *)
Behinds(ps, qs, some) ==
  /\ some => qs # <<>> /\ ~Unquoted(Last(qs))
  /\ ps # <<>> => qs # <<>>
  /\ qs # <<>> /\ (ps = <<>> \/ ~Unquoted(ps[1])) => ~Unquoted(qs[1])
  /\ ps # <<>> /\ Unquoted(ps[1]) => qs[1] = ps[1] /\ (some => Len(qs) > 1)

(* One quoted part more.                                                   *)
LEMMA OneQuotedMore ==
  ASSUME NEW ps \in Parts, NEW qs \in Parts, NEW part \in Part, NEW some \in BOOLEAN,
         Behinds(ps, qs, some), ~some => qs = ps, part.quoted
  PROVE  Behinds(ps, Push(qs, part), TRUE)
<1> DEFINE rs == Push(qs, part)
<1>1. /\ qs = <<>> => rs = <<part>>
      /\ qs # <<>> /\ ~(Len(qs) = 1 /\ Alike(part, qs[1])) => rs[1] = qs[1]
      /\ qs # <<>> /\ Len(qs) = 1 /\ Alike(part, qs[1]) => rs[1].quoted = part.quoted
      /\ Len(rs) >= Len(qs) /\ Len(rs) \in Nat \ {0}
      /\ qs # <<>> /\ ~Alike(part, Last(qs)) => Len(rs) = Len(qs) + 1
      /\ Last(rs).quoted = part.quoted
  BY PushFirst
<1>2. rs # <<>> /\ rs \in Parts
  BY PushFirst
<1>3. Len(qs) \in Nat /\ (qs # <<>> => Len(qs) # 0)
  BY DEF Parts
<1>4. \A p : Unquoted(p) => ~p.quoted
  BY DEF Unquoted
<1> HIDE DEF rs
<1>5. ~Unquoted(Last(rs))
  BY <1>1, <1>4
<1>6. ASSUME ps = <<>> \/ ~Unquoted(ps[1]) PROVE ~Unquoted(rs[1])
  <2>1. CASE qs = <<>>
    <3>1. rs[1] = part
      BY <1>1, <2>1
    <3> QED
      BY <1>4, <3>1
  <2>2. CASE qs # <<>> /\ ~(Len(qs) = 1 /\ Alike(part, qs[1]))
    <3>1. ~Unquoted(qs[1])
      BY <1>6, <2>2 DEF Behinds
    <3> QED
      BY <1>1, <2>2, <3>1
  <2>3. CASE qs # <<>> /\ Len(qs) = 1 /\ Alike(part, qs[1])
    BY <1>1, <1>4, <2>3
  <2> QED
    BY <2>1, <2>2, <2>3
<1>7. ASSUME ps # <<>>, Unquoted(ps[1]) PROVE rs[1] = ps[1] /\ Len(rs) > 1
  <2>1. qs # <<>> /\ qs[1] = ps[1] /\ (some => Len(qs) > 1)
    BY <1>7 DEF Behinds
  <2>2. ~Alike(part, qs[1])
    BY <1>7, <2>1 DEF Alike, Unquoted
  <2>3. rs[1] = ps[1]
    BY <1>1, <2>1, <2>2
  <2>4. CASE Len(qs) = 1
    <3>1. Last(qs) = qs[1]
      BY <2>4 DEF Last
    <3>2. Len(rs) = Len(qs) + 1
      BY <1>1, <2>1, <2>2, <3>1
    <3> QED
      BY <2>3, <2>4, <3>2
  <2>5. CASE Len(qs) # 1
    <3>1. \A i, j \in Nat : i # 0 /\ i # 1 /\ j >= i => j > 1
      OBVIOUS
    <3>2. Len(qs) \in Nat /\ Len(qs) # 0 /\ Len(rs) \in Nat /\ Len(rs) >= Len(qs)
      BY <1>1, <1>3, <2>1
    <3>3. Len(rs) > 1
      BY <2>5, <3>1, <3>2, Zenon
    <3> QED
      BY <2>3, <3>3
  <2> QED
    BY <2>4, <2>5
<1> QED
  BY <1>2, <1>5, <1>6, <1>7 DEF Behinds, rs

(* Quoted parts appended leave the first part what it was, or quoted.      *)
LEMMA AppendFirst ==
  ASSUME NEW ps \in Parts, NEW others \in Parts \ {<<>>}, AllQuoted(others)
  PROVE  Behinds(ps, AppendParts(ps, others), TRUE)
<1> DEFINE N == Len(others)
<1>1. PICK h \in [0 .. N -> Parts] :
             /\ h[0] = ps
             /\ \A k \in 1 .. N : h[k] = Push(h[k - 1], others[k])
             /\ AppendParts(ps, others) = h[N]
  BY AppendedByPushes
<1>2. N \in Nat /\ N # 0 /\ \A k \in 1 .. N : others[k] \in Part /\ others[k].quoted
  BY DEF Parts, AllQuoted
<1> HIDE DEF N
<1> DEFINE P == {k \in 0 .. N : k # 0 => Behinds(ps, h[k], TRUE)}
<1>3. 0 \in P
  BY <1>2
<1>4. ASSUME NEW k \in 1 .. N, k - 1 \in P PROVE k \in P
  <2>1. h[k] = Push(h[k - 1], others[k]) /\ h[k - 1] \in Parts /\ k \in 0 .. N
    BY <1>1, <1>2
  <2>2. CASE k = 1
    <3>1. h[k - 1] = ps
      BY <1>1, <2>2
    <3>2. Behinds(ps, ps, FALSE)
      BY DEF Behinds
    <3>3. Behinds(ps, Push(ps, others[k]), TRUE)
      BY <1>2, <3>2, OneQuotedMore
    <3> QED
      BY <2>1, <3>1, <3>3
  <2>3. CASE k # 1
    <3>0. k - 1 # 0
      BY <2>3
    <3>1. Behinds(ps, h[k - 1], TRUE)
      BY <1>4, <3>0
    <3>2. Behinds(ps, Push(h[k - 1], others[k]), TRUE)
      BY <1>2, <2>1, <3>1, OneQuotedMore
    <3> QED
      BY <2>1, <3>2
  <2> QED
    BY <2>2, <2>3
<1>5. \A k \in 0 .. N : k \in P
  <2> HIDE DEF P
  <2> QED
    BY <1>2, <1>3, <1>4, Along
<1>6. N \in P
  <2>1. N \in 0 .. N
    BY <1>2
  <2> HIDE DEF P
  <2> QED
    BY <1>5, <2>1
<1> QED
  BY <1>1, <1>2, <1>6

(* The next byte in double quotes is of no variable that started before.   *)
LEMMA NewInQuotes ==
  ASSUME NEW s, NEW cs, Reads(s, cs), NEW o \in 1 .. Len(s), NEW k \in 1 .. Len(s), NEW ps,
         QuotesRead(s, cs, o, k, ps)
  PROVE  k \in VarBytes(s, cs) <=> VarHere(s, cs, k)
<1>0. Len(s) \in Nat /\ DOMAIN s = 1 .. Len(s)
  BY DEF Reads
<1>1. o < k /\ cs[o] = "Bare" /\ \A m \in o + 1 .. k - 1 : VarHere(s, cs, m) => VarEnd(s, m) < k
  BY DEF QuotesRead
<1>2. ASSUME VarHere(s, cs, k) PROVE k \in VarBytes(s, cs)
  <2>1. VarEnd(s, k) \in k + 1 .. Len(s)
    BY <1>2, VarSpans
  <2>2. k \in k .. VarEnd(s, k)
    BY <1>0, <2>1
  <2> QED
    BY <1>0, <1>2, <2>2, VarBytesAre
<1>3. ASSUME k \in VarBytes(s, cs) PROVE VarHere(s, cs, k)
  <2>1. PICK m \in 1 .. Len(s) : VarHere(s, cs, m) /\ k \in m .. VarEnd(s, m)
    BY <1>0, <1>3, VarBytesAre
  <2>2. VarEnd(s, m) \in m + 1 .. Len(s) /\ \A j \in m .. VarEnd(s, m) + 1 : cs[j] = "Double"
    BY <2>1, VarSpans
  <2>3. o \notin m .. VarEnd(s, m) + 1
    BY <1>1, <2>2
  <2>4. o < m
    BY <1>0, <1>1, <2>1, <2>2, <2>3
  <2>5. ~(m \in o + 1 .. k - 1)
    <3>1. SUFFICES ASSUME m \in o + 1 .. k - 1 PROVE FALSE
      OBVIOUS
    <3>2. VarEnd(s, m) < k
      BY <1>1, <2>1, <3>1
    <3>3. VarEnd(s, m) \in Int /\ k \in m .. VarEnd(s, m)
      BY <2>1, <2>2
    <3> QED
      BY <3>2, <3>3
  <2>6. m = k
    BY <1>0, <2>1, <2>4, <2>5
  <2> QED
    BY <2>1, <2>6
<1> QED
  BY <1>2, <1>3

Closes(s, cs, k) == Is(s, cs, k, "Double", "\"")

(* Closed double quotes say what their bytes do.                           *)
LEMMA QuotesClose ==
  ASSUME NEW s, NEW cs, Reads(s, cs), NEW ps \in Parts, NEW qs \in Parts \ {<<>>},
         NEW w \in 1 .. Len(s), NEW o \in w .. Len(s), NEW k \in o + 1 .. Len(s),
         PartsRead(s, cs, w, o, ps), QuotesRead(s, cs, o, k, qs), Closes(s, cs, k)
  PROVE  cs[k + 1] = "Bare" /\ PartsRead(s, cs, w, k + 1, AppendParts(ps, qs))
<1> DEFINE rs == AppendParts(ps, qs)
<1>0. Len(s) \in Nat /\ w \in Nat /\ o \in Nat /\ k \in Nat /\ w <= o /\ o < k /\ k <= Len(s)
  BY DEF Reads
<1>1. /\ s[o] = "\"" /\ cs[k] = "Double" /\ PartsMeaning(qs) = TextMeaning(s, cs, o, k)
      /\ AllQuoted(qs) /\ s[k] = "\""
  BY DEF QuotesRead, AllQuoted, Closes, Is
<1>2. /\ w = o <=> ps = <<>>
      /\ PartsMeaning(ps) = TextMeaning(s, cs, w, o) /\ Apart(ps)
      /\ ps # <<>> => FirstRead(s, cs, w, o, ps)
  BY DEF PartsRead
<1>3. cs[k + 1] = "Bare"
  <2>1. k \in 1 .. Len(s)
    BY <1>0
  <2>2. cs[k] = "Double" /\ s[k] = "\"" => cs[k + 1] = "Bare"
    BY <2>1, NextQuoting
  <2> QED
    BY <1>1, <2>2
<1>4. rs # <<>> /\ Apart(rs) /\ rs \in Parts
  BY <1>2, PartsAppended, AppendApart
<1>5. PartsMeaning(rs) = TextMeaning(s, cs, w, k + 1)
  <2>1. /\ w \in 1 .. Len(s) + 1 /\ o \in w .. Len(s) + 1 /\ k \in o .. Len(s) + 1
        /\ k \in w .. Len(s) /\ k \in 1 .. Len(s) /\ k \in w .. Len(s) + 1 /\ o \in 1 .. Len(s)
    BY <1>0
  <2>2. TextMeaning(s, cs, w, k) = TextMeaning(s, cs, w, o) \o TextMeaning(s, cs, o, k)
    BY <2>1, TextsJoin
  <2>3. TextMeaning(s, cs, w, k + 1) = TextMeaning(s, cs, w, k) \o Meaning(s, cs, k)
    BY <2>1, TextGrows
  <2>4. Meaning(s, cs, k) = <<>>
    <3>1. ~VarHere(s, cs, k)
      BY <1>1 DEF VarHere, Is
    <3>2. k \notin VarBytes(s, cs)
      BY <2>1, <3>1, NewInQuotes
    <3> QED
      BY <1>1, <2>1, <3>2, MeaningInside
  <2>5. TextMeaning(s, cs, w, k) \o <<>> = TextMeaning(s, cs, w, k)
    BY <2>1, TextIsParts, NothingMore
  <2> QED
    BY <1>1, <1>2, <2>2, <2>3, <2>4, <2>5, AppendMeans
<1>6. Behinds(ps, rs, TRUE)
  BY <1>1, AppendFirst
<1> HIDE DEF rs
<1>7. LastRead(s, cs, k + 1, rs)
  <2>1. ~Unquoted(Last(rs))
    BY <1>6 DEF Behinds
  <2>2. (k + 1) - 1 = k
    BY <1>0
  <2> QED
    BY <1>1, <2>1, <2>2 DEF LastRead
<1>8. FirstRead(s, cs, w, k + 1, rs)
  <2>1. "\"" \in Quoters
    BY DEF Quoters
  <2>2. CASE ps = <<>>
    <3>1. ~Unquoted(rs[1]) /\ s[w] = "\""
      BY <1>1, <1>2, <1>4, <1>6, <2>2 DEF Behinds
    <3> QED
      BY <2>1, <3>1 DEF FirstRead
  <2>3. CASE ps # <<>> /\ ~Unquoted(ps[1])
    <3>1. ~Unquoted(rs[1])
      BY <1>4, <1>6, <2>3 DEF Behinds
    <3> QED
      BY <1>2, <2>3, <3>1 DEF FirstRead
  <2>4. CASE ps # <<>> /\ Unquoted(ps[1])
    <3> DEFINE len == Len(ps[1].bytes)
    <3>1. rs[1] = ps[1] /\ Len(rs) > 1 /\ Len(rs) \in Nat
      BY <1>4, <1>6, <2>4 DEF Behinds, Parts
    <3>2. /\ len > 0 /\ w + len <= o
          /\ \A m \in 1 .. len : ps[1].bytes[m] = s[w + m - 1] /\ cs[w + m - 1] = "Bare"
          /\ Len(ps) = 1 => w + len = o
          /\ Len(ps) > 1 => s[w + len] \in Quoters
      BY <1>2, <2>4 DEF FirstRead
    <3>3. len \in Nat /\ Len(ps) \in Nat /\ Len(ps) # 0
      <4>1. ps[1] \in Part /\ Len(ps) \in Nat /\ Len(ps) # 0
        BY <2>4 DEF Parts
      <4>2. ps[1].bytes \in Seq(Byte)
        BY <4>1 DEF Part
      <4> QED
        BY <4>1, <4>2
    <3> HIDE DEF len
    <3>4. w + len <= k + 1
      <4>1. w + len <= o
        BY <3>2
      <4> QED
        BY <1>0, <3>3, <4>1
    <3>5. s[w + len] \in Quoters
      <4>1. \A i \in Nat : i = 0 \/ i = 1 \/ i > 1
        OBVIOUS
      <4>2. Len(ps) = 1 \/ Len(ps) > 1
        BY <3>3, <4>1
      <4> QED
        BY <1>1, <2>1, <3>2, <4>2
    <3>6. Len(rs) # 1
      <4>1. \A i \in Nat : i > 1 => i # 1
        OBVIOUS
      <4> QED
        BY <3>1, <4>1, Zenon
    <3> QED
      BY <2>4, <3>1, <3>2, <3>4, <3>5, <3>6 DEF FirstRead, len
  <2> QED
    BY <2>2, <2>3, <2>4
<1>9. w <= k + 1 /\ w # k + 1
  BY <1>0
<1> QED
  BY <1>3, <1>4, <1>5, <1>7, <1>8, <1>9 DEF PartsRead, rs

-----------------------------------------------------------------------------
(* What each unit of a word stands for.                                    *)

(* Two bytes in a row.                                                     *)
LEMMA TwoBytes ==
  ASSUME NEW b \in Byte, NEW c \in Byte
  PROVE  Append(<<b>>, c) = <<b, c>> /\ <<b>> \o <<c>> = <<b, c>> /\ <<b, c>> \in Seq(Byte)
<1>1. <<b>> \in Seq(Byte) /\ Len(<<b>>) = 1 /\ <<b>>[1] = b /\ Append(<<b>>, c) = <<b>> \o <<c>>
  OBVIOUS
<1>2. <<b, c>> \in Seq(Byte) /\ Len(<<b, c>>) = 2 /\ <<b, c>>[1] = b /\ <<b, c>>[2] = c
  OBVIOUS
<1> DEFINE x == <<b>>
           y == <<b, c>>
<1> HIDE DEF x, y
<1>3. /\ x \in Seq(Byte) /\ y \in Seq(Byte) /\ Len(y) = Len(x) + 1 /\ y[Len(x) + 1] = c
      /\ \A i \in 1 .. Len(x) : y[i] = x[i]
  BY <1>1, <1>2 DEF x, y
<1>4. y = Append(x, c)
  BY <1>3, OneLonger
<1> QED
  BY <1>1, <1>2, <1>4 DEF x, y

(* A literal of one byte, of two and of none.                              *)
LEMMA ShortLiterals ==
  ASSUME NEW b \in Byte, NEW c \in Byte, NEW q \in BOOLEAN
  PROVE  /\ PartMeaning(Lit(<<b>>, q)) = <<Lit(<<b>>, q)>>
         /\ PartMeaning(Lit(<<b, c>>, q)) = <<Lit(<<b>>, q)>> \o <<Lit(<<c>>, q)>>
         /\ PartMeaning(Lit(<<>>, q)) = <<>>
<1>0. <<b>> \in Seq(Byte) /\ <<c>> \in Seq(Byte) /\ <<b, c>> \in Seq(Byte) /\ <<>> \in Seq(Byte)
  OBVIOUS
<1>1. ASSUME NEW x \in Seq(Byte)
      PROVE  Lit(x, q) \in Part /\ Lit(x, q).kind = "Lit" /\ Lit(x, q).bytes = x /\ Lit(x, q).quoted = q
  BY PartsAre DEF Lit
<1>2. ASSUME NEW x \in Byte, <<x>> \in Seq(Byte) PROVE PartMeaning(Lit(<<x>>, q)) = <<Lit(<<x>>, q)>>
  <2> DEFINE l == Lit(<<x>>, q)
             m == PartMeaning(l)
  <2>1. l \in Part /\ l.kind = "Lit" /\ l.bytes = <<x>> /\ l.quoted = q
    BY <1>1, <1>2
  <2>2. Len(<<x>>) = 1 /\ <<x>>[1] = x /\ 1 \in 1 .. Len(<<x>>)
    OBVIOUS
  <2> HIDE DEF l
  <2>3. m \in Parts /\ Len(m) = 1 /\ m[1] = Lit(<<x>>, q)
    BY <2>1, <2>2, PartIsParts
  <2> HIDE DEF m
  <2>4. m = <<m[1]>>
    BY <2>3 DEF Parts
  <2> QED
    BY <2>3, <2>4 DEF m, l
<1>3. PartMeaning(Lit(<<b, c>>, q)) = PartMeaning(Lit(<<b>>, q)) \o PartMeaning(Lit(<<c>>, q))
  <2>1. <<b, c>> = <<b>> \o <<c>>
    BY TwoBytes
  <2> DEFINE x == Lit(<<b>>, q)
             y == Lit(<<c>>, q)
             z == Lit(<<b, c>>, q)
  <2>2. /\ x \in Part /\ x.kind = "Lit" /\ x.bytes = <<b>> /\ x.quoted = q
        /\ y \in Part /\ y.kind = "Lit" /\ y.bytes = <<c>> /\ y.quoted = q
        /\ z \in Part /\ z.kind = "Lit" /\ z.bytes = <<b, c>> /\ z.quoted = q
    BY <1>0, <1>1
  <2> HIDE DEF x, y, z
  <2>3. /\ x \in Part /\ y \in Part /\ z \in Part /\ x.kind = "Lit" /\ y.kind = "Lit" /\ z.kind = "Lit"
        /\ x.quoted = y.quoted /\ z.quoted = y.quoted /\ z.bytes = x.bytes \o y.bytes
    BY <2>1, <2>2
  <2>4. PartMeaning(z) = PartMeaning(x) \o PartMeaning(y)
    BY <2>3, LiteralsJoin, Zenon
  <2> QED
    BY <2>4 DEF x, y, z
<1>4. PartMeaning(Lit(<<>>, q)) = <<>>
  <2> DEFINE l == Lit(<<>>, q)
             m == PartMeaning(l)
  <2>1. l \in Part /\ l.kind = "Lit" /\ l.bytes = <<>> /\ l.quoted = q
    BY <1>0, <1>1
  <2> HIDE DEF l
  <2>2. m \in Parts /\ Len(m) = Len(<<>>)
    BY <2>1, PartIsParts
  <2> HIDE DEF m
  <2>3. m = <<>>
    BY <2>2 DEF Parts
  <2> QED
    BY <2>3 DEF m, l
<1> QED
  BY <1>0, <1>2, <1>3, <1>4

(* Units outside double quotes.                                            *)
LEMMA PlainText ==
  ASSUME NEW s, NEW cs, Reads(s, cs), NEW k \in 1 .. Len(s), cs[k] = "Bare", s[k] \notin Quoters,
         ~(s[k] = "~" /\ WordStart(s, cs, k))
  PROVE  PartMeaning(Lit(<<s[k]>>, FALSE)) = TextMeaning(s, cs, k, k + 1)
<1>1. Meaning(s, cs, k) = <<Lit(<<s[k]>>, FALSE)>>
  BY MeaningOutside
<1>2. s[k] \in Byte
  BY NextQuoting
<1> QED
  BY <1>1, <1>2, ShortLiterals, ShortTexts

(* A tilde that starts a word.                                             *)
LEMMA TildeText ==
  ASSUME NEW s, NEW cs, Reads(s, cs), NEW k \in 1 .. Len(s), s[k] = "~", WordStart(s, cs, k)
  PROVE  PartMeaning(Tilde) = TextMeaning(s, cs, k, k + 1)
<1>1. Meaning(s, cs, k) = <<Tilde>>
  BY MeaningOutside DEF WordStart
<1>2. PartMeaning(Tilde) = <<Tilde>>
  BY DEF PartMeaning, Tilde
<1> QED
  BY <1>1, <1>2, ShortTexts

BackslashAt(s, k) == s[k] = "\\"

(* The bytes that end double quotes, or escape in them.                    *)
InsideQuoters == {"\"", "\\"}

(* A backslash and the byte it escapes.                                    *)
LEMMA EscapeText ==
  ASSUME NEW s, NEW cs, Reads(s, cs), NEW k \in 1 .. Len(s), cs[k] = "Bare", BackslashAt(s, k),
         k + 1 \in 1 .. Len(s)
  PROVE  /\ PartMeaning(Lit(<<s[k + 1]>>, TRUE)) = TextMeaning(s, cs, k, k + 2)
         /\ cs[k + 1] = "BareEscape" /\ cs[k + 2] = "Bare"
<1>1. cs[k + 1] = "BareEscape"
  BY NextQuoting DEF BackslashAt
<1>2. cs[k + 2] = "Bare"
  <2>1. cs[k + 1] = "BareEscape" => cs[(k + 1) + 1] = "Bare"
    BY NextQuoting
  <2>2. (k + 1) + 1 = k + 2
    OBVIOUS
  <2> QED
    BY <1>1, <2>1, <2>2
<1>3. Meaning(s, cs, k) = <<>>
  <2>1. s[k] \in Quoters
    BY DEF BackslashAt, Quoters
  <2> QED
    BY <2>1, MeaningOutside
<1>4. Meaning(s, cs, k + 1) = <<Lit(<<s[k + 1]>>, TRUE)>> /\ s[k + 1] \in Byte
  <2>1. s[k + 1] \in Byte
    BY NextQuoting
  <2> QED
    BY <1>1, <2>1, MeaningOutside
<1>5. <<>> \o <<Lit(<<s[k + 1]>>, TRUE)>> = <<Lit(<<s[k + 1]>>, TRUE)>>
  OBVIOUS
<1>6. TextMeaning(s, cs, k, k + 2) = Meaning(s, cs, k) \o Meaning(s, cs, k + 1)
  BY ShortTexts
<1>7. PartMeaning(Lit(<<s[k + 1]>>, TRUE)) = <<Lit(<<s[k + 1]>>, TRUE)>>
  BY <1>4, ShortLiterals
<1> QED
  BY <1>1, <1>2, <1>3, <1>4, <1>5, <1>6, <1>7

Singly(s, k, e) == s[k] = "'" /\ s[e] = "'" /\ \A m \in k + 1 .. e - 1 : s[m] # "'"

(* Single quotes and what is in them.                                      *)
LEMMA SingleText ==
  ASSUME NEW s, NEW cs, Reads(s, cs), NEW k \in 1 .. Len(s), NEW e \in k + 1 .. Len(s), cs[k] = "Bare",
         Singly(s, k, e)
  PROVE  /\ PartMeaning(Lit(SubSeq(s, k + 1, e - 1), TRUE)) = TextMeaning(s, cs, k, e + 1)
         /\ cs[e + 1] = "Bare"
<1>0. Len(s) \in Nat /\ s[k] = "'" /\ s[e] = "'" /\ \A m \in k + 1 .. e - 1 : s[m] # "'"
  BY DEF Reads, Singly
<1>1. cs[k + 1] = "Single"
  BY <1>0, NextQuoting
<1>2. k + 1 \in 1 .. Len(s) + 1 /\ e \in k + 1 .. Len(s) + 1 /\ e \in k + 1 .. e /\ e \in 1 .. Len(s)
      /\ k \in 1 .. Len(s) + 1 /\ k + 1 \in k .. Len(s) + 1 /\ e \in k .. Len(s)
  BY <1>0
<1>3. \A m \in k + 1 .. e : cs[m] = "Single"
  <2>1. Leaves(s, "Single", k + 1, e)
    BY <1>0 DEF Leaves
  <2> QED
    BY <1>1, <1>2, <2>1, StaysQuoted
<1>4. cs[e + 1] = "Bare"
  <2>1. e \in 1 .. Len(s) /\ cs[e] = "Single" /\ s[e] = "'"
    BY <1>0, <1>2, <1>3
  <2> QED
    BY <2>1, NextQuoting, Zenon
<1>5. Meaning(s, cs, k) = <<>> /\ Meaning(s, cs, e) = <<>>
  BY <1>0, <1>2, <1>3, MeaningOutside DEF Quoters
<1>6. ASSUME NEW m \in k + 1 .. e - 1 PROVE Meaning(s, cs, m) = <<Lit(<<s[m]>>, TRUE)>>
  <2>1. m \in 1 .. Len(s) /\ m \in k + 1 .. e
    BY <1>0
  <2> QED
    BY <1>0, <1>3, <2>1, MeaningOutside
<1>7. TextMeaning(s, cs, k + 1, e) = PartMeaning(Lit(SubSeq(s, k + 1, e - 1), TRUE))
  BY <1>2, <1>6, QuotedText
<1>8. TextMeaning(s, cs, k, k + 1) = <<>>
  BY <1>5, ShortTexts
<1>9. TextMeaning(s, cs, k, e) = <<>> \o TextMeaning(s, cs, k + 1, e)
  BY <1>2, <1>8, TextsJoin
<1>10. TextMeaning(s, cs, k, e + 1) = TextMeaning(s, cs, k, e) \o <<>>
  BY <1>2, <1>5, TextGrows
<1>11. TextMeaning(s, cs, k + 1, e) \in Parts
  BY <1>2, TextIsParts
<1> QED
  BY <1>4, <1>7, <1>9, <1>10, <1>11, NothingMore

(* A plain byte in double quotes.                                          *)
LEMMA QuotedByteText ==
  ASSUME NEW s, NEW cs, Reads(s, cs), NEW k \in 1 .. Len(s), cs[k] = "Double",
         k \notin VarBytes(s, cs), s[k] \notin InsideQuoters
  PROVE  PartMeaning(Lit(<<s[k]>>, TRUE)) = TextMeaning(s, cs, k, k + 1)
<1>1. Meaning(s, cs, k) = <<Lit(<<s[k]>>, TRUE)>>
  <2>1. s[k] # "\"" /\ s[k] # "\\"
    BY DEF InsideQuoters
  <2> QED
    BY <2>1, MeaningInside
<1>2. s[k] \in Byte
  BY NextQuoting
<1>3. TextMeaning(s, cs, k, k + 1) = Meaning(s, cs, k)
  BY ShortTexts
<1>4. PartMeaning(Lit(<<s[k]>>, TRUE)) = <<Lit(<<s[k]>>, TRUE)>>
  BY <1>2, ShortLiterals
<1> QED
  BY <1>1, <1>3, <1>4

Kept(b) == IF b \in {"$", Backquote, "\"", "\\"} THEN <<>> ELSE <<"\\">>

(* A backslash in double quotes and the byte behind it.                    *)
LEMMA QuotedEscapeText ==
  ASSUME NEW s, NEW cs, Reads(s, cs), NEW k \in 1 .. Len(s), cs[k] = "Double", BackslashAt(s, k),
         k \notin VarBytes(s, cs), k + 1 \in 1 .. Len(s)
  PROVE  /\ Append(Kept(s[k + 1]), s[k + 1]) \in Seq(Byte)
         /\ PartMeaning(Lit(Append(Kept(s[k + 1]), s[k + 1]), TRUE)) = TextMeaning(s, cs, k, k + 2)
         /\ cs[k + 1] = "DoubleEscape" /\ cs[k + 2] = "Double"
<1> DEFINE b == s[k]
           c == s[k + 1]
<1>1. cs[k + 1] = "DoubleEscape"
  BY NextQuoting DEF BackslashAt
<1>2. cs[k + 2] = "Double"
  <2>1. cs[k + 1] = "DoubleEscape" => cs[(k + 1) + 1] = "Double"
    BY NextQuoting
  <2>2. (k + 1) + 1 = k + 2
    OBVIOUS
  <2> QED
    BY <1>1, <2>1, <2>2
<1>3. b \in Byte /\ c \in Byte /\ b = "\\"
  BY NextQuoting DEF BackslashAt
<1>4. Meaning(s, cs, k + 1) = <<Lit(<<c>>, TRUE)>>
  BY <1>1, MeaningOutside
<1>5. ByteAt(s, k + 1) = c
  BY DEF ByteAt, Reads
<1>6. TextMeaning(s, cs, k, k + 2) = Meaning(s, cs, k) \o <<Lit(<<c>>, TRUE)>>
  BY <1>4, ShortTexts
<1>7. /\ c \in {"$", Backquote, "\"", "\\"} => Meaning(s, cs, k) = <<>>
      /\ c \notin {"$", Backquote, "\"", "\\"} => Meaning(s, cs, k) = <<Lit(<<b>>, TRUE)>>
  <2>1. b # "\""
    BY <1>3
  <2> HIDE DEF c
  <2> QED
    BY <1>3, <1>5, <2>1, MeaningInside
<1> HIDE DEF b, c
<1>8. CASE c \in {"$", Backquote, "\"", "\\"}
  <2>1. Kept(c) = <<>> /\ Meaning(s, cs, k) = <<>>
    BY <1>7, <1>8 DEF Kept
  <2>2. Append(<<>>, c) = <<c>> /\ <<c>> \in Seq(Byte) /\ <<>> \o <<Lit(<<c>>, TRUE)>> = <<Lit(<<c>>, TRUE)>>
    BY <1>3
  <2> QED
    BY <1>1, <1>2, <1>3, <1>6, <2>1, <2>2, ShortLiterals DEF c
<1>9. CASE c \notin {"$", Backquote, "\"", "\\"}
  <2>1. Kept(c) = <<b>> /\ Meaning(s, cs, k) = <<Lit(<<b>>, TRUE)>>
    BY <1>3, <1>7, <1>9, Zenon DEF Kept
  <2>2. Append(<<b>>, c) = <<b, c>> /\ <<b, c>> \in Seq(Byte)
    BY <1>3, TwoBytes
  <2>3. PartMeaning(Lit(<<b, c>>, TRUE)) = <<Lit(<<b>>, TRUE)>> \o <<Lit(<<c>>, TRUE)>>
    BY <1>3, ShortLiterals
  <2>4. /\ Append(Kept(c), c) \in Seq(Byte)
        /\ PartMeaning(Lit(Append(Kept(c), c), TRUE)) = TextMeaning(s, cs, k, k + 2)
    BY <1>6, <2>1, <2>2, <2>3, Zenon
  <2> QED
    BY <1>1, <1>2, <2>4 DEF c
<1> QED
  BY <1>8, <1>9

(* A variable in double quotes.                                            *)
LEMMA VarText ==
  ASSUME NEW s, NEW cs, Reads(s, cs), NEW k \in 1 .. Len(s), VarHere(s, cs, k)
  PROVE  TextMeaning(s, cs, k, VarEnd(s, k) + 1) =
           <<Var(SubSeq(s, NamePlace(s, k), NameEnd(s, NamePlace(s, k)) - 1))>>
<1> DEFINE v == VarEnd(s, k)
           x == <<Var(SubSeq(s, NamePlace(s, k), NameEnd(s, NamePlace(s, k)) - 1))>>
<1>0. Len(s) \in Nat /\ DOMAIN s = 1 .. Len(s)
  BY DEF Reads
<1>1. /\ v \in k + 1 .. Len(s)
      /\ \A m \in k + 1 .. v : s[m] \in NameByte \cup {"{", "}"}
      /\ \A m \in k .. v + 1 : cs[m] = "Double"
  BY VarSpans
<1>2. v \in k + 1 .. Len(s)
  BY <1>1
<1> HIDE DEF v
<1>3. \A m \in k .. v : m \in 1 .. Len(s) /\ m \in k .. v + 1
  BY <1>0, <1>2
<1>4. \A m \in k .. v : m \in VarBytes(s, cs) /\ cs[m] = "Double"
  BY <1>0, <1>1, <1>3, VarBytesAre DEF v
<1>5. Meaning(s, cs, k) = x
  <2>1. k \in k .. v
    BY <1>0, <1>2
  <2>2. s[k] = "$"
    BY DEF VarHere, Is
  <2> QED
    BY <1>4, <2>1, <2>2, MeaningInside
<1>6. ASSUME NEW m \in k + 1 .. v PROVE Meaning(s, cs, m) = <<>>
  <2>1. m \in k .. v
    BY <1>0, <1>2
  <2>2. s[m] # "$"
    <3>1. "$" \notin NameByte
      BY ClassesApart, Zenon DEF NameByte, Digit, Special
    <3> QED
      BY <1>1, <3>1
  <2> QED
    BY <1>3, <1>4, <2>1, <2>2, MeaningInside
<1>7. /\ k \in 1 .. Len(s) + 1 /\ k + 1 \in k .. Len(s) + 1 /\ v + 1 \in k + 1 .. Len(s) + 1
      /\ (v + 1) - 1 = v /\ k + 1 \in 1 .. Len(s) + 1
  BY <1>0, <1>2
<1>8. TextMeaning(s, cs, k + 1, v + 1) = <<>>
  BY <1>6, <1>7, SilentText
<1>9. TextMeaning(s, cs, k, k + 1) = x /\ x \in Parts
  BY <1>5, ShortTexts, MeaningIsParts
<1>10. TextMeaning(s, cs, k, v + 1) = x \o <<>>
  BY <1>7, <1>8, <1>9, TextsJoin, SMTT(20)
<1> QED
  BY <1>9, <1>10, NothingMore DEF v

-----------------------------------------------------------------------------
(* How double quotes are read.                                             *)
QuoteAt(s, k) == s[k] = "\""

(* What is known where double quotes are read.                             *)
LEMMA QuotesAre ==
  ASSUME NEW s, NEW cs, NEW o, NEW k, NEW ps
  PROVE  QuotesRead(s, cs, o, k, ps) <=>
           /\ o < k /\ cs[o] = "Bare" /\ QuoteAt(s, o) /\ cs[k] = "Double"
           /\ \A m \in o + 1 .. k : cs[m] # "Bare"
           /\ PartsMeaning(ps) = TextMeaning(s, cs, o, k) /\ Apart(ps) /\ AllQuoted(ps)
           /\ \A m \in o + 1 .. k - 1 : VarHere(s, cs, m) => VarEnd(s, m) < k
BY Zenon DEF QuotesRead, QuoteAt, AllQuoted

(* They start with an empty literal.                                       *)
LEMMA QuotesOpen ==
  ASSUME NEW s, NEW cs, Reads(s, cs), NEW o \in 1 .. Len(s), cs[o] = "Bare", QuoteAt(s, o)
  PROVE  QuotesRead(s, cs, o, o + 1, <<Lit(<<>>, TRUE)>>)
<1> DEFINE l == Lit(<<>>, TRUE)
           ps == <<l>>
<1>0. o \in Int /\ o \in Nat
  BY DEF Reads
<1>1. cs[o + 1] = "Double"
  BY NextQuoting DEF QuoteAt
<1>2. Meaning(s, cs, o) = <<>>
  <2>1. s[o] \in Quoters
    BY DEF QuoteAt, Quoters
  <2> QED
    BY <2>1, MeaningOutside
<1>3. TextMeaning(s, cs, o, o + 1) = <<>>
  BY <1>2, ShortTexts
<1>4. l \in Part /\ l.quoted = TRUE
  <2>1. <<>> \in Seq(Byte)
    OBVIOUS
  <2> QED
    BY <2>1, PartsAre DEF Lit
<1>5. PartMeaning(l) = <<>>
  <2>1. \E b : b \in Byte
    <3>1. s[o] \in Byte
      BY NextQuoting
    <3> QED
      BY <3>1
  <2> QED
    BY <2>1, ShortLiterals
<1>6. PartsMeaning(ps) = <<>>
  <2> HIDE DEF l
  <2>1. <<>> \in Parts /\ Append(<<>>, l) = <<l>>
    BY <1>4 DEF Parts
  <2>2. PartsMeaning(Append(<<>>, l)) = PartsMeaning(<<>>) \o PartMeaning(l) /\ PartsMeaning(<<>>) = <<>>
    BY <1>4, <2>1, PartsGrow
  <2>3. <<>> \o <<>> = <<>>
    OBVIOUS
  <2> QED
    BY <1>5, <2>1, <2>2, <2>3
<1>7. Apart(ps) /\ AllQuoted(ps)
  <2> HIDE DEF l
  <2>1. Len(ps) = 1 /\ ps[1] = l /\ 2 .. 1 = {} /\ 1 .. 1 = {1}
    OBVIOUS
  <2> QED
    BY <1>4, <2>1 DEF Apart, AllQuoted
<1> HIDE DEF l, ps
<1>8. o < o + 1 /\ o + 1 .. o + 1 = {o + 1} /\ o + 1 .. (o + 1) - 1 = {}
  BY <1>0
<1>9. QuotesRead(s, cs, o, o + 1, ps)
  <2>1. \A m \in o + 1 .. o + 1 : cs[m] # "Bare"
    BY <1>1, <1>8
  <2>2. \A m \in o + 1 .. (o + 1) - 1 : VarHere(s, cs, m) => VarEnd(s, m) < o + 1
    BY <1>8
  <2> QED
    BY <1>1, <1>3, <1>6, <1>7, <1>8, <2>1, <2>2, QuotesAre
<1> QED
  BY <1>9 DEF ps, l

(* And go on with what is read of them.                                    *)
LEMMA QuotesReadOn ==
  ASSUME NEW s, NEW cs, Reads(s, cs), NEW o \in 1 .. Len(s), NEW k \in o + 1 .. Len(s),
         NEW e \in k + 1 .. Len(s) + 1, NEW ps, NEW qs, QuotesRead(s, cs, o, k, ps),
         PartsMeaning(qs) = PartsMeaning(ps) \o TextMeaning(s, cs, k, e), Apart(qs), AllQuoted(qs),
         cs[e] = "Double", \A m \in k + 1 .. e : cs[m] # "Bare",
         \A m \in k .. e - 1 : VarHere(s, cs, m) => VarEnd(s, m) < e
  PROVE  QuotesRead(s, cs, o, e, qs)
<1>0. Len(s) \in Nat
  BY DEF Reads
<1>1. /\ cs[o] = "Bare" /\ QuoteAt(s, o) /\ cs[k] = "Double" /\ \A m \in o + 1 .. k : cs[m] # "Bare"
      /\ PartsMeaning(ps) = TextMeaning(s, cs, o, k)
      /\ \A m \in o + 1 .. k - 1 : VarHere(s, cs, m) => VarEnd(s, m) < k
  BY QuotesAre
<1>2. PartsMeaning(qs) = TextMeaning(s, cs, o, e)
  <2>1. o \in 1 .. Len(s) + 1 /\ k \in o .. Len(s) + 1 /\ e \in k .. Len(s) + 1
    BY <1>0
  <2>2. TextMeaning(s, cs, o, e) = TextMeaning(s, cs, o, k) \o TextMeaning(s, cs, k, e)
    BY <2>1, TextsJoin
  <2> QED
    BY <1>1, <2>2
<1>3. \A m \in o + 1 .. e : cs[m] # "Bare"
  <2>1. ASSUME NEW m \in o + 1 .. e PROVE m \in o + 1 .. k \/ m \in k + 1 .. e
    BY <1>0
  <2> QED
    BY <1>1, <2>1
<1>4. \A m \in o + 1 .. e - 1 : VarHere(s, cs, m) => VarEnd(s, m) < e
  <2>1. SUFFICES ASSUME NEW m \in o + 1 .. e - 1, VarHere(s, cs, m) PROVE VarEnd(s, m) < e
    OBVIOUS
  <2>2. CASE m \in k .. e - 1
    BY <2>1, <2>2
  <2>3. CASE m \notin k .. e - 1
    <3>1. m \in o + 1 .. k - 1 /\ m \in 1 .. Len(s)
      BY <1>0, <2>3
    <3>2. VarEnd(s, m) < k
      BY <1>1, <2>1, <3>1
    <3>3. VarEnd(s, m) \in m + 1 .. Len(s)
      BY <2>1, <3>1, VarSpans
    <3> QED
      BY <1>0, <3>2, <3>3
  <2> QED
    BY <2>2, <2>3
<1>5. o < e
  BY <1>0
<1> QED
  BY <1>1, <1>2, <1>3, <1>4, <1>5, QuotesAre

(* A quoted part pushed leaves all quoted.                                 *)
LEMMA PushQuoted ==
  ASSUME NEW ps \in Parts, NEW part \in Part, AllQuoted(ps), part.quoted
  PROVE  AllQuoted(Push(ps, part))
<1>1. CASE ps # <<>> /\ part.kind = "Lit" /\ Last(ps).kind = "Lit" /\ Last(ps).quoted = part.quoted
  <2> DEFINE l == [Last(ps) EXCEPT !.bytes = @ \o part.bytes]
             f == Front(ps)
  <2>1. Push(ps, part) = f \o <<l>>
    BY <1>1 DEF Push
  <2>2. /\ f \in Parts /\ Last(ps) \in Part /\ Last(ps) = ps[Len(ps)] /\ Len(ps) \in Nat \ {0}
        /\ Len(f) = Len(ps) - 1 /\ \A i \in 1 .. Len(ps) - 1 : f[i] = ps[i]
    BY <1>1, FrontAndLast
  <2>3. l.quoted = Last(ps).quoted
    BY <2>2 DEF Part
  <2>4. l.quoted
    BY <1>1, <2>3
  <2> HIDE DEF l, f
  <2>5. /\ Len(f \o <<l>>) = Len(ps) /\ (f \o <<l>>)[Len(ps)] = l
        /\ \A i \in 1 .. Len(ps) - 1 : (f \o <<l>>)[i] = f[i]
    BY <2>2 DEF Parts
  <2>6. ASSUME NEW i \in 1 .. Len(ps) PROVE (f \o <<l>>)[i].quoted
    <3>1. i = Len(ps) \/ i \in 1 .. Len(ps) - 1
      BY <2>2
    <3> QED
      BY <2>2, <2>4, <2>5, <3>1 DEF AllQuoted
  <2> QED
    BY <2>1, <2>5, <2>6 DEF AllQuoted
<1>2. CASE ~(ps # <<>> /\ part.kind = "Lit" /\ Last(ps).kind = "Lit" /\ Last(ps).quoted = part.quoted)
  <2>1. Push(ps, part) = Append(ps, part)
    BY <1>2 DEF Push
  <2>2. /\ Len(Append(ps, part)) = Len(ps) + 1 /\ Append(ps, part)[Len(ps) + 1] = part /\ Len(ps) \in Nat
        /\ \A i \in 1 .. Len(ps) : Append(ps, part)[i] = ps[i]
    BY DEF Parts
  <2>3. ASSUME NEW i \in 1 .. Len(ps) + 1 PROVE Append(ps, part)[i].quoted
    <3>1. i = Len(ps) + 1 \/ i \in 1 .. Len(ps)
      BY <2>2
    <3> QED
      BY <2>2, <3>1 DEF AllQuoted
  <2> QED
    BY <2>1, <2>2, <2>3 DEF AllQuoted
<1> QED
  BY <1>1, <1>2

(* So does a variable.                                                     *)
LEMMA PushVarQuoted ==
  ASSUME NEW ps \in Parts \ {<<>>}, NEW name \in Seq(Byte), AllQuoted(ps)
  PROVE  AllQuoted(PushVar(ps, name))
<1>1. Var(name) \in Part /\ Var(name).quoted
  BY PartsAre DEF Var
<1>2. ASSUME NEW qs \in Parts, AllQuoted(qs) PROVE AllQuoted(Append(qs, Var(name)))
  <2> DEFINE part == Var(name)
  <2> HIDE DEF part
  <2>0. part \in Part /\ part.quoted
    BY <1>1 DEF part
  <2>2. /\ Len(Append(qs, part)) = Len(qs) + 1 /\ Append(qs, part)[Len(qs) + 1] = part /\ Len(qs) \in Nat
        /\ \A i \in 1 .. Len(qs) : Append(qs, part)[i] = qs[i]
    BY <2>0 DEF Parts
  <2>3. ASSUME NEW i \in 1 .. Len(qs) + 1 PROVE Append(qs, part)[i].quoted
    <3>1. i = Len(qs) + 1 \/ i \in 1 .. Len(qs)
      BY <2>2
    <3> QED
      BY <1>2, <2>0, <2>2, <3>1 DEF AllQuoted
  <2> QED
    BY <2>2, <2>3 DEF AllQuoted, part
<1>3. Front(ps) \in Parts /\ AllQuoted(Front(ps))
  <2>1. /\ Front(ps) \in Parts /\ Len(ps) \in Nat \ {0} /\ Len(Front(ps)) = Len(ps) - 1
        /\ \A i \in 1 .. Len(ps) - 1 : Front(ps)[i] = ps[i]
    BY FrontAndLast
  <2>2. \A i \in 1 .. Len(ps) - 1 : i \in 1 .. Len(ps)
    BY <2>1
  <2> QED
    BY <2>1, <2>2 DEF AllQuoted
<1>4. ps \in Parts
  OBVIOUS
<1> QED
  BY <1>2, <1>3, <1>4 DEF PushVar

(* A literal of double quotes.                                             *)
LEMMA QuotedPartOn ==
  ASSUME NEW s, NEW cs, Reads(s, cs), NEW o \in 1 .. Len(s), NEW k \in o + 1 .. Len(s),
         NEW e \in k + 1 .. Len(s) + 1, NEW ps \in Parts, NEW part \in Part, part.quoted,
         QuotesRead(s, cs, o, k, ps), PartMeaning(part) = TextMeaning(s, cs, k, e),
         cs[e] = "Double", \A m \in k + 1 .. e : cs[m] # "Bare",
         \A m \in k .. e - 1 : ~VarHere(s, cs, m)
  PROVE  QuotesRead(s, cs, o, e, Push(ps, part))
<1>1. Apart(ps) /\ AllQuoted(ps)
  BY QuotesAre
<1>2. Apart(Push(ps, part)) /\ AllQuoted(Push(ps, part))
  BY <1>1, PushApart, PushQuoted
<1>3. PartsMeaning(Push(ps, part)) = PartsMeaning(ps) \o TextMeaning(s, cs, k, e)
  BY PushMeans
<1> QED
  BY <1>2, <1>3, QuotesReadOn

(* A variable of double quotes.                                            *)
LEMMA QuotedVarOn ==
  ASSUME NEW s, NEW cs, Reads(s, cs), NEW o \in 1 .. Len(s), NEW k \in o + 1 .. Len(s),
         NEW ps \in Parts \ {<<>>}, QuotesRead(s, cs, o, k, ps), VarHere(s, cs, k)
  PROVE  LET name == SubSeq(s, NamePlace(s, k), NameEnd(s, NamePlace(s, k)) - 1) IN
           QuotesRead(s, cs, o, VarEnd(s, k) + 1, PushVar(ps, name))
<1> DEFINE name == SubSeq(s, NamePlace(s, k), NameEnd(s, NamePlace(s, k)) - 1)
           v == VarEnd(s, k)
<1>0. Len(s) \in Nat /\ s \in Seq(Byte) /\ k \in 1 .. Len(s)
  BY DEF Reads
<1>1. Apart(ps) /\ AllQuoted(ps)
  BY QuotesAre
<1>2. name \in Seq(Byte)
  <2>1. NamePlace(s, k) \in 1 .. Len(s) + 1 /\ NameEnd(s, NamePlace(s, k)) \in NamePlace(s, k) .. Len(s) + 1
    BY <1>0, NameIsHere
  <2>2. NameEnd(s, NamePlace(s, k)) - 1 \in 0 .. Len(s)
    BY <1>0, <2>1
  <2> QED
    BY <1>0, <2>1, <2>2, Pieces
<1>3. TextMeaning(s, cs, k, v + 1) = <<Var(name)>>
  BY <1>0, VarText
<1> HIDE DEF name
<1>4. Apart(PushVar(ps, name)) /\ AllQuoted(PushVar(ps, name))
      /\ PartsMeaning(PushVar(ps, name)) = PartsMeaning(ps) \o TextMeaning(s, cs, k, v + 1)
  BY <1>1, <1>2, <1>3, PushVarApart, PushVarQuoted, PushVarMeans
<1>5. v \in k + 1 .. Len(s) /\ \A m \in k .. v + 1 : cs[m] = "Double"
  BY <1>0, VarSpans
<1> HIDE DEF v
<1>6. /\ v + 1 \in k + 1 .. Len(s) + 1 /\ v + 1 \in k .. v + 1 /\ \A m \in k + 1 .. v + 1 : m \in k .. v + 1
      /\ (v + 1) - 1 = v /\ v < v + 1
  BY <1>0, <1>5
<1>7. cs[v + 1] = "Double" /\ \A m \in k + 1 .. v + 1 : cs[m] # "Bare"
  BY <1>5, <1>6
<1>8. ASSUME NEW m \in k .. v, VarHere(s, cs, m) PROVE VarEnd(s, m) < v + 1
  <2>1. m = k
    <3>1. CASE m \in k + 1 .. v
      <4>1. s[m] \in NameByte \cup {"{", "}"}
        BY <1>0, <3>1, VarSpans DEF v
      <4>2. "$" \notin NameByte
        BY ClassesApart, Zenon DEF NameByte, Digit, Special
      <4>3. s[m] = "$"
        BY <1>8 DEF VarHere, Is
      <4> QED
        BY <4>1, <4>2, <4>3
    <3>2. CASE m \notin k + 1 .. v
      BY <1>0, <1>5, <3>2
    <3> QED
      BY <3>1, <3>2
  <2> QED
    BY <1>6, <2>1 DEF v
<1>9. \A m \in k .. (v + 1) - 1 : VarHere(s, cs, m) => VarEnd(s, m) < v + 1
  BY <1>6, <1>8
<1>10. QuotesRead(s, cs, o, v + 1, PushVar(ps, name))
  BY <1>4, <1>6, <1>7, <1>9, QuotesReadOn
<1> QED
  BY <1>10 DEF name, v

-----------------------------------------------------------------------------
(* Steps of the walk.                                                      *)

(* The quoting of the input.                                               *)
LEMMA CsReads ==
  ASSUME LexInv
  PROVE  /\ Reads(input, Cs) /\ input \in Seq(Byte) /\ Len(input) \in Nat /\ DOMAIN input = 1 .. Len(input)
         /\ pos \in 1 .. Len(input) + 1 /\ pos \in Nat
<1>1. input \in Seq(Byte) /\ pos \in 1 .. Len(input) + 1
  BY DEF LexInv, LexTypeOK
<1>2. Len(input) \in Nat /\ DOMAIN input = 1 .. Len(input)
  BY <1>1
<1> QED
  BY <1>1, <1>2, ContextsRead DEF Cs

(* Nothing more is wrong, and no redirect starts, where the walk passed.   *)
Passes(k, e) ==
  \A m \in k .. e - 1 : Untroubled(input, Cs, m) /\ m \notin Greaters(input, Cs)

(* What is not wrong stays so.                                             *)
LEMMA CleanOn ==
  ASSUME LexInv, NEW k \in Nat, NEW e \in Nat, NEW open, Clean(input, Cs, k, open), Passes(k, e)
  PROVE  Clean(input, Cs, e, open)
<1>1. ASSUME NEW m \in 1 .. e - 1, NEW kind, Trouble(input, Cs, kind, m)
      PROVE  m \in open /\ kind = "UnterminatedDoubleQuote"
  <2>1. m \in 1 .. k - 1 \/ m \in k .. e - 1
    OBVIOUS
  <2> QED
    BY <1>1, <2>1 DEF Clean, Passes, Untroubled
<1> QED
  BY <1>1 DEF Clean

(* So do the redirects.                                                    *)
LEMMA RedirectsOn ==
  ASSUME LexInv, NEW k \in Nat, NEW e \in Nat, NEW reading, RedirectsRead(input, Cs, k, reading), Passes(k, e)
  PROVE  RedirectsRead(input, Cs, e, reading)
<1>1. ASSUME NEW g \in 1 .. e - 1, g \in Greaters(input, Cs)
      PROVE  RedirectKind(input, Cs, g) \in Accepted \/ g \in reading
  <2>1. g \in 1 .. k - 1 \/ g \in k .. e - 1
    OBVIOUS
  <2> QED
    BY <1>1, <2>1 DEF RedirectsRead, Passes
<1> QED
  BY <1>1 DEF RedirectsRead

(* A word that has not ended goes on.                                      *)
LEMMA BegunOn ==
  ASSUME LexInv, NEW w, NEW k \in Nat, NEW e \in Nat, WordBegun(input, Cs, w, k),
         \A m \in k .. e - 1 : ~Terminates(input, Cs, m)
  PROVE  WordBegun(input, Cs, w, e)
<1>0. w \in Int
  BY CsReads DEF WordBegun
<1>1. ASSUME NEW m \in w .. e - 1 PROVE ~Terminates(input, Cs, m)
  <2>1. m \in w .. k - 1 \/ m \in k .. e - 1
    BY <1>0
  <2> QED
    BY <2>1 DEF WordBegun
<1> QED
  BY <1>1 DEF WordBegun

(* A chunk of a word is read.                                              *)
LEMMA ChunkWalks ==
  ASSUME LexInv, WalkInv, Lexing, mode = "Word", NEW e \in Nat, NEW ps, Chunk(ps, e),
         PartsRead(input, Cs, WordAt, e, ps), Passes(pos, e),
         \A m \in pos .. e - 1 : ~Terminates(input, Cs, m)
  PROVE  WalkInv'
<1>1. Walked
  BY DEF WalkInv, Lexing
<1>2. /\ UNCHANGED <<input, mode, start, opened, from, inner, lexemes, err, lexed>>
      /\ parts' = ps /\ pos' = e
  BY DEF Chunk
<1>3. /\ WordBegun(input, Cs, WordAt, pos)
      /\ from = {} => NoNumber(input, WordAt)
      /\ from # {} => RedirectBegun(input, Cs, start, from)
      /\ Clean(input, Cs, pos, Open) /\ RedirectsRead(input, Cs, pos, Redirecting)
      /\ Covered(input, lexemes, Lexed) /\ TokensSay(input, Cs, lexemes)
  BY <1>1, Zenon DEF Walked, InTheWord
<1>4. pos \in Nat
  BY CsReads
<1>5. /\ Cs' = Cs /\ WordAt' = WordAt /\ Upto' = e /\ Open' = Open /\ Redirecting' = Redirecting
      /\ Lexed' = Lexed
  BY <1>2 DEF Cs, WordAt, Upto, Open, Redirecting, Lexed
<1>6. WordBegun(input, Cs, WordAt, e) /\ Clean(input, Cs, e, Open) /\ RedirectsRead(input, Cs, e, Redirecting)
  BY <1>3, <1>4, BegunOn, CleanOn, RedirectsOn
<1>7. InTheWord'
  BY <1>2, <1>3, <1>5, <1>6 DEF InTheWord
<1>8. Walked'
  BY <1>2, <1>3, <1>5, <1>6, <1>7 DEF Walked
<1> QED
  BY <1>2, <1>8 DEF WalkInv, Found, Lexing

(* A chunk in double quotes is read.                                       *)
LEMMA QuotedWalks ==
  ASSUME LexInv, WalkInv, Lexing, mode = "Quotes", NEW k \in Nat \ {0}, pos + k <= Len(input) + 1, NEW ps,
         QuotedChunk(ps, k), QuotesRead(input, Cs, opened, pos + k, ps),
         \A m \in pos .. (pos + k) - 1 : Untroubled(input, Cs, m)
  PROVE  WalkInv'
<1> DEFINE e == pos + k
<1>1. Walked
  BY DEF WalkInv, Lexing
<1>2. /\ UNCHANGED <<input, mode, start, opened, from, parts, lexemes, err, lexed>>
      /\ inner' = ps /\ pos' = e
  BY DEF QuotedChunk
<1>3. /\ WordBegun(input, Cs, WordAt, pos)
      /\ PartsRead(input, Cs, WordAt, Upto, parts)
      /\ from = {} => NoNumber(input, WordAt)
      /\ from # {} => RedirectBegun(input, Cs, start, from)
      /\ Clean(input, Cs, pos, Open) /\ RedirectsRead(input, Cs, pos, Redirecting)
      /\ Covered(input, lexemes, Lexed) /\ TokensSay(input, Cs, lexemes)
      /\ QuotesRead(input, Cs, opened, pos, inner)
  BY <1>1, Zenon DEF Walked, InTheWord
<1>4. pos \in Nat /\ e \in Nat /\ opened \in Nat /\ pos < e
  <2>1. opened \in 1 .. Len(input) + 1 /\ pos \in Nat /\ Len(input) \in Nat
    BY CsReads DEF LexInv, LexTypeOK
  <2> QED
    BY <2>1
<1>5. opened < pos /\ \A m \in opened + 1 .. e : Cs[m] # "Bare"
  BY <1>3, QuotesAre
<1> HIDE DEF e
<1>6. ASSUME NEW m \in pos .. e - 1 PROVE ~Terminates(input, Cs, m) /\ m \notin Greaters(input, Cs)
  <2>1. m \in opened + 1 .. e
    BY <1>4, <1>5
  <2> QED
    BY <1>5, <2>1 DEF Terminates, Greaters, Is
<1>7. Passes(pos, e)
  <2>1. \A m \in pos .. e - 1 : Untroubled(input, Cs, m)
    BY Zenon DEF e
  <2> QED
    BY <1>6, <2>1, Zenon DEF Passes
<1>8. WordBegun(input, Cs, WordAt, e) /\ Clean(input, Cs, e, Open) /\ RedirectsRead(input, Cs, e, Redirecting)
  BY <1>3, <1>4, <1>6, <1>7, BegunOn, CleanOn, RedirectsOn
<1>9. /\ Cs' = Cs /\ WordAt' = WordAt /\ Upto' = Upto /\ Open' = Open /\ Redirecting' = Redirecting
      /\ Lexed' = Lexed
  BY <1>2 DEF Cs, WordAt, Upto, Open, Redirecting, Lexed
<1>10. InTheWord'
  BY <1>2, <1>3, <1>8, <1>9 DEF InTheWord
<1>11. Walked'
  <2>1. QuotesRead(input, Cs, opened, e, ps)
    BY DEF e
  <2>2. mode' # "Between"
    BY <1>2
  <2> QED
    BY <1>2, <1>3, <1>8, <1>9, <1>10, <2>1, <2>2 DEF Walked
<1> QED
  BY <1>2, <1>11 DEF WalkInv, Found, Lexing

(* A lexeme found covers its bytes.                                        *)
LEMMA CoversOn ==
  ASSUME LexInv, NEW l, Covered(input, lexemes, l.offset), l.offset \in Nat, l.end \in Nat
  PROVE  Covered(input, Append(lexemes, l), l.end)
<1> DEFINE longer == Append(lexemes, l)
<1>1. lexemes \in Seq(Lexeme) /\ Len(lexemes) \in Nat
  BY DEF LexInv
<1>2. /\ Len(longer) = Len(lexemes) + 1 /\ longer[Len(lexemes) + 1] = l
      /\ \A k \in 1 .. Len(lexemes) : longer[k] = lexemes[k]
  BY <1>1
<1> HIDE DEF longer
<1>3. ASSUME NEW m \in 1 .. l.end - 1, input[m] \notin Blank
      PROVE  \E k \in 1 .. Len(longer) : m \in longer[k].offset .. longer[k].end - 1
  <2>1. CASE m \in 1 .. l.offset - 1
    <3>1. PICK k \in 1 .. Len(lexemes) : m \in lexemes[k].offset .. lexemes[k].end - 1
      BY <1>3, <2>1 DEF Covered
    <3>2. k \in 1 .. Len(longer)
      BY <1>1, <1>2
    <3> QED
      BY <1>2, <3>1, <3>2
  <2>2. CASE m \notin 1 .. l.offset - 1
    <3>1. m \in l.offset .. l.end - 1
      BY <2>2
    <3>2. Len(lexemes) + 1 \in 1 .. Len(longer)
      BY <1>1, <1>2
    <3> QED
      BY <1>2, <3>1, <3>2
  <2> QED
    BY <2>1, <2>2
<1> QED
  BY <1>3 DEF Covered, longer

(* And says what its text does.                                            *)
LEMMA SaysOn ==
  ASSUME LexInv, NEW l, TokensSay(input, Cs, lexemes), TokenSays(input, Cs, l)
  PROVE  TokensSay(input, Cs, Append(lexemes, l))
<1> DEFINE longer == Append(lexemes, l)
<1>1. lexemes \in Seq(Lexeme) /\ Len(lexemes) \in Nat
  BY DEF LexInv
<1>2. /\ Len(longer) = Len(lexemes) + 1 /\ longer[Len(lexemes) + 1] = l
      /\ \A k \in 1 .. Len(lexemes) : longer[k] = lexemes[k]
  BY <1>1
<1> HIDE DEF longer
<1>3. ASSUME NEW k \in 1 .. Len(longer) PROVE TokenSays(input, Cs, longer[k])
  <2>1. k \in 1 .. Len(lexemes) \/ k = Len(lexemes) + 1
    BY <1>1, <1>2
  <2> QED
    BY <1>2, <2>1 DEF TokensSay
<1> QED
  BY <1>3 DEF TokensSay, longer

LexemeOf(first, end, what) == [offset |-> first, end |-> end, token |-> what]

(* A lexeme is found.                                                      *)
LEMMA EmitWalks ==
  ASSUME LexInv, WalkInv, Lexing, NEW what, NEW e \in Nat, Emit(what, Lexed, e), mode' = "Between",
         mode # "Quotes", TokenSays(input, Cs, LexemeOf(Lexed, e, what)), Boundary(input, Cs, e),
         Clean(input, Cs, e, {}), RedirectsRead(input, Cs, e, {})
  PROVE  WalkInv'
<1> DEFINE l == LexemeOf(Lexed, e, what)
<1>1. Walked
  BY DEF WalkInv, Lexing
<1>2. UNCHANGED <<input, err, lexed>> /\ lexemes' = Append(lexemes, l) /\ pos' = e
  BY DEF Emit, LexemeOf
<1>3. Lexed \in Nat /\ l.offset = Lexed /\ l.end = e
  <2>1. pos \in Nat /\ start \in 1 .. Len(input) + 1
    BY CsReads DEF LexInv, LexTypeOK
  <2>2. start \in Nat
    BY <2>1, CsReads
  <2> QED
    BY <2>1, <2>2 DEF Lexed, LexemeOf
<1>4. Covered(input, lexemes, Lexed) /\ TokensSay(input, Cs, lexemes)
  BY <1>1 DEF Walked
<1> HIDE DEF l
<1>5. Covered(input, Append(lexemes, l), e)
  BY <1>3, <1>4, CoversOn
<1>6. TokensSay(input, Cs, Append(lexemes, l))
  BY <1>4, SaysOn DEF l
<1>7. Cs' = Cs /\ Open' = {} /\ Redirecting' = {} /\ Lexed' = e
  BY <1>2 DEF Cs, Open, Redirecting, Lexed
<1>8. Walked'
  BY <1>2, <1>5, <1>6, <1>7 DEF Walked
<1> QED
  BY <1>2, <1>8 DEF WalkInv, Found, Lexing

(* A finding is in place.                                                  *)
LEMMA FailWalks ==
  ASSUME LexInv, WalkInv, Lexing, NEW kind, NEW offset, Fail(kind, offset),
         FirstFound(input, Finding(kind, offset))
  PROVE  WalkInv'
<1>1. Walked
  BY DEF WalkInv, Lexing
<1>2. /\ UNCHANGED <<input, pos, mode, start, opened, from, parts, inner, lexemes, lexed>>
      /\ err' = {Finding(kind, offset)}
  BY DEF Fail, token, Finding
<1>3. /\ Cs' = Cs /\ WordAt' = WordAt /\ Upto' = Upto /\ Open' = Open /\ Redirecting' = Redirecting
      /\ Lexed' = Lexed
  BY <1>2 DEF Cs, WordAt, Upto, Open, Redirecting, Lexed
<1>4. InTheWord' = InTheWord
  BY <1>2, <1>3 DEF InTheWord
<1>5. Walked'
  BY <1>1, <1>2, <1>3, <1>4 DEF Walked
<1>6. Found'
  BY <1>2 DEF Found, Lexing
<1> QED
  BY <1>2, <1>5, <1>6 DEF WalkInv, Lexing

-----------------------------------------------------------------------------
(* What is wrong behind the walk.                                          *)

(* What a redirect is, by what follows it.                                 *)
LEMMA KindsAre ==
  ASSUME NEW s, NEW cs, NEW g
  PROVE  /\ g - RedirectStart(s, cs, g) > 1 => RedirectKind(s, cs, g) = "MultiDigitFd"
         /\ ~(g - RedirectStart(s, cs, g) > 1) =>
              /\ ByteAt(s, g + 1) = ">" => RedirectKind(s, cs, g) = "AppendRedirect"
              /\ ByteAt(s, g + 1) = "|" => RedirectKind(s, cs, g) = "ClobberRedirect"
              /\ ByteAt(s, g + 1) = "(" => RedirectKind(s, cs, g) = "ProcessSubstitution"
              /\ ByteAt(s, g + 1) = "&" => RedirectKind(s, cs, g) = DupKind(s, cs, g)
              /\ ByteAt(s, g + 1) \notin {">", "|", "(", "&"} =>
                   RedirectKind(s, cs, g) = TargetKind(s, cs, g)
<1> DEFINE next == ByteAt(s, g + 1)
           wide == g - RedirectStart(s, cs, g) > 1
           kind == RedirectKind(s, cs, g)
           dup == DupKind(s, cs, g)
           target == TargetKind(s, cs, g)
<1>1. kind = IF wide THEN "MultiDigitFd"
             ELSE CASE next = ">" -> "AppendRedirect"
                    [] next = "|" -> "ClobberRedirect"
                    [] next = "(" -> "ProcessSubstitution"
                    [] next = "&" -> dup
                    [] OTHER -> target
  BY DEF RedirectKind
<1> HIDE DEF next, wide, kind, dup, target
<1>2. /\ wide => kind = "MultiDigitFd"
      /\ ~wide /\ next = ">" => kind = "AppendRedirect"
      /\ ~wide /\ next = "|" => kind = "ClobberRedirect"
      /\ ~wide /\ next = "(" => kind = "ProcessSubstitution"
      /\ ~wide /\ next = "&" => kind = dup
      /\ ~wide /\ next \notin {">", "|", "(", "&"} => kind = target
  BY <1>1
<1> QED
  BY <1>2 DEF next, wide, kind, dup, target

(* Where a redirect that is read has its ">".                              *)
LEMMA GreaterIs ==
  ASSUME LexInv, WordBegun(input, Cs, WordAt, pos), PartsRead(input, Cs, WordAt, Upto, parts),
         mode \in {"Word", "Quotes"}, mode = "Quotes" => opened < pos, from # {},
         RedirectBegun(input, Cs, start, from)
  PROVE  LET g == GreaterAt(input, start) IN
           /\ g \in {start, start + 1} /\ g \in 1 .. Len(input) /\ g < pos /\ g < WordAt
           /\ input[g] = ">" /\ Cs[g] = "Bare"
           /\ RedirectStart(input, Cs, g) = start
           /\ ByteAt(input, g + 1) \notin {">", "|", "(", "&"}
           /\ from = {Descriptor(input, Cs, g)}
<1> DEFINE g == GreaterAt(input, start)
<1>0. Len(input) \in Nat /\ input \in Seq(Byte) /\ start \in Nat /\ opened \in Nat /\ pos \in Nat
  <2>1. start \in 1 .. Len(input) + 1 /\ opened \in 1 .. Len(input) + 1 /\ Len(input) \in Nat
    BY CsReads DEF LexInv, LexTypeOK
  <2> QED
    BY <2>1, CsReads
<1>1. g \in {start, start + 1}
  BY DEF GreaterAt
<1> HIDE DEF g
<1>2. /\ g \in DOMAIN input /\ Cs[g] = "Bare" /\ input[g] = ">" /\ RedirectStart(input, Cs, g) = start
      /\ ByteAt(input, g + 1) \notin {">", "|", "(", "&"} /\ from = {Descriptor(input, Cs, g)}
  BY DEF RedirectBegun, Is, g
<1>3. g \in 1 .. Len(input)
  BY <1>2, CsReads
<1>4. WordAt \in g + 1 .. Len(input) + 1
  <2>1. g + 1 \in 1 .. Len(input) + 1
    BY <1>0, <1>3
  <2>2. RunEnd(input, g + 1, Blank) \in g + 1 .. Len(input) + 1
    BY <1>0, <2>1, RunEnds, NoneIsNoByte
  <2> QED
    BY <2>2 DEF WordAt, TargetStart, g
<1>5. WordAt <= Upto /\ Upto <= pos /\ Upto \in Nat
  <2>1. WordAt <= Upto
    BY Zenon DEF PartsRead
  <2>2. CASE mode = "Word"
    BY <1>0, <2>1, <2>2 DEF Upto
  <2>3. CASE mode = "Quotes"
    BY <1>0, <2>1, <2>3 DEF Upto
  <2> QED
    BY <2>2, <2>3
<1>6. g < pos /\ g < WordAt
  BY <1>0, <1>3, <1>4, <1>5
<1> QED
  BY <1>1, <1>2, <1>3, <1>6 DEF g

(* The same of the walk.                                                   *)
LEMMA ReadingIs ==
  ASSUME LexInv, Walked, mode # "Between", from # {}
  PROVE  LET g == GreaterAt(input, start) IN
           /\ g \in {start, start + 1} /\ g \in 1 .. Len(input) /\ g < pos /\ g < WordAt
           /\ input[g] = ">" /\ Cs[g] = "Bare"
           /\ RedirectStart(input, Cs, g) = start
           /\ ByteAt(input, g + 1) \notin {">", "|", "(", "&"}
           /\ from = {Descriptor(input, Cs, g)}
<1>1. InTheWord
  BY DEF Walked
<1>2. /\ WordBegun(input, Cs, WordAt, pos) /\ PartsRead(input, Cs, WordAt, Upto, parts)
      /\ RedirectBegun(input, Cs, start, from)
  BY <1>1 DEF InTheWord
<1>3. mode \in {"Word", "Quotes"}
  BY DEF LexInv, LexTypeOK
<1>4. mode = "Quotes" => opened < pos
  BY QuotesAre DEF Walked
<1> QED
  BY <1>2, <1>3, <1>4, GreaterIs

(* A redirect that is not accepted starts before the walk only if its      *)
(* target is being read.                                                   *)
LEMMA RedirectsLate ==
  ASSUME LexInv, Walked, NEW g \in Greaters(input, Cs), RedirectKind(input, Cs, g) \notin Accepted,
         RedirectStart(input, Cs, g) < pos,
         \/ mode = "Between"
         \/ ByteAt(input, pos) \notin Digit \cup {">"}
         \/ mode # "Between" /\ from # {} /\ RedirectStart(input, Cs, g) < start
  PROVE  RedirectKind(input, Cs, g) \in Late
<1> DEFINE d == RedirectStart(input, Cs, g)
<1>0. /\ g \in 1 .. Len(input) /\ g \in Nat \ {0} /\ Cs[g] = "Bare" /\ input[g] = ">" /\ pos \in Nat
      /\ pos \in 1 .. Len(input) + 1 /\ Len(input) \in Nat /\ input \in Seq(Byte)
  <2>1. g \in DOMAIN input /\ Cs[g] = "Bare" /\ input[g] = ">"
    BY DEF Greaters, Is
  <2> QED
    BY <2>1, CsReads
<1>1. CASE g < pos
  <2>1. RedirectsRead(input, Cs, pos, Redirecting)
    BY DEF Walked
  <2>2. g \in Redirecting
    BY <1>0, <1>1, <2>1 DEF RedirectsRead
  <2>3. mode # "Between" /\ from # {} /\ g = GreaterAt(input, start)
    BY <2>2 DEF Redirecting
  <2>4. /\ g \in {start, start + 1} /\ d = start /\ ByteAt(input, g + 1) \notin {">", "|", "(", "&"}
    BY <2>3, ReadingIs
  <2>5. start \in Nat
    <3>1. start \in 1 .. Len(input) + 1
      BY DEF LexInv, LexTypeOK
    <3> QED
      BY <1>0, <3>1
  <2>6. ~(g - d > 1)
    BY <2>4, <2>5
  <2>7. RedirectKind(input, Cs, g) = TargetKind(input, Cs, g)
    BY <2>4, <2>6, KindsAre
  <2> QED
    BY <2>7 DEF TargetKind, Accepted, Late
<1>2. CASE ~(g < pos)
  <2>1. d \in 1 .. g /\ (d # g => StartsRun(input, Cs, d, g))
    BY <1>0, RedirectStarts
  <2>2. d < pos /\ pos <= g /\ d # g /\ d \in Nat
    BY <1>0, <1>2, <2>1
  <2>3. \A m \in d .. g - 1 : input[m] \in Digit
    BY <2>1, <2>2 DEF StartsRun, AllDigits
  <2>4. pos \in 1 .. Len(input) /\ ByteAt(input, pos) = input[pos]
    <3>1. pos \in 1 .. Len(input)
      BY <1>0, <2>2
    <3> QED
      BY <1>0, <3>1, Bytes
  <2>5. pos = g \/ input[pos] \in Digit
    BY <1>0, <2>2, <2>3
  <2> HIDE DEF d
  <2>6. CASE mode = "Between"
    <3>1. Boundary(input, Cs, pos)
      BY <2>6 DEF Walked
    <3>2. pos # g
      BY <1>0, <2>2, <2>4, <3>1 DEF Boundary, d
    <3>3. input[pos] \notin WordTerminator \cup {None}
      <4>1. input[pos] \in Digit
        BY <2>5, <3>2
      <4> QED
        BY <4>1 DEF Digit, WordTerminator, TokenEnd, Blank, None
    <3>4. pos = 1 \/ Terminates(input, Cs, pos - 1)
      BY <2>4, <3>1, <3>3 DEF Boundary
    <3>5. pos # 1 /\ pos - 1 \in d .. g - 1
      <4>1. d \in 1 .. g
        BY <2>1
      <4> QED
        BY <1>0, <2>2, <4>1
    <3>6. input[pos - 1] \in Digit /\ input[pos - 1] \in WordTerminator
      BY <2>3, <3>4, <3>5 DEF Terminates
    <3> QED
      BY <3>6 DEF Digit, WordTerminator, TokenEnd, Blank, None
  <2>7. CASE ByteAt(input, pos) \notin Digit \cup {">"}
    BY <1>0, <2>4, <2>5, <2>7
  <2>8. CASE mode # "Between" /\ from # {} /\ d < start
    <3> DEFINE h == GreaterAt(input, start)
    <3>1. h \in {start, start + 1} /\ h < pos /\ input[h] = ">"
      BY <2>8, ReadingIs
    <3>2. start \in Nat
      <4>1. start \in 1 .. Len(input) + 1
        BY DEF LexInv, LexTypeOK
      <4> QED
        BY <1>0, <4>1
    <3> HIDE DEF h
    <3>3. h \in d .. g - 1
      BY <1>0, <2>2, <2>8, <3>1, <3>2
    <3> QED
      BY <2>3, <3>1, <3>3 DEF Digit
  <2> QED
    BY <2>6, <2>7, <2>8 DEF d
<1> QED
  BY <1>1, <1>2

(* Nor does one start where a word goes on.                                *)
LEMMA NoRedirectAhead ==
  ASSUME LexInv, NEW e \in Nat, NEW g \in Greaters(input, Cs),
         ByteAt(input, pos) \notin Digit \cup {">"}, \A m \in pos .. e - 1 : Cs[m] = "Bare" => input[m] \in Quoters
  PROVE  RedirectStart(input, Cs, g) \notin pos .. e - 1
<1> DEFINE d == RedirectStart(input, Cs, g)
<1>0. /\ g \in 1 .. Len(input) /\ g \in Nat \ {0} /\ Cs[g] = "Bare" /\ input[g] = ">" /\ pos \in Nat
      /\ Len(input) \in Nat /\ input \in Seq(Byte) /\ pos # 0
  <2>1. g \in DOMAIN input /\ Cs[g] = "Bare" /\ input[g] = ">"
    BY DEF Greaters, Is
  <2> QED
    BY <2>1, CsReads
<1>1. d \in 1 .. g /\ (d # g => StartsRun(input, Cs, d, g))
  BY <1>0, RedirectStarts
<1> HIDE DEF d
<1>2. SUFFICES ASSUME d \in pos .. e - 1 PROVE FALSE
  BY DEF d
<1>3. d \in 1 .. Len(input) /\ ByteAt(input, d) = input[d]
  <2>1. d \in 1 .. Len(input)
    BY <1>0, <1>1
  <2> QED
    BY <1>0, <2>1, Bytes
<1>4. CASE d = g
  <2>1. ">" \notin Quoters
    BY DEF Quoters
  <2> QED
    BY <1>0, <1>2, <1>4, <2>1
<1>5. CASE d # g
  <2>1. TokenStart(input, Cs, d) /\ AllDigits(input, d, g)
    BY <1>1, <1>5 DEF StartsRun
  <2>2. d \in d .. g - 1
    BY <1>0, <1>1, <1>5
  <2>3. input[d] \in Digit
    BY <2>1, <2>2 DEF AllDigits
  <2>4. d # pos
    BY <1>3, <2>3
  <2>5. d - 1 \in pos .. e - 1 /\ d # 1
    BY <1>0, <1>1, <1>2, <2>4
  <2>6. Terminates(input, Cs, d - 1)
    BY <2>1, <2>5 DEF TokenStart
  <2>7. input[d - 1] \in Quoters /\ input[d - 1] \in WordTerminator
    BY <2>5, <2>6 DEF Terminates
  <2> QED
    BY <2>7 DEF Quoters, WordTerminator, TokenEnd, Blank, None
<1> QED
  BY <1>4, <1>5

(* What is wrong before a place between tokens, or before a word.          *)
LEMMA LateBehind ==
  ASSUME LexInv, Walked, NEW p \in Problems(input), p.offset < pos,
         \/ mode = "Between"
         \/ ByteAt(input, pos) \notin Digit \cup {">"}
         \/ mode # "Between" /\ from # {} /\ p.offset < start
  PROVE  p.kind \in Late
<1>0. input \in Seq(Byte) /\ DOMAIN input = 1 .. Len(input) /\ pos \in Nat /\ Len(input) \in Nat
  BY CsReads
<1>1. \/ \E k \in DOMAIN input : \E kind : p = Finding(kind, k) /\ Trouble(input, Cs, kind, k)
      \/ \E g \in Greaters(input, Cs) :
           /\ p = Finding(RedirectKind(input, Cs, g), RedirectStart(input, Cs, g))
           /\ RedirectKind(input, Cs, g) \notin Accepted
  BY <1>0, ProblemsAre DEF Cs
<1>2. CASE \E k \in DOMAIN input : \E kind : p = Finding(kind, k) /\ Trouble(input, Cs, kind, k)
  <2>0. PICK k \in DOMAIN input : \E kind : p = Finding(kind, k) /\ Trouble(input, Cs, kind, k)
    BY <1>2
  <2>1. PICK kind : p = Finding(kind, k) /\ Trouble(input, Cs, kind, k)
    BY <2>0
  <2>2. p.offset = k /\ p.kind = kind
    BY <2>1 DEF Finding
  <2>3. k \in 1 .. pos - 1
    BY <1>0, <2>2
  <2>4. kind = "UnterminatedDoubleQuote"
    BY <2>1, <2>3 DEF Walked, Clean
  <2> QED
    BY <2>2, <2>4 DEF Late
<1>3. CASE \E g \in Greaters(input, Cs) :
             /\ p = Finding(RedirectKind(input, Cs, g), RedirectStart(input, Cs, g))
             /\ RedirectKind(input, Cs, g) \notin Accepted
  <2>1. PICK g \in Greaters(input, Cs) :
               /\ p = Finding(RedirectKind(input, Cs, g), RedirectStart(input, Cs, g))
               /\ RedirectKind(input, Cs, g) \notin Accepted
    BY <1>3
  <2>2. p.offset = RedirectStart(input, Cs, g) /\ p.kind = RedirectKind(input, Cs, g)
    BY <2>1 DEF Finding
  <2> QED
    BY <2>1, <2>2, RedirectsLate
<1> QED
  BY <1>1, <1>2, <1>3

(* What is wrong before a place further on.                                *)
LEMMA LateAhead ==
  ASSUME LexInv, Walked, NEW e \in Nat, NEW p \in Problems(input), p.offset < e,
         ByteAt(input, pos) \notin Digit \cup {">"}, \A m \in pos .. e - 1 : Cs[m] = "Bare" => input[m] \in Quoters,
         \A m \in pos .. e - 1 : \A kind : Trouble(input, Cs, kind, m) => kind \in Late
  PROVE  p.kind \in Late
<1>0. input \in Seq(Byte) /\ DOMAIN input = 1 .. Len(input) /\ pos \in Nat /\ Len(input) \in Nat
  BY CsReads
<1>1. \/ \E k \in DOMAIN input : \E kind : p = Finding(kind, k) /\ Trouble(input, Cs, kind, k)
      \/ \E g \in Greaters(input, Cs) :
           /\ p = Finding(RedirectKind(input, Cs, g), RedirectStart(input, Cs, g))
           /\ RedirectKind(input, Cs, g) \notin Accepted
  BY <1>0, ProblemsAre DEF Cs
<1>2. SUFFICES ASSUME ~(p.offset < pos) PROVE p.kind \in Late
  BY LateBehind
<1>3. CASE \E k \in DOMAIN input : \E kind : p = Finding(kind, k) /\ Trouble(input, Cs, kind, k)
  <2>0. PICK k \in DOMAIN input : \E kind : p = Finding(kind, k) /\ Trouble(input, Cs, kind, k)
    BY <1>3
  <2>1. PICK kind : p = Finding(kind, k) /\ Trouble(input, Cs, kind, k)
    BY <2>0
  <2>2. p.offset = k /\ p.kind = kind
    BY <2>1 DEF Finding
  <2>3. k \in pos .. e - 1
    BY <1>0, <1>2, <2>2
  <2> QED
    BY <2>1, <2>2, <2>3
<1>4. CASE \E g \in Greaters(input, Cs) :
             /\ p = Finding(RedirectKind(input, Cs, g), RedirectStart(input, Cs, g))
             /\ RedirectKind(input, Cs, g) \notin Accepted
  <2>1. PICK g \in Greaters(input, Cs) :
               /\ p = Finding(RedirectKind(input, Cs, g), RedirectStart(input, Cs, g))
    BY <1>4
  <2>2. p.offset = RedirectStart(input, Cs, g)
    BY <2>1 DEF Finding
  <2>3. g \in Nat \ {0}
    BY <1>0 DEF Greaters, Is
  <2>4. RedirectStart(input, Cs, g) \in 1 .. g
    BY <2>3, RedirectStarts
  <2>5. p.offset \in pos .. e - 1
    BY <1>0, <1>2, <2>2, <2>3, <2>4
  <2> QED
    BY <2>2, <2>5, NoRedirectAhead
<1> QED
  BY <1>1, <1>3, <1>4

-----------------------------------------------------------------------------
(* A trouble is a problem, and so is a redirect that is not accepted.      *)
LEMMA TroubleIsProblem ==
  ASSUME LexInv, NEW kind, NEW k, Trouble(input, Cs, kind, k)
  PROVE  Finding(kind, k) \in Problems(input)
<1>1. k \in DOMAIN input
  BY DEF Trouble
<1> QED
  BY <1>1, CsReads, ProblemsAre DEF Cs

(* The same of a redirect.                                                 *)
LEMMA RedirectIsProblem ==
  ASSUME LexInv, NEW g \in Greaters(input, Cs), NEW kind, kind = RedirectKind(input, Cs, g), kind \notin Accepted
  PROVE  Finding(kind, RedirectStart(input, Cs, g)) \in Problems(input)
BY CsReads, ProblemsAre DEF Cs

(* A finding between tokens.                                               *)
LEMMA FailBetween ==
  ASSUME LexInv, WalkInv, Lexing, mode = "Between", NEW kind, Fail(kind, pos), Finding(kind, pos) \in Problems(input)
  PROVE  WalkInv'
<1>1. Walked
  BY DEF WalkInv, Lexing
<1>2. FirstFound(input, Finding(kind, pos))
  BY <1>1, LateBehind DEF FirstFound, Finding
<1> QED
  BY <1>2, FailWalks

(* A finding in a word, at the walk or further on.                         *)
LEMMA FailAhead ==
  ASSUME LexInv, WalkInv, Lexing, NEW kind, NEW e \in Nat, Fail(kind, e), Trouble(input, Cs, kind, e),
         ByteAt(input, pos) \notin Digit \cup {">"}, \A m \in pos .. e - 1 : Cs[m] = "Bare" => input[m] \in Quoters,
         \A m \in pos .. e - 1 : \A k : Trouble(input, Cs, k, m) => k \in Late
  PROVE  WalkInv'
<1>1. Walked
  BY DEF WalkInv, Lexing
<1>2. ASSUME NEW p \in Problems(input), p.offset < e PROVE p.kind \in Late
  BY <1>1, <1>2, LateAhead
<1>3. FirstFound(input, Finding(kind, e))
  BY <1>2, TroubleIsProblem DEF FirstFound, Finding
<1> QED
  BY <1>3, FailWalks

(* The end of the input.                                                   *)
LEMMA EndWalks == LexInv /\ WalkInv /\ EndOfInput => WalkInv'
<1>1. SUFFICES ASSUME LexInv, WalkInv, EndOfInput PROVE WalkInv'
  OBVIOUS
<1>2. /\ Lexing /\ mode = "Between" /\ pos > Len(input) /\ lexed' = TRUE
      /\ UNCHANGED <<input, pos, mode, start, opened, from, parts, inner, lexemes, err>>
  BY <1>1 DEF EndOfInput, token
<1>3. Walked
  BY <1>1, <1>2 DEF WalkInv, Lexing
<1>4. /\ Cs' = Cs /\ WordAt' = WordAt /\ Upto' = Upto /\ Open' = Open /\ Redirecting' = Redirecting
      /\ Lexed' = Lexed
  BY <1>2 DEF Cs, WordAt, Upto, Open, Redirecting, Lexed
<1>5. InTheWord' = InTheWord
  BY <1>2, <1>4 DEF InTheWord
<1>6. Walked'
  BY <1>2, <1>3, <1>4, <1>5 DEF Walked
<1>0. /\ input \in Seq(Byte) /\ DOMAIN input = 1 .. Len(input) /\ Len(input) \in Nat
      /\ pos \in 1 .. Len(input) + 1
  BY <1>1, CsReads
<1>7. pos = Len(input) + 1 /\ pos - 1 = Len(input)
  BY <1>0, <1>2
<1>8. Clean(input, Cs, pos, {}) /\ RedirectsRead(input, Cs, pos, {})
  BY <1>2, <1>3 DEF Walked, Open, Redirecting
<1>9. ASSUME NEW p \in Problems(input) PROVE FALSE
  <2>1. \/ \E k \in DOMAIN input : \E kind : p = Finding(kind, k) /\ Trouble(input, Cs, kind, k)
        \/ \E g \in Greaters(input, Cs) : RedirectKind(input, Cs, g) \notin Accepted
    BY <1>0, ProblemsAre DEF Cs
  <2>2. Greaters(input, Cs) \subseteq DOMAIN input
    BY DEF Greaters
  <2> QED
    BY <1>0, <1>7, <1>8, <2>1, <2>2 DEF Clean, RedirectsRead
<1>10. Found'
  BY <1>2, <1>7, <1>9 DEF Found
<1> QED
  BY <1>2, <1>6, <1>10 DEF WalkInv, Lexing

-----------------------------------------------------------------------------
(* What is not wrong with the bytes of a word.                             *)

(* An unquoted byte that stands for itself.                                *)
LEMMA PlainUntroubled ==
  ASSUME NEW s, NEW cs, Reads(s, cs), NEW k \in 1 .. Len(s), cs[k] = "Bare",
         s[k] \notin Control \cup Special \cup WordTerminator, s[k] = "#" => ~WordStart(s, cs, k)
  PROVE  Untroubled(s, cs, k)
<1>1. SUFFICES ASSUME NEW kind, Trouble(s, cs, kind, k) PROVE FALSE
  BY DEF Untroubled
<1>2. s[k] \notin {";", "&", "|", "(", ")", "<"} /\ s[k] \notin Control
  BY DEF WordTerminator, TokenEnd, None
<1>3. s[k] \notin {"$", "{", "}", "*", "?", "[", Backquote, "'", "\"", "\\", "~"}
  BY DEF Special
<1>4. ~OpTrouble(s, cs, kind, k)
  BY <1>2 DEF OpTrouble
<1> QED
  BY <1>1, <1>2, <1>3, <1>4, BareTroubles

(* A tilde that stands for itself, or starts a word.                       *)
LEMMA TildeUntroubled ==
  ASSUME NEW s, NEW cs, Reads(s, cs), NEW k \in 1 .. Len(s), cs[k] = "Bare", s[k] = "~",
         WordStart(s, cs, k) => ByteAt(s, k + 1) \in TokenEnd \cup {"/"}, k \notin AssignmentTildes(s, cs)
  PROVE  Untroubled(s, cs, k)
<1>1. SUFFICES ASSUME NEW kind, Trouble(s, cs, kind, k) PROVE FALSE
  BY DEF Untroubled
<1>2. s[k] \notin Control
  BY ClassesApart, Zenon DEF Special
<1>3. s[k] \notin {"(", ")", "<", "$", "{", "}", "*", "?", "[", Backquote, "#", "'", "\"", "\\"}
  BY DEF Backquote
<1>4. ~OpTrouble(s, cs, kind, k)
  BY DEF OpTrouble
<1> QED
  BY <1>1, <1>2, <1>3, <1>4, BareTroubles

(* A backslash that escapes.                                               *)
LEMMA EscapeUntroubled ==
  ASSUME NEW s, NEW cs, Reads(s, cs), NEW k \in 1 .. Len(s), cs[k] \in {"Bare", "Double"}, BackslashAt(s, k),
         ByteAt(s, k - 1) \notin NonAscii, ByteAt(s, k + 1) \notin {None, "\n"}
  PROVE  Untroubled(s, cs, k)
<1>1. SUFFICES ASSUME NEW kind, Trouble(s, cs, kind, k) PROVE FALSE
  BY DEF Untroubled
<1>2. s[k] = "\\" /\ s[k] \notin Control
  BY ClassesApart, Zenon DEF Special, BackslashAt
<1>3. s[k] \notin {"(", ")", "<", "$", "{", "}", "*", "?", "[", Backquote, "#", "'", "\"", "~"}
  BY <1>2 DEF Backquote
<1>4. ~OpTrouble(s, cs, kind, k)
  BY <1>2 DEF OpTrouble
<1>5. CASE cs[k] = "Bare"
  BY <1>1, <1>2, <1>3, <1>4, <1>5, BareTroubles
<1>6. CASE cs[k] = "Double"
  BY <1>1, <1>2, <1>3, <1>6, DoubleTroubles
<1> QED
  BY <1>5, <1>6

(* An escaped or single quoted byte.                                       *)
LEMMA QuotedUntroubled ==
  ASSUME NEW s, NEW cs, Reads(s, cs), NEW k \in 1 .. Len(s),
         cs[k] \in {"Single", "BareEscape", "DoubleEscape"}, s[k] \notin Control
  PROVE  Untroubled(s, cs, k)
BY NoOtherTroubles DEF Untroubled

(* A single quote may never close.                                         *)
LEMMA SingleQuoteTroubles ==
  ASSUME NEW s, NEW cs, Reads(s, cs), NEW k \in 1 .. Len(s), cs[k] = "Bare", s[k] = "'",
         NEW kind, Trouble(s, cs, kind, k)
  PROVE  kind = "UnterminatedSingleQuote" /\ \A m \in k + 1 .. Len(s) + 1 : cs[m] # "Bare"
<1>1. s[k] \notin Control
  BY ClassesApart, Zenon DEF Special
<1>2. s[k] \notin {"(", ")", "<", "$", "{", "}", "*", "?", "[", Backquote, "#", "\"", "\\", "~"}
  BY DEF Backquote
<1>3. ~OpTrouble(s, cs, kind, k)
  BY DEF OpTrouble
<1> QED
  BY <1>1, <1>2, <1>3, BareTroubles

(* Nor may a double quote.                                                 *)
LEMMA DoubleQuoteTroubles ==
  ASSUME NEW s, NEW cs, Reads(s, cs), NEW k \in 1 .. Len(s), cs[k] = "Bare", QuoteAt(s, k),
         NEW kind, Trouble(s, cs, kind, k)
  PROVE  kind = "UnterminatedDoubleQuote" /\ \A m \in k + 1 .. Len(s) + 1 : cs[m] # "Bare"
<1>1. s[k] = "\"" /\ s[k] \notin Control
  BY ClassesApart, Zenon DEF Special, QuoteAt
<1>2. s[k] \notin {"(", ")", "<", "$", "{", "}", "*", "?", "[", Backquote, "#", "'", "\\", "~"}
  BY <1>1 DEF Backquote
<1>3. ~OpTrouble(s, cs, kind, k)
  BY <1>1 DEF OpTrouble
<1> QED
  BY <1>1, <1>2, <1>3, BareTroubles

(* A double quote closes, without more.                                    *)
LEMMA ClosingUntroubled ==
  ASSUME NEW s, NEW cs, Reads(s, cs), NEW k \in 1 .. Len(s), cs[k] = "Double", QuoteAt(s, k)
  PROVE  Untroubled(s, cs, k)
<1>1. s[k] = "\"" /\ s[k] \notin Control
  BY ClassesApart, Zenon DEF Special, QuoteAt
<1>2. s[k] \notin {Backquote, "$", "\\"}
  BY <1>1 DEF Backquote
<1> QED
  BY <1>1, <1>2, DoubleTroubles DEF Untroubled

QuoteNext(s, k) == ByteAt(s, k + 1) = "\""

(* A byte in double quotes that stands for itself, or starts a variable.   *)
LEMMA InsideUntroubled ==
  ASSUME NEW s, NEW cs, Reads(s, cs), NEW k \in 1 .. Len(s), cs[k] = "Double",
         s[k] \notin Control, s[k] # Backquote, ~BackslashAt(s, k),
         s[k] = "$" => VarAt(s, k) \/ QuoteNext(s, k)
  PROVE  Untroubled(s, cs, k)
<1>1. s[k] # "\\"
  BY DEF BackslashAt
<1> QED
  BY <1>1, DoubleTroubles DEF Untroubled, QuoteNext

-----------------------------------------------------------------------------
(* The units of a word.                                                    *)

(* What is known where a word is read.                                     *)
LEMMA InWordIs ==
  ASSUME LexInv, WalkInv, InWord
  PROVE  /\ Lexing /\ Walked /\ mode = "Word" /\ pos \in 1 .. Len(input) /\ Peek(0) = input[pos]
         /\ input[pos] \in Byte /\ ByteAt(input, pos) = input[pos] /\ input[pos] \notin WordTerminator
         /\ Cs[pos] = "Bare" /\ ~Terminates(input, Cs, pos) /\ pos \notin Greaters(input, Cs)
         /\ ByteAt(input, pos) # ">"
         /\ WordAt \in 1 .. Len(input) /\ pos \in WordAt .. Len(input)
         /\ WordBegun(input, Cs, WordAt, pos) /\ PartsRead(input, Cs, WordAt, pos, parts)
         /\ WordStart(input, Cs, pos) <=> parts = <<>>
         /\ parts \in Parts
<1>1. Lexing /\ Walked
  BY DEF InWord, WalkInv, Lexing
<1>2. /\ mode = "Word" /\ pos \in 1 .. Len(input) /\ Peek(0) = input[pos] /\ Peek(0) \in Byte
      /\ parts \in Parts
  BY WordHere
<1>3. ByteAt(input, pos) = input[pos] /\ pos \in Int /\ Len(input) \in Nat
  BY <1>2, CsReads, Bytes
<1>4. input[pos] \notin WordTerminator
  BY <1>2, Zenon DEF InWord
<1>5. InTheWord
  BY <1>1, <1>2 DEF Walked
<1>6. WordBegun(input, Cs, WordAt, pos) /\ PartsRead(input, Cs, WordAt, pos, parts)
  BY <1>2, <1>5 DEF InTheWord, Upto
<1>7. /\ WordAt <= pos /\ Cs[pos] = "Bare" /\ (WordAt = pos <=> parts = <<>>)
  BY <1>6 DEF PartsRead
<1>8. /\ WordAt \in 1 .. Len(input) /\ WordStart(input, Cs, WordAt)
      /\ \A m \in WordAt .. pos - 1 : ~Terminates(input, Cs, m)
  BY <1>6 DEF WordBegun
<1>9. ASSUME WordStart(input, Cs, pos), WordAt # pos PROVE FALSE
  <2>1. pos - 1 \in WordAt .. pos - 1 /\ pos # 1
    BY <1>3, <1>7, <1>8, <1>9
  <2>2. Terminates(input, Cs, pos - 1)
    BY <1>9, <2>1 DEF WordStart
  <2> QED
    BY <1>8, <2>1, <2>2
<1>10. pos \in WordAt .. Len(input)
  BY <1>2, <1>3, <1>7, <1>8
<1>11. ">" \in WordTerminator
  BY DEF WordTerminator, TokenEnd, None
<1> QED
  BY <1>1, <1>2, <1>3, <1>4, <1>6, <1>7, <1>8, <1>9, <1>10, <1>11 DEF Terminates, Greaters, Is

(* One unit more of a word.                                                *)
LEMMA UnitWalks ==
  ASSUME LexInv, WalkInv, InWord, NEW part \in Part, NEW e \in pos + 1 .. Len(input) + 1,
         Chunk(Push(parts, part), e), Cs[e] = "Bare", PartMeaning(part) = TextMeaning(input, Cs, pos, e),
         Unit(input, Cs, pos, e, part, parts = <<>>),
         \A m \in pos .. e - 1 : Untroubled(input, Cs, m),
         \A m \in pos + 1 .. e - 1 : Cs[m] # "Bare"
  PROVE  WalkInv'
<1>0. Reads(input, Cs) /\ Len(input) \in Nat /\ pos \in Nat
  BY CsReads
<1>1. /\ Lexing /\ mode = "Word" /\ ~Terminates(input, Cs, pos) /\ pos \notin Greaters(input, Cs)
      /\ WordAt \in 1 .. Len(input) /\ pos \in WordAt .. Len(input)
      /\ PartsRead(input, Cs, WordAt, pos, parts) /\ parts \in Parts
  BY InWordIs
<1>2. PartsRead(input, Cs, WordAt, e, Push(parts, part))
  BY <1>0, <1>1, PartsReadOn
<1>3. ASSUME NEW m \in pos .. e - 1 PROVE ~Terminates(input, Cs, m) /\ m \notin Greaters(input, Cs)
  <2>1. m = pos \/ m \in pos + 1 .. e - 1
    BY <1>0
  <2> QED
    BY <1>1, <2>1 DEF Terminates, Greaters, Is
<1>4. Passes(pos, e) /\ e \in Nat
  BY <1>0, <1>3 DEF Passes
<1> QED
  BY <1>1, <1>2, <1>3, <1>4, ChunkWalks

(* The parts of one byte.                                                  *)
LEMMA LiteralIs ==
  ASSUME NEW b \in Byte, NEW q \in BOOLEAN
  PROVE  /\ Lit(<<b>>, q) \in Part /\ Lit(<<b>>, q).kind = "Lit" /\ Lit(<<b>>, q).bytes = <<b>>
         /\ Lit(<<b>>, q).quoted = q
<1>1. <<b>> \in Seq(Byte)
  OBVIOUS
<1> QED
  BY <1>1, PartsAre DEF Lit

(* A byte that stands for itself.                                          *)
LEMMA OneByteWalks ==
  ASSUME LexInv, WalkInv, InWord, Chunk(Push(parts, Lit(<<input[pos]>>, FALSE)), pos + 1),
         input[pos] \notin Quoters, ~(input[pos] = "~" /\ WordStart(input, Cs, pos)),
         Untroubled(input, Cs, pos)
  PROVE  WalkInv'
<1> DEFINE part == Lit(<<input[pos]>>, FALSE)
<1>0. Reads(input, Cs) /\ Len(input) \in Nat /\ pos \in Nat
  BY CsReads
<1>1. pos \in 1 .. Len(input) /\ Cs[pos] = "Bare" /\ input[pos] \in Byte
  BY InWordIs
<1>2. /\ part \in Part /\ part.kind = "Lit" /\ part.bytes = <<input[pos]>> /\ part.quoted = FALSE
  BY <1>1, LiteralIs
<1>3. PartMeaning(part) = TextMeaning(input, Cs, pos, pos + 1)
  BY <1>0, <1>1, PlainText
<1>4. Cs[pos + 1] = "Bare"
  BY <1>0, <1>1, NextQuoting
<1> HIDE DEF part
<1>5. Unit(input, Cs, pos, pos + 1, part, parts = <<>>)
  BY <1>1, <1>2 DEF Unit, Unquoted
<1>6. pos + 1 \in pos + 1 .. Len(input) + 1 /\ pos .. (pos + 1) - 1 = {pos} /\ pos + 1 .. (pos + 1) - 1 = {}
  BY <1>0, <1>1
<1>7. Chunk(Push(parts, part), pos + 1)
  BY DEF part
<1>8. \A m \in pos .. (pos + 1) - 1 : Untroubled(input, Cs, m)
  BY <1>6
<1>9. \A m \in pos + 1 .. (pos + 1) - 1 : Cs[m] # "Bare"
  BY <1>6
<1> QED
  BY <1>2, <1>3, <1>4, <1>5, <1>6, <1>7, <1>8, <1>9, UnitWalks

(* A byte of no other use.                                                 *)
LEMMA PlainWalks == LexInv /\ WalkInv /\ PlainByte => WalkInv'
<1>1. SUFFICES ASSUME LexInv, WalkInv, PlainByte PROVE WalkInv'
  OBVIOUS
<1>2. /\ InWord /\ Peek(0) \notin Control \cup Special /\ ~(Peek(0) = "#" /\ parts = <<>>)
      /\ Chunk(Push(parts, Lit(<<Peek(0)>>, FALSE)), pos + 1)
  BY <1>1, Zenon DEF PlainByte
<1>3. /\ Peek(0) = input[pos] /\ pos \in 1 .. Len(input) /\ Cs[pos] = "Bare" /\ input[pos] \notin WordTerminator
      /\ WordStart(input, Cs, pos) <=> parts = <<>>
  BY <1>1, <1>2, InWordIs
<1>4. Reads(input, Cs)
  BY <1>1, CsReads
<1>5. Untroubled(input, Cs, pos)
  BY <1>2, <1>3, <1>4, PlainUntroubled
<1>6. input[pos] \notin Quoters /\ input[pos] # "~"
  BY <1>2, <1>3 DEF Quoters, Special
<1> QED
  BY <1>1, <1>2, <1>3, <1>5, <1>6, OneByteWalks

(* What stands in no word.                                                 *)
LEMMA NoUnitWalks == LexInv /\ WalkInv /\ NoUnit => WalkInv'
<1>1. SUFFICES ASSUME LexInv, WalkInv, NoUnit PROVE WalkInv'
  OBVIOUS
<1>2. InWord
  BY <1>1 DEF NoUnit
<1>3. /\ Peek(0) = input[pos] /\ pos \in 1 .. Len(input) /\ Cs[pos] = "Bare" /\ Lexing
      /\ ByteAt(input, pos) = input[pos] /\ ByteAt(input, pos) # ">"
      /\ WordStart(input, Cs, pos) <=> parts = <<>>
  BY <1>1, <1>2, InWordIs
<1>4. PICK kind : ByteTrouble(input, Cs, kind, pos) /\ Fail(kind, pos) /\ input[pos] \notin Digit
  <2>1. CASE Peek(0) \in Control /\ Fail("ControlByte", pos)
    BY <1>3, <2>1, ClassesApart DEF ByteTrouble
  <2>2. CASE Peek(0) = "$" /\ Fail("UnquotedDollar", pos)
    BY <1>3, <2>2 DEF ByteTrouble, Digit
  <2>3. CASE Peek(0) = Backquote /\ Fail("Backquote", pos)
    BY <1>3, <2>3 DEF ByteTrouble, Digit, Backquote
  <2>4. CASE Peek(0) \in {"{", "}"} /\ Fail("Brace", pos)
    BY <1>3, <2>4 DEF ByteTrouble, Digit
  <2>5. CASE Peek(0) \in {"*", "?", "["} /\ Fail("Glob", pos)
    BY <1>3, <2>5 DEF ByteTrouble, Digit
  <2>6. CASE Peek(0) = "#" /\ parts = <<>> /\ Fail("Comment", pos)
    BY <1>3, <2>6 DEF ByteTrouble, Digit
  <2> QED
    BY <1>1, <2>1, <2>2, <2>3, <2>4, <2>5, <2>6, Zenon DEF NoUnit
<1>5. Trouble(input, Cs, kind, pos)
  BY <1>1, <1>3, <1>4, CsReads DEF Trouble
<1>6. pos \in Nat /\ pos .. pos - 1 = {}
  BY <1>1, CsReads
<1> QED
  BY <1>1, <1>3, <1>4, <1>5, <1>6, FailAhead

-----------------------------------------------------------------------------
(* Tildes.                                                                 *)
AssignByte == NameByte \cup NonAscii

(* The bytes an assignment starts with are no quotes.                      *)
LEMMA AssignBytes ==
  /\ \A b \in AssignByte : b \notin Quoters /\ b # "=" /\ b # "+" /\ b # "~" /\ b # None
  /\ "=" \notin Quoters /\ "+" \notin Quoters /\ "+" # "="
  /\ \A b \in Letter \cup NonAscii : b \in AssignByte
<1>1. \A b \in Letter \cup NonAscii : b \notin Quoters /\ b \notin {"=", "+"} /\ b \notin Special /\ b # None
  BY ClassesApart
<1>2. "~" \in Special
  BY DEF Special
<1>3. \A b \in Digit : b \notin Quoters /\ b # "=" /\ b # "+" /\ b # "~" /\ b # None
  BY DEF Digit, Quoters, None
<1>4. "=" \notin Quoters /\ "+" \notin Quoters /\ "+" # "="
  BY DEF Quoters
<1> HIDE DEF Quoters
<1> QED
  BY <1>1, <1>2, <1>3, <1>4 DEF AssignByte, NameByte

(* The bytes at the start of the word at w, up to k, are b.                *)
Begins(s, w, k, b) ==
  /\ b \in Seq(Byte) /\ Len(b) > 0 /\ w + Len(b) <= k
  /\ \A m \in 1 .. Len(b) : b[m] = s[w + m - 1]

(* An assignment starts in bytes if it does in the word they are of.       *)
LEMMA AssignmentIn ==
  ASSUME NEW s, NEW cs, Reads(s, cs), NEW w \in 1 .. Len(s), NEW k \in w .. Len(s), NEW b,
         Begins(s, w, k, b), \A m \in 1 .. Len(b) : cs[w + m - 1] = "Bare", StartsWithAssignment(b)
  PROVE  AssignmentStart(s, cs, w)
<1> DEFINE r == RunEnd(b, 1, AssignByte)
<1>0. Len(s) \in Nat /\ Len(b) \in Nat /\ b \in Seq(Byte) /\ Len(b) > 0 /\ w + Len(b) <= k
      /\ \A m \in 1 .. Len(b) : b[m] = s[w + m - 1]
  BY DEF Reads, Begins
<1>1. /\ ByteAt(b, 1) \in Letter \cup NonAscii
      /\ ByteAt(b, r) = "=" \/ (ByteAt(b, r) = "+" /\ ByteAt(b, r + 1) = "=")
  BY Zenon DEF StartsWithAssignment, AssignByte
<1>2. /\ r \in 1 .. Len(b) + 1 /\ \A m \in 1 .. r - 1 : b[m] \in AssignByte
      /\ ByteAt(b, r) \notin AssignByte
  <2>1. None \notin AssignByte
    BY NoneIsNoByte DEF AssignByte
  <2>2. 1 \in 1 .. Len(b) + 1
    BY <1>0
  <2> QED
    BY <1>0, <2>1, <2>2, RunEnds
<1>3. r # 1
  BY <1>1, <1>2, AssignBytes
<1> HIDE DEF r
<1>4. b[1] = s[w] /\ ByteAt(b, 1) = b[1]
  <2>1. 1 \in 1 .. Len(b) /\ w + 1 - 1 = w
    BY <1>0
  <2>2. ByteAt(b, 1) = b[1]
    BY <1>0, <2>1, Bytes
  <2>3. b[1] = s[w + 1 - 1]
    BY <1>0, <2>1
  <2> QED
    BY <2>1, <2>2, <2>3
<1>5. ASSUME NEW j \in 2 .. Len(b), b[j] = "=", 
             \A m \in 1 .. j - 1 : b[m] \in AssignByte \/ (m = j - 1 /\ m > 1 /\ b[m] = "+")
      PROVE  AssignmentStart(s, cs, w)
  <2> DEFINE e == w + j - 1
  <2>1. e \in w + 1 .. Len(s) /\ j \in 1 .. Len(b)
    BY <1>0
  <2>2. s[e] = "="
    BY <1>0, <1>5, <2>1
  <2>3. ASSUME NEW m \in w .. e PROVE cs[m] = "Bare"
    <3>1. m - w + 1 \in 1 .. Len(b) /\ w + (m - w + 1) - 1 = m
      BY <1>0
    <3> QED
      BY <3>1
  <2>4. ASSUME NEW m \in w .. e - 1
        PROVE  s[m] \in NameByte \cup NonAscii \/ (m = e - 1 /\ m > w /\ s[m] = "+")
    <3> DEFINE i == m - w + 1
    <3>1. i \in 1 .. Len(b) /\ w + i - 1 = m /\ i \in 1 .. j - 1 /\ (i = j - 1 => m = e - 1) /\ (i > 1 => m > w)
      BY <1>0
    <3> HIDE DEF i, e
    <3>2. b[i] = s[m]
      BY <1>0, <3>1
    <3>3. b[i] \in AssignByte \/ (i = j - 1 /\ i > 1 /\ b[i] = "+")
      BY <1>5, <3>1
    <3> QED
      BY <3>1, <3>2, <3>3 DEF AssignByte
  <2>5. s[w] \in Letter \cup NonAscii
    BY <1>1, <1>4
  <2> HIDE DEF e
  <2> QED
    BY <2>1, <2>2, <2>3, <2>4, <2>5 DEF AssignmentStart
<1>6. ASSUME NEW j \in Int, ByteAt(b, j) # None PROVE j \in 1 .. Len(b) /\ b[j] = ByteAt(b, j)
  BY <1>0, <1>6, Bytes
<1>7. "=" # None /\ "+" # None
  BY DEF None
<1>8. CASE ByteAt(b, r) = "="
  <2>1. r \in 1 .. Len(b) /\ b[r] = "="
    BY <1>2, <1>6, <1>7, <1>8
  <2>2. r \in 2 .. Len(b)
    BY <1>0, <1>3, <2>1
  <2> QED
    BY <1>2, <1>5, <2>1, <2>2
<1>9. CASE ByteAt(b, r) = "+" /\ ByteAt(b, r + 1) = "="
  <2>0. r \in Int /\ r + 1 \in Int
    BY <1>2
  <2>1. r \in 1 .. Len(b) /\ b[r] = "+" /\ r + 1 \in 1 .. Len(b) /\ b[r + 1] = "="
    BY <1>6, <1>7, <1>9, <2>0
  <2>2. r \in 1 .. Len(b) /\ r + 1 \in 1 .. Len(b)
    BY <2>1
  <2>3. r + 1 \in 2 .. Len(b) /\ (r + 1) - 1 = r /\ r > 1
    BY <1>0, <1>3, <2>2
  <2>4. \A m \in 1 .. r : m \in 1 .. r - 1 \/ m = r
    BY <2>2
  <2>5. \A m \in 1 .. (r + 1) - 1 : b[m] \in AssignByte \/ (m = (r + 1) - 1 /\ m > 1 /\ b[m] = "+")
    BY <1>2, <2>1, <2>3, <2>4
  <2> QED
    BY <1>5, <2>1, <2>3, <2>5
<1> QED
  BY <1>1, <1>8, <1>9

(* And the other way around, if the assignment is within them.             *)
LEMMA AssignmentOf ==
  ASSUME NEW s, NEW cs, Reads(s, cs), NEW w \in 1 .. Len(s), NEW k \in w .. Len(s), NEW b,
         Begins(s, w, k, b), NEW e \in w + 1 .. Len(s), e < w + Len(b), s[e] = "=",
         s[w] \in Letter \cup NonAscii,
         \A m \in w .. e - 1 : s[m] \in NameByte \cup NonAscii \/ (m = e - 1 /\ m > w /\ s[m] = "+")
  PROVE  StartsWithAssignment(b)
<1> DEFINE j == e - w + 1
<1>0. Len(s) \in Nat /\ Len(b) \in Nat /\ b \in Seq(Byte) /\ Len(b) > 0 /\ w + Len(b) <= k
      /\ \A m \in 1 .. Len(b) : b[m] = s[w + m - 1]
  BY DEF Reads, Begins
<1>1. j \in 2 .. Len(b) /\ j \in 1 .. Len(b) /\ w + j - 1 = e /\ 1 \in 1 .. Len(b) /\ w + 1 - 1 = w
  BY <1>0
<1>2. ASSUME NEW i \in 1 .. j - 1
      PROVE  i \in 1 .. Len(b) /\ w + i - 1 \in w .. e - 1
             /\ (w + i - 1 = e - 1 => i = j - 1) /\ (w + i - 1 > w => i > 1)
  BY <1>0, <1>1
<1> HIDE DEF j
<1>3. b[j] = "=" /\ b[1] = s[w] /\ ByteAt(b, j) = b[j] /\ ByteAt(b, 1) = b[1]
  <2>1. ByteAt(b, j) = b[j] /\ ByteAt(b, 1) = b[1]
    BY <1>0, <1>1, Bytes
  <2>2. b[j] = s[w + j - 1] /\ b[1] = s[w + 1 - 1]
    BY <1>0, <1>1
  <2> QED
    BY <1>1, <2>1, <2>2
<1>4. \A i \in 1 .. j - 1 : b[i] \in AssignByte \/ (i = j - 1 /\ i > 1 /\ b[i] = "+")
  <2>1. ASSUME NEW i \in 1 .. j - 1 PROVE b[i] \in AssignByte \/ (i = j - 1 /\ i > 1 /\ b[i] = "+")
    <3>1. b[i] = s[w + i - 1]
      BY <1>0, <1>2
    <3>2. s[w + i - 1] \in AssignByte \/ (w + i - 1 = e - 1 /\ w + i - 1 > w /\ s[w + i - 1] = "+")
      BY <1>2 DEF AssignByte
    <3> QED
      BY <1>2, <3>1, <3>2
  <2> QED
    BY <2>1
<1>5. None \notin AssignByte /\ 1 \in 1 .. Len(b) + 1
  BY <1>0, NoneIsNoByte DEF AssignByte
<1>6. ByteAt(b, 1) \in Letter \cup NonAscii
  BY <1>3
<1>7. CASE b[j - 1] = "+"
  <2>1. j - 1 \in 1 .. j - 1 /\ j - 1 \in 1 .. Len(b) + 1 /\ (j - 1) + 1 = j /\ j - 1 \in 1 .. Len(b)
    BY <1>0, <1>1
  <2>2. "+" \notin AssignByte
    BY AssignBytes
  <2>3. ByteAt(b, j - 1) = "+"
    BY <1>0, <1>7, <2>1, Bytes
  <2>4. \A m \in 1 .. (j - 1) - 1 : b[m] \in AssignByte
    <3>1. \A m \in 1 .. (j - 1) - 1 : m \in 1 .. j - 1 /\ m # j - 1
      BY <2>1
    <3> QED
      BY <1>4, <3>1
  <2>5. RunEnd(b, 1, AssignByte) = j - 1
    BY <1>0, <1>5, <2>1, <2>2, <2>3, <2>4, RunEndIs
  <2> QED
    BY <1>3, <1>6, <2>1, <2>3, <2>5, Zenon DEF StartsWithAssignment, AssignByte
<1>8. CASE b[j - 1] # "+"
  <2>1. \A m \in 1 .. j - 1 : b[m] \in AssignByte
    BY <1>4, <1>8
  <2>2. "=" \notin AssignByte
    BY AssignBytes
  <2>3. j \in 1 .. Len(b) + 1
    BY <1>0, <1>1
  <2>4. RunEnd(b, 1, AssignByte) = j
    BY <1>0, <1>3, <1>5, <2>1, <2>2, <2>3, RunEndIs
  <2> QED
    BY <1>3, <1>6, <2>4, Zenon DEF StartsWithAssignment, AssignByte
<1> QED
  BY <1>7, <1>8

-----------------------------------------------------------------------------
(* The first part of a word, if an unquoted literal, is its first bytes;   *)
(* an assignment starts in it or nowhere.                                  *)
LEMMA FirstAssigns ==
  ASSUME NEW s, NEW cs, Reads(s, cs), NEW ps \in Parts \ {<<>>}, NEW w \in 1 .. Len(s), NEW k \in w .. Len(s),
         FirstRead(s, cs, w, k, ps), s[k] = "~"
  PROVE  AssignmentStart(s, cs, w) <=> Unquoted(ps[1]) /\ StartsWithAssignment(ps[1].bytes)
<1> DEFINE b == ps[1].bytes
<1>0. Len(s) \in Nat /\ ps[1] \in Part /\ Len(ps) \in Nat /\ Len(ps) # 0
  BY DEF Reads, Parts
<1>1. b \in Seq(Byte) /\ Len(b) \in Nat
  <2>1. b \in Seq(Byte)
    BY <1>0 DEF Part
  <2> QED
    BY <2>1
<1>2. ASSUME Unquoted(ps[1])
      PROVE  /\ Begins(s, w, k, b) /\ \A m \in 1 .. Len(b) : cs[w + m - 1] = "Bare"
             /\ w + Len(b) = k \/ s[w + Len(b)] \in Quoters
  <2>1. /\ Len(b) > 0 /\ w + Len(b) <= k
        /\ \A m \in 1 .. Len(b) : b[m] = s[w + m - 1] /\ cs[w + m - 1] = "Bare"
        /\ Len(ps) = 1 => w + Len(b) = k
        /\ Len(ps) > 1 => s[w + Len(b)] \in Quoters
    BY <1>2, Zenon DEF FirstRead
  <2>2. \A i \in Nat : i = 0 \/ i = 1 \/ i > 1
    OBVIOUS
  <2>3. Len(ps) = 1 \/ Len(ps) > 1
    BY <1>0, <2>2, Zenon
  <2> QED
    BY <1>1, <2>1, <2>3, Zenon DEF Begins
<1>3. ASSUME Unquoted(ps[1]), StartsWithAssignment(b) PROVE AssignmentStart(s, cs, w)
  BY <1>2, <1>3, AssignmentIn
<1>4. ASSUME AssignmentStart(s, cs, w) PROVE Unquoted(ps[1]) /\ StartsWithAssignment(b)
  <2>1. PICK e \in w + 1 .. Len(s) :
               /\ s[e] = "=" /\ \A m \in w .. e : cs[m] = "Bare"
               /\ s[w] \in Letter \cup NonAscii
               /\ \A m \in w .. e - 1 :
                    s[m] \in NameByte \cup NonAscii \/ (m = e - 1 /\ m > w /\ s[m] = "+")
    BY <1>4 DEF AssignmentStart
  <2>2. ASSUME NEW m \in w .. e PROVE s[m] \notin Quoters /\ s[m] # "~"
    <3>1. m = e \/ m \in w .. e - 1
      OBVIOUS
    <3>2. s[m] \in AssignByte \/ s[m] = "+" \/ s[m] = "="
      BY <2>1, <3>1 DEF AssignByte
    <3>3. "=" # "~" /\ "+" # "~"
      OBVIOUS
    <3> QED
      BY <3>2, <3>3, AssignBytes
  <2>3. w \in w .. e
    BY <1>0
  <2>4. Unquoted(ps[1])
    <3>1. s[w] \notin Quoters /\ s[w] # "~"
      BY <2>2, <2>3
    <3>2. ~Unquoted(ps[1]) => s[w] \in Quoters \cup {"~"}
      BY Zenon DEF FirstRead
    <3> QED
      BY <3>1, <3>2
  <2>5. e < w + Len(b)
    <3>1. s[w + Len(b)] = "~" \/ s[w + Len(b)] \in Quoters
      BY <1>2, <2>4
    <3>2. w + Len(b) \notin w .. e
      BY <2>2, <3>1
    <3> HIDE DEF b
    <3> QED
      BY <1>0, <1>1, <3>2
  <2>6. StartsWithAssignment(b)
    <3> HIDE DEF b
    <3>1. Begins(s, w, k, b)
      BY <1>2, <2>4
    <3> QED
      BY <2>1, <2>5, <3>1, AssignmentOf
  <2> QED
    BY <2>4, <2>6
<1> QED
  BY <1>3, <1>4

(* A tilde behind parts would expand if one of an assignment does.         *)
LEMMA TildeExpands ==
  ASSUME NEW s, NEW cs, Reads(s, cs), NEW ps \in Parts \ {<<>>}, NEW w \in 1 .. Len(s), NEW k \in w .. Len(s),
         WordBegun(s, cs, w, k), PartsRead(s, cs, w, k, ps), s[k] = "~", ~Terminates(s, cs, k)
  PROVE  TildeWouldExpand(ps) <=> k \in AssignmentTildes(s, cs)
<1>0. Len(s) \in Nat /\ DOMAIN s = 1 .. Len(s) /\ w \in Nat /\ k \in Nat
  BY DEF Reads
<1>1. cs[k] = "Bare" /\ w # k /\ FirstRead(s, cs, w, k, ps) /\ LastRead(s, cs, k, ps)
  BY DEF PartsRead
<1>2. k - 1 \in DOMAIN s /\ w \in 1 .. k - 1 /\ k \in DOMAIN s
  BY <1>0, <1>1
<1>3. (Is(s, cs, k - 1, "Bare", "=") \/ Is(s, cs, k - 1, "Bare", ":"))
        <=> Unquoted(Last(ps)) /\ Last(ps).bytes # <<>> /\ Last(Last(ps).bytes) \in {"=", ":"}
  <2>1. CASE Unquoted(Last(ps))
    BY <1>1, <1>2, <2>1 DEF LastRead, Is
  <2>2. CASE ~Unquoted(Last(ps))
    BY <1>1, <1>2, <2>2 DEF LastRead, Is
  <2> QED
    BY <2>1, <2>2
<1>4. AssignmentStart(s, cs, w) <=> Unquoted(ps[1]) /\ StartsWithAssignment(ps[1].bytes)
  BY <1>1, FirstAssigns
<1>5. \A v \in 1 .. k - 1 : WordStart(s, cs, v) /\ (\A m \in v .. k : ~Terminates(s, cs, m)) => v = w
  <2>1. SUFFICES ASSUME NEW v \in 1 .. k - 1, WordStart(s, cs, v), \A m \in v .. k : ~Terminates(s, cs, m)
                 PROVE  v = w
    OBVIOUS
  <2>2. v \in 1 .. k /\ v <= Len(s) /\ k \in 1 .. Len(s) + 1 /\ w <= k
    BY <1>0
  <2>3. \A m \in v .. k - 1 : ~Terminates(s, cs, m)
    <3>1. \A m \in v .. k - 1 : m \in v .. k
      BY <1>0
    <3> QED
      BY <2>1, <3>1
  <2> QED
    BY <2>1, <2>2, <2>3, OneWord
<1>6. WordStart(s, cs, w) /\ \A m \in w .. k : ~Terminates(s, cs, m)
  <2>1. ASSUME NEW m \in w .. k PROVE m \in w .. k - 1 \/ m = k
    BY <1>0
  <2> QED
    BY <2>1 DEF WordBegun
<1>7. k \in AssignmentTildes(s, cs) <=>
        /\ Is(s, cs, k - 1, "Bare", "=") \/ Is(s, cs, k - 1, "Bare", ":")
        /\ AssignmentStart(s, cs, w)
  <2>1. Is(s, cs, k, "Bare", "~")
    BY <1>1, <1>2 DEF Is
  <2>2. k \in AssignmentTildes(s, cs) <=>
          /\ Is(s, cs, k - 1, "Bare", "=") \/ Is(s, cs, k - 1, "Bare", ":")
          /\ \E v \in 1 .. k - 1 : /\ WordStart(s, cs, v) /\ \A m \in v .. k : ~Terminates(s, cs, m)
                                   /\ AssignmentStart(s, cs, v)
    BY <1>2, <2>1 DEF AssignmentTildes
  <2> QED
    BY <1>2, <1>5, <1>6, <2>2, Zenon
<1> QED
  BY <1>3, <1>4, <1>7, Zenon DEF TildeWouldExpand

(* A tilde that starts a word.                                             *)
LEMMA LeadingTildeWalks == LexInv /\ WalkInv /\ LeadingTilde => WalkInv'
<1>1. SUFFICES ASSUME LexInv, WalkInv, LeadingTilde PROVE WalkInv'
  OBVIOUS
<1>2. /\ InWord /\ Peek(0) = "~" /\ parts = <<>>
      /\ Peek(1) \in TokenEnd \cup {"/"} => Chunk(<<Tilde>>, pos + 1)
      /\ Peek(1) \notin TokenEnd \cup {"/"} => Fail("TildeForm", pos)
  BY <1>1, Zenon DEF LeadingTilde
<1>3. /\ Peek(0) = input[pos] /\ pos \in 1 .. Len(input) /\ Cs[pos] = "Bare" /\ Lexing
      /\ ByteAt(input, pos) = input[pos] /\ WordStart(input, Cs, pos) /\ parts \in Parts
  BY <1>1, <1>2, InWordIs
<1>4. /\ Reads(input, Cs) /\ Len(input) \in Nat /\ pos \in Nat /\ DOMAIN input = 1 .. Len(input)
      /\ Peek(1) = ByteAt(input, pos + 1)
  BY <1>1, CsReads DEF Peek
<1>5. CASE Peek(1) \notin TokenEnd \cup {"/"}
  <2>1. Fail("TildeForm", pos)
    BY <1>2, <1>5
  <2>2. Trouble(input, Cs, "TildeForm", pos)
    BY <1>2, <1>3, <1>4, <1>5 DEF Trouble, ByteTrouble
  <2>3. ByteAt(input, pos) \notin Digit \cup {">"}
    BY <1>2, <1>3 DEF Digit
  <2>4. pos .. pos - 1 = {}
    BY <1>4
  <2> QED
    BY <1>1, <1>3, <1>4, <2>1, <2>2, <2>3, <2>4, FailAhead
<1>6. CASE Peek(1) \in TokenEnd \cup {"/"}
  <2>1. Chunk(Push(parts, Tilde), pos + 1)
    <3>1. Push(<<>>, Tilde) = <<Tilde>>
      <4>1. Tilde \in Part
        BY PartsAre
      <4>2. <<>> \in Parts
        BY DEF Parts
      <4> QED
        BY <4>1, <4>2, PushFirst
    <3> QED
      BY <1>2, <1>6, <3>1
  <2>2. Tilde \in Part /\ Tilde.kind = "Tilde" /\ ~Unquoted(Tilde)
    BY PartsAre DEF Tilde, Unquoted
  <2>3. PartMeaning(Tilde) = TextMeaning(input, Cs, pos, pos + 1)
    BY <1>2, <1>3, <1>4, TildeText
  <2>4. Cs[pos + 1] = "Bare"
    <3>1. input[pos] \notin Quoters
      BY <1>2, <1>3 DEF Quoters
    <3> QED
      BY <1>3, <1>4, <3>1, NextQuoting
  <2>5. Unit(input, Cs, pos, pos + 1, Tilde, parts = <<>>)
    <3>1. (pos + 1) - 1 = pos /\ input[pos] = "~" /\ parts = <<>>
      BY <1>2, <1>3, <1>4
    <3> QED
      BY <2>2, <3>1 DEF Unit
  <2>6. pos \notin AssignmentTildes(input, Cs)
    <3>1. SUFFICES ASSUME Is(input, Cs, pos - 1, "Bare", "=") \/ Is(input, Cs, pos - 1, "Bare", ":") PROVE FALSE
      BY DEF AssignmentTildes
    <3>2. pos - 1 \in 1 .. Len(input) /\ input[pos - 1] \in {"=", ":"}
      BY <1>4, <3>1 DEF Is
    <3>3. pos # 1
      BY <1>4, <3>2
    <3>4. input[pos - 1] \in WordTerminator
      BY <1>3, <3>3 DEF WordStart, Terminates
    <3> QED
      BY <3>2, <3>4 DEF WordTerminator, TokenEnd, Blank, None
  <2>7. Untroubled(input, Cs, pos)
    BY <1>2, <1>3, <1>4, <1>6, <2>6, TildeUntroubled
  <2>8. pos + 1 \in pos + 1 .. Len(input) + 1 /\ pos .. (pos + 1) - 1 = {pos} /\ pos + 1 .. (pos + 1) - 1 = {}
    BY <1>3, <1>4
  <2>9. \A m \in pos .. (pos + 1) - 1 : Untroubled(input, Cs, m)
    BY <2>7, <2>8
  <2>10. \A m \in pos + 1 .. (pos + 1) - 1 : Cs[m] # "Bare"
    BY <2>8
  <2> QED
    BY <1>1, <1>2, <2>1, <2>2, <2>3, <2>4, <2>5, <2>8, <2>9, <2>10, UnitWalks
<1> QED
  BY <1>5, <1>6

(* A tilde further on.                                                     *)
LEMMA LaterTildeWalks == LexInv /\ WalkInv /\ LaterTilde => WalkInv'
<1>1. SUFFICES ASSUME LexInv, WalkInv, LaterTilde PROVE WalkInv'
  OBVIOUS
<1>2. /\ InWord /\ Peek(0) = "~" /\ parts # <<>>
      /\ TildeWouldExpand(parts) => Fail("TildeAssignment", pos)
      /\ ~TildeWouldExpand(parts) => Chunk(Push(parts, Lit(<<"~">>, FALSE)), pos + 1)
  BY <1>1, Zenon DEF LaterTilde
<1>3. /\ Peek(0) = input[pos] /\ pos \in 1 .. Len(input) /\ Cs[pos] = "Bare" /\ Lexing
      /\ ByteAt(input, pos) = input[pos] /\ ~WordStart(input, Cs, pos) /\ parts \in Parts
      /\ WordAt \in 1 .. Len(input) /\ pos \in WordAt .. Len(input) /\ ~Terminates(input, Cs, pos)
      /\ WordBegun(input, Cs, WordAt, pos) /\ PartsRead(input, Cs, WordAt, pos, parts)
  BY <1>1, <1>2, InWordIs
<1>4. /\ Reads(input, Cs) /\ Len(input) \in Nat /\ pos \in Nat /\ DOMAIN input = 1 .. Len(input)
  BY <1>1, CsReads
<1>5. TildeWouldExpand(parts) <=> pos \in AssignmentTildes(input, Cs)
  BY <1>2, <1>3, <1>4, TildeExpands
<1>6. CASE TildeWouldExpand(parts)
  <2>1. Fail("TildeAssignment", pos)
    BY <1>2, <1>6
  <2>2. Trouble(input, Cs, "TildeAssignment", pos)
    BY <1>3, <1>4, <1>5, <1>6 DEF Trouble, ByteTrouble
  <2>3. ByteAt(input, pos) \notin Digit \cup {">"}
    BY <1>2, <1>3 DEF Digit
  <2>4. pos .. pos - 1 = {}
    BY <1>4
  <2> QED
    BY <1>1, <1>3, <1>4, <2>1, <2>2, <2>3, <2>4, FailAhead
<1>7. CASE ~TildeWouldExpand(parts)
  <2>1. Chunk(Push(parts, Lit(<<input[pos]>>, FALSE)), pos + 1)
    BY <1>2, <1>3, <1>7
  <2>2. input[pos] \notin Quoters
    BY <1>2, <1>3 DEF Quoters
  <2>3. Untroubled(input, Cs, pos)
    BY <1>2, <1>3, <1>4, <1>5, <1>7, TildeUntroubled
  <2> QED
    BY <1>1, <1>2, <1>3, <2>1, <2>2, <2>3, OneByteWalks
<1> QED
  BY <1>6, <1>7

-----------------------------------------------------------------------------
(* Quotes and backslashes.                                                 *)

(* A backslash that cannot be read.                                        *)
LEMMA BadEscapeWalks ==
  ASSUME LexInv, WalkInv, Lexing, pos \in 1 .. Len(input), Cs[pos] \in {"Bare", "Double"},
         BackslashAt(input, pos), BadEscape
  PROVE  WalkInv'
<1>0. /\ Reads(input, Cs) /\ Len(input) \in Nat /\ pos \in Nat /\ DOMAIN input = 1 .. Len(input)
      /\ Peek(1) = ByteAt(input, pos + 1) /\ input \in Seq(Byte)
  BY CsReads DEF Peek
<1>1. ByteAt(input, pos) = input[pos] /\ input[pos] = "\\"
  BY <1>0, Bytes DEF BackslashAt
<1>2. ByteAt(input, pos) \notin Digit \cup {">"}
  BY <1>1 DEF Digit
<1>3. pos \in Escapes(input, Cs)
  BY <1>0, <1>1 DEF Escapes
<1> DEFINE before == ByteAt(input, pos - 1)
           behind == ByteAt(input, pos + 1)
<1>4. \/ before \in NonAscii /\ Fail("BackslashAfterNonAscii", pos)
      \/ /\ before \notin NonAscii
         /\ \/ behind = None /\ Fail("BackslashAtEnd", pos)
            \/ behind = "\n" /\ Fail("LineContinuation", pos)
            \/ behind \in Control /\ Fail("ControlByte", pos + 1)
  BY <1>0, Zenon DEF BadEscape
<1> HIDE DEF before, behind
<1>5. pos .. pos - 1 = {} /\ pos .. (pos + 1) - 1 = {pos} /\ pos + 1 \in Nat
  BY <1>0
<1>6. ASSUME NEW kind, Fail(kind, pos), Trouble(input, Cs, kind, pos) PROVE WalkInv'
  BY <1>0, <1>2, <1>5, <1>6, FailAhead
<1>7. ASSUME NEW kind, kind \in {"BackslashAfterNonAscii", "BackslashAtEnd", "LineContinuation"}, Fail(kind, pos),
             \/ kind = "BackslashAfterNonAscii" /\ before \in NonAscii
             \/ kind = "BackslashAtEnd" /\ behind = None
             \/ kind = "LineContinuation" /\ behind = "\n"
      PROVE  WalkInv'
  <2>1. QuoteTrouble(input, Cs, kind, pos)
    BY <1>3, <1>7 DEF QuoteTrouble, before, behind
  <2>2. Trouble(input, Cs, kind, pos)
    BY <1>0, <2>1 DEF Trouble
  <2> QED
    BY <1>6, <1>7, <2>2
<1>8. ASSUME before \notin NonAscii, behind \in Control, Fail("ControlByte", pos + 1) PROVE WalkInv'
  <2>1. pos + 1 \in 1 .. Len(input) /\ input[pos + 1] \in Control
    <3>1. behind # None
      BY <1>8, ClassesApart
    <3>2. pos + 1 \in Int
      BY <1>0
    <3> QED
      BY <1>0, <1>8, <3>1, <3>2, Bytes DEF behind
  <2>2. Trouble(input, Cs, "ControlByte", pos + 1)
    BY <1>0, <2>1 DEF Trouble, ByteTrouble
  <2>3. Untroubled(input, Cs, pos)
    <3>1. behind \notin {None, "\n"}
      <4>1. "\n" \in WordTerminator
        BY DEF WordTerminator, TokenEnd, None
      <4> QED
        BY <1>8, <4>1, ClassesApart
    <3> QED
      BY <1>0, <1>8, <3>1, EscapeUntroubled DEF before, behind
  <2>4. \A m \in pos .. (pos + 1) - 1 : Cs[m] = "Bare" => input[m] \in Quoters
    BY <1>1, <1>5 DEF Quoters
  <2>5. \A m \in pos .. (pos + 1) - 1 : \A k : Trouble(input, Cs, k, m) => k \in Late
    BY <1>5, <2>3 DEF Untroubled
  <2> QED
    BY <1>2, <1>5, <1>8, <2>2, <2>4, <2>5, FailAhead
<1> QED
  BY <1>4, <1>7, <1>8

(* A backslash that escapes is fine, and so is the byte behind it.         *)
LEMMA GoodEscapeFine ==
  ASSUME LexInv, pos \in 1 .. Len(input), Cs[pos] \in {"Bare", "Double"}, BackslashAt(input, pos), GoodEscape
  PROVE  /\ pos + 1 \in 1 .. Len(input) /\ Peek(1) = input[pos + 1] /\ input[pos + 1] \in Byte
         /\ Untroubled(input, Cs, pos) /\ Untroubled(input, Cs, pos + 1)
         /\ Cs[pos + 1] \in {"BareEscape", "DoubleEscape"}
<1>0. /\ Reads(input, Cs) /\ Len(input) \in Nat /\ pos \in Nat /\ DOMAIN input = 1 .. Len(input)
      /\ Peek(1) = ByteAt(input, pos + 1) /\ input \in Seq(Byte)
  BY CsReads DEF Peek
<1>1. ByteAt(input, pos - 1) \notin NonAscii /\ Peek(1) \notin Control /\ Peek(1) # None /\ Peek(1) # "\n"
  BY Zenon DEF GoodEscape
<1>2. pos + 1 \in 1 .. Len(input) /\ Peek(1) = input[pos + 1] /\ input[pos + 1] \in Byte
  <2>1. pos + 1 \in Int
    BY <1>0
  <2> QED
    BY <1>0, <1>1, <2>1, Bytes
<1>3. Untroubled(input, Cs, pos)
  BY <1>0, <1>1, EscapeUntroubled
<1>4. Cs[pos + 1] \in {"BareEscape", "DoubleEscape"}
  <2>1. input[pos] = "\\"
    BY DEF BackslashAt
  <2> QED
    BY <1>0, <2>1, NextQuoting
<1>5. Untroubled(input, Cs, pos + 1)
  BY <1>0, <1>1, <1>2, <1>4, QuotedUntroubled
<1> QED
  BY <1>2, <1>3, <1>4, <1>5

(* A backslash in a word.                                                  *)
LEMMA EscapeWalks == LexInv /\ WalkInv /\ Escape => WalkInv'
<1>1. SUFFICES ASSUME LexInv, WalkInv, Escape PROVE WalkInv'
  OBVIOUS
<1>2. /\ InWord /\ BackslashAt(input, pos)
      /\ BadEscape \/ (GoodEscape /\ Chunk(Push(parts, Lit(<<Peek(1)>>, TRUE)), pos + 2))
  <2>1. /\ InWord /\ Peek(0) = "\\"
        /\ BadEscape \/ (GoodEscape /\ Chunk(Push(parts, Lit(<<Peek(1)>>, TRUE)), pos + 2))
    BY <1>1, Zenon DEF Escape
  <2>2. Peek(0) = input[pos]
    BY <1>1, <2>1, InWordIs
  <2> QED
    BY <2>1, <2>2, Zenon DEF BackslashAt
<1>3. pos \in 1 .. Len(input) /\ Cs[pos] = "Bare" /\ Lexing /\ Cs[pos] \in {"Bare", "Double"} /\ parts \in Parts
  BY <1>1, <1>2, InWordIs
<1>4. /\ Reads(input, Cs) /\ Len(input) \in Nat /\ pos \in Nat
  BY <1>1, CsReads
<1>5. CASE BadEscape
  BY <1>1, <1>2, <1>3, <1>5, BadEscapeWalks
<1>6. CASE GoodEscape /\ Chunk(Push(parts, Lit(<<Peek(1)>>, TRUE)), pos + 2)
  <2> DEFINE part == Lit(<<input[pos + 1]>>, TRUE)
  <2>1. /\ pos + 1 \in 1 .. Len(input) /\ Peek(1) = input[pos + 1] /\ input[pos + 1] \in Byte
        /\ Untroubled(input, Cs, pos) /\ Untroubled(input, Cs, pos + 1)
    BY <1>1, <1>2, <1>3, <1>6, GoodEscapeFine
  <2>2. /\ part \in Part /\ part.kind = "Lit" /\ part.quoted = TRUE
    BY <2>1, LiteralIs
  <2>3. /\ PartMeaning(part) = TextMeaning(input, Cs, pos, pos + 2)
        /\ Cs[pos + 1] = "BareEscape" /\ Cs[pos + 2] = "Bare"
    BY <1>2, <1>3, <1>4, <2>1, EscapeText
  <2>4. input[pos] \in Quoters
    BY <1>2 DEF BackslashAt, Quoters
  <2>5. /\ pos + 2 \in pos + 1 .. Len(input) + 1 /\ (pos + 2) - 1 = pos + 1
        /\ pos + 1 .. pos + 1 = {pos + 1} /\ \A m \in pos .. pos + 1 : m = pos \/ m = pos + 1
    <3>1. pos + 1 \in 1 .. Len(input)
      BY <2>1
    <3> QED
      BY <1>4, <3>1
  <2>6. Chunk(Push(parts, part), pos + 2)
    BY <1>6, <2>1
  <2> HIDE DEF part
  <2>7. Unit(input, Cs, pos, pos + 2, part, parts = <<>>)
    BY <2>2, <2>3, <2>4, <2>5 DEF Unit, Unquoted
  <2>8. \A m \in pos .. (pos + 2) - 1 : Untroubled(input, Cs, m)
    BY <2>1, <2>5
  <2>9. \A m \in pos + 1 .. (pos + 2) - 1 : Cs[m] # "Bare"
    BY <2>3, <2>5
  <2> QED
    BY <1>1, <1>2, <2>2, <2>3, <2>5, <2>6, <2>7, <2>8, <2>9, UnitWalks
<1> QED
  BY <1>2, <1>5, <1>6

(* Where single quotes end, if they do.                                    *)
LEMMA SingleEnds ==
  ASSUME LexInv, SingleQuoted
  PROVE  \E e \in pos + 1 .. Len(input) + 1 :
           /\ \A m \in pos + 1 .. e - 1 : input[m] \notin Control \cup {"'"}
           /\ \/ ByteAt(input, e) = None /\ Fail("UnterminatedSingleQuote", pos)
              \/ ByteAt(input, e) \in Control /\ Fail("ControlByte", e)
              \/ /\ ByteAt(input, e) = "'"
                 /\ Chunk(Push(parts, Lit(SubSeq(input, pos + 1, e - 1), TRUE)), e + 1)
<1> DEFINE P(d) == /\ ByteAt(input, d) \in Control \cup {"'", None}
                   /\ \A m \in pos + 1 .. d - 1 : input[m] \notin Control \cup {"'"}
           e == CHOOSE d \in pos + 1 .. Len(input) + 1 : P(d)
<1>0. input \in Seq(Byte) /\ pos \in Nat /\ Len(input) \in Nat /\ pos \in 1 .. Len(input)
  BY CsReads, WordHere DEF SingleQuoted
<1>1. \E d \in pos + 1 .. Len(input) + 1 : P(d)
  <2> DEFINE Ends == {d \in pos + 1 .. Len(input) + 1 : ByteAt(input, d) \in Control \cup {"'", None}}
  <2>1. Len(input) + 1 \in Ends
    BY <1>0, Bytes
  <2>2. Ends \in SUBSET Nat
    BY <1>0
  <2>3. PICK d \in Ends : \A m \in Ends : d <= m
    BY <2>1, <2>2, Least
  <2>4. ASSUME NEW m \in pos + 1 .. d - 1 PROVE input[m] \notin Control \cup {"'"}
    <3>1. m \notin Ends /\ m \in pos + 1 .. Len(input) + 1 /\ m \in 1 .. Len(input)
      BY <1>0, <2>3
    <3> QED
      BY <1>0, <3>1, Bytes
  <2> QED
    BY <2>3, <2>4
<1> HIDE DEF P
<1>2. e \in pos + 1 .. Len(input) + 1 /\ P(e)
  BY <1>1
<1>3. \/ ByteAt(input, e) = None /\ Fail("UnterminatedSingleQuote", pos)
      \/ ByteAt(input, e) \in Control /\ Fail("ControlByte", e)
      \/ /\ ByteAt(input, e) = "'"
         /\ Chunk(Push(parts, Lit(SubSeq(input, pos + 1, e - 1), TRUE)), e + 1)
  BY DEF SingleQuoted, P
<1> HIDE DEF e
<1> QED
  BY <1>2, <1>3 DEF P

(* Single quotes.                                                          *)
LEMMA SingleWalks == LexInv /\ WalkInv /\ SingleQuoted => WalkInv'
<1>1. SUFFICES ASSUME LexInv, WalkInv, SingleQuoted PROVE WalkInv'
  OBVIOUS
<1>2. InWord /\ Peek(0) = "'"
  BY <1>1 DEF SingleQuoted
<1>3. /\ pos \in 1 .. Len(input) /\ Cs[pos] = "Bare" /\ Lexing /\ parts \in Parts /\ input[pos] = "'"
      /\ ByteAt(input, pos) = "'"
  BY <1>1, <1>2, InWordIs
<1>4. /\ Reads(input, Cs) /\ Len(input) \in Nat /\ pos \in Nat /\ input \in Seq(Byte)
      /\ DOMAIN input = 1 .. Len(input)
  BY <1>1, CsReads
<1>5. PICK e \in pos + 1 .. Len(input) + 1 :
           /\ \A m \in pos + 1 .. e - 1 : input[m] \notin Control \cup {"'"}
           /\ \/ ByteAt(input, e) = None /\ Fail("UnterminatedSingleQuote", pos)
              \/ ByteAt(input, e) \in Control /\ Fail("ControlByte", e)
              \/ /\ ByteAt(input, e) = "'"
                 /\ Chunk(Push(parts, Lit(SubSeq(input, pos + 1, e - 1), TRUE)), e + 1)
  BY <1>1, SingleEnds
<1>6. ByteAt(input, pos) \notin Digit \cup {">"}
  BY <1>3 DEF Digit
<1>7. \A m \in pos + 1 .. e : Cs[m] = "Single"
  <2>1. Leaves(input, "Single", pos + 1, e)
    BY <1>5 DEF Leaves
  <2>2. Cs[pos + 1] = "Single"
    BY <1>3, <1>4, NextQuoting
  <2>3. pos + 1 \in 1 .. Len(input) + 1
    BY <1>3, <1>4
  <2> QED
    BY <1>4, <2>1, <2>2, <2>3, StaysQuoted
<1>8. input[pos] \in Quoters
  BY <1>3 DEF Quoters
<1>9. e \in Int /\ e \in Nat /\ \A m \in pos .. e - 1 : m = pos \/ (m \in pos + 1 .. e - 1 /\ m \in pos + 1 .. e)
  BY <1>4
<1>10. ASSUME NEW m \in pos + 1 .. e - 1 PROVE Untroubled(input, Cs, m) /\ Cs[m] # "Bare" /\ m \in 1 .. Len(input)
  <2>1. m \in 1 .. Len(input) /\ m \in pos + 1 .. e
    BY <1>3, <1>4
  <2>2. Cs[m] = "Single" /\ input[m] \notin Control
    BY <1>5, <1>7, <2>1
  <2> QED
    BY <1>4, <2>1, <2>2, QuotedUntroubled
<1>11. CASE ByteAt(input, e) = None /\ Fail("UnterminatedSingleQuote", pos)
  <2>1. e = Len(input) + 1
    <3>1. e \notin 1 .. Len(input)
      BY <1>4, <1>9, <1>11, Bytes
    <3> QED
      BY <1>3, <1>4, <1>9, <3>1
  <2>2. pos + 1 \in pos + 1 .. e
    BY <1>4, <1>9
  <2>3. Cs[pos + 1] = "Single" /\ \A m \in pos + 1 .. Len(input) + 1 : Cs[m] # "Bare"
    BY <1>7, <2>1, <2>2
  <2>4. NeverCloses(input, Cs, pos, "Single")
    BY <1>3, <2>3 DEF NeverCloses
  <2>5. Trouble(input, Cs, "UnterminatedSingleQuote", pos)
    BY <1>3, <1>4, <2>4 DEF Trouble, QuoteTrouble
  <2>6. pos .. pos - 1 = {}
    BY <1>4
  <2> QED
    BY <1>1, <1>3, <1>4, <1>6, <1>11, <2>5, <2>6, FailAhead
<1>12. CASE ByteAt(input, e) \in Control /\ Fail("ControlByte", e)
  <2>1. e \in 1 .. Len(input) /\ input[e] \in Control
    <3>1. ByteAt(input, e) # None
      BY <1>12, ClassesApart
    <3> QED
      BY <1>4, <1>9, <1>12, <3>1, Bytes
  <2>2. Trouble(input, Cs, "ControlByte", e)
    BY <1>4, <2>1 DEF Trouble, ByteTrouble
  <2>3. \A m \in pos .. e - 1 : Cs[m] = "Bare" => input[m] \in Quoters
    BY <1>8, <1>9, <1>10
  <2>4. ASSUME NEW m \in pos .. e - 1, NEW kind, Trouble(input, Cs, kind, m) PROVE kind \in Late
    <3>1. CASE m = pos
      <4>1. kind = "UnterminatedSingleQuote"
        BY <1>3, <1>4, <2>4, <3>1, SingleQuoteTroubles
      <4> QED
        BY <4>1 DEF Late
    <3>2. CASE m \in pos + 1 .. e - 1
      BY <1>10, <2>4, <3>2 DEF Untroubled
    <3> QED
      BY <1>9, <3>1, <3>2
  <2> QED
    BY <1>1, <1>3, <1>6, <1>9, <1>12, <2>2, <2>3, <2>4, FailAhead
<1>13. CASE ByteAt(input, e) = "'" /\ Chunk(Push(parts, Lit(SubSeq(input, pos + 1, e - 1), TRUE)), e + 1)
  <2> DEFINE part == Lit(SubSeq(input, pos + 1, e - 1), TRUE)
  <2>1. e \in 1 .. Len(input) /\ input[e] = "'"
    <3>1. "'" # None
      BY DEF None
    <3> QED
      BY <1>4, <1>9, <1>13, <3>1, Bytes
  <2>2. /\ PartMeaning(part) = TextMeaning(input, Cs, pos, e + 1) /\ Cs[e + 1] = "Bare"
    <3>1. e \in pos + 1 .. Len(input)
      BY <1>4, <2>1
    <3>2. Singly(input, pos, e)
      BY <1>3, <1>5, <2>1 DEF Singly
    <3> QED
      BY <1>3, <1>4, <3>1, <3>2, SingleText
  <2>3. part \in Part /\ part.quoted = TRUE
    <3>1. pos + 1 \in 1 .. Len(input) + 1 /\ e - 1 \in 0 .. Len(input)
      BY <1>3, <1>4, <2>1
    <3>2. SubSeq(input, pos + 1, e - 1) \in Seq(Byte)
      BY <1>4, <3>1, Pieces
    <3> QED
      BY <3>2, PartsAre DEF Lit
  <2>4. Chunk(Push(parts, part), e + 1)
    BY <1>13
  <2> HIDE DEF part
  <2>5. /\ e + 1 \in pos + 1 .. Len(input) + 1 /\ (e + 1) - 1 = e /\ e \in pos + 1 .. e
        /\ \A m \in pos .. e : m = pos \/ m = e \/ m \in pos + 1 .. e - 1
    BY <1>4, <1>9, <2>1
  <2>6. Cs[e] = "Single"
    BY <1>7, <2>5
  <2>7. Unit(input, Cs, pos, e + 1, part, parts = <<>>)
    BY <1>8, <2>3, <2>5, <2>6 DEF Unit, Unquoted
  <2>8. Untroubled(input, Cs, pos)
    <3>1. SUFFICES ASSUME NEW kind, Trouble(input, Cs, kind, pos) PROVE FALSE
      BY DEF Untroubled
    <3>2. e + 1 \in pos + 1 .. Len(input) + 1
      BY <2>5
    <3> QED
      BY <1>3, <1>4, <2>2, <3>1, <3>2, SingleQuoteTroubles
  <2>9. Untroubled(input, Cs, e)
    <3>1. input[e] \notin Control
      BY <2>1, ClassesApart, Zenon DEF Special
    <3> QED
      BY <1>4, <2>1, <2>6, <3>1, QuotedUntroubled
  <2>10. \A m \in pos .. (e + 1) - 1 : Untroubled(input, Cs, m)
    BY <1>10, <2>5, <2>8, <2>9
  <2>11. \A m \in pos + 1 .. (e + 1) - 1 : Cs[m] # "Bare"
    BY <1>7, <2>5
  <2> QED
    BY <1>1, <1>2, <2>2, <2>3, <2>4, <2>5, <2>7, <2>10, <2>11, UnitWalks
<1> QED
  BY <1>5, <1>11, <1>12, <1>13

-----------------------------------------------------------------------------
(* Double quotes.                                                          *)

(* A double quote opens.                                                   *)
LEMMA OpenQuotesWalks == LexInv /\ WalkInv /\ OpenQuotes => WalkInv'
<1>1. SUFFICES ASSUME LexInv, WalkInv, OpenQuotes PROVE WalkInv'
  OBVIOUS
<1>2. InWord /\ QuoteAt(input, pos)
  <2>1. InWord /\ Peek(0) = "\""
    BY <1>1, Zenon DEF OpenQuotes
  <2>2. Peek(0) = input[pos]
    BY <1>1, <2>1, InWordIs
  <2> QED
    BY <2>1, <2>2, Zenon DEF QuoteAt
<1>3. /\ UNCHANGED <<input, start, from, parts, lexemes, err, lexed>>
      /\ mode' = "Quotes" /\ opened' = pos /\ inner' = <<Lit(<<>>, TRUE)>> /\ pos' = pos + 1
  BY <1>1, Zenon DEF OpenQuotes
<1>4. /\ Lexing /\ Walked /\ mode = "Word" /\ pos \in 1 .. Len(input) /\ Cs[pos] = "Bare"
      /\ ~Terminates(input, Cs, pos) /\ pos \notin Greaters(input, Cs)
      /\ WordBegun(input, Cs, WordAt, pos) /\ PartsRead(input, Cs, WordAt, pos, parts)
  BY <1>1, <1>2, InWordIs
<1>5. /\ Reads(input, Cs) /\ Len(input) \in Nat /\ pos \in Nat /\ DOMAIN input = 1 .. Len(input)
  BY <1>1, CsReads
<1>6. /\ from = {} => NoNumber(input, WordAt)
      /\ from # {} => RedirectBegun(input, Cs, start, from)
      /\ Clean(input, Cs, pos, {}) /\ RedirectsRead(input, Cs, pos, Redirecting)
      /\ Covered(input, lexemes, Lexed) /\ TokensSay(input, Cs, lexemes)
  BY <1>4, Zenon DEF Walked, InTheWord, Open
<1>7. /\ Cs' = Cs /\ WordAt' = WordAt /\ Upto' = pos /\ Open' = {pos} /\ Redirecting' = Redirecting
      /\ Lexed' = Lexed
  BY <1>3, <1>4 DEF Cs, WordAt, Upto, Open, Redirecting, Lexed
<1>8. pos + 1 \in Nat /\ pos .. (pos + 1) - 1 = {pos} /\ \A m \in 1 .. (pos + 1) - 1 : m \in 1 .. pos - 1 \/ m = pos
  BY <1>5
<1>9. WordBegun(input, Cs, WordAt, pos + 1)
  BY <1>1, <1>4, <1>5, <1>8, BegunOn
<1>10. Clean(input, Cs, pos + 1, {pos})
  <2>1. SUFFICES ASSUME NEW m \in 1 .. (pos + 1) - 1, NEW kind, Trouble(input, Cs, kind, m)
                 PROVE  m \in {pos} /\ kind = "UnterminatedDoubleQuote"
    BY DEF Clean
  <2>2. CASE m \in 1 .. pos - 1
    BY <1>6, <2>1, <2>2 DEF Clean
  <2>3. CASE m = pos
    BY <1>2, <1>4, <1>5, <2>1, <2>3, DoubleQuoteTroubles
  <2> QED
    BY <1>8, <2>2, <2>3
<1>11. RedirectsRead(input, Cs, pos + 1, Redirecting)
  BY <1>4, <1>6, <1>8 DEF RedirectsRead
<1>12. QuotesRead(input, Cs, pos, pos + 1, <<Lit(<<>>, TRUE)>>)
  BY <1>2, <1>4, <1>5, QuotesOpen
<1>13. InTheWord'
  BY <1>3, <1>4, <1>6, <1>7, <1>9 DEF InTheWord
<1>14. mode' # "Between"
  BY <1>3
<1>15. Walked'
  BY <1>3, <1>6, <1>7, <1>10, <1>11, <1>12, <1>13, <1>14 DEF Walked
<1> QED
  BY <1>1, <1>3, <1>4, <1>15 DEF WalkInv, Found, Lexing

(* What is known where double quotes are read.                             *)
LEMMA InQuotesIs ==
  ASSUME LexInv, WalkInv, InQuotes
  PROVE  /\ Lexing /\ Walked /\ mode = "Quotes" /\ InTheWord /\ QuotesRead(input, Cs, opened, pos, inner)
         /\ opened \in 1 .. Len(input) /\ opened < pos /\ Cs[opened] = "Bare" /\ QuoteAt(input, opened)
         /\ Cs[pos] = "Double" /\ \A m \in opened + 1 .. pos : Cs[m] # "Bare"
         /\ inner \in Parts \ {<<>>} /\ AllQuoted(inner)
         /\ pos \in opened + 1 .. Len(input) + 1
         /\ Peek(0) = ByteAt(input, pos)
<1>1. Lexing /\ Walked /\ mode = "Quotes"
  BY DEF InQuotes, WalkInv, Lexing
<1>2. QuotesRead(input, Cs, opened, pos, inner) /\ InTheWord
  <2>1. mode # "Between"
    BY <1>1
  <2> QED
    BY <1>1, <2>1, Zenon DEF Walked
<1>3. opened \in 1 .. Len(input) + 1 /\ Len(input) \in Nat /\ pos \in 1 .. Len(input) + 1
  BY CsReads DEF LexInv, LexTypeOK
<1>4. /\ opened < pos /\ Cs[opened] = "Bare" /\ QuoteAt(input, opened)
      /\ Cs[pos] = "Double" /\ \A m \in opened + 1 .. pos : Cs[m] # "Bare"
      /\ AllQuoted(inner)
  BY <1>2, QuotesAre
<1>5. opened \in 1 .. Len(input) /\ pos \in opened + 1 .. Len(input) + 1
  BY <1>3, <1>4
<1>6. inner \in Parts \ {<<>>}
  BY <1>1 DEF LexInv, LexTypeOK
<1>7. Peek(0) = ByteAt(input, pos)
  BY <1>3 DEF Peek
<1> QED
  BY <1>1, <1>2, <1>4, <1>5, <1>6, <1>7

(* The byte seen in double quotes, if any.                                 *)
LEMMA ByteInQuotes ==
  ASSUME LexInv, WalkInv, InQuotes, Peek(0) # None
  PROVE  pos \in 1 .. Len(input) /\ pos \in opened + 1 .. Len(input) /\ Peek(0) = input[pos] /\ input[pos] \in Byte
<1>1. pos \in opened + 1 .. Len(input) + 1 /\ Peek(0) = ByteAt(input, pos)
  BY InQuotesIs
<1>2. input \in Seq(Byte) /\ Len(input) \in Nat /\ pos \in Nat /\ pos \in Int
  BY CsReads
<1>3. pos \in 1 .. Len(input) /\ Peek(0) = input[pos] /\ input[pos] \in Byte
  BY <1>1, <1>2, Bytes
<1> QED
  BY <1>1, <1>2, <1>3

(* A double quote closes.                                                  *)
LEMMA CloseQuotesWalks == LexInv /\ WalkInv /\ CloseQuotes => WalkInv'
<1>1. SUFFICES ASSUME LexInv, WalkInv, CloseQuotes PROVE WalkInv'
  OBVIOUS
<1>2. InQuotes /\ Peek(0) # None /\ pos \in 1 .. Len(input) /\ pos \in opened + 1 .. Len(input) /\ QuoteAt(input, pos)
  <2>1. InQuotes /\ Peek(0) = "\""
    BY <1>1, Zenon DEF CloseQuotes
  <2>2. Peek(0) # None
    BY <2>1 DEF None
  <2>3. pos \in 1 .. Len(input) /\ pos \in opened + 1 .. Len(input) /\ Peek(0) = input[pos]
    BY <1>1, <2>1, <2>2, ByteInQuotes
  <2> QED
    BY <2>1, <2>2, <2>3, Zenon DEF QuoteAt
<1>3. /\ UNCHANGED <<input, start, opened, from, inner, lexemes, err, lexed>>
      /\ mode' = "Word" /\ parts' = AppendParts(parts, inner) /\ pos' = pos + 1
  BY <1>1, Zenon DEF CloseQuotes
<1>4. /\ Lexing /\ Walked /\ mode = "Quotes" /\ InTheWord /\ QuotesRead(input, Cs, opened, pos, inner)
      /\ opened \in 1 .. Len(input) /\ opened < pos /\ Cs[opened] = "Bare" /\ QuoteAt(input, opened)
      /\ Cs[pos] = "Double" /\ inner \in Parts \ {<<>>}
  BY <1>1, <1>2, InQuotesIs
<1>5. /\ Reads(input, Cs) /\ Len(input) \in Nat /\ pos \in Nat /\ DOMAIN input = 1 .. Len(input)
      /\ parts \in Parts
  BY <1>1, CsReads DEF LexInv
<1>6. /\ from = {} => NoNumber(input, WordAt)
      /\ from # {} => RedirectBegun(input, Cs, start, from)
      /\ Clean(input, Cs, pos, {opened}) /\ RedirectsRead(input, Cs, pos, Redirecting)
      /\ Covered(input, lexemes, Lexed) /\ TokensSay(input, Cs, lexemes)
      /\ WordBegun(input, Cs, WordAt, pos) /\ PartsRead(input, Cs, WordAt, opened, parts)
  BY <1>4, Zenon DEF Walked, InTheWord, Open, Upto
<1>7. /\ Cs' = Cs /\ WordAt' = WordAt /\ Upto' = pos + 1 /\ Open' = {} /\ Redirecting' = Redirecting
      /\ Lexed' = Lexed
  BY <1>3, <1>4 DEF Cs, WordAt, Upto, Open, Redirecting, Lexed
<1>8. pos + 1 \in Nat /\ pos .. (pos + 1) - 1 = {pos} /\ \A m \in 1 .. (pos + 1) - 1 : m \in 1 .. pos - 1 \/ m = pos
  BY <1>5
<1>9. WordBegun(input, Cs, WordAt, pos + 1)
  BY <1>1, <1>4, <1>5, <1>6, <1>8, BegunOn DEF Terminates
<1>10. Closes(input, Cs, pos)
  BY <1>2, <1>4, <1>5, Zenon DEF Closes, Is, QuoteAt
<1>11. WordAt \in 1 .. Len(input) /\ opened \in WordAt .. Len(input)
  <2>1. WordAt \in 1 .. Len(input) /\ WordAt <= opened
    BY <1>6 DEF WordBegun, PartsRead
  <2> QED
    BY <1>4, <1>5, <2>1
<1>12. Cs[pos + 1] = "Bare" /\ PartsRead(input, Cs, WordAt, pos + 1, AppendParts(parts, inner))
  BY <1>2, <1>4, <1>5, <1>6, <1>10, <1>11, QuotesClose
<1>13. Clean(input, Cs, pos + 1, {})
  <2>1. SUFFICES ASSUME NEW m \in 1 .. (pos + 1) - 1, NEW kind, Trouble(input, Cs, kind, m)
                 PROVE  FALSE
    BY DEF Clean
  <2>2. CASE m \in 1 .. pos - 1
    <3>1. m = opened
      BY <1>6, <2>1, <2>2 DEF Clean
    <3>2. \A k \in opened + 1 .. Len(input) + 1 : Cs[k] # "Bare"
      BY <1>4, <1>5, <2>1, <3>1, DoubleQuoteTroubles
    <3>3. pos + 1 \in opened + 1 .. Len(input) + 1
      BY <1>2, <1>4, <1>5
    <3> QED
      BY <1>12, <3>2, <3>3
  <2>3. CASE m = pos
    BY <1>2, <1>4, <1>5, <2>1, <2>3, ClosingUntroubled DEF Untroubled
  <2> QED
    BY <1>8, <2>2, <2>3
<1>14. RedirectsRead(input, Cs, pos + 1, Redirecting)
  <2>1. pos \notin Greaters(input, Cs)
    BY <1>4 DEF Greaters, Is
  <2> QED
    BY <1>6, <1>8, <2>1 DEF RedirectsRead
<1>15. InTheWord'
  BY <1>3, <1>6, <1>7, <1>9, <1>12 DEF InTheWord
<1>16. mode' # "Between" /\ mode' # "Quotes"
  BY <1>3
<1>17. Walked'
  BY <1>3, <1>6, <1>7, <1>13, <1>14, <1>15, <1>16 DEF Walked
<1> QED
  BY <1>1, <1>3, <1>4, <1>17 DEF WalkInv, Found, Lexing

(* What stands in no double quotes.                                        *)
LEMMA NotQuotableWalks == LexInv /\ WalkInv /\ NotQuotable => WalkInv'
<1>1. SUFFICES ASSUME LexInv, WalkInv, NotQuotable PROVE WalkInv'
  OBVIOUS
<1>2. InQuotes /\ \/ Peek(0) = None /\ Fail("UnterminatedDoubleQuote", opened)
                  \/ Peek(0) \in Control /\ Fail("ControlByte", pos)
                  \/ Peek(0) = Backquote /\ Fail("Backquote", pos)
  BY <1>1, Zenon DEF NotQuotable
<1>3. /\ Lexing /\ Walked /\ opened \in 1 .. Len(input) /\ Cs[opened] = "Bare" /\ QuoteAt(input, opened)
      /\ Cs[pos] = "Double" /\ \A m \in opened + 1 .. pos : Cs[m] # "Bare"
      /\ pos \in opened + 1 .. Len(input) + 1 /\ opened < pos /\ Peek(0) = ByteAt(input, pos)
  BY <1>1, <1>2, InQuotesIs
<1>4. /\ Reads(input, Cs) /\ Len(input) \in Nat /\ pos \in Nat /\ DOMAIN input = 1 .. Len(input)
      /\ input \in Seq(Byte) /\ pos .. pos - 1 = {}
  BY <1>1, CsReads
<1>5. CASE Peek(0) = None /\ Fail("UnterminatedDoubleQuote", opened)
  <2>1. pos = Len(input) + 1
    <3>1. pos \notin 1 .. Len(input)
      BY <1>3, <1>4, <1>5, Bytes
    <3> QED
      BY <1>3, <1>4, <3>1
  <2>2. opened + 1 \in opened + 1 .. Len(input) + 1
    BY <1>3, <1>4
  <2>3. Cs[opened + 1] = "Double"
    <3>1. input[opened] = "\""
      BY <1>3 DEF QuoteAt
    <3> QED
      BY <1>3, <1>4, <3>1, NextQuoting
  <2>4. NeverCloses(input, Cs, opened, "Double")
    BY <1>3, <2>1, <2>3 DEF NeverCloses
  <2>5. Trouble(input, Cs, "UnterminatedDoubleQuote", opened)
    BY <1>3, <1>4, <2>4 DEF Trouble, QuoteTrouble
  <2>6. ASSUME NEW p \in Problems(input), p.offset < opened PROVE p.kind \in Late
    <3>1. p.offset < pos
      <4>1. p.offset \in Int
        <5>1. \/ \E k \in DOMAIN input : \E kind : p = Finding(kind, k) /\ Trouble(input, Cs, kind, k)
              \/ \E g \in Greaters(input, Cs) : p = Finding(RedirectKind(input, Cs, g), RedirectStart(input, Cs, g))
          BY <1>4, ProblemsAre DEF Cs
        <5>2. \A g \in Greaters(input, Cs) : g \in Nat \ {0}
          BY <1>4 DEF Greaters
        <5>3. \A g \in Greaters(input, Cs) : RedirectStart(input, Cs, g) \in Int
          BY <5>2, RedirectStarts
        <5> QED
          BY <1>4, <5>1, <5>3 DEF Finding
      <4> QED
        BY <1>3, <1>4, <2>6, <4>1
    <3>2. ByteAt(input, pos) \notin Digit \cup {">"}
      BY <1>3, <1>5, NoneIsNoByte DEF None
    <3> QED
      BY <1>1, <1>3, <3>1, <3>2, LateBehind
  <2>7. FirstFound(input, Finding("UnterminatedDoubleQuote", opened))
    BY <1>1, <2>5, <2>6, TroubleIsProblem DEF FirstFound, Finding
  <2> QED
    BY <1>1, <1>3, <1>5, <2>7, FailWalks
<1>6. CASE Peek(0) \in Control /\ Fail("ControlByte", pos)
  <2>1. \A b \in Control : b # None /\ b \notin Digit /\ b # ">"
    <3>1. ">" \in WordTerminator
      BY DEF WordTerminator, TokenEnd, None
    <3> QED
      BY <3>1, ClassesApart
  <2>2. ByteAt(input, pos) # None /\ ByteAt(input, pos) \notin Digit \cup {">"} /\ ByteAt(input, pos) \in Control
    BY <1>3, <1>6, <2>1
  <2>3. pos \in 1 .. Len(input) /\ input[pos] \in Control
    BY <1>3, <1>4, <2>2, Bytes
  <2>4. Trouble(input, Cs, "ControlByte", pos)
    BY <1>4, <2>3 DEF Trouble, ByteTrouble
  <2> QED
    BY <1>1, <1>3, <1>4, <1>6, <2>2, <2>4, FailAhead
<1>7. CASE Peek(0) = Backquote /\ Fail("Backquote", pos)
  <2>1. Backquote # None /\ Backquote \notin Digit \cup {">"}
    BY DEF Backquote, None, Digit
  <2>2. ByteAt(input, pos) # None /\ ByteAt(input, pos) \notin Digit \cup {">"} /\ ByteAt(input, pos) = Backquote
    BY <1>3, <1>7, <2>1
  <2>3. pos \in 1 .. Len(input) /\ input[pos] = Backquote
    BY <1>3, <1>4, <2>2, Bytes
  <2>4. Trouble(input, Cs, "Backquote", pos)
    BY <1>3, <1>4, <2>3 DEF Trouble, ByteTrouble
  <2> QED
    BY <1>1, <1>3, <1>4, <1>7, <2>2, <2>4, FailAhead
<1> QED
  BY <1>2, <1>5, <1>6, <1>7

-----------------------------------------------------------------------------
(* Bytes in double quotes.                                                 *)

(* A literal in double quotes.                                             *)
LEMMA QuotedPartWalks ==
  ASSUME LexInv, WalkInv, InQuotes, pos \in 1 .. Len(input), NEW part \in Part, part.quoted,
         NEW k \in Nat \ {0}, pos + k <= Len(input) + 1, QuotedChunk(Push(inner, part), k),
         PartMeaning(part) = TextMeaning(input, Cs, pos, pos + k),
         Cs[pos + k] = "Double", \A m \in pos + 1 .. pos + k : Cs[m] # "Bare",
         \A m \in pos .. (pos + k) - 1 : ~VarHere(input, Cs, m) /\ Untroubled(input, Cs, m)
  PROVE  WalkInv'
<1>1. /\ Lexing /\ mode = "Quotes" /\ QuotesRead(input, Cs, opened, pos, inner)
      /\ opened \in 1 .. Len(input) /\ inner \in Parts /\ opened < pos
  BY InQuotesIs
<1>2. Reads(input, Cs) /\ Len(input) \in Nat /\ pos \in Nat
  BY CsReads
<1> DEFINE e == pos + k
<1>3. e \in pos + 1 .. Len(input) + 1 /\ pos \in opened + 1 .. Len(input)
  BY <1>1, <1>2
<1>4. /\ PartMeaning(part) = TextMeaning(input, Cs, pos, e) /\ Cs[e] = "Double"
      /\ \A m \in pos + 1 .. e : Cs[m] # "Bare"
      /\ \A m \in pos .. e - 1 : ~VarHere(input, Cs, m)
  OBVIOUS
<1> HIDE DEF e
<1>5. QuotesRead(input, Cs, opened, e, Push(inner, part))
  BY <1>1, <1>2, <1>3, <1>4, QuotedPartOn
<1>6. QuotesRead(input, Cs, opened, pos + k, Push(inner, part))
  BY <1>5 DEF e
<1> QED
  BY <1>1, <1>6, QuotedWalks

(* One byte that stands for itself.                                        *)
LEMMA OneQuotedWalks ==
  ASSUME LexInv, WalkInv, InQuotes, pos \in 1 .. Len(input), input[pos] \notin InsideQuoters,
         QuotedChunk(Push(inner, Lit(<<input[pos]>>, TRUE)), 1),
         ~VarHere(input, Cs, pos), Untroubled(input, Cs, pos)
  PROVE  WalkInv'
<1>1. /\ QuotesRead(input, Cs, opened, pos, inner) /\ opened \in 1 .. Len(input) /\ Cs[pos] = "Double"
  BY InQuotesIs
<1>2. Reads(input, Cs) /\ Len(input) \in Nat /\ pos \in Nat /\ input[pos] \in Byte
  BY CsReads
<1>3. pos \notin VarBytes(input, Cs)
  BY <1>1, <1>2, NewInQuotes
<1> DEFINE part == Lit(<<input[pos]>>, TRUE)
<1>4. part \in Part /\ part.quoted
  BY <1>2, LiteralIs
<1>5. PartMeaning(part) = TextMeaning(input, Cs, pos, pos + 1)
  BY <1>1, <1>2, <1>3, QuotedByteText
<1> HIDE DEF part
<1>6. QuotedChunk(Push(inner, part), 1)
  BY DEF part
<1>7. Cs[pos + 1] = "Double"
  BY <1>1, <1>2, NextQuoting DEF InsideQuoters
<1>8. /\ \A m \in pos .. (pos + 1) - 1 : m = pos
      /\ \A m \in pos + 1 .. pos + 1 : m = pos + 1
      /\ pos + 1 <= Len(input) + 1 /\ 1 \in Nat \ {0}
  BY <1>2
<1>9. \A m \in pos .. (pos + 1) - 1 : ~VarHere(input, Cs, m) /\ Untroubled(input, Cs, m)
  BY <1>8
<1>10. \A m \in pos + 1 .. pos + 1 : Cs[m] # "Bare"
  BY <1>7, <1>8
<1> QED
  BY <1>4, <1>5, <1>6, <1>7, <1>8, <1>9, <1>10, QuotedPartWalks

(* A byte of no other use.                                                 *)
LEMMA QuotedByteWalks == LexInv /\ WalkInv /\ QuotedByte => WalkInv'
<1>1. SUFFICES ASSUME LexInv, WalkInv, QuotedByte PROVE WalkInv'
  OBVIOUS
<1>2. /\ InQuotes /\ Peek(0) # None /\ Peek(0) \notin Control /\ Peek(0) # Backquote /\ Peek(0) # "$"
      /\ Peek(0) \notin InsideQuoters
      /\ QuotedChunk(Push(inner, Lit(<<Peek(0)>>, TRUE)), 1)
  BY <1>1, Zenon DEF QuotedByte, InsideQuoters
<1>3. pos \in 1 .. Len(input) /\ Peek(0) = input[pos]
  BY <1>1, <1>2, ByteInQuotes
<1>4. Cs[pos] = "Double"
  BY <1>1, <1>2, InQuotesIs
<1>5. Reads(input, Cs)
  BY <1>1, CsReads
<1>6. ~VarHere(input, Cs, pos)
  BY <1>2, <1>3 DEF VarHere, Is
<1>7. ~BackslashAt(input, pos)
  BY <1>2, <1>3, Zenon DEF BackslashAt, InsideQuoters
<1>8. Untroubled(input, Cs, pos)
  BY <1>2, <1>3, <1>4, <1>5, <1>7, InsideUntroubled
<1>9. QuotedChunk(Push(inner, Lit(<<input[pos]>>, TRUE)), 1)
  BY <1>2, <1>3
<1> QED
  BY <1>1, <1>2, <1>3, <1>6, <1>8, <1>9, OneQuotedWalks

(* A backslash in double quotes.                                           *)
LEMMA QuotedEscapeWalks == LexInv /\ WalkInv /\ QuotedEscape => WalkInv'
<1>1. SUFFICES ASSUME LexInv, WalkInv, QuotedEscape PROVE WalkInv'
  OBVIOUS
<1>2. /\ InQuotes /\ Peek(0) # None /\ pos \in 1 .. Len(input) /\ BackslashAt(input, pos)
      /\ BadEscape \/ (GoodEscape /\ QuotedChunk(Push(inner, Lit(Append(Kept(Peek(1)), Peek(1)), TRUE)), 2))
  <2>1. InQuotes /\ Peek(0) = "\\"
    BY <1>1, Zenon DEF QuotedEscape
  <2>2. Peek(0) # None
    BY <2>1 DEF None
  <2>3. pos \in 1 .. Len(input) /\ Peek(0) = input[pos]
    BY <1>1, <2>1, <2>2, ByteInQuotes
  <2>4. BadEscape \/ (GoodEscape /\ QuotedChunk(Push(inner, Lit(Append(Kept(Peek(1)), Peek(1)), TRUE)), 2))
    BY <1>1, Zenon DEF QuotedEscape, Kept
  <2> QED
    BY <2>1, <2>2, <2>3, <2>4, Zenon DEF BackslashAt
<1>3. /\ Lexing /\ Cs[pos] = "Double" /\ Cs[pos] \in {"Bare", "Double"}
      /\ QuotesRead(input, Cs, opened, pos, inner) /\ opened \in 1 .. Len(input)
  BY <1>1, <1>2, InQuotesIs
<1>4. /\ Reads(input, Cs) /\ Len(input) \in Nat /\ pos \in Nat
  BY <1>1, CsReads
<1>5. CASE BadEscape
  BY <1>1, <1>2, <1>3, <1>5, BadEscapeWalks
<1>6. CASE GoodEscape /\ QuotedChunk(Push(inner, Lit(Append(Kept(Peek(1)), Peek(1)), TRUE)), 2)
  <2> DEFINE text == Append(Kept(input[pos + 1]), input[pos + 1])
             part == Lit(text, TRUE)
  <2>1. /\ pos + 1 \in 1 .. Len(input) /\ Peek(1) = input[pos + 1] /\ input[pos + 1] \in Byte
        /\ Untroubled(input, Cs, pos) /\ Untroubled(input, Cs, pos + 1)
    BY <1>1, <1>2, <1>3, <1>6, GoodEscapeFine
  <2>2. ~VarHere(input, Cs, pos)
    BY <1>2, Zenon DEF VarHere, Is, BackslashAt
  <2>3. pos \notin VarBytes(input, Cs)
    BY <1>2, <1>3, <1>4, <2>2, NewInQuotes
  <2>4. /\ text \in Seq(Byte)
        /\ PartMeaning(part) = TextMeaning(input, Cs, pos, pos + 2)
        /\ Cs[pos + 1] = "DoubleEscape" /\ Cs[pos + 2] = "Double"
    BY <1>2, <1>3, <1>4, <2>1, <2>3, QuotedEscapeText
  <2>5. part \in Part /\ part.quoted
    <3> HIDE DEF text
    <3> QED
      BY <2>4, PartsAre DEF Lit
  <2>6. QuotedChunk(Push(inner, part), 2)
    BY <1>6, <2>1
  <2> HIDE DEF part, text
  <2>7. /\ \A m \in pos .. (pos + 2) - 1 : m = pos \/ m = pos + 1
        /\ \A m \in pos + 1 .. pos + 2 : m = pos + 1 \/ m = pos + 2
        /\ pos + 2 <= Len(input) + 1 /\ 2 \in Nat \ {0}
    <3>1. pos + 1 \in 1 .. Len(input)
      BY <2>1
    <3> QED
      BY <1>4, <3>1
  <2>8. ~VarHere(input, Cs, pos + 1)
    BY <2>4 DEF VarHere, Is
  <2>9. \A m \in pos .. (pos + 2) - 1 : ~VarHere(input, Cs, m) /\ Untroubled(input, Cs, m)
    BY <2>1, <2>2, <2>7, <2>8
  <2>10. \A m \in pos + 1 .. pos + 2 : Cs[m] # "Bare"
    BY <2>4, <2>7
  <2> QED
    BY <1>1, <1>2, <2>4, <2>5, <2>6, <2>7, <2>9, <2>10, QuotedPartWalks
<1> QED
  BY <1>2, <1>5, <1>6

-----------------------------------------------------------------------------
(* What is wrong with a dollar at k in double quotes.                      *)
WrongDollar(s, k, kind) ==
  LET b == ByteAt(s, k + 1) IN
    \/ b = "(" /\ kind = "DollarParen"
    \/ /\ b = "{" /\ kind = "BracedParameter"
       /\ NameEnd(s, k + 2) = k + 2 \/ ByteAt(s, NameEnd(s, k + 2)) # "}"
    \/ b \in Letter /\ ByteAt(s, NameEnd(s, k + 1)) \in NonAscii /\ kind = "NameBeforeNonAscii"
    \/ b \in SpecialParameter /\ kind = "SpecialParameter"
    \/ b \notin SpecialParameter \cup Letter /\ b # "(" /\ b # "{" /\ kind = "BareDollar"

(* A dollar in double quotes that starts no variable, and why.             *)
LEMMA DollarsAre ==
  ASSUME NEW s, NEW cs, Reads(s, cs), NEW k \in 1 .. Len(s), cs[k] = "Double", s[k] = "$",
         NEW kind, ~QuoteNext(s, k), WrongDollar(s, k, kind)
  PROVE  Trouble(s, cs, kind, k)
<1> DEFINE b == ByteAt(s, k + 1)
<1>0. k \in Nat /\ DOMAIN s = 1 .. Len(s)
  BY DEF Reads
<1>1. /\ "(" \notin Letter /\ "{" \notin Letter /\ "(" # "{"
      /\ "(" \notin SpecialParameter /\ "{" \notin SpecialParameter
      /\ \A c \in Letter : c \notin SpecialParameter
  <2>1. "(" \in WordTerminator /\ "{" \in Special
    BY DEF WordTerminator, Special
  <2> QED
    BY <2>1, ClassesApart DEF SpecialParameter, Digit
<1>2. kind = DollarKind(s, k)
  <2>1. CASE b = "("
    <3>1. kind = "DollarParen"
      BY <1>1, <2>1 DEF WrongDollar
    <3> QED
      BY <1>1, <2>1, <3>1 DEF DollarKind
  <2>2. CASE b = "{"
    <3>1. kind = "BracedParameter"
      BY <1>1, <2>2 DEF WrongDollar
    <3> QED
      BY <1>1, <2>2, <3>1 DEF DollarKind
  <2>3. CASE b # "(" /\ b # "{" /\ b \in Letter
    <3>1. kind = "NameBeforeNonAscii"
      BY <1>1, <2>3 DEF WrongDollar
    <3>2. DollarKind(s, k) = "NameBeforeNonAscii"
      BY <1>1, <2>3 DEF DollarKind
    <3> QED
      BY <3>1, <3>2
  <2>4. CASE b # "(" /\ b # "{" /\ b \notin Letter /\ b \in SpecialParameter
    <3>1. kind = "SpecialParameter"
      BY <1>1, <2>4 DEF WrongDollar
    <3>2. DollarKind(s, k) = "SpecialParameter"
      BY <1>1, <2>4 DEF DollarKind
    <3> QED
      BY <3>1, <3>2
  <2>5. CASE b # "(" /\ b # "{" /\ b \notin Letter /\ b \notin SpecialParameter
    <3>1. kind = "BareDollar"
      BY <1>1, <2>5 DEF WrongDollar
    <3>2. DollarKind(s, k) = "BareDollar"
      BY <1>1, <2>5 DEF DollarKind
    <3> QED
      BY <3>1, <3>2
  <2> QED
    BY <2>1, <2>2, <2>3, <2>4, <2>5
<1>3. \A i \in Int : ~(i > i)
  OBVIOUS
<1>4. k + 1 \in Int /\ k + 2 \in Int
  BY <1>0
<1>5. ~VarAt(s, k)
  <2>1. CASE b = "{"
    <3>1. NamePlace(s, k) = k + 2
      BY <2>1, Zenon DEF NamePlace
    <3>2. NameEnd(s, k + 2) = k + 2 \/ ByteAt(s, NameEnd(s, k + 2)) # "}"
      BY <1>1, <2>1 DEF WrongDollar
    <3>3. CASE NameEnd(s, k + 2) = k + 2
      <4>1. ~(k + 2 > k + 2)
        BY <1>3, <1>4, Zenon
      <4> QED
        BY <3>1, <3>3, <4>1, Zenon DEF VarAt
    <3>4. CASE ByteAt(s, NameEnd(s, k + 2)) # "}"
      <4>1. VarAt(s, k) => ByteAt(s, NameEnd(s, NamePlace(s, k))) = "}"
        BY <2>1, Zenon DEF VarAt
      <4> QED
        BY <3>1, <3>4, <4>1
    <3> QED
      BY <3>2, <3>3, <3>4
  <2>2. CASE b # "{"
    <3>1. NamePlace(s, k) = k + 1
      BY <2>2, Zenon DEF NamePlace
    <3>2. CASE b \in Letter
      <4>1. ByteAt(s, NameEnd(s, k + 1)) \in NonAscii
        BY <1>1, <2>2, <3>2 DEF WrongDollar
      <4> QED
        BY <2>2, <3>1, <4>1, Zenon DEF VarAt
    <3>3. CASE b \notin Letter
      <4>1. NameEnd(s, k + 1) = k + 1
        BY <3>3, Zenon DEF NameEnd
      <4> QED
        BY <1>3, <1>4, <3>1, <4>1, Zenon DEF VarAt
    <3> QED
      BY <3>2, <3>3
  <2> QED
    BY <2>1, <2>2
<1>6. DollarTrouble(s, cs, kind, k)
  BY <1>0, <1>2, <1>5, Zenon DEF DollarTrouble, Is, QuoteNext
<1> QED
  BY <1>0, <1>6 DEF Trouble

(* A dollar that can stand for nothing.                                    *)
LEMMA BadDollarWalks ==
  ASSUME LexInv, WalkInv, InQuotes, pos \in 1 .. Len(input), input[pos] = "$", BadDollar
  PROVE  WalkInv'
<1>1. Lexing /\ Cs[pos] = "Double"
  BY InQuotesIs
<1>2. /\ Reads(input, Cs) /\ Len(input) \in Nat /\ pos \in Nat /\ pos .. pos - 1 = {} /\ input \in Seq(Byte)
      /\ Peek(1) = ByteAt(input, pos + 1)
  BY CsReads DEF Peek
<1> DEFINE b == Peek(1)
<1>3. /\ ~QuoteNext(input, pos)
      /\ \E kind : Fail(kind, pos) /\ WrongDollar(input, pos, kind)
  <2>1. "\"" \notin Letter /\ "\"" \notin SpecialParameter
    <3>1. "\"" \in Special
      BY Zenon DEF Special
    <3>2. "\"" \notin Letter
      BY <3>1, ClassesApart, Zenon
    <3>3. "\"" \notin SpecialParameter
      BY DEF SpecialParameter, Digit
    <3> QED
      BY <3>2, <3>3
  <2>2. ~QuoteNext(input, pos)
    <3>1. b # "\""
      <4>1. CASE b = "(" \/ b = "{"
        BY <4>1
      <4>2. CASE ~(b = "(" \/ b = "{")
        BY <2>1, <4>2, Zenon DEF BadDollar
      <4> QED
        BY <4>1, <4>2
    <3> QED
      BY <1>2, <3>1, Zenon DEF QuoteNext
  <2>3. \E kind : Fail(kind, pos) /\ WrongDollar(input, pos, kind)
    BY <1>2, Zenon DEF BadDollar, WrongDollar
  <2> QED
    BY <2>2, <2>3
<1>4. PICK kind : Fail(kind, pos) /\ WrongDollar(input, pos, kind)
  BY <1>3
<1>5. Trouble(input, Cs, kind, pos)
  BY <1>1, <1>2, <1>3, <1>4, DollarsAre
<1>6. ByteAt(input, pos) \notin Digit \cup {">"}
  BY <1>2, Bytes DEF Digit
<1> QED
  BY <1>1, <1>2, <1>4, <1>5, <1>6, FailAhead

(* A variable.                                                             *)
LEMMA VarWalks ==
  ASSUME LexInv, WalkInv, InQuotes, pos \in 1 .. Len(input), VarHere(input, Cs, pos), NEW name,
         name = SubSeq(input, NamePlace(input, pos), NameEnd(input, NamePlace(input, pos)) - 1),
         NEW k, k = (VarEnd(input, pos) + 1) - pos, QuotedChunk(PushVar(inner, name), k)
  PROVE  WalkInv'
<1>1. /\ Lexing /\ mode = "Quotes" /\ QuotesRead(input, Cs, opened, pos, inner)
      /\ opened \in 1 .. Len(input) /\ inner \in Parts \ {<<>>} /\ opened < pos /\ Cs[pos] = "Double"
  BY InQuotesIs
<1>2. Reads(input, Cs) /\ Len(input) \in Nat /\ pos \in Nat /\ input \in Seq(Byte)
  BY CsReads
<1> DEFINE v == VarEnd(input, pos)
<1>3. v \in pos + 1 .. Len(input) /\ \A m \in pos .. v + 1 : Cs[m] = "Double"
  BY <1>2, VarSpans, Zenon
<1>12. \A m \in pos + 1 .. v : input[m] \in NameByte \cup {"{", "}"}
  BY <1>2, VarSpans, Zenon
<1>4. pos \in opened + 1 .. Len(input)
  BY <1>1, <1>2
<1>5. QuotesRead(input, Cs, opened, v + 1, PushVar(inner, name))
  BY <1>1, <1>2, <1>4, QuotedVarOn
<1>6. k = (v + 1) - pos
  OBVIOUS
<1> HIDE DEF v
<1>7. k \in Nat \ {0} /\ pos + k <= Len(input) + 1 /\ pos + k = v + 1 /\ (pos + k) - 1 = v
  BY <1>2, <1>3, <1>6
<1>8. Untroubled(input, Cs, pos)
  <2>1. input[pos] = "$" /\ VarAt(input, pos)
    BY DEF VarHere, Is
  <2>2. input[pos] \notin Control /\ input[pos] # Backquote
    <3>1. "$" \in Special
      BY DEF Special
    <3> QED
      BY <2>1, <3>1, ClassesApart DEF Backquote
  <2>3. ~BackslashAt(input, pos)
    BY <2>1, Zenon DEF BackslashAt
  <2> QED
    BY <1>1, <1>2, <2>1, <2>2, <2>3, InsideUntroubled
<1>9. ASSUME NEW m \in pos + 1 .. v PROVE Untroubled(input, Cs, m)
  <2>1. m \in 1 .. Len(input) /\ m \in pos .. v + 1
    BY <1>2, <1>3
  <2>2. input[m] \notin Control /\ input[m] # Backquote /\ input[m] # "$"
    <3>1. Backquote \in Special /\ "$" \in Special /\ "{" \in Special /\ "}" \in Special
      BY DEF Special
    <3>2. \A b \in Letter : b \notin Control /\ b # Backquote /\ b # "$"
      BY <3>1, ClassesApart
    <3>3. \A b \in Digit : b \notin Control /\ b # Backquote /\ b # "$"
      BY ClassesApart DEF Digit, Backquote
    <3>4. \A b \in {"{", "}"} : b \notin Control /\ b # Backquote /\ b # "$"
      BY <3>1, ClassesApart DEF Backquote
    <3> QED
      BY <1>12, <3>2, <3>3, <3>4 DEF NameByte
  <2>3. ~BackslashAt(input, m)
    <3>1. input[m] # "\\"
      <4>1. "\\" \in Special
        BY Zenon DEF Special
      <4>2. "\\" \notin Letter
        BY <4>1, ClassesApart, Zenon
      <4>3. "\\" \notin Digit /\ "\\" \notin {"{", "}"}
        BY DEF Digit
      <4>4. input[m] \in NameByte \cup {"{", "}"}
        BY <1>12
      <4> QED
        BY <4>2, <4>3, <4>4, Zenon DEF NameByte
    <3> QED
      BY <3>1, Zenon DEF BackslashAt
  <2> QED
    BY <1>2, <1>3, <2>1, <2>2, <2>3, InsideUntroubled
<1>10. ASSUME NEW m \in pos .. (pos + k) - 1 PROVE Untroubled(input, Cs, m)
  <2>1. m = pos \/ m \in pos + 1 .. v
    BY <1>2, <1>3, <1>7
  <2> QED
    BY <1>8, <1>9, <2>1
<1>11. QuotesRead(input, Cs, opened, pos + k, PushVar(inner, name))
  BY <1>5, <1>7
<1> QED
  BY <1>1, <1>7, <1>10, <1>11, QuotedWalks

(* A dollar in double quotes.                                              *)
LEMMA DollarWalks == LexInv /\ WalkInv /\ Dollar => WalkInv'
<1>1. SUFFICES ASSUME LexInv, WalkInv, Dollar PROVE WalkInv'
  OBVIOUS
<1> DEFINE e == NameEnd(input, pos + 2)
           d == NameEnd(input, pos + 1)
<1>2. /\ InQuotes /\ Peek(0) = "$"
      /\ \/ BadDollar
         \/ Peek(1) = "\"" /\ QuotedChunk(Push(inner, Lit(<<"$">>, TRUE)), 1)
         \/ /\ Peek(1) = "{" /\ e > pos + 2 /\ ByteAt(input, e) = "}"
            /\ QuotedChunk(PushVar(inner, SubSeq(input, pos + 2, e - 1)), e + 1 - pos)
         \/ /\ Peek(1) \in Letter /\ ByteAt(input, d) \notin NonAscii
            /\ QuotedChunk(PushVar(inner, SubSeq(input, pos + 1, d - 1)), d - pos)
  BY <1>1, Zenon DEF Dollar
<1>3. pos \in 1 .. Len(input) /\ input[pos] = "$"
  <2>1. Peek(0) # None
    BY <1>2 DEF None
  <2> QED
    BY <1>1, <1>2, <2>1, ByteInQuotes
<1>4. Reads(input, Cs) /\ Len(input) \in Nat /\ pos \in Nat /\ input \in Seq(Byte) /\ DOMAIN input = 1 .. Len(input)
      /\ Peek(1) = ByteAt(input, pos + 1) /\ pos + 1 \in Int /\ Cs[pos] = "Double"
  <2>1. Cs[pos] = "Double"
    BY <1>1, <1>2, InQuotesIs
  <2> QED
    BY <1>1, <2>1, CsReads DEF Peek
<1>5. "$" \notin Control /\ "$" # Backquote
  <2>1. "$" \in Special
    BY DEF Special
  <2> QED
    BY <2>1, ClassesApart DEF Backquote
<1>6. CASE BadDollar
  BY <1>1, <1>2, <1>3, <1>6, BadDollarWalks
<1>7. CASE Peek(1) = "\"" /\ QuotedChunk(Push(inner, Lit(<<"$">>, TRUE)), 1)
  <2>1. QuoteNext(input, pos)
    BY <1>4, <1>7, Zenon DEF QuoteNext
  <2>2. "\"" # "{" /\ "\"" \notin Letter
    <3>1. "\"" \in Special
      BY Zenon DEF Special
    <3>2. "\"" \notin Letter
      BY <3>1, ClassesApart, Zenon
    <3>3. "\"" # "{"
      OBVIOUS
    <3> QED
      BY <3>2, <3>3
  <2>3. Peek(1) # "{" /\ Peek(1) \notin Letter
    BY <1>7, <2>2, Zenon
  <2>4. QuotedChunk(Push(inner, Lit(<<input[pos]>>, TRUE)), 1)
    BY <1>3, <1>7
  <2>5. ~BackslashAt(input, pos) /\ input[pos] \notin InsideQuoters
    BY <1>3 DEF BackslashAt, InsideQuoters
  <2>6. ~VarHere(input, Cs, pos)
    <3>1. NamePlace(input, pos) = pos + 1
      BY <1>4, <2>3 DEF NamePlace
    <3>2. NameEnd(input, pos + 1) = pos + 1
      BY <1>4, <2>3, Zenon DEF NameEnd
    <3>3. ~(pos + 1 > pos + 1)
      BY <1>4
    <3> QED
      BY <3>1, <3>2, <3>3, Zenon DEF VarHere, VarAt
  <2>7. Untroubled(input, Cs, pos)
    BY <1>3, <1>4, <1>5, <2>1, <2>5, InsideUntroubled
  <2> QED
    BY <1>1, <1>2, <1>3, <2>4, <2>5, <2>6, <2>7, OneQuotedWalks
<1>8. CASE /\ Peek(1) = "{" /\ e > pos + 2 /\ ByteAt(input, e) = "}"
           /\ QuotedChunk(PushVar(inner, SubSeq(input, pos + 2, e - 1)), e + 1 - pos)
  <2>1. NamePlace(input, pos) = pos + 2
    BY <1>4, <1>8 DEF NamePlace
  <2>2. VarHere(input, Cs, pos)
    BY <1>3, <1>4, <1>8, <2>1 DEF VarHere, VarAt, Is
  <2>3. VarEnd(input, pos) = e - 0
    BY <1>4, <1>8, <2>1 DEF VarEnd
  <2>4. e \in Int
    <3>1. pos + 2 \in 1 .. Len(input) + 1
      <4>1. pos + 1 \in 1 .. Len(input)
        BY <1>4, <1>8, Bytes DEF None
      <4> QED
        BY <1>4, <4>1
    <3>2. e \in pos + 2 .. Len(input) + 1
      BY <1>4, <3>1, NameEnds
    <3> QED
      BY <1>4, <3>2
  <2>5. e + 1 - pos = (VarEnd(input, pos) + 1) - pos
    <3> HIDE DEF e
    <3> QED
      BY <1>4, <2>3, <2>4
  <2> QED
    BY <1>1, <1>2, <1>3, <1>8, <2>1, <2>2, <2>5, VarWalks
<1>9. CASE /\ Peek(1) \in Letter /\ ByteAt(input, d) \notin NonAscii
           /\ QuotedChunk(PushVar(inner, SubSeq(input, pos + 1, d - 1)), d - pos)
  <2>1. Peek(1) # "{" /\ Peek(1) # None
    <3>1. "{" \in Special
      BY DEF Special
    <3> QED
      BY <1>9, <3>1, ClassesApart
  <2>2. NamePlace(input, pos) = pos + 1
    BY <1>4, <2>1 DEF NamePlace
  <2>3. pos + 1 \in 1 .. Len(input)
    BY <1>4, <2>1, Bytes
  <2>4. d \in pos + 1 .. Len(input) + 1 /\ d > pos + 1
    <3>1. d = RunEnd(input, pos + 1, NameByte)
      BY <1>4, <1>9 DEF NameEnd
    <3>2. pos + 1 \in 1 .. Len(input) + 1
      BY <1>4, <2>3
    <3>3. d \in pos + 1 .. Len(input) + 1 /\ ByteAt(input, d) \notin NameByte
      <4>1. None \notin NameByte
        BY NoneIsNoByte
      <4>2. /\ RunEnd(input, pos + 1, NameByte) \in pos + 1 .. Len(input) + 1
            /\ ByteAt(input, RunEnd(input, pos + 1, NameByte)) \notin NameByte
        BY <1>4, <3>2, <4>1, RunEnds
      <4> QED
        BY <3>1, <4>2, Zenon
    <3>4. d # pos + 1
      BY <1>4, <1>9, <3>3 DEF NameByte
    <3> HIDE DEF d
    <3> QED
      BY <1>4, <3>3, <3>4
  <2>5. VarHere(input, Cs, pos)
    BY <1>3, <1>4, <1>9, <2>1, <2>2, <2>4 DEF VarHere, VarAt, Is
  <2>6. VarEnd(input, pos) = d - 1
    BY <1>4, <2>1, <2>2 DEF VarEnd
  <2>7. d - pos = (VarEnd(input, pos) + 1) - pos
    <3> HIDE DEF d
    <3> QED
      BY <1>4, <2>4, <2>6
  <2> QED
    BY <1>1, <1>2, <1>3, <1>9, <2>2, <2>5, <2>7, VarWalks
<1> QED
  BY <1>2, <1>6, <1>7, <1>8, <1>9

-----------------------------------------------------------------------------
(* Between tokens.                                                         *)

(* Of input beyond the cap nothing is read.                                *)
LEMMA TooLargeWalks == LexInv /\ WalkInv /\ InputTooLarge => WalkInv'
<1>1. SUFFICES ASSUME LexInv, WalkInv, InputTooLarge PROVE WalkInv'
  OBVIOUS
<1>2. /\ Len(input) > MaxInputLen /\ ~lexed
      /\ UNCHANGED <<input, pos, mode, start, opened, from, parts, inner, lexemes, lexed>>
  BY <1>1, Zenon DEF InputTooLarge, Fail, token
<1>3. Len(input) \in Nat /\ MaxInputLen \in Nat
  BY <1>1, CsReads, BytesAssumption
<1>4. ~(Len(input) <= MaxInputLen)
  BY <1>2, <1>3
<1> QED
  BY <1>1, <1>2, <1>4 DEF WalkInv

(* What is known where a token may start.                                  *)
LEMMA BetweenIs ==
  ASSUME LexInv, WalkInv, Between
  PROVE  /\ Lexing /\ Walked /\ mode = "Between" /\ pos \in 1 .. Len(input) /\ Peek(0) = input[pos]
         /\ input[pos] \in Byte /\ ByteAt(input, pos) = input[pos]
         /\ Boundary(input, Cs, pos) /\ Cs[pos] = "Bare" /\ pos \notin Seconds(input, Cs)
         /\ ~Is(input, Cs, pos - 1, "Bare", ">")
         /\ Lexed = pos /\ Clean(input, Cs, pos, {}) /\ RedirectsRead(input, Cs, pos, {})
<1>1. Lexing /\ Walked /\ mode = "Between" /\ pos <= Len(input)
  BY DEF Between, WalkInv, Lexing
<1>2. pos \in 1 .. Len(input) + 1 /\ Len(input) \in Nat /\ input \in Seq(Byte)
  BY CsReads
<1>3. pos \in 1 .. Len(input) /\ pos \in Int
  BY <1>1, <1>2
<1>4. Peek(0) = input[pos] /\ input[pos] \in Byte /\ ByteAt(input, pos) = input[pos]
  BY <1>2, <1>3, Bytes DEF Peek
<1>5. Boundary(input, Cs, pos)
  BY <1>1, Zenon DEF Walked
<1>6. Clean(input, Cs, pos, {}) /\ RedirectsRead(input, Cs, pos, {})
  BY <1>1, Zenon DEF Walked, Open, Redirecting
<1>7. Cs[pos] = "Bare" /\ pos \notin Seconds(input, Cs) /\ ~Is(input, Cs, pos - 1, "Bare", ">")
  BY <1>5, Zenon DEF Boundary
<1> QED
  BY <1>1, <1>3, <1>4, <1>5, <1>6, <1>7 DEF Lexed

(* What no token starts with.                                              *)
LEMMA NoTokenWalks == LexInv /\ WalkInv /\ NoToken => WalkInv'
<1>1. SUFFICES ASSUME LexInv, WalkInv, NoToken PROVE WalkInv'
  OBVIOUS
<1>2. Between
  BY <1>1 DEF NoToken
<1>3. /\ Lexing /\ mode = "Between" /\ pos \in 1 .. Len(input) /\ Peek(0) = input[pos]
      /\ Cs[pos] = "Bare"
  BY <1>1, <1>2, BetweenIs
<1>4. \E kind : Fail(kind, pos) /\ ByteTrouble(input, Cs, kind, pos)
  BY <1>1, <1>3, Zenon DEF NoToken, ByteTrouble
<1>5. PICK kind : Fail(kind, pos) /\ ByteTrouble(input, Cs, kind, pos)
  BY <1>4
<1>6. Trouble(input, Cs, kind, pos)
  BY <1>1, <1>3, <1>5, CsReads DEF Trouble
<1>7. Finding(kind, pos) \in Problems(input)
  BY <1>1, <1>6, TroubleIsProblem
<1> QED
  BY <1>1, <1>3, <1>5, <1>7, FailBetween

(* An unquoted byte that ends words is fine where no operator is wrong.    *)
LEMMA OpUntroubled ==
  ASSUME NEW s, NEW cs, Reads(s, cs), NEW k \in 1 .. Len(s), cs[k] = "Bare",
         s[k] \in WordTerminator, s[k] \notin {"(", ")", "<"}, \A kind : ~OpTrouble(s, cs, kind, k)
  PROVE  Untroubled(s, cs, k)
<1>1. s[k] \notin Control
  BY ClassesApart
<1>2. s[k] \notin {"$", "{", "}", "*", "?", "[", Backquote, "#", "~", "'", "\"", "\\"}
  BY DEF WordTerminator, TokenEnd, Blank, None, Backquote
<1>3. SUFFICES ASSUME NEW kind, Trouble(s, cs, kind, k) PROVE FALSE
  BY DEF Untroubled
<1> QED
  BY <1>1, <1>2, <1>3, BareTroubles

(* Behind an unquoted byte that ends words, and is no part of a redirect,  *)
(* a token may start.                                                      *)
LEMMA PastBoundary ==
  ASSUME NEW s, NEW cs, Reads(s, cs), NEW k \in 1 .. Len(s), cs[k] = "Bare", s[k] \in WordTerminator,
         s[k] # ">", k + 1 \notin Seconds(s, cs), ~(s[k] = "&" /\ Is(s, cs, k - 1, "Bare", ">"))
  PROVE  Boundary(s, cs, k + 1)
<1>0. Len(s) \in Nat /\ k \in Nat /\ DOMAIN s = 1 .. Len(s)
  BY DEF Reads
<1>1. s[k] \notin Quoters /\ s[k] \notin Digit
  BY DEF WordTerminator, TokenEnd, Blank, None, Quoters, Digit
<1>2. cs[k + 1] = "Bare"
  BY <1>1, NextQuoting
<1>3. Terminates(s, cs, k)
  BY <1>0 DEF Terminates
<1>4. /\ (k + 1) - 1 = k /\ (k + 1) - 2 = k - 1 /\ k + 1 # 1 /\ k + 1 \in Nat \ {0}
      /\ \A d \in 1 .. (k + 1) - 1 : k \in d .. (k + 1) - 1
  BY <1>0
<1>5. RedirectStart(s, cs, k + 1) = k + 1
  <2>1. SUFFICES ASSUME RedirectStart(s, cs, k + 1) # k + 1 PROVE FALSE
    OBVIOUS
  <2>2. /\ RedirectStart(s, cs, k + 1) \in 1 .. k + 1
        /\ AllDigits(s, RedirectStart(s, cs, k + 1), k + 1)
    BY <1>4, <2>1, RedirectStarts DEF StartsRun
  <2>3. RedirectStart(s, cs, k + 1) \in 1 .. (k + 1) - 1
    BY <1>0, <2>1, <2>2
  <2> QED
    BY <1>1, <1>4, <2>2, <2>3 DEF AllDigits
<1>6. ~Is(s, cs, k, "Bare", ">")
  BY DEF Is
<1>7. ~(Is(s, cs, k, "Bare", "&") /\ Is(s, cs, k - 1, "Bare", ">"))
  BY DEF Is
<1> QED
  BY <1>2, <1>3, <1>4, <1>5, <1>6, <1>7 DEF Boundary

(* A blank is passed.                                                      *)
LEMMA BlankWalks == LexInv /\ WalkInv /\ SkipBlank => WalkInv'
<1>1. SUFFICES ASSUME LexInv, WalkInv, SkipBlank PROVE WalkInv'
  OBVIOUS
<1>2. Between /\ Peek(0) \in Blank
  BY <1>1 DEF SkipBlank
<1>3. /\ UNCHANGED <<input, mode, start, opened, from, parts, inner, lexemes, err, lexed>> /\ pos' = pos + 1
  BY <1>1, Zenon DEF SkipBlank, token
<1>4. /\ Lexing /\ Walked /\ mode = "Between" /\ pos \in 1 .. Len(input) /\ Peek(0) = input[pos]
      /\ Cs[pos] = "Bare" /\ Lexed = pos /\ Clean(input, Cs, pos, {}) /\ RedirectsRead(input, Cs, pos, {})
  BY <1>1, <1>2, BetweenIs
<1>5. Reads(input, Cs) /\ Len(input) \in Nat /\ pos \in Nat /\ input \in Seq(Byte) /\ DOMAIN input = 1 .. Len(input)
  BY <1>1, CsReads
<1>6. /\ input[pos] \in WordTerminator /\ input[pos] \notin {"(", ")", "<", ">", "&", "|"} /\ input[pos] \in Blank
      /\ input[pos] # ";"
  BY <1>2, <1>4 DEF Blank, WordTerminator, TokenEnd, None
<1>7. Untroubled(input, Cs, pos)
  <2>1. \A kind : ~OpTrouble(input, Cs, kind, pos)
    BY <1>6 DEF OpTrouble
  <2> QED
    BY <1>4, <1>5, <1>6, <2>1, OpUntroubled
<1>8. pos + 1 \in Nat /\ (pos + 1) - 1 = pos /\ pos .. (pos + 1) - 1 = {pos}
  BY <1>5
<1>9. Boundary(input, Cs, pos + 1)
  <2>1. pos + 1 \notin Seconds(input, Cs)
    <3>1. ~Twice(input, Cs, pos + 1)
      BY <1>6, <1>8, Zenon DEF Twice, Is
    <3>2. pos + 1 \in Seconds(input, Cs) => pos + 1 \in 1 .. Len(input)
      BY <1>5, SecondsAre
    <3> QED
      BY <1>5, <3>1, <3>2, SecondsAre
  <2>2. input[pos] # ">" /\ ~(input[pos] = "&" /\ Is(input, Cs, pos - 1, "Bare", ">"))
    BY <1>6, Zenon
  <2> QED
    BY <1>4, <1>5, <1>6, <2>1, <2>2, PastBoundary
<1>10. pos \notin Greaters(input, Cs)
  BY <1>6 DEF Greaters, Is
<1>11. Passes(pos, pos + 1)
  BY <1>7, <1>8, <1>10 DEF Passes
<1>12. Clean(input, Cs, pos + 1, {}) /\ RedirectsRead(input, Cs, pos + 1, {})
  BY <1>1, <1>4, <1>5, <1>8, <1>11, CleanOn, RedirectsOn
<1>13. Covered(input, lexemes, pos + 1)
  <2>1. Covered(input, lexemes, pos)
    BY <1>4 DEF Walked
  <2>2. \A m \in 1 .. (pos + 1) - 1 : m \in 1 .. pos - 1 \/ m = pos
    BY <1>5
  <2> QED
    BY <1>6, <2>1, <2>2 DEF Covered
<1>14. TokensSay(input, Cs, lexemes)
  BY <1>4 DEF Walked
<1>15. Cs' = Cs /\ Open' = {} /\ Redirecting' = {} /\ Lexed' = pos + 1
  BY <1>3, <1>4 DEF Cs, Open, Redirecting, Lexed
<1>16. mode' = "Between"
  BY <1>3, <1>4
<1>17. Walked'
  BY <1>3, <1>9, <1>12, <1>13, <1>14, <1>15, <1>16 DEF Walked
<1> QED
  BY <1>1, <1>3, <1>4, <1>17 DEF WalkInv, Found, Lexing

-----------------------------------------------------------------------------
(* The operators.                                                          *)

(* The operators by their bytes.                                           *)
Operators ==
  {<<<<";">>, "Semi">>, <<<<"\n">>, "Newline">>, <<<<"|">>, "Pipe">>,
   <<<<"|", "|">>, "OrIf">>, <<<<"&", "&">>, "AndIf">>}

(* An operator found.                                                      *)
LEMMA OpWalks ==
  ASSUME LexInv, WalkInv, Between, NEW op, NEW k \in {1, 2}, EmitOp(op, k), pos + k <= Len(input) + 1,
         <<SubSeq(input, pos, (pos + k) - 1), op>> \in Operators,
         Boundary(input, Cs, pos + k), Passes(pos, pos + k)
  PROVE  WalkInv'
<1> DEFINE e == pos + k
<1>1. /\ Lexing /\ mode = "Between" /\ Cs[pos] = "Bare" /\ Lexed = pos
      /\ Clean(input, Cs, pos, {}) /\ RedirectsRead(input, Cs, pos, {})
  BY BetweenIs
<1>2. pos \in Nat /\ e \in Nat
  BY CsReads
<1>3. Emit(OpToken(op), pos, e) /\ UNCHANGED mode
  BY DEF EmitOp
<1>4. /\ <<SubSeq(input, pos, e - 1), op>> \in Operators /\ Boundary(input, Cs, e) /\ Passes(pos, e)
  OBVIOUS
<1> HIDE DEF e
<1>5. Clean(input, Cs, e, {}) /\ RedirectsRead(input, Cs, e, {})
  BY <1>1, <1>2, <1>4, CleanOn, RedirectsOn
<1> DEFINE l == LexemeOf(pos, e, OpToken(op))
<1>6. l.offset = pos /\ l.end = e /\ l.token.is = "Op" /\ l.token.op = op
  BY DEF LexemeOf, OpToken
<1> HIDE DEF l
<1>7. SaysItsText(input, Cs, l)
  BY <1>1, <1>4, <1>6 DEF SaysItsText, Operators
<1>8. TokenSays(input, Cs, l)
  BY <1>6, <1>7 DEF TokenSays
<1>9. TokenSays(input, Cs, LexemeOf(Lexed, e, OpToken(op)))
  BY <1>1, <1>8 DEF l
<1>10. Emit(OpToken(op), Lexed, e) /\ mode' = "Between" /\ mode # "Quotes"
  BY <1>1, <1>3
<1> QED
  BY <1>1, <1>2, <1>4, <1>5, <1>9, <1>10, EmitWalks

(* The text of one byte, and of two.                                       *)
LEMMA ShortPieces ==
  ASSUME NEW s \in Seq(Byte), NEW k \in 1 .. Len(s)
  PROVE  /\ SubSeq(s, k, (k + 1) - 1) = <<s[k]>>
         /\ k + 1 \in 1 .. Len(s) => SubSeq(s, k, (k + 2) - 1) = <<s[k], s[k + 1]>>
<1>1. (k + 1) - 1 = k /\ (k + 2) - 1 = k + 1 /\ Len(s) \in Nat /\ k \in Nat /\ k + 0 = k
  OBVIOUS
<1>2. ASSUME NEW e \in k .. k + 1, e <= Len(s)
      PROVE  /\ SubSeq(s, k, e) \in Seq(Byte) /\ Len(SubSeq(s, k, e)) = (e - k) + 1
             /\ \A i \in 1 .. (e - k) + 1 : SubSeq(s, k, e)[i] = s[k + (i - 1)]
  <2>1. e \in 0 .. Len(s) /\ k \in 1 .. Len(s) + 1
    BY <1>1, <1>2
  <2>2. SubSeq(s, k, e) \in Seq(Byte)
    BY <2>1, Pieces
  <2> QED
    BY <1>1, <1>2, <2>2
<1>3. SubSeq(s, k, k) = <<s[k]>>
  <2> DEFINE x == SubSeq(s, k, k)
             y == <<s[k]>>
  <2>1. x \in Seq(Byte) /\ Len(x) = 1 /\ x[1] = s[k]
    <3>1. k \in k .. k + 1 /\ k <= Len(s) /\ (k - k) + 1 = 1 /\ k + (1 - 1) = k /\ 1 \in 1 .. 1
      BY <1>1
    <3> QED
      BY <1>2, <3>1
  <2>2. y \in Seq(Byte) /\ Len(y) = 1 /\ y[1] = s[k]
    OBVIOUS
  <2> HIDE DEF x, y
  <2>3. x = y
    BY <2>1, <2>2, SeqEqual
  <2> QED
    BY <2>3 DEF x, y
<1>4. ASSUME k + 1 \in 1 .. Len(s) PROVE SubSeq(s, k, k + 1) = <<s[k], s[k + 1]>>
  <2> DEFINE x == SubSeq(s, k, k + 1)
             y == <<s[k], s[k + 1]>>
  <2>1. x \in Seq(Byte) /\ Len(x) = 2 /\ x[1] = s[k] /\ x[2] = s[k + 1]
    <3>1. /\ k + 1 \in k .. k + 1 /\ k + 1 <= Len(s) /\ ((k + 1) - k) + 1 = 2 /\ k + (1 - 1) = k
          /\ k + (2 - 1) = k + 1 /\ 1 \in 1 .. 2 /\ 2 \in 1 .. 2
      BY <1>1, <1>4
    <3> QED
      BY <1>2, <3>1
  <2>2. y \in Seq(Byte) /\ Len(y) = 2 /\ y[1] = s[k] /\ y[2] = s[k + 1]
    BY <1>4
  <2> HIDE DEF x, y
  <2>3. \A i \in 1 .. 2 : i = 1 \/ i = 2
    OBVIOUS
  <2>4. x = y
    BY <2>1, <2>2, <2>3, SeqEqual
  <2> QED
    BY <2>4 DEF x, y
<1> QED
  BY <1>1, <1>3, <1>4

(* An operator of one byte found.                                          *)
LEMMA OneByteOpWalks ==
  ASSUME LexInv, WalkInv, Between, NEW op, EmitOp(op, 1), <<<<input[pos]>>, op>> \in Operators,
         input[pos] \in WordTerminator, input[pos] \notin {"(", ")", "<", ">", "&"},
         \A kind : ~OpTrouble(input, Cs, kind, pos), pos + 1 \notin Seconds(input, Cs)
  PROVE  WalkInv'
<1>1. pos \in 1 .. Len(input) /\ Cs[pos] = "Bare"
  BY BetweenIs
<1>2. Reads(input, Cs) /\ Len(input) \in Nat /\ pos \in Nat /\ input \in Seq(Byte)
  BY CsReads
<1>3. /\ pos + 1 <= Len(input) + 1 /\ pos .. (pos + 1) - 1 = {pos}
  BY <1>1, <1>2
<1>4. Passes(pos, pos + 1)
  <2>1. Untroubled(input, Cs, pos)
    BY <1>1, <1>2, OpUntroubled
  <2>2. pos \notin Greaters(input, Cs)
    BY DEF Greaters, Is
  <2> QED
    BY <1>3, <2>1, <2>2 DEF Passes
<1>5. Boundary(input, Cs, pos + 1)
  <2>1. input[pos] # ">" /\ ~(input[pos] = "&" /\ Is(input, Cs, pos - 1, "Bare", ">"))
    OBVIOUS
  <2> QED
    BY <1>1, <1>2, <2>1, PastBoundary
<1>6. <<SubSeq(input, pos, (pos + 1) - 1), op>> \in Operators
  BY <1>1, <1>2, ShortPieces
<1> QED
  BY <1>3, <1>4, <1>5, <1>6, OpWalks

(* An operator of two bytes found.                                         *)
LEMMA TwoByteOpWalks ==
  ASSUME LexInv, WalkInv, Between, NEW op, EmitOp(op, 2), <<<<input[pos], input[pos]>>, op>> \in Operators,
         input[pos] \in {"&", "|"}, Peek(1) = input[pos]
  PROVE  WalkInv'
<1>1. /\ pos \in 1 .. Len(input) /\ Cs[pos] = "Bare" /\ pos \notin Seconds(input, Cs)
      /\ ~Is(input, Cs, pos - 1, "Bare", ">") /\ input[pos] \in Byte
  BY BetweenIs
<1>2. /\ Reads(input, Cs) /\ Len(input) \in Nat /\ pos \in Nat /\ input \in Seq(Byte)
      /\ DOMAIN input = 1 .. Len(input) /\ Peek(1) = ByteAt(input, pos + 1)
  BY CsReads DEF Peek
<1>3. pos + 1 \in 1 .. Len(input) /\ input[pos + 1] = input[pos]
  <2>1. Peek(1) # None /\ pos + 1 \in Int
    BY <1>1, <1>2 DEF Byte
  <2> QED
    BY <1>2, <2>1, Bytes
<1>4. /\ pos + 2 <= Len(input) + 1 /\ (pos + 1) + 1 = pos + 2 /\ (pos + 1) - 1 = pos
      /\ \A m \in pos .. (pos + 2) - 1 : m = pos \/ m = pos + 1
  BY <1>1, <1>2, <1>3
<1>5. /\ input[pos] \in WordTerminator /\ input[pos] \notin Quoters /\ input[pos] \notin {"(", ")", "<", ">"}
  BY DEF WordTerminator, TokenEnd, Blank, None, Quoters
<1>6. Cs[pos + 1] = "Bare"
  BY <1>1, <1>2, <1>5, NextQuoting
<1>7. pos + 1 \in Seconds(input, Cs)
  <2>1. Twice(input, Cs, pos + 1)
    BY <1>1, <1>2, <1>3, <1>4, <1>6 DEF Twice, Is
  <2> QED
    BY <1>1, <1>2, <1>3, <1>4, <2>1, SecondsAre
<1>8. pos + 2 \notin Seconds(input, Cs)
  <2>1. (pos + 2) - 1 = pos + 1
    BY <1>2
  <2> QED
    BY <1>2, <1>7, <2>1, SecondsAre
<1>9. Boundary(input, Cs, pos + 2)
  <2>1. ~Is(input, Cs, (pos + 1) - 1, "Bare", ">")
    BY <1>4, <1>5 DEF Is
  <2>2. /\ input[pos + 1] \in WordTerminator /\ input[pos + 1] # ">"
        /\ ~(input[pos + 1] = "&" /\ Is(input, Cs, (pos + 1) - 1, "Bare", ">"))
        /\ (pos + 1) + 1 \notin Seconds(input, Cs)
    BY <1>3, <1>4, <1>5, <1>8, <2>1
  <2>3. Boundary(input, Cs, (pos + 1) + 1)
    BY <1>2, <1>3, <1>6, <2>2, PastBoundary
  <2> QED
    BY <1>4, <2>3
<1>10. Untroubled(input, Cs, pos)
  <2>1. ASSUME NEW kind, OpTrouble(input, Cs, kind, pos) PROVE FALSE
    BY <1>2, <2>1 DEF OpTrouble
  <2> QED
    BY <1>1, <1>2, <1>5, <2>1, OpUntroubled
<1>11. Untroubled(input, Cs, pos + 1)
  <2>1. \A kind : ~OpTrouble(input, Cs, kind, pos + 1)
    BY <1>7 DEF OpTrouble
  <2>2. input[pos + 1] \in WordTerminator /\ input[pos + 1] \notin {"(", ")", "<"}
    BY <1>3, <1>5
  <2> QED
    BY <1>2, <1>3, <1>6, <2>1, <2>2, OpUntroubled
<1>12. Passes(pos, pos + 2)
  <2>1. pos \notin Greaters(input, Cs) /\ pos + 1 \notin Greaters(input, Cs)
    BY <1>3, <1>5 DEF Greaters, Is
  <2> QED
    BY <1>4, <1>10, <1>11, <2>1 DEF Passes
<1>13. <<SubSeq(input, pos, (pos + 2) - 1), op>> \in Operators
  BY <1>1, <1>2, <1>3, ShortPieces
<1> QED
  BY <1>4, <1>9, <1>12, <1>13, OpWalks

(* What is behind no "&" or "|" is no second byte of a pair.               *)
LEMMA NoSecond ==
  ASSUME LexInv, pos \in 1 .. Len(input), input[pos] \notin {"&", "|"} \/ Peek(1) # input[pos]
  PROVE  pos + 1 \notin Seconds(input, Cs)
<1>1. /\ Len(input) \in Nat /\ pos \in Nat /\ input \in Seq(Byte) /\ Peek(1) = ByteAt(input, pos + 1)
      /\ DOMAIN input = 1 .. Len(input)
  BY CsReads DEF Peek
<1>2. SUFFICES ASSUME pos + 1 \in Seconds(input, Cs) PROVE FALSE
  OBVIOUS
<1>3. pos + 1 \in 1 .. Len(input) /\ Twice(input, Cs, pos + 1)
  BY <1>1, <1>2, SecondsAre
<1>4. (pos + 1) - 1 = pos
  BY <1>1
<1>5. input[pos + 1] = input[pos] /\ input[pos + 1] \in {"&", "|"} /\ Peek(1) = input[pos + 1]
  BY <1>1, <1>3, <1>4 DEF Twice, Is, ByteAt
<1> QED
  BY <1>5

(* An operator that is wrong.                                              *)
LEMMA OpFailWalks ==
  ASSUME LexInv, WalkInv, Between, NEW kind, Fail(kind, pos), OpTrouble(input, Cs, kind, pos)
  PROVE  WalkInv'
<1>1. Lexing /\ mode = "Between" /\ pos \in 1 .. Len(input)
  BY BetweenIs
<1>2. Trouble(input, Cs, kind, pos)
  BY <1>1, CsReads DEF Trouble
<1>3. Finding(kind, pos) \in Problems(input)
  BY <1>2, TroubleIsProblem
<1> QED
  BY <1>1, <1>3, FailBetween

(* A newline.                                                              *)
LEMMA NewlineWalks == LexInv /\ WalkInv /\ Newline => WalkInv'
<1>1. SUFFICES ASSUME LexInv, WalkInv, Newline PROVE WalkInv'
  OBVIOUS
<1>2. Between /\ Peek(0) = "\n" /\ EmitOp("Newline", 1)
  BY <1>1, Zenon DEF Newline
<1>3. input[pos] = "\n" /\ pos \in Nat
  BY <1>1, <1>2, BetweenIs, CsReads
<1>4. input[pos] \in WordTerminator /\ input[pos] \notin {"(", ")", "<", ">", "&"}
  BY <1>3 DEF WordTerminator, TokenEnd, None
<1>5. <<<<input[pos]>>, "Newline">> \in Operators
  BY <1>3, Zenon DEF Operators
<1>6. \A kind : ~OpTrouble(input, Cs, kind, pos)
  BY <1>3 DEF OpTrouble
<1>7. pos + 1 \notin Seconds(input, Cs)
  <2>1. input[pos] \notin {"&", "|"}
    BY <1>3
  <2> QED
    BY <1>1, <1>2, <2>1, BetweenIs, NoSecond
<1> QED
  BY <1>1, <1>2, <1>4, <1>5, <1>6, <1>7, OneByteOpWalks

(* A semicolon.                                                            *)
LEMMA SemicolonWalks == LexInv /\ WalkInv /\ Semicolon => WalkInv'
<1>1. SUFFICES ASSUME LexInv, WalkInv, Semicolon PROVE WalkInv'
  OBVIOUS
<1>2. /\ Between /\ Peek(0) = ";"
      /\ \/ Peek(1) = ";" /\ Fail("DoubleSemicolon", pos)
         \/ Peek(1) = "&" /\ Fail("SemicolonAmpersand", pos)
         \/ Peek(1) \notin {";", "&"} /\ EmitOp("Semi", 1)
  BY <1>1, Zenon DEF Semicolon
<1>3. /\ input[pos] = ";" /\ pos \in Nat /\ Cs[pos] = "Bare" /\ pos \notin Seconds(input, Cs)
      /\ Peek(1) = ByteAt(input, pos + 1)
  BY <1>1, <1>2, BetweenIs, CsReads DEF Peek
<1>4. CASE Peek(1) = ";" /\ Fail("DoubleSemicolon", pos)
  <2>1. OpTrouble(input, Cs, "DoubleSemicolon", pos)
    BY <1>3, <1>4 DEF OpTrouble
  <2> QED
    BY <1>1, <1>2, <1>4, <2>1, OpFailWalks
<1>5. CASE Peek(1) = "&" /\ Fail("SemicolonAmpersand", pos)
  <2>1. OpTrouble(input, Cs, "SemicolonAmpersand", pos)
    BY <1>3, <1>5 DEF OpTrouble
  <2> QED
    BY <1>1, <1>2, <1>5, <2>1, OpFailWalks
<1>6. CASE Peek(1) \notin {";", "&"} /\ EmitOp("Semi", 1)
  <2>1. input[pos] \in WordTerminator /\ input[pos] \notin {"(", ")", "<", ">", "&"}
    BY <1>3 DEF WordTerminator, TokenEnd, None
  <2>2. <<<<input[pos]>>, "Semi">> \in Operators
    BY <1>3, Zenon DEF Operators
  <2>3. \A kind : ~OpTrouble(input, Cs, kind, pos)
    BY <1>3, <1>6 DEF OpTrouble
  <2>4. pos + 1 \notin Seconds(input, Cs)
    <3>1. input[pos] \notin {"&", "|"}
      BY <1>3
    <3> QED
      BY <1>1, <1>2, <3>1, BetweenIs, NoSecond
  <2> QED
    BY <1>1, <1>2, <1>6, <2>1, <2>2, <2>3, <2>4, OneByteOpWalks
<1> QED
  BY <1>2, <1>4, <1>5, <1>6

(* An ampersand.                                                           *)
LEMMA AmpersandWalks == LexInv /\ WalkInv /\ Ampersand => WalkInv'
<1>1. SUFFICES ASSUME LexInv, WalkInv, Ampersand PROVE WalkInv'
  OBVIOUS
<1>2. /\ Between /\ Peek(0) = "&"
      /\ \/ Peek(1) = "&" /\ EmitOp("AndIf", 2)
         \/ Peek(1) = ">" /\ Fail("AmpersandRedirect", pos)
         \/ Peek(1) \notin {"&", ">"} /\ Fail("BackgroundAmpersand", pos)
  BY <1>1, Zenon DEF Ampersand
<1>3. /\ input[pos] = "&" /\ pos \in Nat /\ Cs[pos] = "Bare" /\ pos \notin Seconds(input, Cs)
      /\ Peek(1) = ByteAt(input, pos + 1) /\ ~Is(input, Cs, pos - 1, "Bare", ">")
  BY <1>1, <1>2, BetweenIs, CsReads DEF Peek
<1>4. CASE Peek(1) = "&" /\ EmitOp("AndIf", 2)
  <2>1. <<<<input[pos], input[pos]>>, "AndIf">> \in Operators
    BY <1>3, Zenon DEF Operators
  <2> QED
    BY <1>1, <1>2, <1>3, <1>4, <2>1, TwoByteOpWalks
<1>5. CASE Peek(1) = ">" /\ Fail("AmpersandRedirect", pos)
  <2>1. OpTrouble(input, Cs, "AmpersandRedirect", pos)
    BY <1>3, <1>5 DEF OpTrouble
  <2> QED
    BY <1>1, <1>2, <1>5, <2>1, OpFailWalks
<1>6. CASE Peek(1) \notin {"&", ">"} /\ Fail("BackgroundAmpersand", pos)
  <2>1. OpTrouble(input, Cs, "BackgroundAmpersand", pos)
    BY <1>3, <1>6 DEF OpTrouble
  <2> QED
    BY <1>1, <1>2, <1>6, <2>1, OpFailWalks
<1> QED
  BY <1>2, <1>4, <1>5, <1>6

(* A bar.                                                                  *)
LEMMA PipeWalks == LexInv /\ WalkInv /\ Pipe => WalkInv'
<1>1. SUFFICES ASSUME LexInv, WalkInv, Pipe PROVE WalkInv'
  OBVIOUS
<1>2. /\ Between /\ Peek(0) = "|"
      /\ \/ Peek(1) = "|" /\ EmitOp("OrIf", 2)
         \/ Peek(1) = "&" /\ Fail("PipeAmpersand", pos)
         \/ Peek(1) \notin {"|", "&"} /\ EmitOp("Pipe", 1)
  BY <1>1, Zenon DEF Pipe
<1>3. /\ input[pos] = "|" /\ pos \in Nat /\ Cs[pos] = "Bare" /\ pos \notin Seconds(input, Cs)
      /\ Peek(1) = ByteAt(input, pos + 1) /\ DOMAIN input = 1 .. Len(input) /\ input \in Seq(Byte)
  BY <1>1, <1>2, BetweenIs, CsReads DEF Peek
<1>4. CASE Peek(1) = "|" /\ EmitOp("OrIf", 2)
  <2>1. <<<<input[pos], input[pos]>>, "OrIf">> \in Operators
    BY <1>3, Zenon DEF Operators
  <2> QED
    BY <1>1, <1>2, <1>3, <1>4, <2>1, TwoByteOpWalks
<1>5. CASE Peek(1) = "&" /\ Fail("PipeAmpersand", pos)
  <2>1. OpTrouble(input, Cs, "PipeAmpersand", pos)
    BY <1>3, <1>5 DEF OpTrouble
  <2> QED
    BY <1>1, <1>2, <1>5, <2>1, OpFailWalks
<1>6. CASE Peek(1) \notin {"|", "&"} /\ EmitOp("Pipe", 1)
  <2>1. input[pos] \in WordTerminator /\ input[pos] \notin {"(", ")", "<", ">", "&"}
    BY <1>3 DEF WordTerminator, TokenEnd, None
  <2>2. <<<<input[pos]>>, "Pipe">> \in Operators
    BY <1>3, Zenon DEF Operators
  <2>3. \A kind : ~OpTrouble(input, Cs, kind, pos)
    BY <1>3, <1>6 DEF OpTrouble
  <2>4. pos + 1 \notin Seconds(input, Cs)
    BY <1>1, <1>2, <1>3, <1>6, BetweenIs, NoSecond
  <2> QED
    BY <1>1, <1>2, <1>6, <2>1, <2>2, <2>3, <2>4, OneByteOpWalks
<1> QED
  BY <1>2, <1>4, <1>5, <1>6

-----------------------------------------------------------------------------
(* Redirects, and words, begin.                                            *)

(* An unquoted digit is fine.                                              *)
LEMMA DigitUntroubled ==
  ASSUME NEW s, NEW cs, Reads(s, cs), NEW k \in 1 .. Len(s), cs[k] = "Bare", s[k] \in Digit
  PROVE  Untroubled(s, cs, k) /\ k \notin Greaters(s, cs) /\ s[k] \notin Quoters /\ s[k] \notin WordTerminator
<1>1. s[k] \notin Control
  BY ClassesApart
<1>2. s[k] \notin Special /\ s[k] \notin WordTerminator /\ s[k] # "#" /\ s[k] # ">" /\ s[k] \notin Quoters
  BY DEF Digit, Special, Backquote, WordTerminator, TokenEnd, Blank, None, Quoters
<1> QED
  BY <1>1, <1>2, PlainUntroubled DEF Greaters, Is

(* So is the ">" of a redirect.                                            *)
LEMMA GreaterUntroubled ==
  ASSUME NEW s, NEW cs, Reads(s, cs), NEW k \in 1 .. Len(s), cs[k] = "Bare", s[k] = ">"
  PROVE  Untroubled(s, cs, k) /\ s[k] \notin Quoters
<1>1. s[k] \in WordTerminator /\ s[k] \notin {"(", ")", "<"} /\ s[k] \notin Quoters
  BY DEF WordTerminator, TokenEnd, None, Quoters
<1>2. \A kind : ~OpTrouble(s, cs, kind, k)
  <2>1. ">" # ";" /\ ">" # "&" /\ ">" # "|"
    OBVIOUS
  <2> QED
    BY <2>1, Zenon DEF OpTrouble
<1> QED
  BY <1>1, <1>2, OpUntroubled

(* And a blank.                                                            *)
LEMMA BlankUntroubled ==
  ASSUME NEW s, NEW cs, Reads(s, cs), NEW k \in 1 .. Len(s), cs[k] = "Bare", s[k] \in Blank
  PROVE  Untroubled(s, cs, k) /\ k \notin Greaters(s, cs) /\ s[k] \notin Quoters
<1>1. s[k] \in WordTerminator /\ s[k] \notin {"(", ")", "<", ">"} /\ s[k] \notin Quoters
  BY DEF Blank, WordTerminator, TokenEnd, None, Quoters
<1>2. \A kind : ~OpTrouble(s, cs, kind, k)
  BY DEF OpTrouble, Blank
<1> QED
  BY <1>1, <1>2, OpUntroubled DEF Greaters, Is

(* Where a token may start, digits before a ">" are of its redirect.       *)
LEMMA StartHere ==
  ASSUME NEW s, NEW cs, Reads(s, cs), NEW k \in 1 .. Len(s), Boundary(s, cs, k),
         NEW g \in k .. Len(s), s[g] = ">", AllDigits(s, k, g)
  PROVE  RedirectStart(s, cs, g) = k
<1>0. Len(s) \in Nat /\ k \in Nat /\ DOMAIN s = 1 .. Len(s) /\ s \in Seq(Byte) /\ k \in Int
  BY DEF Reads
<1>1. ByteAt(s, k) = s[k]
  BY <1>0, Bytes
<1>2. CASE g = k
  BY <1>1, <1>2 DEF Boundary
<1>3. CASE g # k
  <2>1. k \in k .. g - 1 /\ k \in 1 .. g - 1 /\ g \in Nat \ {0}
    BY <1>0, <1>3
  <2>2. s[k] \in Digit
    BY <2>1 DEF AllDigits
  <2>3. ByteAt(s, k) \notin WordTerminator \cup {None}
    BY <1>1, <2>2, NoneIsNoByte DEF Digit, WordTerminator, TokenEnd, Blank, None
  <2>4. k = 1 \/ Terminates(s, cs, k - 1)
    BY <2>3 DEF Boundary
  <2>5. TokenStart(s, cs, k)
    BY <2>4 DEF TokenStart, Boundary, Terminates, Is
  <2>6. StartsRun(s, cs, k, g)
    BY <2>5 DEF StartsRun
  <2>7. RedirectStart(s, cs, g) \in 1 .. g /\ RedirectStart(s, cs, g) <= k
    BY <2>1, <2>6, RedirectStarts
  <2>8. ASSUME RedirectStart(s, cs, g) # k PROVE FALSE
    <3> DEFINE d == RedirectStart(s, cs, g)
    <3>1. d \in 1 .. g /\ d <= k /\ d # k
      BY <2>7, <2>8
    <3>2. AllDigits(s, d, g)
      <4>1. d # g
        BY <1>0, <2>1, <3>1
      <4> QED
        BY <2>1, <4>1, RedirectStarts DEF StartsRun
    <3> HIDE DEF d
    <3>3. k - 1 \in d .. g - 1 /\ k # 1
      BY <1>0, <2>1, <3>1
    <3>4. s[k - 1] \in Digit
      BY <3>2, <3>3 DEF AllDigits
    <3>5. s[k - 1] \in WordTerminator
      BY <2>4, <3>3 DEF Terminates
    <3> QED
      BY <3>4, <3>5 DEF Digit, WordTerminator, TokenEnd, Blank, None
  <2> QED
    BY <2>8
<1> QED
  BY <1>2, <1>3

(* A redirect whose ">" is k bytes further on.                             *)
LEMMA RedirectIs ==
  ASSUME LexInv, WalkInv, Between, NEW k \in Nat, ByteAt(input, pos + k) = ">", AllDigits(input, pos, pos + k)
  PROVE  LET g == pos + k IN
           /\ g \in 1 .. Len(input) /\ g \in pos .. Len(input) /\ input[g] = ">" /\ g \in Greaters(input, Cs)
           /\ RedirectStart(input, Cs, g) = pos
           /\ \A m \in pos .. g : Untroubled(input, Cs, m) /\ (m # g => m \notin Greaters(input, Cs))
           /\ Cs[g] = "Bare" /\ Cs[g + 1] = "Bare"
           /\ Descriptor(input, Cs, g) = IF k = 0 THEN "1" ELSE input[g - 1]
<1> DEFINE g == pos + k
<1>0. Reads(input, Cs) /\ Len(input) \in Nat /\ pos \in Nat /\ input \in Seq(Byte) /\ DOMAIN input = 1 .. Len(input)
  BY CsReads
<1>1. Boundary(input, Cs, pos) /\ Cs[pos] = "Bare" /\ pos \in 1 .. Len(input)
  BY BetweenIs
<1>2. g \in 1 .. Len(input) /\ input[g] = ">"
  <2>1. ">" # None /\ g \in Int
    BY <1>0 DEF None
  <2> QED
    BY <1>0, <2>1, Bytes
<1>3. g \in pos .. Len(input) /\ AllDigits(input, pos, g) /\ (g = pos <=> k = 0) /\ pos \in 1 .. Len(input) + 1
  BY <1>0, <1>1, <1>2
<1> HIDE DEF g
<1>4. RedirectStart(input, Cs, g) = pos
  BY <1>0, <1>1, <1>2, <1>3, StartHere
<1>5. \A m \in pos .. g : Cs[m] = "Bare"
  <2>1. Leaves(input, "Bare", pos, g)
    BY <1>3 DEF Leaves, AllDigits, Digit, Quoters
  <2>2. g \in pos .. Len(input) + 1
    BY <1>0, <1>3
  <2> QED
    BY <1>0, <1>1, <1>3, <2>1, <2>2, StaysQuoted
<1>6. Cs[g] = "Bare" /\ g \in Greaters(input, Cs) /\ g \in pos .. g
  BY <1>0, <1>2, <1>3, <1>5 DEF Greaters, Is
<1>7. Untroubled(input, Cs, g) /\ input[g] \notin Quoters
  BY <1>0, <1>2, <1>6, GreaterUntroubled
<1>8. Cs[g + 1] = "Bare"
  BY <1>0, <1>2, <1>6, <1>7, NextQuoting
<1>9. ASSUME NEW m \in pos .. g, m # g PROVE Untroubled(input, Cs, m) /\ m \notin Greaters(input, Cs)
  <2>1. m \in 1 .. Len(input) /\ m \in pos .. g - 1
    BY <1>0, <1>3, <1>9
  <2>2. Cs[m] = "Bare" /\ input[m] \in Digit
    BY <1>3, <1>5, <2>1 DEF AllDigits
  <2> QED
    BY <1>0, <2>1, <2>2, DigitUntroubled
<1>10. Descriptor(input, Cs, g) = IF k = 0 THEN "1" ELSE input[g - 1]
  BY <1>3, <1>4 DEF Descriptor
<1> QED
  BY <1>2, <1>3, <1>4, <1>6, <1>7, <1>8, <1>9, <1>10 DEF g

(* A redirect that is wrong by what follows it.                            *)
LEMMA RedirectFails ==
  ASSUME LexInv, WalkInv, Between, NEW k \in Nat, ByteAt(input, pos + k) = ">", AllDigits(input, pos, pos + k),
         NEW kind, kind = RedirectKind(input, Cs, pos + k), kind \notin Accepted, Fail(kind, pos)
  PROVE  WalkInv'
<1>1. pos + k \in Greaters(input, Cs) /\ RedirectStart(input, Cs, pos + k) = pos
  BY RedirectIs
<1>2. Finding(kind, pos) \in Problems(input)
  BY <1>1, RedirectIsProblem
<1>3. Lexing /\ mode = "Between"
  BY BetweenIs
<1> QED
  BY <1>2, <1>3, FailBetween

(* A redirect of a descriptor of at most one digit, by what follows.       *)
LEMMA ShortKinds ==
  ASSUME LexInv, WalkInv, Between, NEW k \in {0, 1}, ByteAt(input, pos + k) = ">", AllDigits(input, pos, pos + k)
  PROVE  LET g == pos + k IN
           /\ Peek(k + 1) = ByteAt(input, g + 1)
           /\ Peek(k + 1) = ">" => RedirectKind(input, Cs, g) = "AppendRedirect"
           /\ Peek(k + 1) = "|" => RedirectKind(input, Cs, g) = "ClobberRedirect"
           /\ Peek(k + 1) = "(" => RedirectKind(input, Cs, g) = "ProcessSubstitution"
           /\ Peek(k + 1) = "&" => RedirectKind(input, Cs, g) = DupKind(input, Cs, g)
           /\ Peek(k + 1) \notin {">", "|", "(", "&"} => RedirectKind(input, Cs, g) = TargetKind(input, Cs, g)
<1> DEFINE g == pos + k
<1>0. pos \in Nat /\ k \in Nat /\ k + 1 \in Nat
  BY CsReads
<1>1. pos + (k + 1) = g + 1 /\ g - pos = k
  BY <1>0
<1>2. RedirectStart(input, Cs, g) = pos
  BY <1>0, RedirectIs
<1>3. Peek(k + 1) = ByteAt(input, g + 1)
  BY <1>1 DEF Peek
<1>4. ~(g - RedirectStart(input, Cs, g) > 1)
  BY <1>0, <1>1, <1>2
<1> HIDE DEF g
<1> QED
  BY <1>3, <1>4, KindsAre DEF g

(* What no redirect of the subset is.                                      *)
LEMMA NoRedirectWalks ==
  ASSUME LexInv, WalkInv, Between, NEW k \in {0, 1}, ByteAt(input, pos + k) = ">", AllDigits(input, pos, pos + k),
         NoRedirect(k)
  PROVE  WalkInv'
<1>1. k \in Nat
  OBVIOUS
<1>2. /\ "AppendRedirect" \notin Accepted /\ "ClobberRedirect" \notin Accepted
      /\ "ProcessSubstitution" \notin Accepted
  BY DEF Accepted
<1>3. CASE Peek(k + 1) = ">" /\ Fail("AppendRedirect", pos)
  <2>1. RedirectKind(input, Cs, pos + k) = "AppendRedirect"
    BY <1>3, ShortKinds
  <2> QED
    BY <1>1, <1>2, <1>3, <2>1, RedirectFails
<1>4. CASE Peek(k + 1) = "|" /\ Fail("ClobberRedirect", pos)
  <2>1. RedirectKind(input, Cs, pos + k) = "ClobberRedirect"
    BY <1>4, ShortKinds
  <2> QED
    BY <1>1, <1>2, <1>4, <2>1, RedirectFails
<1>5. CASE Peek(k + 1) = "(" /\ Fail("ProcessSubstitution", pos)
  <2>1. RedirectKind(input, Cs, pos + k) = "ProcessSubstitution"
    BY <1>5, ShortKinds
  <2> QED
    BY <1>1, <1>2, <1>5, <2>1, RedirectFails
<1> QED
  BY <1>3, <1>4, <1>5 DEF NoRedirect

-----------------------------------------------------------------------------
(* Copied descriptors.                                                     *)
CopiedAt(s, cs, g) ==
  /\ Is(s, cs, g, "Bare", ">") /\ cs[g + 1] = "Bare"
  /\ ByteAt(s, g + 1) = "&" /\ ByteAt(s, g + 2) \in Digit /\ ByteAt(s, g + 3) \in TokenEnd

(* An unquoted byte that begins no quoting leaves the next one unquoted.   *)
LEMMA BareNext ==
  ASSUME NEW s, NEW cs, Reads(s, cs), NEW k \in 1 .. Len(s), cs[k] = "Bare", s[k] \notin Quoters
  PROVE  cs[k + 1] = "Bare"
  BY NextQuoting, Zenon

(* Where the bytes of the copy are.                                        *)
LEMMA CopyPlaces ==
  ASSUME NEW s, NEW cs, Reads(s, cs), NEW g \in 1 .. Len(s), CopiedAt(s, cs, g)
  PROVE  /\ g + 1 \in 1 .. Len(s) /\ g + 2 \in 1 .. Len(s) /\ g + 3 \in 1 .. Len(s) + 1
         /\ s[g + 1] = "&" /\ s[g + 2] \in Digit /\ ByteAt(s, g + 2) = s[g + 2]
         /\ cs[g + 1] = "Bare" /\ cs[g + 2] = "Bare" /\ cs[g + 3] = "Bare"
<1>0. /\ s \in Seq(Byte) /\ Len(s) \in Nat /\ g \in Nat /\ DOMAIN s = 1 .. Len(s)
      /\ g + 1 \in Int /\ g + 2 \in Int
  BY DEF Reads
<1>1. ByteAt(s, g + 1) = "&" /\ ByteAt(s, g + 2) \in Digit /\ cs[g + 1] = "Bare"
  BY DEF CopiedAt
<1>2. "&" # None /\ None \notin Digit
  BY NoneIsNoByte DEF None
<1>3. g + 1 \in 1 .. Len(s) /\ ByteAt(s, g + 1) = s[g + 1]
  BY <1>0, <1>1, <1>2, Bytes
<1>4. g + 2 \in 1 .. Len(s) /\ ByteAt(s, g + 2) = s[g + 2]
  BY <1>0, <1>1, <1>2, Bytes
<1>5. s[g + 1] \notin Quoters /\ s[g + 2] \notin Quoters
  BY <1>1, <1>3, <1>4 DEF Quoters, Digit
<1>6. (g + 1) + 1 = g + 2 /\ (g + 2) + 1 = g + 3
  BY <1>0
<1>7. cs[g + 2] = "Bare"
  <2>1. cs[(g + 1) + 1] = "Bare"
    BY <1>1, <1>3, <1>5, BareNext
  <2> QED
    BY <1>6, <2>1
<1>8. cs[g + 3] = "Bare"
  <2>1. cs[(g + 2) + 1] = "Bare"
    BY <1>4, <1>5, <1>7, BareNext
  <2> QED
    BY <1>6, <2>1
<1>9. g + 3 \in 1 .. Len(s) + 1
  BY <1>0, <1>4
<1> QED
  BY <1>1, <1>3, <1>4, <1>7, <1>8, <1>9

(* Nothing is wrong with the copy.                                         *)
LEMMA CopyUntroubled ==
  ASSUME NEW s, NEW cs, Reads(s, cs), NEW g \in 1 .. Len(s), CopiedAt(s, cs, g)
  PROVE  /\ Untroubled(s, cs, g + 1) /\ Untroubled(s, cs, g + 2)
         /\ g + 1 \notin Greaters(s, cs) /\ g + 2 \notin Greaters(s, cs)
<1>0. Len(s) \in Nat /\ g \in Nat /\ (g + 1) - 1 = g /\ (g + 1) + 1 = g + 2
  BY DEF Reads
<1>1. /\ g + 1 \in 1 .. Len(s) /\ g + 2 \in 1 .. Len(s)
      /\ s[g + 1] = "&" /\ s[g + 2] \in Digit /\ ByteAt(s, g + 2) = s[g + 2]
      /\ cs[g + 1] = "Bare" /\ cs[g + 2] = "Bare"
  BY CopyPlaces
<1>2. s[g + 1] \in WordTerminator /\ s[g + 1] \notin {"(", ")", "<", ">"}
  BY <1>1 DEF WordTerminator, TokenEnd, Blank, None
<1>3. ASSUME NEW kind PROVE ~OpTrouble(s, cs, kind, g + 1)
  <2>1. Is(s, cs, (g + 1) - 1, "Bare", ">")
    BY <1>0 DEF CopiedAt
  <2>2. ByteAt(s, (g + 1) + 1) # ">"
    BY <1>0, <1>1 DEF Digit
  <2>3. s[g + 1] # ";" /\ s[g + 1] # "|"
    BY <1>1
  <2> QED
    BY <2>1, <2>2, <2>3, Zenon DEF OpTrouble
<1>4. Untroubled(s, cs, g + 1)
  BY <1>1, <1>2, <1>3, OpUntroubled
<1>5. Untroubled(s, cs, g + 2) /\ g + 2 \notin Greaters(s, cs)
  BY <1>1, DigitUntroubled
<1>6. g + 1 \notin Greaters(s, cs)
  BY <1>2 DEF Greaters, Is
<1> QED
  BY <1>4, <1>5, <1>6

(* Behind the copy a token may start.                                      *)
LEMMA CopyBoundary ==
  ASSUME NEW s, NEW cs, Reads(s, cs), NEW g \in 1 .. Len(s), CopiedAt(s, cs, g)
  PROVE  Boundary(s, cs, g + 3)
<1>0. /\ s \in Seq(Byte) /\ Len(s) \in Nat /\ g \in Nat /\ (g + 3) - 1 = g + 2 /\ (g + 2) - 1 = g + 1
      /\ (g + 2) - 2 = g /\ g + 2 # 1 /\ g + 3 \in Nat \ {0} /\ (g + 3) - 2 = g + 1
  BY DEF Reads
<1>1. /\ g + 2 \in 1 .. Len(s) /\ g + 3 \in 1 .. Len(s) + 1
      /\ s[g + 1] = "&" /\ s[g + 2] \in Digit /\ cs[g + 3] = "Bare"
  BY CopyPlaces
<1>2. ByteAt(s, g + 3) \in WordTerminator \cup {None}
  BY DEF CopiedAt, WordTerminator
<1>3. s[g + 2] # ">" /\ s[g + 2] # "&" /\ s[g + 2] # "|" /\ "&" \notin Digit
  BY <1>1 DEF Digit
<1>4. g + 3 \notin Seconds(s, cs)
  <2>1. ASSUME g + 3 \in Seconds(s, cs) PROVE FALSE
    <3>1. Twice(s, cs, g + 3)
      BY <1>0, <2>1, SecondsAre
    <3> QED
      BY <1>0, <1>3, <3>1 DEF Twice, Is
  <2> QED
    BY <2>1
<1>5. ~Is(s, cs, (g + 3) - 1, "Bare", ">") /\ ~Is(s, cs, (g + 3) - 1, "Bare", "&")
  BY <1>0, <1>3 DEF Is
<1>6. RedirectStart(s, cs, g + 3) = g + 3
  <2>1. ~TokenStart(s, cs, g + 2)
    BY <1>0, <1>1 DEF TokenStart, CopiedAt
  <2>2. SUFFICES ASSUME RedirectStart(s, cs, g + 3) # g + 3 PROVE FALSE
    OBVIOUS
  <2> DEFINE d == RedirectStart(s, cs, g + 3)
  <2>3. d \in 1 .. g + 3 /\ d # g + 3 /\ StartsRun(s, cs, d, g + 3)
    BY <1>0, <2>2, RedirectStarts
  <2> HIDE DEF d
  <2>4. CASE d = g + 2
    BY <2>1, <2>3, <2>4 DEF StartsRun
  <2>5. CASE d # g + 2
    <3>1. g + 1 \in d .. (g + 3) - 1
      BY <1>0, <2>3, <2>5
    <3> QED
      BY <1>1, <1>3, <2>3, <3>1 DEF StartsRun, AllDigits
  <2> QED
    BY <2>4, <2>5
<1> QED
  BY <1>1, <1>2, <1>4, <1>5, <1>6 DEF Boundary

(* A descriptor is copied.                                                 *)
LEMMA CopyWalks ==
  ASSUME LexInv, WalkInv, Between, NEW k \in {0, 1}, ByteAt(input, pos + k) = ">", AllDigits(input, pos, pos + k),
         CopiedAt(input, Cs, pos + k), NEW redir \in Accepted, redir = DupKind(input, Cs, pos + k),
         Emit(RedirToken(redir), pos, (pos + k) + 3), UNCHANGED mode
  PROVE  WalkInv'
<1> DEFINE g == pos + k
           e == g + 3
<1>0. /\ Reads(input, Cs) /\ Len(input) \in Nat /\ pos \in Nat /\ k \in Nat /\ g \in Nat /\ e \in Nat
      /\ e = g + 3 /\ g >= pos /\ (g - pos = k)
  BY CsReads
<1>1. /\ Lexing /\ mode = "Between" /\ Lexed = pos
      /\ Clean(input, Cs, pos, {}) /\ RedirectsRead(input, Cs, pos, {})
  BY BetweenIs
<1>2. /\ g \in 1 .. Len(input) /\ g \in Greaters(input, Cs) /\ RedirectStart(input, Cs, g) = pos
      /\ \A m \in pos .. g : Untroubled(input, Cs, m) /\ (m # g => m \notin Greaters(input, Cs))
  BY <1>0, RedirectIs
<1>3. CopiedAt(input, Cs, g) /\ redir = DupKind(input, Cs, g) /\ Emit(RedirToken(redir), pos, e)
  OBVIOUS
<1> HIDE DEF g, e
<1>4. /\ Untroubled(input, Cs, g + 1) /\ Untroubled(input, Cs, g + 2)
      /\ g + 1 \notin Greaters(input, Cs) /\ g + 2 \notin Greaters(input, Cs)
  BY <1>0, <1>2, <1>3, CopyUntroubled
<1>5. Boundary(input, Cs, e)
  BY <1>0, <1>2, <1>3, CopyBoundary
<1>6. ByteAt(input, g + 1) = "&"
  BY <1>3 DEF CopiedAt
<1>7. RedirectKind(input, Cs, g) = redir
  <2>1. ~(g - RedirectStart(input, Cs, g) > 1)
    BY <1>0, <1>2
  <2> QED
    BY <1>3, <1>6, <2>1, KindsAre
<1>8. \A m \in pos .. e - 1 : m \in pos .. g \/ m = g + 1 \/ m = g + 2
  BY <1>0
<1>9. Clean(input, Cs, e, {})
  <2>1. \A m \in 1 .. e - 1 : m \in 1 .. pos - 1 \/ m \in pos .. e - 1
    BY <1>0
  <2>2. \A m \in pos .. e - 1 : Untroubled(input, Cs, m)
    BY <1>2, <1>4, <1>8
  <2> QED
    BY <1>1, <2>1, <2>2 DEF Clean, Untroubled
<1>10. RedirectsRead(input, Cs, e, {})
  <2>1. \A m \in 1 .. e - 1 : m \in 1 .. pos - 1 \/ m \in pos .. e - 1
    BY <1>0
  <2>2. \A m \in pos .. e - 1 : m \in Greaters(input, Cs) => m = g
    BY <1>2, <1>4, <1>8
  <2>3. RedirectKind(input, Cs, g) \in Accepted
    BY <1>7
  <2> QED
    BY <1>1, <2>1, <2>2, <2>3 DEF RedirectsRead
<1> DEFINE l == LexemeOf(pos, e, RedirToken(redir))
<1>11. l.offset = pos /\ l.end = e /\ l.token.is = "Redir" /\ l.token.redir = redir
  BY DEF LexemeOf, RedirToken
<1> HIDE DEF l
<1>12. SaysItsText(input, Cs, l)
  <2>1. RedirectEnd(input, Cs, g) = e
    BY <1>0, <1>6 DEF RedirectEnd
  <2> QED
    BY <1>2, <1>7, <1>11, <2>1 DEF SaysItsText
<1>13. TokenSays(input, Cs, l)
  BY <1>11, <1>12 DEF TokenSays
<1>14. TokenSays(input, Cs, LexemeOf(Lexed, e, RedirToken(redir))) /\ Emit(RedirToken(redir), Lexed, e)
  BY <1>1, <1>3, <1>13 DEF l
<1>15. mode' = "Between" /\ mode # "Quotes"
  BY <1>1
<1> QED
  BY <1>0, <1>1, <1>5, <1>9, <1>10, <1>14, <1>15, EmitWalks

-----------------------------------------------------------------------------
(* The copies, and what they are called.                                   *)
LEMMA CopiesAre ==
  ASSUME NEW fd, NEW b
  PROVE  /\ fd = "2" /\ b = "1" => <<fd, b>> \in DOMAIN Copies /\ Copies[<<fd, b>>] = "ErrToOut"
         /\ fd = "1" /\ b = "2" => <<fd, b>> \in DOMAIN Copies /\ Copies[<<fd, b>>] = "OutToErr"
         /\ <<fd, b>> \in DOMAIN Copies => (fd = "2" /\ b = "1") \/ (fd = "1" /\ b = "2")
<1>1. DOMAIN Copies = {<<"2", "1">>, <<"1", "2">>}
  BY DEF Copies
<1>2. <<"2", "1">> # <<"1", "2">>
  <2>1. "2" # "1"
    OBVIOUS
  <2> QED
    BY <2>1
<1>3. Copies[<<"2", "1">>] = "ErrToOut" /\ Copies[<<"1", "2">>] = "OutToErr"
  BY <1>2 DEF Copies
<1>4. <<fd, b>> \in DOMAIN Copies => (fd = "2" /\ b = "1") \/ (fd = "1" /\ b = "2")
  BY <1>1
<1>5. CASE fd = "2" /\ b = "1"
  BY <1>1, <1>3, <1>4, <1>5
<1>6. CASE fd = "1" /\ b = "2"
  BY <1>1, <1>3, <1>4, <1>6
<1> QED
  BY <1>4, <1>5, <1>6

(* What a copy is, by its descriptor and operand.                          *)
LEMMA DupKinds ==
  ASSUME NEW s, NEW cs, NEW g, NEW fd, fd = Descriptor(s, cs, g)
  PROVE  /\ ByteAt(s, g + 2) \notin Digit \/ ByteAt(s, g + 3) \notin TokenEnd =>
              DupKind(s, cs, g) = "DupOperand"
         /\ ByteAt(s, g + 2) \in Digit /\ ByteAt(s, g + 3) \in TokenEnd =>
              /\ fd = "2" /\ s[g + 2] = "1" => DupKind(s, cs, g) = "ErrToOut"
              /\ fd = "1" /\ s[g + 2] = "2" => DupKind(s, cs, g) = "OutToErr"
              /\ ~(fd = "2" /\ s[g + 2] = "1") /\ ~(fd = "1" /\ s[g + 2] = "2") =>
                   DupKind(s, cs, g) = "RedirectDescriptor"
<1>1. "1" # "2"
  OBVIOUS
<1> QED
  BY <1>1 DEF DupKind

(* A descriptor is copied, or the copy is wrong.                           *)
LEMMA DupWalks ==
  ASSUME LexInv, WalkInv, Between, NEW k \in {0, 1}, ByteAt(input, pos + k) = ">", AllDigits(input, pos, pos + k),
         NEW fd, fd = Descriptor(input, Cs, pos + k), Dup(fd, k)
  PROVE  WalkInv'
<1> DEFINE g == pos + k
<1>0. /\ Reads(input, Cs) /\ Len(input) \in Nat /\ pos \in Nat /\ k \in Nat /\ g \in Nat
      /\ pos + (k + 2) = g + 2 /\ pos + (k + 3) = g + 3 /\ (pos + k) + 3 = g + 3
  BY CsReads
<1>1. Peek(k + 1) = "&" /\ RedirectKind(input, Cs, g) = DupKind(input, Cs, g) /\ ByteAt(input, g + 1) = "&"
  BY ShortKinds DEF Dup
<1>2. Peek(k + 2) = ByteAt(input, g + 2) /\ Peek(k + 3) = ByteAt(input, g + 3)
  BY <1>0 DEF Peek
<1>3. /\ g \in 1 .. Len(input) /\ g \in Greaters(input, Cs) /\ Cs[g + 1] = "Bare"
  BY <1>0, RedirectIs
<1>4. fd = Descriptor(input, Cs, g) /\ pos + k = g
  OBVIOUS
<1>5. "DupOperand" \notin Accepted /\ "RedirectDescriptor" \notin Accepted
  BY DEF Accepted
<1> HIDE DEF g
<1>6. CASE ByteAt(input, g + 2) \notin Digit \/ ByteAt(input, g + 3) \notin TokenEnd
  <2>1. Fail("DupOperand", pos)
    BY <1>2, <1>6 DEF Dup
  <2>2. RedirectKind(input, Cs, g) = "DupOperand"
    BY <1>1, <1>4, <1>6, DupKinds
  <2> QED
    BY <1>0, <1>4, <1>5, <2>1, <2>2, RedirectFails
<1>7. CASE ByteAt(input, g + 2) \in Digit /\ ByteAt(input, g + 3) \in TokenEnd
  <2>1. CopyTo(fd, k)
    BY <1>2, <1>7 DEF Dup
  <2>2. CopiedAt(input, Cs, g)
    BY <1>1, <1>3, <1>7 DEF CopiedAt, Greaters
  <2>3. Peek(k + 2) = input[g + 2]
    BY <1>0, <1>2, <1>3, <2>2, CopyPlaces
  <2>4. /\ <<fd, input[g + 2]>> \in DOMAIN Copies =>
             Emit(RedirToken(Copies[<<fd, input[g + 2]>>]), pos, (pos + k) + 3) /\ UNCHANGED mode
        /\ <<fd, input[g + 2]>> \notin DOMAIN Copies => Fail("RedirectDescriptor", pos)
    <3>1. pos + k + 3 = (pos + k) + 3
      BY <1>0
    <3> QED
      BY <2>1, <2>3, <3>1 DEF CopyTo
  <2>5. CASE fd = "2" /\ input[g + 2] = "1"
    <3>1. DupKind(input, Cs, g) = "ErrToOut"
      BY <1>4, <1>7, <2>5, DupKinds
    <3>2. Emit(RedirToken("ErrToOut"), pos, (pos + k) + 3) /\ UNCHANGED mode
      BY <2>4, <2>5, CopiesAre
    <3>3. "ErrToOut" \in Accepted
      BY DEF Accepted
    <3> QED
      BY <1>4, <2>2, <3>1, <3>2, <3>3, CopyWalks
  <2>6. CASE fd = "1" /\ input[g + 2] = "2"
    <3>1. DupKind(input, Cs, g) = "OutToErr"
      BY <1>4, <1>7, <2>6, DupKinds
    <3>2. Emit(RedirToken("OutToErr"), pos, (pos + k) + 3) /\ UNCHANGED mode
      BY <2>4, <2>6, CopiesAre
    <3>3. "OutToErr" \in Accepted
      BY DEF Accepted
    <3> QED
      BY <1>4, <2>2, <3>1, <3>2, <3>3, CopyWalks
  <2>7. CASE ~(fd = "2" /\ input[g + 2] = "1") /\ ~(fd = "1" /\ input[g + 2] = "2")
    <3>1. RedirectKind(input, Cs, g) = "RedirectDescriptor"
      BY <1>1, <1>4, <1>7, <2>7, DupKinds
    <3>2. Fail("RedirectDescriptor", pos)
      BY <2>4, <2>7, CopiesAre
    <3> QED
      BY <1>0, <1>4, <1>5, <3>1, <3>2, RedirectFails
  <2> QED
    BY <2>5, <2>6, <2>7
<1> QED
  BY <1>6, <1>7

-----------------------------------------------------------------------------
(* Words begin.                                                            *)

(* A word has no parts yet.                                                *)
LEMMA NoParts ==
  ASSUME NEW s, NEW cs, NEW w \in Nat, cs[w] = "Bare"
  PROVE  PartsRead(s, cs, w, w, <<>>)
<1>1. TextMeaning(s, cs, w, w) = <<>>
  BY NoText
<1>2. Tilde \in Part /\ <<>> \in Parts
  BY DEF Tilde, Part, Parts
<1>3. PartsMeaning(<<>>) = <<>>
  BY <1>2, PartsGrow
<1>4. Apart(<<>>)
  BY DEF Apart
<1> QED
  BY <1>1, <1>3, <1>4 DEF PartsRead

(* A word starts, of its own or as a target.                               *)
LEMMA WordWalks ==
  ASSUME LexInv, WalkInv, Between, NEW w \in pos .. Len(input), NEW reading,
         mode' = "Word", start' = pos, parts' = <<>>, pos' = w, UNCHANGED <<input, lexemes, err, lexed>>,
         WordAt' = w, Redirecting' = reading, WordStart(input, Cs, w),
         from' = {} => NoNumber(input, w),
         from' # {} => RedirectBegun(input, Cs, pos, from'),
         Clean(input, Cs, w, {}), RedirectsRead(input, Cs, w, reading)
  PROVE  WalkInv'
<1>1. Lexing /\ Walked /\ mode = "Between" /\ Lexed = pos
  BY BetweenIs
<1>2. /\ Reads(input, Cs) /\ Len(input) \in Nat /\ pos \in Nat /\ DOMAIN input = 1 .. Len(input)
      /\ pos \in 1 .. Len(input) + 1
  BY CsReads
<1>3. w \in 1 .. Len(input) /\ w \in Nat /\ w .. w - 1 = {}
  BY <1>2
<1>4. Cs' = Cs /\ Upto' = w /\ Open' = {} /\ Lexed' = Lexed
  BY <1>1 DEF Cs, Upto, Open, Lexed
<1>5. Covered(input, lexemes, Lexed) /\ TokensSay(input, Cs, lexemes)
  BY <1>1, Zenon DEF Walked
<1>6. WordBegun(input, Cs, w, w)
  BY <1>3 DEF WordBegun
<1>7. PartsRead(input, Cs, w, w, <<>>)
  BY <1>3, NoParts DEF WordStart
<1>8. mode' # "Between" /\ mode' # "Quotes" /\ start' = pos
  OBVIOUS
<1>9. InTheWord'
  BY <1>4, <1>6, <1>7 DEF InTheWord
<1>10. Walked'
  BY <1>4, <1>5, <1>8, <1>9 DEF Walked
<1> QED
  BY <1>1, <1>10 DEF WalkInv, Found, Lexing

-----------------------------------------------------------------------------
(* Targets.                                                                *)

(* Blanks are between a ">" and its target.                                *)
LEMMA TargetPlaces ==
  ASSUME NEW s, NEW cs, Reads(s, cs), NEW g \in 1 .. Len(s), Is(s, cs, g, "Bare", ">"), cs[g + 1] = "Bare"
  PROVE  LET a == TargetStart(s, g) IN
           /\ a \in g + 1 .. Len(s) + 1 /\ cs[a] = "Bare" /\ ByteAt(s, a) \notin Blank
           /\ \A m \in g + 1 .. a - 1 : Untroubled(s, cs, m) /\ m \notin Greaters(s, cs)
           /\ Terminates(s, cs, a - 1)
<1> DEFINE a == TargetStart(s, g)
<1>0. s \in Seq(Byte) /\ Len(s) \in Nat /\ g \in Nat /\ g + 1 \in 1 .. Len(s) + 1 /\ DOMAIN s = 1 .. Len(s)
  BY DEF Reads
<1>1. a \in g + 1 .. Len(s) + 1 /\ (\A m \in g + 1 .. a - 1 : s[m] \in Blank) /\ ByteAt(s, a) \notin Blank
  BY <1>0, RunEnds, NoneIsNoByte DEF TargetStart
<1> HIDE DEF a
<1>2. \A m \in g + 1 .. a : cs[m] = "Bare"
  <2>1. Leaves(s, "Bare", g + 1, a)
    BY <1>1 DEF Leaves, Blank, Quoters
  <2> QED
    BY <1>0, <1>1, <2>1, StaysQuoted
<1>3. ASSUME NEW m \in g + 1 .. a - 1 PROVE Untroubled(s, cs, m) /\ m \notin Greaters(s, cs)
  <2>1. m \in 1 .. Len(s) /\ m \in g + 1 .. a
    BY <1>0, <1>1
  <2> QED
    BY <1>1, <1>2, <2>1, BlankUntroubled
<1>4. a \in g + 1 .. a
  BY <1>0, <1>1
<1>5. Terminates(s, cs, a - 1)
  <2>1. CASE a = g + 1
    <3>1. a - 1 = g
      BY <1>0, <2>1
    <3>2. ">" \in WordTerminator
      BY DEF WordTerminator, TokenEnd, None
    <3> QED
      BY <3>1, <3>2 DEF Terminates, Is
  <2>2. CASE a # g + 1
    <3>1. a - 1 \in g + 1 .. a - 1 /\ a - 1 \in g + 1 .. a /\ a - 1 \in 1 .. Len(s)
      BY <1>0, <1>1, <2>2
    <3>2. s[a - 1] \in WordTerminator
      BY <1>1, <3>1, NoneIsNoByte DEF WordTerminator, TokenEnd
    <3> QED
      BY <1>0, <1>2, <3>1, <3>2 DEF Terminates
  <2> QED
    BY <2>1, <2>2
<1> QED
  BY <1>1, <1>2, <1>3, <1>4, <1>5 DEF a

(* A target that is not there is not the null device.                      *)
LEMMA NoTarget ==
  ASSUME NEW s, NEW cs, Reads(s, cs), NEW g, NEW a \in 1 .. Len(s) + 1, TargetStart(s, g) = a,
         a = Len(s) + 1 \/ Terminates(s, cs, a)
  PROVE  TargetKind(s, cs, g) = "RedirectTarget"
<1>0. s \in Seq(Byte) /\ Len(s) \in Nat /\ a \in Nat /\ a \in a .. Len(s) + 1 /\ a .. a - 1 = {}
  BY DEF Reads
<1>1. TargetEnd(s, cs, g) = a
  BY <1>0, TargetEnds
<1>2. TextMeaning(s, cs, TargetStart(s, g), TargetEnd(s, cs, g)) = <<>>
  BY <1>0, <1>1, NoText
<1>3. Len(DevNull) # 0
  BY ClassesAssumption
<1>4. ~ToDevNull(s, cs, g)
  BY <1>2, <1>3 DEF ToDevNull
<1> QED
  BY <1>4 DEF TargetKind

-----------------------------------------------------------------------------
(* The ">" of a redirect is at its start or behind its descriptor.         *)
LEMMA GreaterHere ==
  ASSUME LexInv, NEW k \in {0, 1}, ByteAt(input, pos + k) = ">", AllDigits(input, pos, pos + k)
  PROVE  GreaterAt(input, pos) = pos + k
<1>0. pos \in Nat /\ input \in Seq(Byte) /\ pos + 0 = pos /\ ">" # None /\ ">" \notin Digit /\ pos + k \in Int
  BY CsReads DEF None, Digit
<1>1. input[pos + k] = ">"
  BY <1>0, Bytes
<1>2. CASE k = 0
  BY <1>0, <1>1, <1>2 DEF GreaterAt
<1>3. CASE k = 1
  <2>1. pos \in pos .. (pos + 1) - 1
    BY <1>0
  <2>2. input[pos] \in Digit
    BY <1>3, <2>1 DEF AllDigits
  <2> QED
    BY <1>0, <1>3, <2>2 DEF GreaterAt
<1> QED
  BY <1>2, <1>3

(* A redirect's target begins.                                             *)
LEMMA TargetBegins ==
  ASSUME LexInv, WalkInv, Between, NEW k \in {0, 1}, ByteAt(input, pos + k) = ">", AllDigits(input, pos, pos + k),
         NEW fd, fd = Descriptor(input, Cs, pos + k), NEW a, a = TargetStart(input, pos + k),
         a <= Len(input), input[a] \notin WordTerminator, ByteAt(input, (pos + k) + 1) \notin {">", "|", "(", "&"},
         mode' = "Word", start' = pos, from' = {fd}, parts' = <<>>, pos' = a,
         UNCHANGED <<input, lexemes, err, lexed>>
  PROVE  WalkInv'
<1> DEFINE g == pos + k
<1>0. /\ Reads(input, Cs) /\ Len(input) \in Nat /\ pos \in Nat /\ k \in Nat /\ g \in Nat /\ g >= pos
  BY CsReads
<1>1. Clean(input, Cs, pos, {}) /\ RedirectsRead(input, Cs, pos, {}) /\ mode = "Between"
  BY BetweenIs
<1>2. /\ g \in 1 .. Len(input) /\ g \in Greaters(input, Cs) /\ Is(input, Cs, g, "Bare", ">") /\ Cs[g + 1] = "Bare"
      /\ RedirectStart(input, Cs, g) = pos
      /\ \A m \in pos .. g : Untroubled(input, Cs, m) /\ (m # g => m \notin Greaters(input, Cs))
  BY <1>0, RedirectIs DEF Greaters
<1>3. fd = Descriptor(input, Cs, g) /\ a = TargetStart(input, g) /\ ByteAt(input, g + 1) \notin {">", "|", "(", "&"}
  OBVIOUS
<1>4. GreaterAt(input, pos) = g
  BY GreaterHere
<1> HIDE DEF g
<1>5. /\ a \in g + 1 .. Len(input) + 1 /\ Cs[a] = "Bare"
      /\ \A m \in g + 1 .. a - 1 : Untroubled(input, Cs, m) /\ m \notin Greaters(input, Cs)
      /\ Terminates(input, Cs, a - 1)
  BY <1>0, <1>2, <1>3, TargetPlaces
<1>6. a \in pos .. Len(input)
  BY <1>0, <1>5
<1>7. WordStart(input, Cs, a)
  BY <1>5 DEF WordStart
<1>8. Clean(input, Cs, a, {})
  <2>1. \A m \in 1 .. a - 1 : m \in 1 .. pos - 1 \/ m \in pos .. g \/ m \in g + 1 .. a - 1
    BY <1>0, <1>5
  <2> QED
    BY <1>1, <1>2, <1>5, <2>1 DEF Clean, Untroubled
<1>9. RedirectsRead(input, Cs, a, {g})
  <2>1. \A m \in 1 .. a - 1 : m \in 1 .. pos - 1 \/ m \in pos .. g \/ m \in g + 1 .. a - 1
    BY <1>0, <1>5
  <2> QED
    BY <1>1, <1>2, <1>5, <2>1 DEF RedirectsRead
<1>10. RedirectBegun(input, Cs, pos, from')
  BY <1>2, <1>3, <1>4 DEF RedirectBegun
<1>11. WordAt' = a /\ Redirecting' = {g} /\ from' # {}
  BY <1>3, <1>4 DEF WordAt, Redirecting
<1> QED
  BY <1>6, <1>7, <1>8, <1>9, <1>10, <1>11, WordWalks

(* A redirect with a target, or without one where it must be.              *)
LEMMA RedirectToWalks ==
  ASSUME LexInv, WalkInv, Between, NEW k \in {0, 1}, ByteAt(input, pos + k) = ">", AllDigits(input, pos, pos + k),
         NEW fd, fd = Descriptor(input, Cs, pos + k), RedirectTo(fd, k)
  PROVE  WalkInv'
<1> DEFINE g == pos + k
           a == TargetStart(input, g)
<1>0. /\ Reads(input, Cs) /\ Len(input) \in Nat /\ pos \in Nat /\ k \in Nat /\ g \in Nat /\ g = pos + k
      /\ DOMAIN input = 1 .. Len(input)
  BY CsReads
<1>1. Peek(k + 1) \notin {">", "|", "(", "&"} /\ RedirectKind(input, Cs, g) = TargetKind(input, Cs, g)
      /\ Peek(k + 1) = ByteAt(input, g + 1)
  BY ShortKinds DEF RedirectTo
<1>2. RunEnd(input, pos + k + 1, Blank) = a
  <2>1. pos + k + 1 = (pos + k) + 1
    BY <1>0
  <2> QED
    BY <2>1 DEF TargetStart
<1>3. IF a > Len(input) \/ input[a] \in WordTerminator
      THEN Fail("RedirectTarget", pos)
      ELSE /\ mode' = "Word" /\ start' = pos /\ from' = {fd}
           /\ parts' = <<>> /\ pos' = a
           /\ UNCHANGED <<input, opened, inner, lexemes, err, lexed>>
  BY <1>2 DEF RedirectTo
<1>4. g \in 1 .. Len(input) /\ g \in Greaters(input, Cs) /\ Cs[g + 1] = "Bare"
  BY <1>0, RedirectIs
<1>5. fd = Descriptor(input, Cs, g) /\ a = TargetStart(input, g)
  OBVIOUS
<1> HIDE DEF g, a
<1>6. a \in g + 1 .. Len(input) + 1 /\ Cs[a] = "Bare"
  BY <1>0, <1>4, <1>5, TargetPlaces DEF Greaters
<1>7. a \in 1 .. Len(input) + 1
  BY <1>0, <1>6
<1>8. CASE a > Len(input) \/ input[a] \in WordTerminator
  <2>1. a = Len(input) + 1 \/ Terminates(input, Cs, a)
    BY <1>0, <1>6, <1>7, <1>8 DEF Terminates
  <2>2. RedirectKind(input, Cs, g) = "RedirectTarget"
    BY <1>0, <1>1, <1>5, <1>7, <2>1, NoTarget
  <2>3. "RedirectTarget" \notin Accepted /\ Fail("RedirectTarget", pos)
    BY <1>3, <1>8 DEF Accepted
  <2> QED
    BY <1>0, <2>2, <2>3, RedirectFails
<1>9. CASE ~(a > Len(input) \/ input[a] \in WordTerminator)
  <2>1. a <= Len(input) /\ input[a] \notin WordTerminator
    BY <1>0, <1>7, <1>9
  <2> QED
    BY <1>0, <1>1, <1>3, <1>5, <1>9, <2>1, TargetBegins
<1> QED
  BY <1>8, <1>9

(* A redirect of at most one digit.                                        *)
LEMMA RedirectWalks ==
  ASSUME LexInv, WalkInv, Between, NEW k \in {0, 1}, ByteAt(input, pos + k) = ">", AllDigits(input, pos, pos + k),
         NEW fd, fd = (IF k = 0 THEN "1" ELSE input[pos]), Redirect(fd, k)
  PROVE  WalkInv'
<1>1. fd = Descriptor(input, Cs, pos + k)
  <2>1. k \in Nat /\ pos \in Nat /\ (pos + 1) - 1 = pos
    BY CsReads
  <2>2. Descriptor(input, Cs, pos + k) = IF k = 0 THEN "1" ELSE input[(pos + k) - 1]
    BY <2>1, RedirectIs
  <2> QED
    BY <2>1, <2>2
<1> QED
  BY <1>1, NoRedirectWalks, DupWalks, RedirectToWalks DEF Redirect

(* A redirect without a descriptor.                                        *)
LEMMA GreaterWalks == LexInv /\ WalkInv /\ Greater => WalkInv'
<1>1. SUFFICES ASSUME LexInv, WalkInv, Greater PROVE WalkInv'
  OBVIOUS
<1>2. Between /\ Peek(0) = ">" /\ Redirect("1", 0)
  BY <1>1, Zenon DEF Greater
<1>3. pos \in Nat /\ pos + 0 = pos /\ 0 \in {0, 1} /\ pos .. (pos + 0) - 1 = {}
  BY <1>1, CsReads
<1>4. ByteAt(input, pos + 0) = ">" /\ AllDigits(input, pos, pos + 0)
  BY <1>2, <1>3 DEF Peek, AllDigits
<1>5. "1" = IF 0 = 0 THEN "1" ELSE input[pos]
  OBVIOUS
<1> QED
  BY <1>1, <1>2, <1>3, <1>4, <1>5, RedirectWalks

(* How many digits are next.                                               *)
LEMMA DigitsAre ==
  ASSUME LexInv
  PROVE  /\ Digits \in Nat /\ AllDigits(input, pos, pos + Digits) /\ pos + Digits \in pos .. Len(input) + 1
         /\ ByteAt(input, pos + Digits) \notin Digit
         /\ Peek(Digits) = ByteAt(input, pos + Digits)
<1>0. input \in Seq(Byte) /\ Len(input) \in Nat /\ pos \in Nat /\ pos \in 1 .. Len(input) + 1
  BY CsReads
<1> DEFINE e == RunEnd(input, pos, Digit)
<1>1. e \in pos .. Len(input) + 1 /\ (\A m \in pos .. e - 1 : input[m] \in Digit) /\ ByteAt(input, e) \notin Digit
  BY <1>0, RunEnds, NoneIsNoByte
<1> HIDE DEF e
<1>2. Digits = e - pos
  BY DEF Digits, e
<1>3. Digits \in Nat /\ pos + Digits = e
  BY <1>0, <1>1, <1>2
<1> QED
  BY <1>1, <1>3 DEF Peek, AllDigits

(* A redirect with a descriptor.                                           *)
LEMMA IoNumberWalks == LexInv /\ WalkInv /\ IoNumber => WalkInv'
<1>1. SUFFICES ASSUME LexInv, WalkInv, IoNumber PROVE WalkInv'
  OBVIOUS
<1>2. Between /\ Digits > 0 /\ Peek(Digits) = ">"
      /\ IF Digits > 1 THEN Fail("MultiDigitFd", pos) ELSE Redirect(Peek(0), 1)
  BY <1>1, Zenon DEF IoNumber
<1>3. /\ Digits \in Nat /\ AllDigits(input, pos, pos + Digits) /\ ByteAt(input, pos + Digits) = ">"
      /\ pos \in Nat /\ Peek(0) = input[pos]
  BY <1>1, <1>2, DigitsAre, CsReads, BetweenIs
<1>4. CASE Digits > 1
  <2>1. RedirectStart(input, Cs, pos + Digits) = pos
    BY <1>1, <1>2, <1>3, RedirectIs
  <2>2. (pos + Digits) - RedirectStart(input, Cs, pos + Digits) > 1
    BY <1>3, <1>4, <2>1
  <2>3. RedirectKind(input, Cs, pos + Digits) = "MultiDigitFd"
    BY <2>2, KindsAre
  <2>4. "MultiDigitFd" \notin Accepted /\ Fail("MultiDigitFd", pos)
    BY <1>2, <1>4 DEF Accepted
  <2> QED
    BY <1>1, <1>2, <1>3, <2>3, <2>4, RedirectFails
<1>5. CASE ~(Digits > 1)
  <2>1. Digits = 1
    BY <1>2, <1>3, <1>5
  <2>2. /\ 1 \in {0, 1} /\ ByteAt(input, pos + 1) = ">" /\ AllDigits(input, pos, pos + 1)
        /\ Redirect(input[pos], 1) /\ input[pos] = IF 1 = 0 THEN "1" ELSE input[pos]
    BY <1>2, <1>3, <1>5, <2>1
  <2> QED
    BY <1>1, <1>2, <2>2, RedirectWalks
<1> QED
  BY <1>4, <1>5

-----------------------------------------------------------------------------
(* A word begins.                                                          *)
LEMMA StartWordWalks == LexInv /\ WalkInv /\ StartWord => WalkInv'
<1>1. SUFFICES ASSUME LexInv, WalkInv, StartWord PROVE WalkInv'
  OBVIOUS
<1>2. Between /\ Peek(0) \notin WordTerminator /\ ~(Digits > 0 /\ Peek(Digits) = ">")
  BY <1>1, Zenon DEF StartWord
<1>3. /\ mode' = "Word" /\ start' = pos /\ from' = {} /\ parts' = <<>> /\ pos' = pos
      /\ UNCHANGED <<input, lexemes, err, lexed>>
  BY <1>1, Zenon DEF StartWord
<1>4. /\ Lexing /\ mode = "Between" /\ pos \in 1 .. Len(input) /\ Peek(0) = input[pos]
      /\ ByteAt(input, pos) = input[pos] /\ input[pos] \in Byte
      /\ Boundary(input, Cs, pos) /\ Cs[pos] = "Bare"
      /\ Clean(input, Cs, pos, {}) /\ RedirectsRead(input, Cs, pos, {})
  BY <1>1, <1>2, BetweenIs
<1>5. input \in Seq(Byte) /\ Len(input) \in Nat /\ pos \in Nat /\ DOMAIN input = 1 .. Len(input)
  BY <1>1, CsReads
<1>6. WordStart(input, Cs, pos)
  <2>1. ByteAt(input, pos) \notin WordTerminator \cup {None}
    BY <1>2, <1>4 DEF Byte
  <2> QED
    BY <1>2, <1>4, <2>1 DEF Boundary, WordStart
<1>7. NoNumber(input, pos)
  <2>1. SUFFICES ASSUME NEW g \in pos + 1 .. Len(input), input[g] = ">", AllDigits(input, pos, g) PROVE FALSE
    BY DEF NoNumber
  <2>2. ByteAt(input, g) = ">" /\ ">" \notin Digit /\ g \in pos .. Len(input) + 1 /\ pos \in 1 .. Len(input) + 1
    BY <1>4, <1>5, <2>1 DEF ByteAt, Digit
  <2>3. RunEnd(input, pos, Digit) = g
    BY <1>5, <2>1, <2>2, RunEndIs, NoneIsNoByte DEF AllDigits
  <2>4. Digits > 0 /\ pos + Digits = g
    BY <1>5, <2>1, <2>3 DEF Digits
  <2> QED
    BY <1>2, <2>2, <2>4 DEF Peek
<1>8. pos \in pos .. Len(input)
  BY <1>4, <1>5
<1>9. WordAt' = pos /\ Redirecting' = {} /\ from' = {}
  BY <1>3 DEF WordAt, Redirecting
<1> QED
  BY <1>1, <1>2, <1>3, <1>4, <1>6, <1>7, <1>8, <1>9, WordWalks

-----------------------------------------------------------------------------
(* Words end.                                                              *)

(* Behind a word a token may start.                                        *)
LEMMA WordBoundary ==
  ASSUME NEW s, NEW cs, Reads(s, cs), NEW w \in 1 .. Len(s), NEW k \in w + 1 .. Len(s) + 1, WordStart(s, cs, w),
         \A m \in w .. k - 1 : ~Terminates(s, cs, m), cs[k] = "Bare",
         ByteAt(s, k) \in WordTerminator \cup {None}, ByteAt(s, k) = ">" => ~AllDigits(s, w, k)
  PROVE  Boundary(s, cs, k)
<1>0. /\ s \in Seq(Byte) /\ Len(s) \in Nat /\ w \in Nat /\ k \in Nat /\ DOMAIN s = 1 .. Len(s) /\ k \in Nat \ {0}
      /\ k - 1 \in w .. k - 1
  BY DEF Reads
<1>1. ~Terminates(s, cs, k - 1)
  BY <1>0
<1>2. /\ "&" \in WordTerminator /\ ">" \in WordTerminator /\ "|" \in WordTerminator
  BY DEF WordTerminator, TokenEnd, None
<1>3. ~Is(s, cs, k - 1, "Bare", ">") /\ ~Is(s, cs, k - 1, "Bare", "&") /\ ~Is(s, cs, k - 1, "Bare", "|")
  BY <1>1, <1>2 DEF Terminates, Is
<1>4. k \notin Seconds(s, cs)
  <2>1. ~Twice(s, cs, k)
    BY <1>3 DEF Twice
  <2> QED
    BY <1>0, <2>1, SecondsAre
<1>5. ASSUME ByteAt(s, k) = ">", RedirectStart(s, cs, k) # k PROVE FALSE
  <2> DEFINE d == RedirectStart(s, cs, k)
  <2>1. d \in 1 .. k /\ d # k /\ StartsRun(s, cs, d, k)
    BY <1>0, <1>5, RedirectStarts
  <2> HIDE DEF d
  <2>2. d \in 1 .. k - 1 /\ TokenStart(s, cs, d) /\ AllDigits(s, d, k)
    BY <1>0, <2>1 DEF StartsRun
  <2>3. CASE d > w
    <3>1. d # 1 /\ d - 1 \in w .. k - 1
      BY <1>0, <2>2, <2>3
    <3> QED
      BY <2>2, <3>1 DEF TokenStart
  <2>4. CASE d < w
    <3>1. w # 1 /\ w - 1 \in d .. k - 1
      BY <1>0, <2>2, <2>4
    <3>2. s[w - 1] \in WordTerminator /\ s[w - 1] \in Digit
      BY <2>2, <3>1 DEF WordStart, Terminates, AllDigits
    <3> QED
      BY <3>2 DEF Digit, WordTerminator, TokenEnd, Blank, None
  <2>5. CASE d = w
    BY <1>5, <2>2, <2>5
  <2> QED
    BY <1>0, <2>2, <2>3, <2>4, <2>5
<1> QED
  BY <1>3, <1>4, <1>5 DEF Boundary

(* The null device does not start with a digit.                            *)
LEMMA NoNumberedDevice ==
  ASSUME NEW s, NEW cs, Reads(s, cs), NEW w \in 1 .. Len(s), NEW k \in w + 1 .. Len(s) + 1, cs[w] = "Bare",
         Spells(TextMeaning(s, cs, w, k), DevNull)
  PROVE  ~AllDigits(s, w, k)
<1>0. Len(s) \in Nat /\ w \in Nat /\ k \in Nat /\ s[w] \in Byte
  <2>1. s[w] \in Byte
    BY NextQuoting
  <2> QED
    BY <2>1 DEF Reads
<1>1. SUFFICES ASSUME AllDigits(s, w, k) PROVE FALSE
  OBVIOUS
<1>2. s[w] \in Digit
  BY <1>0, <1>1 DEF AllDigits
<1>3. s[w] \notin Quoters /\ s[w] # "~" /\ s[w] # "/"
  BY <1>2 DEF Digit, Quoters
<1>4. Meaning(s, cs, w) = <<Lit(<<s[w]>>, FALSE)>>
  BY <1>3, MeaningOutside
<1> DEFINE l == Lit(<<s[w]>>, FALSE)
           rest == TextMeaning(s, cs, w + 1, k)
<1>5. TextMeaning(s, cs, w, k) = TextMeaning(s, cs, w, w + 1) \o rest
  <2>1. w \in 1 .. Len(s) + 1 /\ w + 1 \in w .. Len(s) + 1
    BY <1>0
  <2> QED
    BY <2>1, TextsJoin
<1>6. TextMeaning(s, cs, w, w + 1) = <<l>>
  BY <1>4, ShortTexts
<1>7. l \in Part /\ l.bytes = <<s[w]>>
  BY <1>0, LiteralIs
<1>8. rest \in Parts
  BY <1>0, TextIsParts
<1> HIDE DEF l, rest
<1>9. Len(<<l>> \o rest) = 1 + Len(rest) /\ (<<l>> \o rest)[1] = l /\ Len(rest) \in Nat
  BY <1>7, <1>8 DEF Parts
<1> DEFINE text == TextMeaning(s, cs, w, k)
<1>10. 1 \in 1 .. Len(text) /\ text[1] = l
  BY <1>5, <1>6, <1>9
<1>11. text[1].bytes = <<DevNull[1]>>
  BY <1>10 DEF Spells
<1> HIDE DEF text
<1>12. <<s[w]>> = <<DevNull[1]>>
  BY <1>7, <1>10, <1>11
<1>13. s[w] = DevNull[1]
  BY <1>12
<1> QED
  BY <1>3, <1>13, ClassesAssumption

(* What is known where a word ends.                                        *)
LEMMA WordEndIs ==
  ASSUME LexInv, WalkInv, Lexing, mode = "Word", Peek(0) \in WordTerminator \cup {None}
  PROVE  /\ Walked /\ InTheWord /\ parts \in Parts /\ Apart(parts)
         /\ WordAt \in 1 .. Len(input) /\ pos \in WordAt + 1 .. Len(input) + 1
         /\ Cs[pos] = "Bare" /\ ByteAt(input, pos) \in WordTerminator \cup {None}
         /\ pos = Len(input) + 1 \/ Terminates(input, Cs, pos)
         /\ WordStart(input, Cs, WordAt) /\ \A m \in WordAt .. pos - 1 : ~Terminates(input, Cs, m)
         /\ PartsMeaning(parts) = TextMeaning(input, Cs, WordAt, pos)
         /\ Lexed = start /\ Clean(input, Cs, pos, {}) /\ RedirectsRead(input, Cs, pos, Redirecting)
<1>1. Walked /\ InTheWord
  BY DEF WalkInv, Lexing, Walked
<1>2. /\ input \in Seq(Byte) /\ Len(input) \in Nat /\ pos \in Nat /\ pos \in 1 .. Len(input) + 1
      /\ DOMAIN input = 1 .. Len(input) /\ pos + 0 = pos
  BY CsReads
<1>3. parts \in Parts /\ parts # <<>>
  BY DEF LexInv, LexTypeOK
<1>4. WordBegun(input, Cs, WordAt, pos) /\ PartsRead(input, Cs, WordAt, pos, parts)
  BY <1>1 DEF InTheWord, Upto
<1>5. /\ WordAt <= pos /\ Cs[pos] = "Bare" /\ (WordAt = pos <=> parts = <<>>)
      /\ PartsMeaning(parts) = TextMeaning(input, Cs, WordAt, pos) /\ Apart(parts)
  BY <1>4 DEF PartsRead
<1>6. /\ WordAt \in 1 .. Len(input) /\ WordStart(input, Cs, WordAt)
      /\ \A m \in WordAt .. pos - 1 : ~Terminates(input, Cs, m)
  BY <1>4 DEF WordBegun
<1>7. pos \in WordAt + 1 .. Len(input) + 1
  BY <1>2, <1>3, <1>5, <1>6
<1>8. ByteAt(input, pos) \in WordTerminator \cup {None}
  BY <1>2 DEF Peek
<1>9. pos = Len(input) + 1 \/ Terminates(input, Cs, pos)
  <2>1. CASE pos \in 1 .. Len(input)
    <3>1. ByteAt(input, pos) = input[pos] /\ input[pos] # None
      BY <1>2, <2>1, Bytes
    <3> QED
      BY <1>2, <1>5, <1>8, <2>1, <3>1 DEF Terminates
  <2> QED
    BY <1>2, <2>1
<1>10. Lexed = start /\ Clean(input, Cs, pos, {}) /\ RedirectsRead(input, Cs, pos, Redirecting)
  BY <1>1 DEF Walked, Open, Lexed
<1> QED
  BY <1>1, <1>3, <1>5, <1>6, <1>7, <1>8, <1>9, <1>10

-----------------------------------------------------------------------------
(* A word is found.                                                        *)
LEMMA WordEndWalks ==
  ASSUME LexInv, WalkInv, Lexing, mode = "Word", Peek(0) \in WordTerminator \cup {None},
         from = {}, EmitWord(WordToken(parts))
  PROVE  WalkInv'
<1>1. /\ Walked /\ InTheWord /\ Apart(parts)
      /\ WordAt \in 1 .. Len(input) /\ pos \in WordAt + 1 .. Len(input) + 1
      /\ Cs[pos] = "Bare" /\ ByteAt(input, pos) \in WordTerminator \cup {None}
      /\ pos = Len(input) + 1 \/ Terminates(input, Cs, pos)
      /\ WordStart(input, Cs, WordAt) /\ \A m \in WordAt .. pos - 1 : ~Terminates(input, Cs, m)
      /\ PartsMeaning(parts) = TextMeaning(input, Cs, WordAt, pos)
      /\ Lexed = start /\ Clean(input, Cs, pos, {}) /\ RedirectsRead(input, Cs, pos, Redirecting)
  BY WordEndIs
<1>2. Reads(input, Cs) /\ Len(input) \in Nat /\ pos \in Nat /\ input \in Seq(Byte)
  BY CsReads
<1>3. WordAt = start /\ Redirecting = {} /\ NoNumber(input, WordAt)
  BY <1>1 DEF WordAt, Redirecting, InTheWord
<1>4. Boundary(input, Cs, pos)
  <2>1. ASSUME ByteAt(input, pos) = ">" PROVE ~AllDigits(input, WordAt, pos)
    <3>1. ">" # None
      BY DEF None
    <3>2. pos \in 1 .. Len(input) /\ input[pos] = ">"
      BY <1>2, <2>1, <3>1, Bytes
    <3>3. pos \in WordAt + 1 .. Len(input)
      BY <1>1, <1>2, <3>2
    <3> QED
      BY <1>3, <3>2, <3>3 DEF NoNumber
  <2> QED
    BY <1>1, <1>2, <2>1, WordBoundary
<1>5. Emit(WordToken(parts), start, pos) /\ mode' = "Between"
  BY DEF EmitWord
<1> DEFINE l == LexemeOf(start, pos, WordToken(parts))
<1>6. l.offset = start /\ l.end = pos /\ l.token.is = "Word" /\ l.token.parts = parts
  BY DEF LexemeOf, WordToken
<1> HIDE DEF l
<1>7. SaysItsText(input, Cs, l)
  BY <1>1, <1>3, <1>6 DEF SaysItsText
<1>8. TokenSays(input, Cs, l)
  BY <1>1, <1>6, <1>7 DEF TokenSays
<1>9. TokenSays(input, Cs, LexemeOf(Lexed, pos, WordToken(parts))) /\ Emit(WordToken(parts), Lexed, pos)
  BY <1>1, <1>5, <1>8 DEF l
<1>10. RedirectsRead(input, Cs, pos, {}) /\ mode # "Quotes"
  BY <1>1, <1>3
<1> QED
  BY <1>1, <1>2, <1>4, <1>5, <1>9, <1>10, EmitWalks

(* What a redirect is by its target.                                       *)
LEMMA TargetIs ==
  ASSUME LexInv, WalkInv, Lexing, mode = "Word", Peek(0) \in WordTerminator \cup {None}, from # {}
  PROVE  LET g == GreaterAt(input, start) IN
           /\ g \in Greaters(input, Cs) /\ RedirectStart(input, Cs, g) = start /\ start < pos
           /\ RedirectEnd(input, Cs, g) = pos /\ from = {Descriptor(input, Cs, g)}
           /\ IsDevNull(parts) <=> Spells(TextMeaning(input, Cs, WordAt, pos), DevNull)
           /\ RedirectKind(input, Cs, g) =
                IF ~IsDevNull(parts) THEN "RedirectTarget"
                ELSE IF Descriptor(input, Cs, g) = "1" THEN "OutDevNull"
                ELSE IF Descriptor(input, Cs, g) = "2" THEN "ErrDevNull"
                ELSE "RedirectDescriptor"
<1> DEFINE g == GreaterAt(input, start)
<1>1. /\ Walked /\ InTheWord /\ parts \in Parts
      /\ WordAt \in 1 .. Len(input) /\ pos \in WordAt + 1 .. Len(input) + 1
      /\ pos = Len(input) + 1 \/ Terminates(input, Cs, pos)
      /\ \A m \in WordAt .. pos - 1 : ~Terminates(input, Cs, m)
      /\ PartsMeaning(parts) = TextMeaning(input, Cs, WordAt, pos)
  BY WordEndIs
<1>2. /\ Reads(input, Cs) /\ Len(input) \in Nat /\ pos \in Nat /\ input \in Seq(Byte)
      /\ DOMAIN input = 1 .. Len(input) /\ start \in Nat
  <2>1. start \in 1 .. Len(input) + 1
    BY DEF LexInv, LexTypeOK
  <2> QED
    BY <2>1, CsReads
<1>3. /\ g \in {start, start + 1} /\ g \in 1 .. Len(input) /\ g < pos
      /\ input[g] = ">" /\ Cs[g] = "Bare"
      /\ RedirectStart(input, Cs, g) = start
      /\ ByteAt(input, g + 1) \notin {">", "|", "(", "&"}
      /\ from = {Descriptor(input, Cs, g)}
  BY <1>1, ReadingIs
<1>4. TargetStart(input, g) = WordAt
  BY DEF WordAt
<1> HIDE DEF g
<1>5. TargetEnd(input, Cs, g) = pos
  <2>1. WordAt \in 1 .. Len(input) + 1 /\ pos \in WordAt .. Len(input) + 1
    BY <1>1, <1>2
  <2> QED
    BY <1>1, <1>2, <1>4, <2>1, TargetEnds
<1>6. IsDevNull(parts) <=> Spells(TextMeaning(input, Cs, WordAt, pos), DevNull)
  BY <1>1, NullDevice
<1>7. ToDevNull(input, Cs, g) <=> IsDevNull(parts)
  <2> DEFINE text == TextMeaning(input, Cs, WordAt, pos)
  <2>1. text \in Parts
    <3>1. WordAt \in 1 .. Len(input) + 1 /\ pos \in WordAt .. Len(input) + 1
      BY <1>1, <1>2
    <3> QED
      BY <1>2, <3>1, TextIsParts
  <2>2. ToDevNull(input, Cs, g) <=>
          /\ Len(text) = Len(DevNull)
          /\ \A m \in DOMAIN text : text[m].kind = "Lit" /\ text[m].bytes = <<DevNull[m]>>
    BY <1>4, <1>5 DEF ToDevNull
  <2> HIDE DEF text
  <2>3. DOMAIN text = 1 .. Len(text)
    BY <2>1 DEF Parts
  <2>4. ToDevNull(input, Cs, g) <=> Spells(text, DevNull)
    BY <2>2, <2>3 DEF Spells
  <2> QED
    BY <1>6, <2>4 DEF text
<1>8. RedirectKind(input, Cs, g) = TargetKind(input, Cs, g)
  <2>1. ~(g - RedirectStart(input, Cs, g) > 1)
    BY <1>2, <1>3
  <2> QED
    BY <1>3, <2>1, KindsAre
<1>9. RedirectEnd(input, Cs, g) = pos
  BY <1>3, <1>5 DEF RedirectEnd
<1>10. g \in Greaters(input, Cs) /\ start < pos
  BY <1>2, <1>3 DEF Greaters, Is
<1>11. RedirectKind(input, Cs, g) =
                IF ~IsDevNull(parts) THEN "RedirectTarget"
                ELSE IF Descriptor(input, Cs, g) = "1" THEN "OutDevNull"
                ELSE IF Descriptor(input, Cs, g) = "2" THEN "ErrDevNull"
                ELSE "RedirectDescriptor"
  BY <1>7, <1>8 DEF TargetKind
<1> QED
  BY <1>3, <1>6, <1>9, <1>10, <1>11 DEF g

(* A target that is wrong.                                                 *)
LEMMA TargetFails ==
  ASSUME LexInv, WalkInv, Lexing, mode = "Word", Peek(0) \in WordTerminator \cup {None}, from # {},
         NEW kind, kind = RedirectKind(input, Cs, GreaterAt(input, start)), kind \notin Accepted, Fail(kind, start)
  PROVE  WalkInv'
<1>1. Walked
  BY DEF WalkInv, Lexing
<1>2. /\ GreaterAt(input, start) \in Greaters(input, Cs)
      /\ RedirectStart(input, Cs, GreaterAt(input, start)) = start /\ start < pos
  BY TargetIs
<1>3. Finding(kind, start) \in Problems(input)
  BY <1>2, RedirectIsProblem
<1>4. Finding(kind, start).offset = start
  BY DEF Finding
<1>5. ASSUME NEW p \in Problems(input), p.offset < start PROVE p.kind \in Late
  <2>1. start \in Nat /\ pos \in Nat
    <3>1. start \in 1 .. Len(input) + 1
      BY DEF LexInv, LexTypeOK
    <3> QED
      BY <3>1, CsReads
  <2>2. p.offset \in Int
    <3>1. input \in Seq(Byte) /\ DOMAIN input = 1 .. Len(input)
      BY CsReads
    <3>2. \/ \E k \in DOMAIN input : \E what : p = Finding(what, k) /\ Trouble(input, Cs, what, k)
          \/ \E h \in Greaters(input, Cs) :
               /\ p = Finding(RedirectKind(input, Cs, h), RedirectStart(input, Cs, h))
               /\ RedirectKind(input, Cs, h) \notin Accepted
      BY <1>5, <3>1, ProblemsAre DEF Cs
    <3>3. ASSUME NEW h \in Greaters(input, Cs) PROVE RedirectStart(input, Cs, h) \in Int
      <4>1. h \in 1 .. Len(input) /\ h \in Nat \ {0}
        BY <3>1, <3>3 DEF Greaters
      <4>2. RedirectStart(input, Cs, h) \in 1 .. h
        BY <4>1, RedirectStarts
      <4> QED
        BY <4>1, <4>2
    <3> QED
      BY <3>1, <3>2, <3>3 DEF Finding
  <2>3. p.offset < pos
    BY <1>2, <1>5, <2>1, <2>2
  <2> QED
    BY <1>1, <1>5, <2>3, LateBehind
<1>6. FirstFound(input, Finding(kind, start))
  BY <1>3, <1>4, <1>5 DEF FirstFound
<1> QED
  BY <1>6, FailWalks

(* A target is found.                                                      *)
LEMMA TargetEndWalks ==
  ASSUME LexInv, WalkInv, Lexing, mode = "Word", Peek(0) \in WordTerminator \cup {None}, from # {},
         IsDevNull(parts), NEW redir \in Accepted, redir = RedirectKind(input, Cs, GreaterAt(input, start)),
         EmitWord(RedirToken(redir))
  PROVE  WalkInv'
<1> DEFINE g == GreaterAt(input, start)
<1>1. /\ WordAt \in 1 .. Len(input) /\ pos \in WordAt + 1 .. Len(input) + 1
      /\ Cs[pos] = "Bare" /\ ByteAt(input, pos) \in WordTerminator \cup {None}
      /\ WordStart(input, Cs, WordAt) /\ \A m \in WordAt .. pos - 1 : ~Terminates(input, Cs, m)
      /\ Lexed = start /\ Clean(input, Cs, pos, {}) /\ RedirectsRead(input, Cs, pos, Redirecting)
  BY WordEndIs
<1>2. Reads(input, Cs) /\ Len(input) \in Nat /\ pos \in Nat /\ input \in Seq(Byte)
  BY CsReads
<1>3. /\ g \in Greaters(input, Cs) /\ RedirectStart(input, Cs, g) = start
      /\ RedirectEnd(input, Cs, g) = pos /\ Spells(TextMeaning(input, Cs, WordAt, pos), DevNull)
  BY TargetIs
<1>4. Redirecting = {g} /\ redir = RedirectKind(input, Cs, g)
  BY DEF Redirecting
<1> HIDE DEF g
<1>5. Boundary(input, Cs, pos)
  <2>1. ~AllDigits(input, WordAt, pos)
    BY <1>1, <1>2, <1>3, NoNumberedDevice DEF WordStart
  <2> QED
    BY <1>1, <1>2, <2>1, WordBoundary
<1>6. RedirectsRead(input, Cs, pos, {})
  BY <1>1, <1>4 DEF RedirectsRead
<1>7. Emit(RedirToken(redir), start, pos) /\ mode' = "Between"
  BY DEF EmitWord
<1> DEFINE l == LexemeOf(start, pos, RedirToken(redir))
<1>8. l.offset = start /\ l.end = pos /\ l.token.is = "Redir" /\ l.token.redir = redir
  BY DEF LexemeOf, RedirToken
<1> HIDE DEF l
<1>9. SaysItsText(input, Cs, l)
  BY <1>3, <1>4, <1>8 DEF SaysItsText
<1>10. TokenSays(input, Cs, l)
  BY <1>8, <1>9 DEF TokenSays
<1>11. TokenSays(input, Cs, LexemeOf(Lexed, pos, RedirToken(redir))) /\ Emit(RedirToken(redir), Lexed, pos)
  BY <1>1, <1>7, <1>10 DEF l
<1>12. mode # "Quotes"
  OBVIOUS
<1> QED
  BY <1>1, <1>2, <1>5, <1>6, <1>7, <1>11, <1>12, EmitWalks

(* A word, or a target, ends.                                              *)
LEMMA EndWordWalks == LexInv /\ WalkInv /\ EndWord => WalkInv'
<1>1. SUFFICES ASSUME LexInv, WalkInv, EndWord PROVE WalkInv'
  OBVIOUS
<1>2. /\ Lexing /\ mode = "Word" /\ Peek(0) \in WordTerminator \cup {None}
      /\ \/ from = {} /\ EmitWord(WordToken(parts))
         \/ from # {} /\ ~IsDevNull(parts) /\ Fail("RedirectTarget", start)
         \/ from = {"1"} /\ IsDevNull(parts) /\ EmitWord(RedirToken("OutDevNull"))
         \/ from = {"2"} /\ IsDevNull(parts) /\ EmitWord(RedirToken("ErrDevNull"))
         \/ from \notin {{}, {"1"}, {"2"}} /\ IsDevNull(parts) /\ Fail("RedirectDescriptor", start)
  BY <1>1, Zenon DEF EndWord
<1>3. /\ "RedirectTarget" \notin Accepted /\ "RedirectDescriptor" \notin Accepted
      /\ "OutDevNull" \in Accepted /\ "ErrDevNull" \in Accepted
  BY DEF Accepted
<1> DEFINE fd == Descriptor(input, Cs, GreaterAt(input, start))
           kind == RedirectKind(input, Cs, GreaterAt(input, start))
<1>4. ASSUME from # {}
      PROVE  /\ from = {fd}
             /\ kind = IF ~IsDevNull(parts) THEN "RedirectTarget"
                       ELSE IF fd = "1" THEN "OutDevNull"
                       ELSE IF fd = "2" THEN "ErrDevNull"
                       ELSE "RedirectDescriptor"
  BY <1>1, <1>2, <1>4, TargetIs
<1> HIDE DEF fd, kind
<1>5. CASE from = {} /\ EmitWord(WordToken(parts))
  BY <1>1, <1>2, <1>5, WordEndWalks
<1>6. CASE from # {} /\ ~IsDevNull(parts) /\ Fail("RedirectTarget", start)
  <2>1. kind = "RedirectTarget"
    BY <1>4, <1>6
  <2> QED
    BY <1>1, <1>2, <1>3, <1>6, <2>1, TargetFails DEF kind
<1>7. CASE from = {"1"} /\ IsDevNull(parts) /\ EmitWord(RedirToken("OutDevNull"))
  <2>1. from # {}
    BY <1>7
  <2>2. kind = "OutDevNull"
    BY <1>4, <1>7, <2>1
  <2> QED
    BY <1>1, <1>2, <1>3, <1>7, <2>1, <2>2, TargetEndWalks DEF kind
<1>8. CASE from = {"2"} /\ IsDevNull(parts) /\ EmitWord(RedirToken("ErrDevNull"))
  <2>1. from # {} /\ fd = "2"
    BY <1>4, <1>8
  <2>2. kind = "ErrDevNull"
    BY <1>4, <1>8, <2>1
  <2> QED
    BY <1>1, <1>2, <1>3, <1>8, <2>1, <2>2, TargetEndWalks DEF kind
<1>9. CASE from \notin {{}, {"1"}, {"2"}} /\ IsDevNull(parts) /\ Fail("RedirectDescriptor", start)
  <2>1. from # {} /\ fd # "1" /\ fd # "2"
    BY <1>4, <1>9
  <2>2. kind = "RedirectDescriptor"
    BY <1>4, <1>9, <2>1
  <2> QED
    BY <1>1, <1>2, <1>3, <1>9, <2>1, <2>2, TargetFails DEF kind
<1> QED
  BY <1>2, <1>5, <1>6, <1>7, <1>8, <1>9

-----------------------------------------------------------------------------
(* The walk is right, always.                                              *)

(* Every step of lex keeps what is known of the walk.                      *)
LEMMA LexWalks == LexInv /\ WalkInv /\ LexNext => WalkInv'
<1>1. SUFFICES ASSUME LexInv, WalkInv, LexNext PROVE WalkInv'
  OBVIOUS
<1>2. CASE InputTooLarge \/ EndOfInput \/ NoToken \/ SkipBlank
  BY <1>1, <1>2, TooLargeWalks, EndWalks, NoTokenWalks, BlankWalks
<1>3. CASE Newline \/ Semicolon \/ Ampersand \/ Pipe
  BY <1>1, <1>3, NewlineWalks, SemicolonWalks, AmpersandWalks, PipeWalks
<1>4. CASE Greater \/ IoNumber \/ StartWord \/ EndWord
  BY <1>1, <1>4, GreaterWalks, IoNumberWalks, StartWordWalks, EndWordWalks
<1>5. CASE NoUnit \/ PlainByte \/ LeadingTilde \/ LaterTilde
  BY <1>1, <1>5, NoUnitWalks, PlainWalks, LeadingTildeWalks, LaterTildeWalks
<1>6. CASE Escape \/ SingleQuoted \/ OpenQuotes
  BY <1>1, <1>6, EscapeWalks, SingleWalks, OpenQuotesWalks
<1>7. CASE NotQuotable \/ QuotedEscape \/ Dollar \/ QuotedByte \/ CloseQuotes
  BY <1>1, <1>7, NotQuotableWalks, QuotedEscapeWalks, DollarWalks, QuotedByteWalks, CloseQuotesWalks
<1> QED
  BY <1>1, <1>2, <1>3, <1>4, <1>5, <1>6, <1>7, Zenon DEF LexNext

(* What is known of it does not depend on anything else.                   *)
LEMMA WalkStays ==
  ASSUME WalkInv, UNCHANGED <<input, pos, mode, start, opened, from, parts, inner, lexemes, lexed>>,
         lexed \/ err' = err
  PROVE  WalkInv'
<1>1. /\ Cs' = Cs /\ WordAt' = WordAt /\ Upto' = Upto /\ Open' = Open /\ Redirecting' = Redirecting
      /\ Lexed' = Lexed
  BY DEF Cs, WordAt, Upto, Open, Redirecting, Lexed
<1>2. InTheWord' = InTheWord
  BY <1>1 DEF InTheWord
<1>3. Walked' = Walked
  BY <1>1, <1>2 DEF Walked
<1>4. Found => Found'
  BY DEF Found
<1> QED
  BY <1>3, <1>4 DEF WalkInv

(* The parser does not walk: what it changes of the lexer's is the finding *)
(* after the end was reached.                                              *)
LEMMA ParserStands ==
  Parse \/ UNCHANGED vars =>
    /\ UNCHANGED <<input, pos, mode, start, opened, from, parts, inner, lexemes, lexed>>
    /\ lexed \/ err' = err
<1>1. UNCHANGED lexVars =>
        /\ UNCHANGED <<input, pos, mode, start, opened, from, parts, inner, lexemes, lexed>>
        /\ err' = err
  BY DEF lexVars
<1>2. ASSUME NEW kind, NEW offset, Parsing, Reject(kind, offset)
      PROVE  lexed /\ UNCHANGED <<input, pos, mode, start, opened, from, parts, inner, lexemes, lexed>>
  BY <1>2 DEF Parsing, Reject, token
<1>3. CASE SkipNewline \/ EndOfScript \/ StartCommand \/ ReadRedir
  BY <1>1, <1>3, Zenon DEF SkipNewline, EndOfScript, StartCommand, ReadRedir
<1>4. CASE MissingCommand
  BY <1>2, <1>4 DEF MissingCommand
<1>5. CASE ReadWord
  BY <1>1, <1>2, <1>5 DEF ReadWord, TakeWord
<1>6. CASE RedirectOnly
  BY <1>2, <1>6 DEF RedirectOnly
<1>7. CASE EndByPipe \/ EndByConnector \/ EndBySeparator
  BY <1>1, <1>7, Zenon DEF EndByPipe, EndByConnector, EndBySeparator, EndCommand
<1>8. CASE UNCHANGED vars
  BY <1>1, <1>8 DEF vars
<1> QED
  BY <1>3, <1>4, <1>5, <1>6, <1>7, <1>8, Zenon DEF Parse

(* Nothing is known yet where the walk starts.                             *)
LEMMA WalkStarts == Init => WalkInv
<1>1. SUFFICES ASSUME Init PROVE WalkInv
  OBVIOUS
<1>2. /\ pos = 1 /\ mode = "Between" /\ start = 1 /\ lexemes = <<>> /\ err = {} /\ lexed = FALSE
      /\ LexInv
  BY <1>1, LexStarts DEF Init, LexInit
<1>3. Reads(input, Cs) /\ input \in Seq(Byte) /\ DOMAIN input = 1 .. Len(input) /\ Len(input) \in Nat
  BY <1>2, CsReads
<1>4. Boundary(input, Cs, 1)
  <2>1. Cs[1] = "Bare"
    BY <1>3 DEF Reads
  <2>2. ~Is(input, Cs, 1 - 1, "Bare", ">") /\ ~Is(input, Cs, 1 - 1, "Bare", "&")
    <3>1. 1 - 1 \notin DOMAIN input
      BY <1>3
    <3> QED
      BY <3>1 DEF Is
  <2>3. 1 \notin Seconds(input, Cs)
    <3>1. ~Twice(input, Cs, 1)
      <4>1. 1 - 1 \notin DOMAIN input
        BY <1>3
      <4> QED
        BY <4>1 DEF Twice, Is
    <3> QED
      BY <1>3, <3>1, SecondsAre
  <2>4. RedirectStart(input, Cs, 1) = 1
    <3>1. RedirectStart(input, Cs, 1) \in 1 .. 1
      BY RedirectStarts
    <3> QED
      BY <3>1
  <2> QED
    BY <2>1, <2>2, <2>3, <2>4 DEF Boundary
<1>5. Clean(input, Cs, 1, Open) /\ RedirectsRead(input, Cs, 1, Redirecting) /\ Covered(input, lexemes, 1)
  BY DEF Clean, RedirectsRead, Covered
<1>6. TokensSay(input, Cs, lexemes) /\ Lexed = 1
  BY <1>2 DEF TokensSay, Lexed
<1>7. Walked
  BY <1>2, <1>4, <1>5, <1>6 DEF Walked
<1> QED
  BY <1>2, <1>7 DEF WalkInv, Found

(* So every step does.                                                     *)
LEMMA WalkStep == ParseInv /\ WalkInv /\ [Next]_vars => WalkInv'
<1>1. SUFFICES ASSUME ParseInv, WalkInv, [Next]_vars PROVE WalkInv'
  OBVIOUS
<1>2. CASE Lex
  <2>1. LexInv
    BY <1>1 DEF ParseInv
  <2> QED
    BY <1>1, <1>2, <2>1, LexWalks DEF Lex
<1>3. CASE Parse \/ UNCHANGED vars
  BY <1>1, <1>3, ParserStands, WalkStays
<1> QED
  BY <1>1, <1>2, <1>3 DEF Next, Done

(* In every reachable state the walk stands where the quoting of the bytes *)
(* says it does: the bytes behind it are clean, each is a blank or in a    *)
(* lexeme that says what they do, and the parts read of a word, of its     *)
(* double quotes and of a redirect's target say what is behind it.         *)
THEOREM WalkInvAlways == Spec => []WalkInv
<1>1. Init => WalkInv
  BY WalkStarts
<1>2. ParseInv /\ WalkInv /\ [Next]_vars => WalkInv'
  BY WalkStep
<1> QED
  BY <1>1, <1>2, ParseInvAlways, PTL DEF Spec

(* What lex reports is the first live construct outside the subset, and    *)
(* what it accepts has none, for every string of bytes.                    *)
THEOREM FirstLiveAlways == Spec => []FirstLiveConstructIsReported
<1>1. ParseInv /\ WalkInv => FirstLiveConstructIsReported
  <2>1. SUFFICES ASSUME ParseInv, WalkInv PROVE FirstLiveConstructIsReported
    OBVIOUS
  <2>2. Len(input) \in Nat
    BY <2>1, CsReads DEF ParseInv
  <2>3. Len(input) > MaxInputLen <=> ~(Len(input) <= MaxInputLen)
    <3>1. MaxInputLen \in Nat
      BY BytesAssumption
    <3> QED
      BY <2>2, <3>1
  <2> QED
    BY <2>1, <2>3 DEF WalkInv, Found, FirstFound, FirstLiveConstructIsReported
<1> QED
  BY <1>1, WalkInvAlways, ParseInvAlways, PTL

(* Where lexing ended, the lexemes are the input.                          *)
LEMMA LexemesSay == ParseInv /\ WalkInv => LexemesSayTheInput
<1>1. SUFFICES ASSUME ParseInv, WalkInv, lexed PROVE LexemesSayTheInput
  BY DEF LexemesSayTheInput
<1>2. Walked /\ mode = "Between" /\ pos = Len(input) + 1
  BY <1>1 DEF WalkInv, Found
<1>3. LexInv /\ Len(input) \in Nat
  BY <1>1, CsReads DEF ParseInv
<1>4. Covered(input, lexemes, Len(input) + 1) /\ TokensSay(input, Cs, lexemes) /\ Lexed = Len(input) + 1
  BY <1>2 DEF Walked, Lexed
<1>5. /\ lexemes \in Seq(Lexeme) /\ DOMAIN lexemes = 1 .. Len(lexemes) /\ Len(lexemes) \in Nat
      /\ \A k \in 1 .. Len(lexemes) :
           /\ lexemes[k].offset \in Nat /\ lexemes[k].end \in Nat
           /\ 1 <= lexemes[k].offset /\ lexemes[k].offset < lexemes[k].end
           /\ lexemes[k].end <= Len(input) + 1
      /\ \A k, m \in 1 .. Len(lexemes) : k < m => lexemes[k].end <= lexemes[m].offset
  <2>1. lexemes \in Seq(Lexeme) /\ DOMAIN lexemes = 1 .. Len(lexemes) /\ Len(lexemes) \in Nat
    BY <1>3 DEF LexInv
  <2>2. \A k \in 1 .. Len(lexemes) : lexemes[k] \in Lexeme
    BY <2>1
  <2>3. \A k \in 1 .. Len(lexemes) : lexemes[k].offset \in Nat /\ lexemes[k].end \in Nat
    BY <2>2 DEF Lexeme
  <2> QED
    BY <1>3, <1>4, <2>1, <2>3 DEF LexInv, LexOrdered
<1>10. Len(lexemes) \in Nat
  BY <1>5
<1> DEFINE len == Len(lexemes)
<1>11. ASSUME NEW k \in 0 .. len
       PROVE  k \in Nat /\ (k = 0 \/ k \in 1 .. len) /\ (k = len \/ k + 1 \in 1 .. len) /\ ~(len + 1 <= len)
              /\ (k + 1 > len <=> k = len)
  <2> HIDE DEF len
  <2>1. len \in Nat
    BY <1>10 DEF len
  <2> QED
    BY <1>11, <2>1
<1> DEFINE Ends(k) == IF k = 0 THEN 1 ELSE lexemes[k].end
           Starts(k) == IF k > Len(lexemes) THEN Len(input) + 1 ELSE lexemes[k].offset
<1>6. \A k \in 0 .. Len(lexemes) : Ends(k) <= Starts(k + 1)
  <2>1. SUFFICES ASSUME NEW k \in 0 .. Len(lexemes) PROVE Ends(k) <= Starts(k + 1)
    OBVIOUS
  <2>2. /\ k \in Nat /\ (k = 0 \/ k \in 1 .. Len(lexemes))
        /\ (k = Len(lexemes) \/ k + 1 \in 1 .. Len(lexemes)) /\ (k + 1 > Len(lexemes) <=> k = Len(lexemes))
    BY <1>11, <2>1
  <2>3. CASE k = 0 /\ k = Len(lexemes)
    BY <1>3, <2>2, <2>3
  <2>4. CASE k = 0 /\ k # Len(lexemes)
    BY <1>5, <2>2, <2>4
  <2>5. CASE k # 0 /\ k = Len(lexemes)
    BY <1>5, <2>2, <2>5
  <2>6. CASE k # 0 /\ k # Len(lexemes)
    <3>1. k \in 1 .. Len(lexemes) /\ k + 1 \in 1 .. Len(lexemes) /\ k < k + 1
      BY <2>2, <2>6
    <3>2. lexemes[k].end <= lexemes[k + 1].offset
      BY <1>5, <3>1
    <3> QED
      BY <2>2, <2>6, <3>2
  <2> QED
    BY <2>3, <2>4, <2>5, <2>6
<1>7. ASSUME NEW k \in 0 .. Len(lexemes), NEW m \in Ends(k) .. Starts(k + 1) - 1 PROVE input[m] \in Blank
  <2>1. /\ k \in Nat /\ (k = 0 \/ k \in 1 .. Len(lexemes))
        /\ (k = Len(lexemes) \/ k + 1 \in 1 .. Len(lexemes)) /\ (k + 1 > Len(lexemes) <=> k = Len(lexemes))
    BY <1>7, <1>11
  <2>2. Ends(k) \in Nat /\ Ends(k) >= 1
    <3>1. CASE k = 0
      BY <3>1
    <3>2. CASE k # 0
      <4>1. /\ lexemes[k].offset \in Nat /\ lexemes[k].end \in Nat
            /\ 1 <= lexemes[k].offset /\ lexemes[k].offset < lexemes[k].end
        BY <1>5, <2>1, <3>2
      <4>2. Ends(k) = lexemes[k].end
        BY <3>2
      <4> QED
        BY <4>1, <4>2
    <3> QED
      BY <3>1, <3>2
  <2>3. Starts(k + 1) \in Nat /\ Starts(k + 1) <= Len(input) + 1
    <3>1. CASE k = Len(lexemes)
      BY <1>3, <2>1, <3>1
    <3>2. CASE k # Len(lexemes)
      <4>1. k + 1 \in 1 .. Len(lexemes)
        BY <2>1, <3>2
      <4>2. /\ lexemes[k + 1].offset \in Nat /\ lexemes[k + 1].end \in Nat
            /\ lexemes[k + 1].offset < lexemes[k + 1].end /\ lexemes[k + 1].end <= Len(input) + 1
        BY <1>5, <4>1
      <4>3. lexemes[k + 1].offset <= Len(input) + 1
        BY <1>3, <4>2
      <4> QED
        BY <2>1, <3>2, <4>2, <4>3
    <3> QED
      BY <3>1, <3>2
  <2>6. m \in Int /\ Ends(k) <= m /\ m < Starts(k + 1)
    <3> HIDE DEF Ends, Starts
    <3> QED
      BY <1>7, <2>2, <2>3
  <2>4. m \in 1 .. (Len(input) + 1) - 1
    <3> HIDE DEF Ends, Starts
    <3> QED
      BY <1>3, <2>2, <2>3, <2>6
  <2>5. ASSUME NEW l \in 1 .. Len(lexemes), m \in lexemes[l].offset .. lexemes[l].end - 1 PROVE FALSE
    <3>1. /\ lexemes[l].offset <= m /\ m < lexemes[l].end /\ lexemes[l].offset \in Nat /\ lexemes[l].end \in Nat
          /\ lexemes[l].offset < lexemes[l].end /\ l \in Nat /\ 1 <= l /\ l <= Len(lexemes)
      BY <1>5, <1>10, <2>5, <2>6
    <3>2. CASE l <= k
      <4>1. k \in 1 .. Len(lexemes) /\ Ends(k) = lexemes[k].end
        BY <2>1, <3>1, <3>2
      <4>2. lexemes[l].end <= lexemes[k].end
        <5>1. CASE l = k
          BY <3>1, <5>1
        <5>2. CASE l # k
          <6>1. l < k
            BY <2>1, <3>1, <3>2, <5>2
          <6>2. /\ lexemes[l].end <= lexemes[k].offset /\ lexemes[k].offset < lexemes[k].end
                /\ lexemes[k].offset \in Nat /\ lexemes[k].end \in Nat
            BY <1>5, <2>5, <4>1, <6>1
          <6> QED
            BY <3>1, <6>2
        <5> QED
          BY <5>1, <5>2
      <4>3. lexemes[k].end \in Nat
        BY <1>5, <4>1
      <4> QED
        BY <2>6, <3>1, <4>1, <4>2, <4>3
    <3>3. CASE ~(l <= k)
      <4>1. k + 1 \in 1 .. Len(lexemes) /\ k + 1 <= l
        BY <1>10, <2>1, <3>1, <3>3
      <4>2. Starts(k + 1) = lexemes[k + 1].offset
        BY <1>10, <4>1
      <4>3. lexemes[k + 1].offset <= lexemes[l].offset
        <5>1. CASE l = k + 1
          BY <3>1, <5>1
        <5>2. CASE l # k + 1
          <6>1. k + 1 < l
            BY <2>1, <3>1, <4>1, <5>2
          <6>2. /\ lexemes[k + 1].end <= lexemes[l].offset /\ lexemes[k + 1].offset < lexemes[k + 1].end
                /\ lexemes[k + 1].offset \in Nat /\ lexemes[k + 1].end \in Nat
            BY <1>5, <2>5, <4>1, <6>1
          <6> QED
            BY <3>1, <6>2, SMTT(20)
        <5> QED
          BY <5>1, <5>2
      <4>4. lexemes[k + 1].offset \in Nat
        BY <1>5, <4>1
      <4> QED
        BY <2>6, <3>1, <4>2, <4>3, <4>4
    <3> QED
      BY <3>2, <3>3
  <2> QED
    BY <1>4, <2>4, <2>5 DEF Covered
<1>8. \A k \in DOMAIN lexemes : SaysItsText(input, Contexts(input), lexemes[k])
  BY <1>4, <1>5 DEF TokensSay, TokenSays, Cs
<1>9. \A k \in DOMAIN lexemes :
        lexemes[k].token.is = "Word" =>
          \A m \in 2 .. Len(lexemes[k].token.parts) :
            LET ps == lexemes[k].token.parts IN
              ~(ps[m].kind = "Lit" /\ ps[m - 1].kind = "Lit" /\ ps[m].quoted = ps[m - 1].quoted)
  BY <1>4, <1>5 DEF TokensSay, TokenSays, Apart, Alike
<1> QED
  BY <1>6, <1>7, <1>8, <1>9 DEF LexemesSayTheInput

(* The lexemes are the input: in order, with only blanks between, and each *)
(* says what its own bytes do under the quoting that holds there.          *)
THEOREM LexemesAlways == Spec => []LexemesSayTheInput
<1>1. ParseInv /\ WalkInv => LexemesSayTheInput
  BY LexemesSay
<1> QED
  BY <1>1, WalkInvAlways, ParseInvAlways, PTL
=============================================================================

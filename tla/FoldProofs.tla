----------------------------- MODULE FoldProofs -----------------------------
(***************************************************************************)
(* Induction without an operator as a parameter: least counterexamples and *)
(* sets closed under successor.  With it the folds of the community        *)
(* modules, which are recursive functions on sets of indices, are shown to *)
(* exist and to go through a sequence element by element.                  *)
(***************************************************************************)
EXTENDS Integers, SequencesExt, SequenceTheorems, WellFoundedInduction, TLAPS

(* Every set of numbers has a least one.                                   *)
LEMMA Least ==
  ASSUME NEW S \in SUBSET Nat, S # {}
  PROVE  \E x \in S : \A y \in S : x <= y
<1>1. PICK x \in S : \A y \in S : <<y, x>> \notin OpToRel(<, Nat)
  BY NatLessThanWellFounded, WFMin, Zenon
<1>2. \A y \in S : ~(y < x)
  BY <1>1 DEF OpToRel
<1> QED
  BY <1>2

(* A set with 0 and with n + 1 for each of its n has all numbers.          *)
LEMMA Induct ==
  ASSUME NEW S, 0 \in S, \A n \in Nat : n \in S => n + 1 \in S
  PROVE  \A n \in Nat : n \in S
<1>1. SUFFICES ASSUME Nat \ S # {} PROVE FALSE
  OBVIOUS
<1>2. Nat \ S \in SUBSET Nat
  OBVIOUS
<1>3. PICK x \in Nat \ S : \A y \in Nat \ S : x <= y
  BY <1>1, <1>2, Least
<1>4. x - 1 \in Nat /\ x - 1 \notin Nat \ S
  BY <1>3
<1> QED
  BY <1>3, <1>4

(* The greatest index of a set of indices that has n is n if none is above.*)
LEMMA GreatestIndex ==
  ASSUME NEW n \in Nat, NEW s \in SUBSET (1 .. n), n \in s
  PROVE  Max(s) = n
<1>1. \A x \in s : n >= x
  OBVIOUS
<1>2. \A x \in s : (\A y \in s : x >= y) => x = n
  BY <1>1
<1> QED
  BY <1>1, <1>2, Zenon DEF Max

(* A nonempty set of indices has a greatest one.                           *)
LEMMA GreatestOfIndices ==
  ASSUME NEW n \in Nat, NEW s \in SUBSET (1 .. n), s # {}
  PROVE  Max(s) \in s
<1> DEFINE Bounds == {b \in Nat : \A x \in s : x <= b}
<1>1. n \in Bounds /\ Bounds \in SUBSET Nat
  OBVIOUS
<1>2. PICK b \in Bounds : \A c \in Bounds : b <= c
  BY <1>1, Least
<1>3. b \in s
  <2>1. SUFFICES ASSUME b \notin s PROVE FALSE
    OBVIOUS
  <2>2. ASSUME NEW x \in s PROVE x \in Nat /\ x <= b - 1 /\ b - 1 \in Nat
    <3>1. x <= b /\ x # b /\ x \in 1 .. n
      BY <1>2, <2>1, <2>2
    <3> QED
      BY <1>2, <3>1
  <2>3. b - 1 \in Bounds
    BY <2>2
  <2> QED
    BY <1>2, <2>3
<1>4. \E x \in s : \A y \in s : x >= y
  BY <1>2, <1>3
<1> QED
  BY <1>4 DEF Max

(* One step of a fold over the indices in s.                               *)
FoldStep(G, base, seq, f, s) ==
  IF s = {} THEN base ELSE G[f[s \ {Max(s)}]][seq[Max(s)]]

HasFold(A, G, base, seq) ==
  \E f \in [SUBSET (1 .. Len(seq)) -> A] :
    \A s \in SUBSET (1 .. Len(seq)) : f[s] = FoldStep(G, base, seq, f, s)

(* The recursive function that FoldLeft evaluates exists.                  *)
LEMMA FoldExists ==
  ASSUME NEW A, NEW E, NEW G \in [A -> [E -> A]], NEW base \in A, NEW seq \in Seq(E)
  PROVE  HasFold(A, G, base, seq)
<1> DEFINE UpTo(n) == \E f \in [SUBSET (1 .. n) -> A] :
                        \A s \in SUBSET (1 .. n) : f[s] = FoldStep(G, base, seq, f, s)
           S == {n \in Nat : n <= Len(seq) => UpTo(n)}
<1>1. UpTo(0)
  <2>1. [s \in SUBSET (1 .. 0) |-> base] \in [SUBSET (1 .. 0) -> A]
    OBVIOUS
  <2>2. \A s \in SUBSET (1 .. 0) : s = {}
    OBVIOUS
  <2> QED
    BY <2>1, <2>2 DEF FoldStep
<1>2. ASSUME NEW n \in Nat, n + 1 <= Len(seq), UpTo(n) PROVE UpTo(n + 1)
  <2>1. PICK f \in [SUBSET (1 .. n) -> A] :
               \A s \in SUBSET (1 .. n) : f[s] = FoldStep(G, base, seq, f, s)
    BY <1>2
  <2> DEFINE g == [s \in SUBSET (1 .. n + 1) |->
                     IF n + 1 \in s THEN G[f[s \ {n + 1}]][seq[n + 1]] ELSE f[s]]
  <2>2. \A s \in SUBSET (1 .. n + 1) : n + 1 \notin s => s \in SUBSET (1 .. n)
    OBVIOUS
  <2>3. \A s \in SUBSET (1 .. n + 1) : s \ {n + 1} \in SUBSET (1 .. n)
    OBVIOUS
  <2>4. seq[n + 1] \in E
    BY <1>2
  <2>5. \A s \in SUBSET (1 .. n + 1) : g[s] \in A
    BY <2>1, <2>2, <2>3, <2>4
  <2>6. g \in [SUBSET (1 .. n + 1) -> A]
    BY <2>5
  <2>7. \A s \in SUBSET (1 .. n) : s \in SUBSET (1 .. n + 1) /\ n + 1 \notin s
    OBVIOUS
  <2>8. \A s \in SUBSET (1 .. n) : g[s] = f[s]
    BY <2>7
  <2> HIDE DEF g
  <2>9. ASSUME NEW s \in SUBSET (1 .. n + 1) PROVE g[s] = FoldStep(G, base, seq, g, s)
    <3>1. CASE n + 1 \in s
      <4>1. Max(s) = n + 1 /\ s # {}
        BY <3>1, GreatestIndex
      <4>2. g[s] = G[f[s \ {n + 1}]][seq[n + 1]]
        BY <3>1 DEF g
      <4>3. f[s \ {n + 1}] = g[s \ {n + 1}]
        BY <2>3, <2>8
      <4> QED
        BY <4>1, <4>2, <4>3 DEF FoldStep
    <3>2. CASE n + 1 \notin s
      <4>1. s \in SUBSET (1 .. n)
        BY <2>2, <3>2
      <4>2. g[s] = FoldStep(G, base, seq, f, s)
        BY <2>1, <2>8, <4>1
      <4>3. s \ {Max(s)} \in SUBSET (1 .. n)
        BY <4>1
      <4>4. f[s \ {Max(s)}] = g[s \ {Max(s)}]
        BY <2>8, <4>3
      <4> QED
        BY <4>2, <4>4 DEF FoldStep
    <3> QED
      BY <3>1, <3>2
  <2> QED
    BY <2>6, <2>9
<1> HIDE DEF UpTo
<1>3. 0 \in S /\ \A n \in Nat : n \in S => n + 1 \in S
  BY <1>1, <1>2
<1>4. \A n \in Nat : n \in S
  <2> HIDE DEF S
  <2> QED BY <1>3, Induct
<1>5. UpTo(Len(seq))
  BY <1>4
<1> QED
  BY <1>5 DEF UpTo, HasFold

(* The sets of indices that a fold passes are those up to some index.      *)
LEMMA IndexSets ==
  ASSUME NEW n \in Nat \ {0}
  PROVE  1 .. n # {} /\ Max(1 .. n) = n /\ (1 .. n) \ {Max(1 .. n)} = 1 .. n - 1
<1>1. n \in 1 .. n /\ 1 .. n \in SUBSET (1 .. n)
  OBVIOUS
<1>2. Max(1 .. n) = n
  BY <1>1, GreatestIndex
<1>3. (1 .. n) \ {n} = 1 .. n - 1
  OBVIOUS
<1> QED
  BY <1>1, <1>2, <1>3

(* What holds at the start and from each step to the next holds at all.    *)
LEMMA Along ==
  ASSUME NEW N \in Nat, NEW P, 0 \in P, \A k \in 1 .. N : k - 1 \in P => k \in P
  PROVE  \A k \in 0 .. N : k \in P
<1> DEFINE S == {k \in Nat : k <= N => k \in P}
<1>1. 0 \in S
  OBVIOUS
<1>2. ASSUME NEW k \in Nat, k \in S PROVE k + 1 \in S
  <2>1. SUFFICES ASSUME k + 1 <= N PROVE k + 1 \in P
    OBVIOUS
  <2>2. k \in P /\ k + 1 \in 1 .. N /\ (k + 1) - 1 = k
    BY <1>2, <2>1
  <2> QED
    BY <2>2
<1>3. \A k \in Nat : k \in S
  <2> HIDE DEF S
  <2> QED
    BY <1>1, <1>2, Induct
<1> QED
  BY <1>3

-----------------------------------------------------------------------------
(* One piece of a flattened sequence after the other, up to the N-th.      *)
Flattening(f, seqs, N) ==
  \A i \in 1 .. N : f[i] = IF i = 1 THEN seqs[i] ELSE f[i - 1] \o seqs[i]

(* It says all there is to say of them.                                    *)
LEMMA FlatteningIsOne ==
  ASSUME NEW N \in Nat, NEW seqs, NEW f, NEW g, Flattening(f, seqs, N), Flattening(g, seqs, N)
  PROVE  \A k \in 1 .. N : f[k] = g[k]
<1> DEFINE S == {k \in 0 .. N : k = 0 \/ f[k] = g[k]}
<1>1. 0 \in S
  OBVIOUS
<1>2. ASSUME NEW k \in 1 .. N, k - 1 \in S PROVE k \in S
  <2>1. k \in 0 .. N
    OBVIOUS
  <2>2. CASE k = 1
    <3>1. f[k] = seqs[k] /\ g[k] = seqs[k]
      BY <2>2 DEF Flattening
    <3> QED
      BY <2>1, <3>1
  <2>3. CASE k # 1
    <3>1. f[k] = f[k - 1] \o seqs[k] /\ g[k] = g[k - 1] \o seqs[k]
      BY <2>3 DEF Flattening
    <3>2. f[k - 1] = g[k - 1]
      BY <1>2, <2>3
    <3>3. f[k] = g[k]
      BY <3>1, <3>2, Zenon
    <3> QED
      BY <2>1, <3>3
  <2> QED
    BY <2>2, <2>3
<1>3. \A k \in 0 .. N : k \in S
  <2> HIDE DEF S
  <2> QED
    BY <1>1, <1>2, Along
<1> QED
  BY <1>3

(* The recursive function that FlattenSeq evaluates exists.                *)
LEMMA FlatteningExists ==
  ASSUME NEW A, NEW seqs \in Seq(Seq(A))
  PROVE  \E f \in [1 .. Len(seqs) -> Seq(A)] : Flattening(f, seqs, Len(seqs))
<1> DEFINE UpTo(k) ==
             \E f \in [1 .. k -> Seq(A)] :
               \A i \in 1 .. k : f[i] = IF i = 1 THEN seqs[i] ELSE f[i - 1] \o seqs[i]
           S == {k \in 0 .. Len(seqs) : UpTo(k)}
<1>1. UpTo(0)
  <2>1. [i \in 1 .. 0 |-> <<>>] \in [1 .. 0 -> Seq(A)]
    OBVIOUS
  <2>2. \A i \in 1 .. 0 : FALSE
    OBVIOUS
  <2> QED
    BY <2>1, <2>2
<1>2. ASSUME NEW k \in 1 .. Len(seqs), UpTo(k - 1) PROVE UpTo(k)
  <2>1. PICK f \in [1 .. k - 1 -> Seq(A)] :
               \A i \in 1 .. k - 1 : f[i] = IF i = 1 THEN seqs[i] ELSE f[i - 1] \o seqs[i]
    BY <1>2
  <2> DEFINE v == IF k = 1 THEN seqs[k] ELSE f[k - 1] \o seqs[k]
             g == [i \in 1 .. k |-> IF i = k THEN v ELSE f[i]]
  <2>2. v \in Seq(A)
    <3>1. seqs[k] \in Seq(A)
      OBVIOUS
    <3>2. k # 1 => f[k - 1] \in Seq(A)
      BY <2>1
    <3> QED
      BY <3>1, <3>2
  <2>k. k \in Nat /\ Len(seqs) \in Nat
    OBVIOUS
  <2>3. \A i \in 1 .. k - 1 : g[i] = f[i]
    <3> HIDE DEF v
    <3>1. \A i \in 1 .. k - 1 : i \in 1 .. k /\ i # k
      BY <2>k
    <3> QED
      BY <3>1
  <2>4. g[k] = v
    <3> HIDE DEF v
    <3>1. k \in 1 .. k
      BY <2>k
    <3> QED
      BY <3>1
  <2>5. g \in [1 .. k -> Seq(A)]
    <3> HIDE DEF v
    <3> QED
      BY <2>1, <2>2
  <2>6. ASSUME NEW i \in 1 .. k PROVE g[i] = IF i = 1 THEN seqs[i] ELSE g[i - 1] \o seqs[i]
    <3>1. CASE i = k
      <4> HIDE DEF g
      <4>1. i # 1 => g[i - 1] = f[i - 1]
        BY <2>3, <2>k, <3>1
      <4> QED
        BY <2>4, <3>1, <4>1
    <3>2. CASE i # k
      <4> HIDE DEF g
      <4>1. i \in 1 .. k - 1 /\ g[i] = f[i] /\ (i # 1 => g[i - 1] = f[i - 1])
        BY <2>3, <2>k, <3>2
      <4> QED
        BY <2>1, <4>1
    <3> QED
      BY <3>1, <3>2
  <2> HIDE DEF g
  <2> QED
    BY <2>5, <2>6
<1> HIDE DEF UpTo
<1>3. 0 \in S /\ \A k \in 1 .. Len(seqs) : k - 1 \in S => k \in S
  BY <1>1, <1>2
<1>4. \A k \in 0 .. Len(seqs) : k \in S
  <2> HIDE DEF S
  <2>1. Len(seqs) \in Nat
    OBVIOUS
  <2> QED
    BY <1>3, <2>1, Along
<1>5. UpTo(Len(seqs))
  <2>1. Len(seqs) \in 0 .. Len(seqs)
    OBVIOUS
  <2> QED
    BY <1>4, <2>1
<1> QED
  BY <1>5 DEF UpTo, Flattening

(* Flattening goes through the pieces one by one.                          *)
LEMMA FlattenedByPieces ==
  ASSUME NEW A, NEW seqs \in Seq(Seq(A)), seqs # <<>>
  PROVE  \E f \in [1 .. Len(seqs) -> Seq(A)] :
           Flattening(f, seqs, Len(seqs)) /\ FlattenSeq(seqs) = f[Len(seqs)]
<1> DEFINE IsFlat(g) == g = [i \in 1 .. Len(seqs) |-> IF i = 1 THEN seqs[i] ELSE g[i - 1] \o seqs[i]]
<1>1. PICK f \in [1 .. Len(seqs) -> Seq(A)] : Flattening(f, seqs, Len(seqs))
  BY FlatteningExists
<1>2. IsFlat(f)
  BY <1>1 DEF Flattening
<1>3. Len(seqs) # 0 /\ Len(seqs) \in Nat
  OBVIOUS
<1>4. FlattenSeq(seqs) = (CHOOSE g : IsFlat(g))[Len(seqs)]
  BY <1>3, Zenon DEF FlattenSeq
<1> HIDE DEF IsFlat
<1>5. PICK g : IsFlat(g) /\ FlattenSeq(seqs) = g[Len(seqs)]
  BY <1>2, <1>4
<1>6. Flattening(g, seqs, Len(seqs))
  BY <1>5 DEF IsFlat, Flattening
<1>7. g[Len(seqs)] = f[Len(seqs)]
  <2>1. \A k \in 1 .. Len(seqs) : g[k] = f[k]
    BY <1>1, <1>3, <1>6, FlatteningIsOne
  <2>2. Len(seqs) \in 1 .. Len(seqs)
    BY <1>3
  <2> QED
    BY <2>1, <2>2
<1> QED
  BY <1>1, <1>5, <1>7

(* Flattening keeps the type, and one piece more comes behind the others.  *)
LEMMA Flattened ==
  ASSUME NEW A, NEW seqs \in Seq(Seq(A)), NEW x \in Seq(A)
  PROVE  /\ FlattenSeq(seqs) \in Seq(A)
         /\ FlattenSeq(Append(seqs, x)) = FlattenSeq(seqs) \o x
         /\ FlattenSeq(<<>>) = <<>>
<1>1. FlattenSeq(<<>>) = <<>>
  <2>1. Len(<<>>) = 0
    OBVIOUS
  <2> QED
    BY <2>1, Zenon DEF FlattenSeq
<1>2. FlattenSeq(seqs) \in Seq(A)
  <2>1. CASE seqs = <<>>
    <3>1. <<>> \in Seq(A)
      OBVIOUS
    <3> QED
      BY <1>1, <2>1, <3>1, Zenon
  <2>2. CASE seqs # <<>>
    <3>1. PICK f \in [1 .. Len(seqs) -> Seq(A)] : FlattenSeq(seqs) = f[Len(seqs)]
      BY <2>2, FlattenedByPieces
    <3>2. Len(seqs) \in 1 .. Len(seqs)
      BY <2>2
    <3> QED
      BY <3>1, <3>2
  <2> QED
    BY <2>1, <2>2
<1> DEFINE more == Append(seqs, x)
<1>3. /\ more \in Seq(Seq(A)) /\ more # <<>> /\ Len(more) = Len(seqs) + 1 /\ Len(seqs) \in Nat
      /\ more[Len(seqs) + 1] = x /\ \A i \in 1 .. Len(seqs) : more[i] = seqs[i]
  <2> DEFINE B == Seq(A)
  <2>1. seqs \in Seq(B) /\ x \in B
    OBVIOUS
  <2> HIDE DEF B
  <2>2. Append(seqs, x) \in Seq(B) /\ Len(Append(seqs, x)) = Len(seqs) + 1 /\ Len(seqs) \in Nat
    BY <2>1
  <2>3. Append(seqs, x)[Len(seqs) + 1] = x /\ \A i \in 1 .. Len(seqs) : Append(seqs, x)[i] = seqs[i]
    BY <2>1
  <2>4. Append(seqs, x) # <<>>
    BY <2>2
  <2> QED
    BY <2>2, <2>3, <2>4 DEF B
<1> HIDE DEF more
<1>4. PICK f \in [1 .. Len(more) -> Seq(A)] :
             Flattening(f, more, Len(more)) /\ FlattenSeq(more) = f[Len(more)]
  BY <1>3, FlattenedByPieces
<1>5. FlattenSeq(more) = FlattenSeq(seqs) \o x
  <2>1. CASE seqs = <<>>
    <3>1. FlattenSeq(more) = x
      BY <1>3, <1>4, <2>1 DEF Flattening
    <3>2. <<>> \o x = x
      OBVIOUS
    <3> QED
      BY <1>1, <2>1, <3>1, <3>2, Zenon
  <2>2. CASE seqs # <<>>
    <3>1. PICK g \in [1 .. Len(seqs) -> Seq(A)] :
                 Flattening(g, seqs, Len(seqs)) /\ FlattenSeq(seqs) = g[Len(seqs)]
      BY <2>2, FlattenedByPieces
    <3>2. Flattening(f, seqs, Len(seqs))
      <4>1. ASSUME NEW i \in 1 .. Len(seqs)
            PROVE  f[i] = IF i = 1 THEN seqs[i] ELSE f[i - 1] \o seqs[i]
        <5>1. i \in 1 .. Len(more) /\ more[i] = seqs[i]
          BY <1>3
        <5>2. f[i] = IF i = 1 THEN more[i] ELSE f[i - 1] \o more[i]
          BY <1>4, <5>1, Zenon DEF Flattening
        <5> QED
          BY <5>1, <5>2, Zenon
      <4> QED
        BY <4>1, Zenon DEF Flattening
    <3>3. \A k \in 1 .. Len(seqs) : g[k] = f[k]
      BY <1>3, <3>1, <3>2, FlatteningIsOne, SMTT(60)
    <3>4. Len(seqs) # 0
      BY <2>2
    <3>5. Len(seqs) \in 1 .. Len(seqs) /\ Len(seqs) + 1 \in 1 .. Len(more) /\ Len(seqs) + 1 # 1
          /\ (Len(seqs) + 1) - 1 = Len(seqs)
      BY <1>3, <3>4
    <3>6. f[Len(seqs) + 1] = f[Len(seqs)] \o x
      BY <1>3, <1>4, <3>5, Zenon DEF Flattening
    <3>7. g[Len(seqs)] = f[Len(seqs)]
      BY <3>3, <3>5
    <3> QED
      BY <1>3, <1>4, <3>1, <3>6, <3>7, Zenon
  <2> QED
    BY <2>1, <2>2
<1> QED
  BY <1>1, <1>2, <1>5 DEF more

(* A sequence is another with one more element.                            *)
LEMMA OneMore ==
  ASSUME NEW A, NEW s \in Seq(A), NEW x \in A, NEW t, t = [i \in 1 .. Len(s) + 1 |-> t[i]],
         t[Len(s) + 1] = x, \A i \in 1 .. Len(s) : t[i] = s[i]
  PROVE  t = Append(s, x)
<1>1. Append(s, x) \in Seq(A) /\ Len(Append(s, x)) = Len(s) + 1
      /\ \A i \in 1 .. Len(s) + 1 : Append(s, x)[i] = t[i]
  OBVIOUS
<1> DEFINE u == Append(s, x)
<1>2. u = [i \in 1 .. Len(s) + 1 |-> u[i]]
  <2>1. \A v \in Seq(A) : v = [i \in 1 .. Len(v) |-> v[i]]
    OBVIOUS
  <2> QED
    BY <1>1, <2>1
<1> HIDE DEF u
<1>3. \A i \in 1 .. Len(s) + 1 : t[i] = u[i]
  BY <1>1 DEF u
<1>4. [i \in 1 .. Len(s) + 1 |-> t[i]] = [i \in 1 .. Len(s) + 1 |-> u[i]]
  BY <1>3
<1> QED
  BY <1>2, <1>4 DEF u

(* The same of what is known to be a sequence.                             *)
LEMMA OneLonger ==
  ASSUME NEW A, NEW s \in Seq(A), NEW x \in A, NEW t \in Seq(A), Len(t) = Len(s) + 1,
         t[Len(s) + 1] = x, \A i \in 1 .. Len(s) : t[i] = s[i]
  PROVE  t = Append(s, x)
<1> DEFINE u == Append(s, x)
<1>1. u \in Seq(A) /\ Len(t) = Len(u) /\ \A i \in 1 .. Len(t) : t[i] = u[i]
  OBVIOUS
<1> HIDE DEF u
<1>2. t = u
  BY <1>1, SeqEqual
<1> QED
  BY <1>2 DEF u

(* Pieces in a row are put together in any order.                          *)
LEMMA Associates ==
  ASSUME NEW A
  PROVE  \A s \in Seq(A) : \A t \in Seq(A) : \A z \in Seq(A) : (s \o t) \o z = s \o (t \o z)
<1>1. SUFFICES ASSUME NEW s \in Seq(A), NEW t \in Seq(A), NEW z \in Seq(A)
               PROVE  (s \o t) \o z = s \o (t \o z)
  OBVIOUS
<1> QED
  BY ConcatAssociative

(* Behind the last of three pieces is behind all of them, however they are *)
(* put together.                                                           *)
LEMMA BehindAll ==
  ASSUME NEW A, NEW u \in Seq(A), NEW v \in Seq(A), NEW w \in Seq(A), NEW x \in A
  PROVE  /\ u \o v \o Append(w, x) = Append(u \o v \o w, x)
         /\ u \o (v \o Append(w, x)) \o <<>> = Append(u \o v \o w, x)
         /\ u \o (v \o Append(w, x)) \o <<>> \o <<>> = Append(u \o v \o w, x)
         /\ u \o v \o w \in Seq(A)
<1> DEFINE y == Append(w, x)
<1>1. <<x>> \in Seq(A) /\ y = w \o <<x>> /\ y \in Seq(A)
  BY AppendIsConcat
<1> HIDE DEF y
<1>2. /\ u \o v \in Seq(A) /\ u \o v \o w \in Seq(A) /\ v \o y \in Seq(A)
      /\ u \o (v \o y) \in Seq(A)
  BY <1>1, ConcatProperties
<1>3. u \o v \o y = Append(u \o v \o w, x)
  <2>1. (u \o v) \o (w \o <<x>>) = ((u \o v) \o w) \o <<x>>
    BY <1>1, <1>2, ConcatAssociative
  <2>2. Append(u \o v \o w, x) = (u \o v \o w) \o <<x>>
    BY <1>2, AppendIsConcat
  <2> QED
    BY <1>1, <2>1, <2>2, Zenon
<1>4. u \o (v \o y) = u \o v \o y
  <2>1. y \in Seq(A)
    BY <1>1
  <2>2. (u \o v) \o y = u \o (v \o y)
    BY <2>1, Associates
  <2> QED
    BY <2>2
<1>5. \A s \in Seq(A) : s \o <<>> = s
  BY ConcatEmptySeq
<1>6. u \o (v \o y) \o <<>> = u \o (v \o y)
  BY <1>2, <1>5, Zenon
<1> QED
  BY <1>2, <1>3, <1>4, <1>6, Zenon DEF y

-----------------------------------------------------------------------------
(* A fold whose step is a function, one element after the other.           *)
Follows(G, base, seq, h) ==
  h[0] = base /\ \A k \in 1 .. Len(seq) : h[k] = G[h[k - 1]][seq[k]]

EndOf(G, base, seq) == CHOOSE v : \E h : Follows(G, base, seq, h) /\ v = h[Len(seq)]

(* There is one such fold only.                                            *)
LEMMA EndIsOne ==
  ASSUME NEW G, NEW base, NEW seq, Len(seq) \in Nat
  PROVE  \A h, g : Follows(G, base, seq, h) /\ Follows(G, base, seq, g) => h[Len(seq)] = g[Len(seq)]
<1> SUFFICES ASSUME NEW h, NEW g, Follows(G, base, seq, h), Follows(G, base, seq, g)
             PROVE  h[Len(seq)] = g[Len(seq)]
  OBVIOUS
<1> DEFINE S == {k \in 0 .. Len(seq) : h[k] = g[k]}
<1>1. 0 \in S
  BY DEF Follows
<1>2. ASSUME NEW k \in 1 .. Len(seq), k - 1 \in S PROVE k \in S
  <2>1. h[k] = G[h[k - 1]][seq[k]] /\ g[k] = G[g[k - 1]][seq[k]]
    BY DEF Follows
  <2>2. h[k - 1] = g[k - 1] /\ k \in 0 .. Len(seq)
    BY <1>2
  <2> QED
    BY <2>1, <2>2
<1>3. \A k \in 0 .. Len(seq) : k \in S
  <2> HIDE DEF S
  <2> QED
    BY <1>1, <1>2, Along
<1> QED
  BY <1>3

HasEnd(A, G, base, seq) ==
  \E h \in [0 .. Len(seq) -> A] : Follows(G, base, seq, h) /\ EndOf(G, base, seq) = h[Len(seq)]

(* It exists, and keeps its type.                                          *)
LEMMA EndExists ==
  ASSUME NEW A, NEW E, NEW G \in [A -> [E -> A]], NEW base \in A, NEW seq \in Seq(E)
  PROVE  HasEnd(A, G, base, seq)
<1>0. HasFold(A, G, base, seq)
  BY FoldExists, Zenon
<1>1. PICK g \in [SUBSET (1 .. Len(seq)) -> A] :
             \A s \in SUBSET (1 .. Len(seq)) : g[s] = FoldStep(G, base, seq, g, s)
  BY <1>0 DEF HasFold
<1> DEFINE h == [k \in 0 .. Len(seq) |-> g[1 .. k]]
<1>2. Len(seq) \in Nat /\ 0 \in 0 .. Len(seq) /\ Len(seq) \in 0 .. Len(seq)
  OBVIOUS
<1>3. \A k \in 0 .. Len(seq) : 1 .. k \in SUBSET (1 .. Len(seq))
  BY <1>2
<1>4. h \in [0 .. Len(seq) -> A]
  BY <1>1, <1>3
<1>5. h[0] = base
  <2>1. 1 .. 0 = {} /\ {} \in SUBSET (1 .. Len(seq))
    OBVIOUS
  <2> QED
    BY <1>1, <1>2, <2>1 DEF FoldStep
<1>6. ASSUME NEW k \in 1 .. Len(seq) PROVE h[k] = G[h[k - 1]][seq[k]]
  <2>1. k \in Nat \ {0} /\ k \in 0 .. Len(seq) /\ k - 1 \in 0 .. Len(seq)
    BY <1>2
  <2>2. g[1 .. k] = FoldStep(G, base, seq, g, 1 .. k)
    BY <1>1, <1>3, <2>1
  <2>3. FoldStep(G, base, seq, g, 1 .. k) = G[g[1 .. k - 1]][seq[k]]
    BY <2>1, IndexSets DEF FoldStep
  <2> QED
    BY <2>1, <2>2, <2>3
<1> HIDE DEF h
<1>7. Follows(G, base, seq, h)
  BY <1>5, <1>6 DEF Follows
<1>8. EndOf(G, base, seq) = h[Len(seq)]
  <2> DEFINE Is(v) == \E f : Follows(G, base, seq, f) /\ v = f[Len(seq)]
  <2>1. Is(h[Len(seq)])
    BY <1>7
  <2>2. \A v : Is(v) => v = h[Len(seq)]
    BY <1>2, <1>7, EndIsOne
  <2>3. EndOf(G, base, seq) = CHOOSE v : Is(v)
    BY Zenon DEF EndOf
  <2> HIDE DEF Is
  <2> QED
    BY <2>1, <2>2, <2>3
<1> QED
  BY <1>4, <1>7, <1>8 DEF HasEnd

(* What a fold is when nothing, or one element more, is folded.            *)
EndsOn(A, G, base, seq, x) ==
  /\ EndOf(G, base, seq) \in A
  /\ EndOf(G, base, <<>>) = base
  /\ EndOf(G, base, Append(seq, x)) = G[EndOf(G, base, seq)][x]

LEMMA EndSteps ==
  ASSUME NEW A, NEW E, NEW G \in [A -> [E -> A]], NEW base \in A, NEW seq \in Seq(E), NEW x \in E
  PROVE  EndsOn(A, G, base, seq, x)
<1> DEFINE t == Append(seq, x)
<1>1. /\ t \in Seq(E) /\ Len(t) = Len(seq) + 1 /\ Len(seq) \in Nat /\ t[Len(seq) + 1] = x
      /\ \A k \in 1 .. Len(seq) : t[k] = seq[k]
  OBVIOUS
<1> HIDE DEF t
<1>a. HasEnd(A, G, base, seq) /\ HasEnd(A, G, base, t)
  BY <1>1, EndExists, Zenon
<1>2. PICK h \in [0 .. Len(seq) -> A] : Follows(G, base, seq, h) /\ EndOf(G, base, seq) = h[Len(seq)]
  BY <1>a DEF HasEnd
<1>3. PICK g \in [0 .. Len(t) -> A] : Follows(G, base, t, g) /\ EndOf(G, base, t) = g[Len(t)]
  BY <1>a DEF HasEnd
<1>4. Follows(G, base, seq, g)
  <2>1. ASSUME NEW k \in 1 .. Len(seq) PROVE g[k] = G[g[k - 1]][seq[k]]
    <3>1. k \in 1 .. Len(t) /\ t[k] = seq[k]
      BY <1>1
    <3> QED
      BY <1>3, <3>1 DEF Follows
  <2> QED
    BY <1>3, <2>1 DEF Follows
<1>5. g[Len(seq)] = h[Len(seq)]
  <2>1. Len(seq) \in Nat
    OBVIOUS
  <2>2. \A e, f : Follows(G, base, seq, e) /\ Follows(G, base, seq, f) => e[Len(seq)] = f[Len(seq)]
    BY <2>1, EndIsOne
  <2> QED
    BY <1>2, <1>4, <2>2, Zenon
<1>6. g[Len(t)] = G[g[Len(seq)]][x]
  <2>1. Len(t) \in 1 .. Len(t) /\ Len(t) - 1 = Len(seq) /\ t[Len(t)] = x
    BY <1>1
  <2>2. g[Len(t)] = G[g[Len(t) - 1]][t[Len(t)]]
    BY <1>3, <2>1 DEF Follows
  <2> QED
    BY <2>1, <2>2
<1>7. EndOf(G, base, <<>>) = base
  <2>1. <<>> \in Seq(E) /\ Len(<<>>) = 0
    OBVIOUS
  <2>2. HasEnd(A, G, base, <<>>)
    BY <2>1, EndExists, Zenon
  <2>3. PICK f \in [0 .. Len(<<>>) -> A] : Follows(G, base, <<>>, f) /\ EndOf(G, base, <<>>) = f[Len(<<>>)]
    BY <2>2 DEF HasEnd
  <2> QED
    BY <2>1, <2>3 DEF Follows
<1>8. EndOf(G, base, seq) \in A
  <2>1. Len(seq) \in 0 .. Len(seq)
    BY <1>1
  <2> QED
    BY <1>2, <2>1
<1> QED
  BY <1>2, <1>3, <1>5, <1>6, <1>7, <1>8 DEF t, EndsOn

(* What goes on like a fold, while the type lasts, is the fold.            *)
GoesOn(A, G, base, seq, h) ==
  h[0] = base /\ \A k \in 1 .. Len(seq) : h[k - 1] \in A => h[k] = G[h[k - 1]][seq[k]]

EndsAs(G, base, seq, h) == h[Len(seq)] = EndOf(G, base, seq)

LEMMA EndIs ==
  ASSUME NEW A, NEW E, NEW G \in [A -> [E -> A]], NEW base \in A, NEW seq \in Seq(E), NEW h,
         GoesOn(A, G, base, seq, h)
  PROVE  EndsAs(G, base, seq, h)
<1>0. HasEnd(A, G, base, seq)
  BY EndExists, Zenon
<1>1. PICK g \in [0 .. Len(seq) -> A] : Follows(G, base, seq, g) /\ EndOf(G, base, seq) = g[Len(seq)]
  BY <1>0 DEF HasEnd
<1>2. Len(seq) \in Nat /\ Len(seq) \in 0 .. Len(seq)
  OBVIOUS
<1> DEFINE S == {k \in 0 .. Len(seq) : h[k] = g[k]}
<1>3. 0 \in S
  BY <1>1, <1>2 DEF Follows, GoesOn
<1>4. ASSUME NEW k \in 1 .. Len(seq), k - 1 \in S PROVE k \in S
  <2>1. h[k - 1] = g[k - 1] /\ k \in 0 .. Len(seq) /\ k - 1 \in 0 .. Len(seq)
    BY <1>2, <1>4
  <2>2. h[k - 1] \in A
    BY <1>1, <2>1
  <2>3. h[k] = G[h[k - 1]][seq[k]] /\ g[k] = G[g[k - 1]][seq[k]]
    BY <1>1, <2>2 DEF Follows, GoesOn
  <2> QED
    BY <2>1, <2>3
<1>5. \A k \in 0 .. Len(seq) : k \in S
  <2> HIDE DEF S
  <2> QED
    BY <1>2, <1>3, <1>4, Along
<1> QED
  BY <1>1, <1>2, <1>5 DEF EndsAs

-----------------------------------------------------------------------------
(* Behind the last of two pieces is behind both.                           *)
LEMMA BehindBoth ==
  ASSUME NEW A, NEW u \in Seq(A), NEW w \in Seq(A), NEW x \in A
  PROVE  u \o Append(w, x) = Append(u \o w, x)
<1>1. <<x>> \in Seq(A) /\ Append(w, x) = w \o <<x>> /\ u \o w \in Seq(A)
  BY AppendIsConcat, ConcatProperties
<1>2. (u \o w) \o <<x>> = u \o (w \o <<x>>)
  BY <1>1, Associates
<1>3. Append(u \o w, x) = (u \o w) \o <<x>>
  BY <1>1, AppendIsConcat
<1> QED
  BY <1>1, <1>2, <1>3, Zenon

(* One element more of a beginning, and behind what was there.             *)
LEMMA OneElementMore ==
  ASSUME NEW A, NEW u \in Seq(A), NEW s \in Seq(A), NEW k \in 1 .. Len(s)
  PROVE  u \o SubSeq(s, 1, k) = Append(u \o SubSeq(s, 1, k - 1), s[k])
<1> DEFINE t == SubSeq(s, 1, k)
           r == SubSeq(s, 1, k - 1)
           x == s[k]
<1>1. /\ t \in Seq(A) /\ r \in Seq(A) /\ Len(t) = k /\ Len(r) = k - 1 /\ x \in A
      /\ \A m \in 1 .. k : t[m] = s[m]
      /\ \A m \in 1 .. k - 1 : r[m] = s[m]
  OBVIOUS
<1> HIDE DEF t, r
<1>2. t = Append(r, x)
  <2>1. Len(t) = Len(r) + 1 /\ t[Len(r) + 1] = x /\ \A m \in 1 .. Len(r) : t[m] = r[m]
    BY <1>1
  <2> HIDE DEF x
  <2> QED
    BY <1>1, <2>1, OneLonger, Zenon
<1>3. u \o Append(r, x) = Append(u \o r, x)
  <2> HIDE DEF x
  <2> QED
    BY <1>1, BehindBoth
<1> QED
  BY <1>2, <1>3, Zenon DEF t, r, x

(* Nothing of a sequence, and all of it.                                   *)
LEMMA NoneAndAll ==
  ASSUME NEW A, NEW s \in Seq(A)
  PROVE  s \o SubSeq(s, 1, 0) = s /\ SubSeq(s, 1, Len(s)) = s
<1>1. s \o <<>> = s
  BY ConcatEmptySeq
<1>2. SubSeq(s, 1, 0) = <<>>
  OBVIOUS
<1>3. SubSeq(s, 1, Len(s)) = s
  BY SubSeqFull
<1> QED
  BY <1>1, <1>2, <1>3

(* What is not empty has a last element.                                   *)
LEMMA LastOne ==
  ASSUME NEW A, NEW s \in Seq(A), s # <<>>
  PROVE  \E r \in Seq(A) : \E x \in A : s = Append(r, x)
<1> DEFINE k == Len(s)
           r == SubSeq(s, 1, k - 1)
           x == s[k]
<1>1. /\ k \in Nat \ {0} /\ r \in Seq(A) /\ Len(r) = k - 1 /\ x \in A /\ \A m \in 1 .. k - 1 : r[m] = s[m]
  <2>1. Len(s) \in Nat /\ Len(s) # 0
    OBVIOUS
  <2>2. k \in Nat \ {0} /\ x \in A
    BY <2>1
  <2>3. k - 1 \in 0 .. k /\ r = [m \in 1 .. k - 1 |-> s[m]]
    <3> HIDE DEF x
    <3> QED
      BY <2>1
  <2>4. r \in Seq(A)
    BY <2>1, <2>3
  <2>5. Len(r) = k - 1 /\ \A m \in 1 .. k - 1 : r[m] = s[m]
    <3> HIDE DEF x, k
    <3>1. DOMAIN r = 1 .. k - 1 /\ \A m \in 1 .. k - 1 : r[m] = s[m]
      BY <2>3
    <3> HIDE DEF r
    <3> QED
      BY <2>2, <2>4, <3>1
  <2> QED
    BY <2>2, <2>4, <2>5
<1> HIDE DEF r, x
<1>2. Len(s) = Len(r) + 1 /\ s[Len(r) + 1] = x /\ \A m \in 1 .. Len(r) : s[m] = r[m]
  BY <1>1 DEF x
<1>3. s = Append(r, x)
  BY <1>1, <1>2, OneLonger, Zenon
<1> QED
  BY <1>1, <1>3
=============================================================================

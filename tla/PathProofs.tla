----------------------------- MODULE PathProofs -----------------------------
(***************************************************************************)
(* Proofs about paths, for every path: what splitting, keeping and joining *)
(* segments do, byte by byte and segment by segment, and that              *)
(* normalize_path's one pass computes the normal form, which has one       *)
(* spelling per place.  Then, for every command and every parse of it,     *)
(* that path_check passes the paths that lead where they say, and names    *)
(* the first that does not.                                                *)
(***************************************************************************)
EXTENDS Normalize, Targets, FoldProofs

(* The bytes that paths are made of.                                       *)
PathByte == Byte \cup STRING \cup {"/", "."}

(* A segment, one worth keeping, and at least one segment.                 *)
Seg == {seg \in Seq(PathByte) : \A n \in DOMAIN seg : seg[n] # "/"}

GoodSeg == {seg \in Seg : KeepSeg(seg)}

Segs == {segs \in Seq(Seg) : segs # <<>>}

(* Segments put together: slashes are inside, and one at a time.           *)
Tidy ==
  {q \in Seq(PathByte) :
     q # <<>> => /\ q[1] # "/" /\ q[Len(q)] # "/"
                 /\ \A n \in 1 .. Len(q) - 1 : q[n] = "/" => q[n + 1] # "/"}

-----------------------------------------------------------------------------
(* The steps of the three folds.                                           *)
NoSegs == <<<<>>>>

SplitStep(segs, c) ==
  IF c = "/" THEN Append(segs, <<>>) ELSE [segs EXCEPT ![Len(segs)] = Append(@, c)]

FilterStep(kept, seg) == IF KeepSeg(seg) THEN Append(kept, seg) ELSE kept

JoinStep(q, seg) == IF q = <<>> THEN seg ELSE q \o <<"/">> \o seg

(* Another byte of a segment, and another segment.                         *)
LEMMA SegSteps ==
  /\ <<>> \in Seg /\ <<>> \in Seq(Seg) /\ <<>> \in Seq(GoodSeg) /\ <<>> \in Tidy
  /\ "/" \in PathByte /\ "." \in PathByte
  /\ \A seg \in Seg, c \in PathByte : c # "/" => Append(seg, c) \in Seg
  /\ \A seg \in Seg : seg \in Seq(PathByte) /\ \A n \in 1 .. Len(seg) : seg[n] # "/"
<1>1. <<>> \in Seg /\ <<>> \in Seq(Seg) /\ <<>> \in Seq(GoodSeg) /\ <<>> \in Tidy
  BY DEF Seg, Tidy
<1>2. ASSUME NEW seg \in Seg, NEW c \in PathByte, c # "/" PROVE Append(seg, c) \in Seg
  <2>1. seg \in Seq(PathByte) /\ \A n \in 1 .. Len(seg) : seg[n] # "/"
    BY DEF Seg
  <2> DEFINE t == Append(seg, c)
  <2>2. t \in Seq(PathByte) /\ DOMAIN t = 1 .. Len(seg) + 1 /\ t[Len(seg) + 1] = c /\ Len(seg) \in Nat
        /\ \A n \in 1 .. Len(seg) : t[n] = seg[n]
    BY <2>1
  <2> HIDE DEF t
  <2>3. ASSUME NEW n \in DOMAIN t PROVE t[n] # "/"
    <3>1. n = Len(seg) + 1 \/ n \in 1 .. Len(seg)
      BY <2>2
    <3> QED
      BY <1>2, <2>1, <2>2, <3>1
  <2> QED
    BY <2>2, <2>3 DEF Seg, t
<1>3. \A seg \in Seg : seg \in Seq(PathByte) /\ \A n \in 1 .. Len(seg) : seg[n] # "/"
  BY DEF Seg
<1> QED
  BY <1>1, <1>2, <1>3 DEF PathByte

(* A step of SplitSegs: another segment, or another byte of the last one.  *)
LEMMA SplitStepTypes ==
  ASSUME NEW segs \in Segs, NEW c \in PathByte
  PROVE  /\ SplitStep(segs, c) \in Segs
         /\ \A front \in Seq(Seg), seg \in Seg :
              segs = Append(front, seg) /\ c # "/" =>
                SplitStep(segs, c) = Append(front, Append(seg, c))
<1>1. segs \in Seq(Seg) /\ segs # <<>> /\ Len(segs) \in 1 .. Len(segs)
  BY DEF Segs
<1> DEFINE j == Len(segs)
           last == Append(segs[j], c)
           t == [segs EXCEPT ![j] = last]
<1>2. CASE c = "/"
  <2>1. Append(segs, <<>>) \in Seq(Seg) /\ Append(segs, <<>>) # <<>>
    <3>1. \A x \in Seg : Append(segs, x) \in Seq(Seg) /\ Append(segs, x) # <<>>
      BY <1>1
    <3> QED
      BY <3>1, SegSteps, Zenon
  <2> QED
    BY <1>2, <2>1 DEF SplitStep, Segs
<1>3. CASE c # "/"
  <2>1. SplitStep(segs, c) = t
    BY <1>3 DEF SplitStep
  <2>2. segs[j] \in Seg /\ last \in Seg
    BY <1>1, <1>3, SegSteps
  <2> HIDE DEF last
  <2>3. t \in Seq(Seg) /\ Len(t) = Len(segs) /\ t[j] = last /\ \A n \in 1 .. j - 1 : t[n] = segs[n]
    BY <1>1, <2>2
  <2>4. t # <<>>
    <3> HIDE DEF t
    <3>1. Len(t) # 0
      BY <1>1, <2>3
    <3> QED
      BY <2>3, <3>1
  <2>5. ASSUME NEW front \in Seq(Seg), NEW seg \in Seg, segs = Append(front, seg)
        PROVE  t = Append(front, Append(seg, c))
    <3>1. Len(segs) = Len(front) + 1 /\ segs[j] = seg /\ Len(front) \in Nat
          /\ \A n \in 1 .. Len(front) : segs[n] = front[n]
      BY <2>5
    <3>2. last = Append(seg, c)
      BY <3>1 DEF last
    <3> HIDE DEF t
    <3>3. Len(t) = Len(front) + 1 /\ t[Len(front) + 1] = last /\ \A n \in 1 .. Len(front) : t[n] = front[n]
      BY <2>3, <3>1
    <3>4. t = Append(front, last)
      BY <2>2, <2>3, <3>3, OneLonger, Zenon
    <3> QED
      BY <3>2, <3>4
  <2> HIDE DEF t
  <2> QED
    BY <1>3, <2>1, <2>3, <2>4, <2>5 DEF Segs
<1> QED
  BY <1>2, <1>3

(* A step of FilterSegs.                                                   *)
LEMMA FilterStepTypes ==
  ASSUME NEW kept \in Seq(GoodSeg), NEW seg \in Seg
  PROVE  FilterStep(kept, seg) \in Seq(GoodSeg)
<1>1. CASE KeepSeg(seg)
  <2>1. seg \in GoodSeg
    BY <1>1 DEF GoodSeg
  <2> QED
    BY <1>1, <2>1 DEF FilterStep
<1>2. CASE ~KeepSeg(seg)
  BY <1>2 DEF FilterStep
<1> QED
  BY <1>1, <1>2

(* A step of JoinSegs keeps slashes inside and one at a time.              *)
LEMMA JoinStepTypes ==
  ASSUME NEW q \in Tidy, NEW seg \in GoodSeg
  PROVE  JoinStep(q, seg) \in Tidy /\ JoinStep(q, seg) # <<>>
<1>1. /\ seg \in Seq(PathByte) /\ seg # <<>> /\ Len(seg) \in Nat \ {0} /\ \A n \in 1 .. Len(seg) : seg[n] # "/"
  <2>1. seg \in Seg /\ seg # <<>>
    BY DEF GoodSeg, KeepSeg
  <2> QED
    BY <2>1, SegSteps
<1>2. CASE q = <<>>
  <2>1. seg \in Tidy
    BY <1>1 DEF Tidy
  <2> QED
    BY <1>1, <1>2, <2>1 DEF JoinStep
<1>3. CASE q # <<>>
  <2> DEFINE slash == <<"/">>
             w == q \o slash
             t == w \o seg
             m == Len(q)
  <2>1. /\ q \in Seq(PathByte) /\ m \in Nat \ {0} /\ q[1] # "/" /\ q[m] # "/"
        /\ \A n \in 1 .. m - 1 : q[n] = "/" => q[n + 1] # "/"
    BY <1>3 DEF Tidy
  <2>2. slash \in Seq(PathByte) /\ Len(slash) = 1 /\ slash[1] = "/"
    <3>1. "/" \in PathByte
      BY SegSteps
    <3> QED
      BY <3>1
  <2> HIDE DEF slash
  <2>3. w \in Seq(PathByte) /\ Len(w) = m + 1 /\ w[m + 1] = "/" /\ \A n \in 1 .. m : w[n] = q[n]
    <3>1. w \in Seq(PathByte) /\ Len(w) = m + Len(slash) /\ (\A n \in 1 .. m : w[n] = q[n])
          /\ \A n \in 1 .. Len(slash) : w[m + n] = slash[n]
      <4>1. q \in Seq(PathByte) /\ slash \in Seq(PathByte)
        BY <2>1, <2>2
      <4> QED
        BY <4>1
    <3>2. 1 \in 1 .. Len(slash)
      BY <2>2
    <3> QED
      BY <2>2, <3>1, <3>2
  <2> HIDE DEF w
  <2>4. t \in Seq(PathByte) /\ Len(t) = m + 1 + Len(seg) /\ (\A n \in 1 .. m + 1 : t[n] = w[n])
        /\ \A n \in 1 .. Len(seg) : t[m + 1 + n] = seg[n]
    BY <1>1, <2>1, <2>3
  <2> HIDE DEF t
  <2>5. /\ \A n \in 1 .. m : t[n] = q[n]
        /\ t[m + 1] = "/"
        /\ \A n \in m + 2 .. Len(t) : t[n] # "/"
    <3>1. ASSUME NEW n \in m + 2 .. Len(t) PROVE t[n] # "/"
      <4>1. n - (m + 1) \in 1 .. Len(seg) /\ m + 1 + (n - (m + 1)) = n
        BY <1>1, <2>1, <2>4
      <4> QED
        BY <1>1, <2>4, <4>1
    <3> QED
      BY <2>1, <2>3, <2>4, <3>1
  <2>6. t # <<>> /\ t[1] # "/" /\ t[Len(t)] # "/"
    <3>1. Len(t) \in m + 2 .. Len(t) /\ 1 \in 1 .. m /\ Len(t) # 0
      BY <1>1, <2>1, <2>4
    <3> QED
      BY <2>1, <2>4, <2>5, <3>1
  <2>7. ASSUME NEW n \in 1 .. Len(t) - 1, t[n] = "/" PROVE t[n + 1] # "/"
    <3>1. n \in 1 .. m - 1 \/ n = m \/ n = m + 1 \/ n \in m + 2 .. Len(t)
      BY <1>1, <2>1, <2>4
    <3>2. CASE n \in 1 .. m - 1
      BY <2>1, <2>5, <2>7, <3>2, SMTT(60)
    <3>3. CASE n = m
      <4>1. m \in 1 .. m
        BY <2>1
      <4> QED
        BY <2>1, <2>5, <2>7, <3>3, <4>1
    <3>4. CASE n = m + 1
      <4>1. n + 1 \in m + 2 .. Len(t)
        BY <1>1, <2>1, <2>4, <3>4
      <4> QED
        BY <2>5, <4>1
    <3>5. CASE n \in m + 2 .. Len(t)
      BY <2>5, <2>7, <3>5
    <3> QED
      BY <3>1, <3>2, <3>3, <3>4, <3>5
  <2>8. t \in Tidy
    BY <2>4, <2>6, <2>7 DEF Tidy
  <2>9. JoinStep(q, seg) = t
    BY <1>3 DEF JoinStep, t, w, slash
  <2> QED
    BY <2>6, <2>8, <2>9
<1> QED
  BY <1>2, <1>3




(* What the three folds keep.                                              *)
LEMMA SplitTypes ==
  /\ NoSegs \in Segs
  /\ \A segs \in Segs, c \in PathByte : SplitStep(segs, c) \in Segs
<1>1. \A seg \in Seg : <<seg>> \in Seq(Seg) /\ <<seg>> # <<>>
  OBVIOUS
<1>2. NoSegs \in Segs
  BY <1>1, SegSteps, Zenon DEF Segs, NoSegs
<1> QED
  BY <1>2, SplitStepTypes

LEMMA FilterTypes ==
  /\ <<>> \in Seq(GoodSeg)
  /\ \A kept \in Seq(GoodSeg), seg \in Seg : FilterStep(kept, seg) \in Seq(GoodSeg)
  BY FilterStepTypes

LEMMA JoinTypes ==
  /\ <<>> \in Tidy
  /\ \A q \in Tidy, seg \in GoodSeg : JoinStep(q, seg) \in Tidy
  BY SegSteps, JoinStepTypes

(* SplitSegs goes through its bytes one by one.                            *)
SplitG == [kept \in Segs |-> [x \in PathByte |-> SplitStep(kept, x)]]

LEMMA SplitRuns ==
  ASSUME NEW seq \in Seq(PathByte)
  PROVE  SplitSegs(seq) = EndOf(SplitG, NoSegs, seq)
<1> DEFINE IsIter(iter) ==
             iter = [s1 \in SUBSET DOMAIN seq |->
                       IF s1 = {} THEN NoSegs ELSE SplitStep(iter[s1 \ {Max(s1)}], seq[Max(s1)])]
<1>1. SplitG \in [Segs -> [PathByte -> Segs]] /\ NoSegs \in Segs
  BY SplitTypes DEF SplitG
<1>2. DOMAIN seq = 1 .. Len(seq) /\ Len(seq) \in Nat /\ \A j \in 1 .. Len(seq) : seq[j] \in PathByte
  OBVIOUS
<1>3. PICK g \in [SUBSET (1 .. Len(seq)) -> Segs] :
             \A s1 \in SUBSET (1 .. Len(seq)) : g[s1] = FoldStep(SplitG, NoSegs, seq, g, s1)
  <2>1. HasFold(Segs, SplitG, NoSegs, seq)
    BY <1>1, FoldExists, Zenon
  <2> QED
    BY <2>1 DEF HasFold
<1>4. \A kept \in Segs, x \in PathByte : SplitG[kept][x] = SplitStep(kept, x)
  BY DEF SplitG
<1>5. ASSUME NEW s1 \in SUBSET (1 .. Len(seq))
      PROVE  g[s1] = IF s1 = {} THEN NoSegs ELSE SplitStep(g[s1 \ {Max(s1)}], seq[Max(s1)])
  <2>1. CASE s1 = {}
    BY <1>3, <2>1 DEF FoldStep
  <2>2. CASE s1 # {}
    <3>1. Max(s1) \in 1 .. Len(seq) /\ s1 \ {Max(s1)} \in SUBSET (1 .. Len(seq))
      BY <1>2, <2>2, GreatestOfIndices
    <3>2. seq[Max(s1)] \in PathByte /\ g[s1 \ {Max(s1)}] \in Segs
      BY <1>2, <1>3, <3>1
    <3>3. g[s1] = SplitG[g[s1 \ {Max(s1)}]][seq[Max(s1)]]
      BY <1>3, <2>2 DEF FoldStep
    <3> QED
      BY <1>4, <2>2, <3>2, <3>3
  <2> QED
    BY <2>1, <2>2
<1>6. IsIter(g)
  BY <1>2, <1>3, <1>5
<1>7. SplitSegs(seq) = (CHOOSE iter : IsIter(iter))[DOMAIN seq]
  BY Zenon DEF SplitSegs, FoldLeft, MapThenFoldSet, SplitStep, NoSegs
<1> HIDE DEF IsIter
<1>8. PICK it : IsIter(it) /\ SplitSegs(seq) = it[1 .. Len(seq)]
  BY <1>2, <1>6, <1>7
<1> DEFINE h == [j \in 0 .. Len(seq) |-> it[1 .. j]]
<1>9. h[0] = NoSegs
  BY <1>2, <1>8 DEF IsIter
<1>10. ASSUME NEW j \in 1 .. Len(seq), h[j - 1] \in Segs PROVE h[j] = SplitG[h[j - 1]][seq[j]]
  <2>1. j \in Nat \ {0} /\ 1 .. j \in SUBSET DOMAIN seq /\ j \in 0 .. Len(seq) /\ j - 1 \in 0 .. Len(seq)
    BY <1>2
  <2>2. it[1 .. j] = SplitStep(it[1 .. j - 1], seq[j])
    BY <1>8, <2>1, IndexSets DEF IsIter
  <2>3. h[j] = SplitStep(h[j - 1], seq[j])
    BY <2>1, <2>2
  <2> HIDE DEF h
  <2> QED
    BY <1>2, <1>4, <1>10, <2>3
<1>11. h[Len(seq)] = SplitSegs(seq)
  BY <1>2, <1>8
<1> HIDE DEF h
<1>12. GoesOn(Segs, SplitG, NoSegs, seq, h)
  BY <1>9, <1>10 DEF GoesOn
<1>13. h[Len(seq)] = EndOf(SplitG, NoSegs, seq)
  <2>1. EndsAs(SplitG, NoSegs, seq, h)
    BY <1>1, <1>12, EndIs, Zenon
  <2> QED
    BY <2>1 DEF EndsAs
<1> QED
  BY <1>11, <1>13

(* None, and one more.                                                     *)
LEMMA SplitSteps ==
  ASSUME NEW seq \in Seq(PathByte), NEW x \in PathByte
  PROVE  /\ SplitSegs(seq) \in Segs
         /\ SplitSegs(<<>>) = NoSegs
         /\ SplitSegs(Append(seq, x)) = SplitStep(SplitSegs(seq), x)
<1> DEFINE more == Append(seq, x)
<1>1. SplitG \in [Segs -> [PathByte -> Segs]] /\ NoSegs \in Segs
  BY SplitTypes DEF SplitG
<1>2. more \in Seq(PathByte) /\ <<>> \in Seq(PathByte)
  OBVIOUS
<1> HIDE DEF more
<1>3. SplitSegs(seq) = EndOf(SplitG, NoSegs, seq) /\ SplitSegs(more) = EndOf(SplitG, NoSegs, more)
      /\ SplitSegs(<<>>) = EndOf(SplitG, NoSegs, <<>>)
  BY <1>2, SplitRuns, Zenon
<1>4. /\ EndOf(SplitG, NoSegs, seq) \in Segs
      /\ EndOf(SplitG, NoSegs, <<>>) = NoSegs
      /\ EndOf(SplitG, NoSegs, more) = SplitG[EndOf(SplitG, NoSegs, seq)][x]
  <2>1. EndsOn(Segs, SplitG, NoSegs, seq, x)
    BY <1>1, EndSteps, Zenon
  <2> QED
    BY <2>1, Zenon DEF EndsOn, more
<1>5. \A kept \in Segs, y \in PathByte : SplitG[kept][y] = SplitStep(kept, y)
  BY DEF SplitG
<1> QED
  BY <1>3, <1>4, <1>5, Zenon DEF more

(* FilterSegs goes through its segments one by one.                        *)
FilterG == [kept \in Seq(GoodSeg) |-> [x \in Seg |-> FilterStep(kept, x)]]

LEMMA FilterRuns ==
  ASSUME NEW seq \in Seq(Seg)
  PROVE  FilterSegs(seq) = EndOf(FilterG, <<>>, seq)
<1> DEFINE IsIter(iter) ==
             iter = [s1 \in SUBSET DOMAIN seq |->
                       IF s1 = {} THEN <<>> ELSE FilterStep(iter[s1 \ {Max(s1)}], seq[Max(s1)])]
<1>1. FilterG \in [Seq(GoodSeg) -> [Seg -> Seq(GoodSeg)]] /\ <<>> \in Seq(GoodSeg)
  BY FilterTypes DEF FilterG
<1>2. DOMAIN seq = 1 .. Len(seq) /\ Len(seq) \in Nat /\ \A j \in 1 .. Len(seq) : seq[j] \in Seg
  OBVIOUS
<1>3. PICK g \in [SUBSET (1 .. Len(seq)) -> Seq(GoodSeg)] :
             \A s1 \in SUBSET (1 .. Len(seq)) : g[s1] = FoldStep(FilterG, <<>>, seq, g, s1)
  <2>1. HasFold(Seq(GoodSeg), FilterG, <<>>, seq)
    BY <1>1, FoldExists, Zenon
  <2> QED
    BY <2>1 DEF HasFold
<1>4. \A kept \in Seq(GoodSeg), x \in Seg : FilterG[kept][x] = FilterStep(kept, x)
  BY DEF FilterG
<1>5. ASSUME NEW s1 \in SUBSET (1 .. Len(seq))
      PROVE  g[s1] = IF s1 = {} THEN <<>> ELSE FilterStep(g[s1 \ {Max(s1)}], seq[Max(s1)])
  <2>1. CASE s1 = {}
    BY <1>3, <2>1 DEF FoldStep
  <2>2. CASE s1 # {}
    <3>1. Max(s1) \in 1 .. Len(seq) /\ s1 \ {Max(s1)} \in SUBSET (1 .. Len(seq))
      BY <1>2, <2>2, GreatestOfIndices
    <3>2. seq[Max(s1)] \in Seg /\ g[s1 \ {Max(s1)}] \in Seq(GoodSeg)
      BY <1>2, <1>3, <3>1
    <3>3. g[s1] = FilterG[g[s1 \ {Max(s1)}]][seq[Max(s1)]]
      BY <1>3, <2>2 DEF FoldStep
    <3> QED
      BY <1>4, <2>2, <3>2, <3>3
  <2> QED
    BY <2>1, <2>2
<1>6. IsIter(g)
  BY <1>2, <1>3, <1>5
<1>7. FilterSegs(seq) = (CHOOSE iter : IsIter(iter))[DOMAIN seq]
  BY Zenon DEF FilterSegs, FoldLeft, MapThenFoldSet, FilterStep
<1> HIDE DEF IsIter
<1>8. PICK it : IsIter(it) /\ FilterSegs(seq) = it[1 .. Len(seq)]
  BY <1>2, <1>6, <1>7
<1> DEFINE h == [j \in 0 .. Len(seq) |-> it[1 .. j]]
<1>9. h[0] = <<>>
  BY <1>2, <1>8 DEF IsIter
<1>10. ASSUME NEW j \in 1 .. Len(seq), h[j - 1] \in Seq(GoodSeg) PROVE h[j] = FilterG[h[j - 1]][seq[j]]
  <2>1. j \in Nat \ {0} /\ 1 .. j \in SUBSET DOMAIN seq /\ j \in 0 .. Len(seq) /\ j - 1 \in 0 .. Len(seq)
    BY <1>2
  <2>2. it[1 .. j] = FilterStep(it[1 .. j - 1], seq[j])
    BY <1>8, <2>1, IndexSets DEF IsIter
  <2>3. h[j] = FilterStep(h[j - 1], seq[j])
    BY <2>1, <2>2
  <2> HIDE DEF h
  <2> QED
    BY <1>2, <1>4, <1>10, <2>3
<1>11. h[Len(seq)] = FilterSegs(seq)
  BY <1>2, <1>8
<1> HIDE DEF h
<1>12. GoesOn(Seq(GoodSeg), FilterG, <<>>, seq, h)
  BY <1>9, <1>10 DEF GoesOn
<1>13. h[Len(seq)] = EndOf(FilterG, <<>>, seq)
  <2>1. EndsAs(FilterG, <<>>, seq, h)
    BY <1>1, <1>12, EndIs, Zenon
  <2> QED
    BY <2>1 DEF EndsAs
<1> QED
  BY <1>11, <1>13

(* None, and one more.                                                     *)
LEMMA FilterSteps ==
  ASSUME NEW seq \in Seq(Seg), NEW x \in Seg
  PROVE  /\ FilterSegs(seq) \in Seq(GoodSeg)
         /\ FilterSegs(<<>>) = <<>>
         /\ FilterSegs(Append(seq, x)) = FilterStep(FilterSegs(seq), x)
<1> DEFINE more == Append(seq, x)
<1>1. FilterG \in [Seq(GoodSeg) -> [Seg -> Seq(GoodSeg)]] /\ <<>> \in Seq(GoodSeg)
  BY FilterTypes DEF FilterG
<1>2. more \in Seq(Seg) /\ <<>> \in Seq(Seg)
  OBVIOUS
<1> HIDE DEF more
<1>3. FilterSegs(seq) = EndOf(FilterG, <<>>, seq) /\ FilterSegs(more) = EndOf(FilterG, <<>>, more)
      /\ FilterSegs(<<>>) = EndOf(FilterG, <<>>, <<>>)
  BY <1>2, FilterRuns, Zenon
<1>4. /\ EndOf(FilterG, <<>>, seq) \in Seq(GoodSeg)
      /\ EndOf(FilterG, <<>>, <<>>) = <<>>
      /\ EndOf(FilterG, <<>>, more) = FilterG[EndOf(FilterG, <<>>, seq)][x]
  <2>1. EndsOn(Seq(GoodSeg), FilterG, <<>>, seq, x)
    BY <1>1, EndSteps, Zenon
  <2> QED
    BY <2>1, Zenon DEF EndsOn, more
<1>5. \A kept \in Seq(GoodSeg), y \in Seg : FilterG[kept][y] = FilterStep(kept, y)
  BY DEF FilterG
<1> QED
  BY <1>3, <1>4, <1>5, Zenon DEF more

(* JoinSegs goes through its segments one by one.                          *)
JoinG == [kept \in Tidy |-> [x \in GoodSeg |-> JoinStep(kept, x)]]

LEMMA JoinRuns ==
  ASSUME NEW seq \in Seq(GoodSeg)
  PROVE  JoinSegs(seq) = EndOf(JoinG, <<>>, seq)
<1> DEFINE IsIter(iter) ==
             iter = [s1 \in SUBSET DOMAIN seq |->
                       IF s1 = {} THEN <<>> ELSE JoinStep(iter[s1 \ {Max(s1)}], seq[Max(s1)])]
<1>1. JoinG \in [Tidy -> [GoodSeg -> Tidy]] /\ <<>> \in Tidy
  BY JoinTypes DEF JoinG
<1>2. DOMAIN seq = 1 .. Len(seq) /\ Len(seq) \in Nat /\ \A j \in 1 .. Len(seq) : seq[j] \in GoodSeg
  OBVIOUS
<1>3. PICK g \in [SUBSET (1 .. Len(seq)) -> Tidy] :
             \A s1 \in SUBSET (1 .. Len(seq)) : g[s1] = FoldStep(JoinG, <<>>, seq, g, s1)
  <2>1. HasFold(Tidy, JoinG, <<>>, seq)
    BY <1>1, FoldExists, Zenon
  <2> QED
    BY <2>1 DEF HasFold
<1>4. \A kept \in Tidy, x \in GoodSeg : JoinG[kept][x] = JoinStep(kept, x)
  BY DEF JoinG
<1>5. ASSUME NEW s1 \in SUBSET (1 .. Len(seq))
      PROVE  g[s1] = IF s1 = {} THEN <<>> ELSE JoinStep(g[s1 \ {Max(s1)}], seq[Max(s1)])
  <2>1. CASE s1 = {}
    BY <1>3, <2>1 DEF FoldStep
  <2>2. CASE s1 # {}
    <3>1. Max(s1) \in 1 .. Len(seq) /\ s1 \ {Max(s1)} \in SUBSET (1 .. Len(seq))
      BY <1>2, <2>2, GreatestOfIndices
    <3>2. seq[Max(s1)] \in GoodSeg /\ g[s1 \ {Max(s1)}] \in Tidy
      BY <1>2, <1>3, <3>1
    <3>3. g[s1] = JoinG[g[s1 \ {Max(s1)}]][seq[Max(s1)]]
      BY <1>3, <2>2 DEF FoldStep
    <3> QED
      BY <1>4, <2>2, <3>2, <3>3
  <2> QED
    BY <2>1, <2>2
<1>6. IsIter(g)
  BY <1>2, <1>3, <1>5
<1>7. JoinSegs(seq) = (CHOOSE iter : IsIter(iter))[DOMAIN seq]
  BY Zenon DEF JoinSegs, FoldLeft, MapThenFoldSet, JoinStep
<1> HIDE DEF IsIter
<1>8. PICK it : IsIter(it) /\ JoinSegs(seq) = it[1 .. Len(seq)]
  BY <1>2, <1>6, <1>7
<1> DEFINE h == [j \in 0 .. Len(seq) |-> it[1 .. j]]
<1>9. h[0] = <<>>
  BY <1>2, <1>8 DEF IsIter
<1>10. ASSUME NEW j \in 1 .. Len(seq), h[j - 1] \in Tidy PROVE h[j] = JoinG[h[j - 1]][seq[j]]
  <2>1. j \in Nat \ {0} /\ 1 .. j \in SUBSET DOMAIN seq /\ j \in 0 .. Len(seq) /\ j - 1 \in 0 .. Len(seq)
    BY <1>2
  <2>2. it[1 .. j] = JoinStep(it[1 .. j - 1], seq[j])
    BY <1>8, <2>1, IndexSets DEF IsIter
  <2>3. h[j] = JoinStep(h[j - 1], seq[j])
    BY <2>1, <2>2
  <2> HIDE DEF h
  <2> QED
    BY <1>2, <1>4, <1>10, <2>3
<1>11. h[Len(seq)] = JoinSegs(seq)
  BY <1>2, <1>8
<1> HIDE DEF h
<1>12. GoesOn(Tidy, JoinG, <<>>, seq, h)
  BY <1>9, <1>10 DEF GoesOn
<1>13. h[Len(seq)] = EndOf(JoinG, <<>>, seq)
  <2>1. EndsAs(JoinG, <<>>, seq, h)
    BY <1>1, <1>12, EndIs, Zenon
  <2> QED
    BY <2>1 DEF EndsAs
<1> QED
  BY <1>11, <1>13

(* None, and one more.                                                     *)
LEMMA JoinSteps ==
  ASSUME NEW seq \in Seq(GoodSeg), NEW x \in GoodSeg
  PROVE  /\ JoinSegs(seq) \in Tidy
         /\ JoinSegs(<<>>) = <<>>
         /\ JoinSegs(Append(seq, x)) = JoinStep(JoinSegs(seq), x)
<1> DEFINE more == Append(seq, x)
<1>1. JoinG \in [Tidy -> [GoodSeg -> Tidy]] /\ <<>> \in Tidy
  BY JoinTypes DEF JoinG
<1>2. more \in Seq(GoodSeg) /\ <<>> \in Seq(GoodSeg)
  OBVIOUS
<1> HIDE DEF more
<1>3. JoinSegs(seq) = EndOf(JoinG, <<>>, seq) /\ JoinSegs(more) = EndOf(JoinG, <<>>, more)
      /\ JoinSegs(<<>>) = EndOf(JoinG, <<>>, <<>>)
  BY <1>2, JoinRuns, Zenon
<1>4. /\ EndOf(JoinG, <<>>, seq) \in Tidy
      /\ EndOf(JoinG, <<>>, <<>>) = <<>>
      /\ EndOf(JoinG, <<>>, more) = JoinG[EndOf(JoinG, <<>>, seq)][x]
  <2>1. EndsOn(Tidy, JoinG, <<>>, seq, x)
    BY <1>1, EndSteps, Zenon
  <2> QED
    BY <2>1, Zenon DEF EndsOn, more
<1>5. \A kept \in Tidy, y \in GoodSeg : JoinG[kept][y] = JoinStep(kept, y)
  BY DEF JoinG
<1> QED
  BY <1>3, <1>4, <1>5, Zenon DEF more

-----------------------------------------------------------------------------
(* Splitting what is put together.                                         *)

(* A segment behind what ends with an empty one.                           *)
LEMMA SplitBehind ==
  ASSUME NEW base \in Seq(PathByte), NEW front \in Seq(Seg), SplitSegs(base) = Append(front, <<>>), NEW seg \in Seg
  PROVE  SplitSegs(base \o seg) = Append(front, seg)
<1> DEFINE Begin(j) == SubSeq(seg, 1, j)
           Is(j) == Begin(j) \in Seg /\ SplitSegs(base \o Begin(j)) = Append(front, Begin(j))
           S == {j \in 0 .. Len(seg) : Is(j)}
<1>1. seg \in Seq(PathByte) /\ Len(seg) \in Nat /\ \A n \in 1 .. Len(seg) : seg[n] # "/" /\ seg[n] \in PathByte
  BY SegSteps
<1>2. Is(0)
  <2>1. Begin(0) = <<>>
    BY <1>1
  <2>2. base \o <<>> = base
    OBVIOUS
  <2> HIDE DEF Begin
  <2> QED
    BY <2>1, <2>2, SegSteps, Zenon
<1>3. ASSUME NEW j \in 1 .. Len(seg), Is(j - 1) PROVE Is(j)
  <2> DEFINE c == seg[j]
             r == Begin(j - 1)
             w == base \o r
  <2>1. c \in PathByte /\ c # "/"
    BY <1>1
  <2>2. r \in Seg /\ SplitSegs(w) = Append(front, r)
    BY <1>3
  <2>3. /\ base \o SubSeq(seg, 1, j) = Append(base \o SubSeq(seg, 1, j - 1), seg[j])
        /\ <<>> \o SubSeq(seg, 1, j) = Append(<<>> \o SubSeq(seg, 1, j - 1), seg[j])
    <3>1. <<>> \in Seq(PathByte)
      OBVIOUS
    <3> QED
      BY <1>1, <3>1, OneElementMore, Zenon
  <2>4. base \o Begin(j) = Append(w, c) /\ Begin(j) = Append(r, c)
    <3>1. \A y \in Seq(PathByte) : <<>> \o y = y
      OBVIOUS
    <3>2. SubSeq(seg, 1, j) \in Seq(PathByte) /\ SubSeq(seg, 1, j - 1) \in Seq(PathByte)
      BY <1>1
    <3> QED
      BY <2>3, <3>1, <3>2, Zenon
  <2> HIDE DEF c, r, Begin
  <2>5. w \in Seq(PathByte)
    BY <2>2, SegSteps
  <2> HIDE DEF w
  <2>6. SplitSegs(w) \in Segs /\ SplitSegs(Append(w, c)) = SplitStep(SplitSegs(w), c)
    BY <2>1, <2>5, SplitSteps
  <2>7. SplitStep(SplitSegs(w), c) = Append(front, Append(r, c))
    BY <2>1, <2>2, <2>6, SplitStepTypes
  <2>8. Append(r, c) \in Seg
    BY <2>1, <2>2, SegSteps
  <2> QED
    BY <2>4, <2>6, <2>7, <2>8
<1>4. Is(Len(seg))
  <2> HIDE DEF Is
  <2>1. 0 \in S /\ \A j \in 1 .. Len(seg) : j - 1 \in S => j \in S
    BY <1>1, <1>2, <1>3
  <2>2. \A j \in 0 .. Len(seg) : j \in S
    <3> HIDE DEF S
    <3> QED
      BY <1>1, <2>1, Along
  <2> QED
    BY <1>1, <2>2
<1>5. Begin(Len(seg)) = seg
  BY <1>1, SubSeqFull
<1> QED
  BY <1>4, <1>5

(* A slash ends the segments before it.                                    *)
LEMMA SplitAtSlash ==
  ASSUME NEW q \in Seq(PathByte), NEW seg \in Seg
  PROVE  /\ SplitSegs(Append(q, "/")) = Append(SplitSegs(q), <<>>)
         /\ SplitSegs(q \o <<"/">> \o seg) = Append(SplitSegs(q), seg)
         /\ SplitSegs(seg) = Append(<<>>, seg)
         /\ SplitSegs(q) \in Seq(Seg)
         /\ SplitSegs(<<>>) = Append(<<>>, <<>>)
<1> DEFINE w == Append(q, "/")
<1>1. w \in Seq(PathByte) /\ w = q \o <<"/">>
  BY SegSteps, AppendIsConcat
<1>2. SplitSegs(w) = Append(SplitSegs(q), <<>>)
  <2>1. SplitSegs(w) = SplitStep(SplitSegs(q), "/")
    BY SegSteps, SplitSteps
  <2> HIDE DEF w
  <2> QED
    BY <2>1 DEF SplitStep
<1>3. SplitSegs(q) \in Seq(Seg)
  <2>1. SplitSegs(q) \in Segs
    BY SegSteps, SplitSteps
  <2> QED
    BY <2>1 DEF Segs
<1> HIDE DEF w
<1>4. SplitSegs(w \o seg) = Append(SplitSegs(q), seg)
  BY <1>1, <1>2, <1>3, SplitBehind, Zenon
<1>5. SplitSegs(<<>>) = Append(<<>>, <<>>)
  <2>1. SplitSegs(<<>>) = NoSegs
    BY SegSteps, SplitSteps
  <2>2. Append(<<>>, <<>>) = <<<<>>>>
    OBVIOUS
  <2> QED
    BY <2>1, <2>2 DEF NoSegs
<1>6. SplitSegs(<<>> \o seg) = Append(<<>>, seg)
  <2>1. <<>> \in Seq(PathByte) /\ <<>> \in Seq(Seg)
    OBVIOUS
  <2> QED
    BY <1>5, <2>1, SplitBehind, Zenon
<1>7. <<>> \o seg = seg
  BY SegSteps
<1> QED
  BY <1>1, <1>2, <1>3, <1>4, <1>5, <1>6, <1>7, Zenon DEF w

(* Nothing put together is nothing.                                        *)
LEMMA JoinNone == JoinSegs(<<>>) = <<>>
<1>1. "." \in PathByte /\ "/" \in PathByte /\ "." # "/"
  BY SegSteps
<1> DEFINE seg == <<".", ".">>
<1>2. seg \in Seq(PathByte) /\ Len(seg) = 2 /\ \A n \in DOMAIN seg : seg[n] # "/"
  BY <1>1
<1>3. seg # <<>> /\ seg # <<".">>
  OBVIOUS
<1> HIDE DEF seg
<1>4. seg \in GoodSeg
  BY <1>2, <1>3 DEF GoodSeg, Seg, KeepSeg
<1>5. <<>> \in Seq(GoodSeg)
  OBVIOUS
<1> QED
  BY <1>4, <1>5, JoinSteps, Zenon

(* The segments kept, of what is put together.                             *)
LEMMA KeptSteps ==
  ASSUME NEW q \in Seq(PathByte), NEW seg \in Seg
  PROVE  /\ Kept(q) \in Seq(GoodSeg)
         /\ Kept(<<>>) = <<>>
         /\ Kept(Append(q, "/")) = Kept(q)
         /\ Kept(q \o <<"/">> \o seg) = FilterStep(Kept(q), seg)
         /\ Kept(seg) = FilterStep(<<>>, seg)
<1> DEFINE segs == SplitSegs(q)
<1>1. segs \in Seq(Seg) /\ <<>> \in Seg /\ <<>> \in Seq(Seg)
  BY SegSteps, SplitAtSlash
<1>2. FilterSegs(<<>>) = <<>> /\ \A x \in Seg : FilterStep(<<>>, x) = FilterSegs(Append(<<>>, x))
  BY <1>1, FilterSteps
<1>3. ~KeepSeg(<<>>)
  BY DEF KeepSeg
<1>4. \A kept : FilterStep(kept, <<>>) = kept
  BY <1>3 DEF FilterStep
<1> HIDE DEF segs
<1>5. /\ FilterSegs(segs) \in Seq(GoodSeg)
      /\ FilterSegs(Append(segs, <<>>)) = FilterSegs(segs)
      /\ FilterSegs(Append(segs, seg)) = FilterStep(FilterSegs(segs), seg)
  BY <1>1, <1>4, FilterSteps
<1>6. Kept(<<>>) = <<>>
  <2>1. Kept(<<>>) = FilterSegs(Append(<<>>, <<>>))
    BY SplitAtSlash, SegSteps, Zenon DEF Kept
  <2>2. FilterSegs(Append(<<>>, <<>>)) = FilterStep(<<>>, <<>>)
    BY <1>1, <1>2, Zenon
  <2> QED
    BY <1>4, <2>1, <2>2, Zenon
<1>7. Kept(Append(q, "/")) = FilterSegs(Append(segs, <<>>))
  BY SplitAtSlash, Zenon DEF Kept, segs
<1>8. Kept(q \o <<"/">> \o seg) = FilterSegs(Append(segs, seg))
  BY SplitAtSlash, Zenon DEF Kept, segs
<1>9. Kept(seg) = FilterSegs(Append(<<>>, seg))
  BY SplitAtSlash, Zenon DEF Kept
<1>10. Kept(q) = FilterSegs(segs)
  BY Zenon DEF Kept, segs
<1> QED
  BY <1>2, <1>5, <1>6, <1>7, <1>8, <1>9, <1>10, Zenon

(* Kept segments put together are split into the same again, behind a      *)
(* slash or not.                                                           *)
LEMMA KeptOfJoined ==
  ASSUME NEW lead \in {<<>>, <<"/">>}, NEW ks \in Seq(GoodSeg)
  PROVE  Kept(lead \o JoinSegs(ks)) = ks
<1> DEFINE Begin(j) == SubSeq(ks, 1, j)
           Is(j) == Begin(j) \in Seq(GoodSeg) /\ Kept(lead \o JoinSegs(Begin(j))) = Begin(j)
           S == {j \in 0 .. Len(ks) : Is(j)}
<1>1. /\ Len(ks) \in Nat /\ \A n \in 1 .. Len(ks) : ks[n] \in GoodSeg
      /\ \A x \in GoodSeg : x \in Seg /\ x \in Seq(PathByte) /\ KeepSeg(x)
      /\ <<>> \in Seq(PathByte) /\ <<"/">> \in Seq(PathByte) /\ lead \in Seq(PathByte)
  <2>1. \A x \in GoodSeg : x \in Seg /\ x \in Seq(PathByte) /\ KeepSeg(x)
    BY SegSteps DEF GoodSeg
  <2>2. <<>> \in Seq(PathByte) /\ <<"/">> \in Seq(PathByte)
    BY SegSteps
  <2>3. lead \in Seq(PathByte)
    BY <2>2, Zenon
  <2>4. Len(ks) \in Nat /\ \A n \in 1 .. Len(ks) : ks[n] \in GoodSeg
    OBVIOUS
  <2> QED
    BY <2>1, <2>2, <2>3, <2>4, Zenon
<1>2. Kept(<<>>) = <<>> /\ Kept(<<"/">>) = <<>>
  <2>1. Append(<<>>, "/") = <<"/">>
    OBVIOUS
  <2>2. Kept(<<>>) = <<>> /\ Kept(Append(<<>>, "/")) = Kept(<<>>)
    BY <1>1, SegSteps, KeptSteps, Zenon
  <2> QED
    BY <2>1, <2>2, Zenon
<1>3. \A q \in Seq(PathByte) : q \o <<>> = q /\ <<>> \o q = q
  OBVIOUS
<1>4. Is(0)
  <2>1. Begin(0) = <<>> /\ <<>> \in Seq(GoodSeg)
    BY <1>1
  <2>2. JoinSegs(<<>>) = <<>>
    BY JoinNone
  <2>3. Kept(lead \o <<>>) = <<>>
    BY <1>1, <1>2, <1>3
  <2> HIDE DEF Begin
  <2> QED
    BY <2>1, <2>2, <2>3, Zenon
<1>5. ASSUME NEW j \in 1 .. Len(ks), Is(j - 1) PROVE Is(j)
  <2> DEFINE x == ks[j]
             r == Begin(j - 1)
             q == JoinSegs(r)
             w == lead \o q
  <2>1. x \in GoodSeg /\ x \in Seg /\ x \in Seq(PathByte) /\ KeepSeg(x)
    BY <1>1
  <2>2. r \in Seq(GoodSeg) /\ Kept(w) = r
    BY <1>5
  <2>3. Begin(j) = Append(r, x) /\ Begin(j) \in Seq(GoodSeg)
    <3>1. <<>> \in Seq(GoodSeg)
      OBVIOUS
    <3>2. <<>> \o SubSeq(ks, 1, j) = Append(<<>> \o SubSeq(ks, 1, j - 1), ks[j])
      BY <3>1, OneElementMore, Zenon
    <3>3. \A y \in Seq(GoodSeg) : <<>> \o y = y
      OBVIOUS
    <3>4. SubSeq(ks, 1, j) \in Seq(GoodSeg) /\ SubSeq(ks, 1, j - 1) \in Seq(GoodSeg)
      BY <1>1
    <3> QED
      BY <3>2, <3>3, <3>4, Zenon
  <2> HIDE DEF x, Begin, r
  <2>4. q \in Tidy /\ q \in Seq(PathByte) /\ JoinSegs(Append(r, x)) = JoinStep(q, x)
    <3>1. q \in Tidy /\ JoinSegs(Append(r, x)) = JoinStep(q, x)
      BY <2>1, <2>2, JoinSteps
    <3> QED
      BY <3>1 DEF Tidy
  <2> HIDE DEF q
  <2>5. FilterStep(r, x) = Append(r, x)
    BY <2>1 DEF FilterStep
  <2>6. w \in Seq(PathByte)
    BY <1>1, <2>4
  <2>7. Kept(w \o <<"/">> \o x) = Append(r, x)
    <3> HIDE DEF w
    <3> QED
      BY <2>1, <2>2, <2>5, <2>6, KeptSteps
  <2>8. Kept(lead \o JoinStep(q, x)) = Append(r, x)
    <3>1. CASE q # <<>>
      <4>1. lead \o (q \o <<"/">> \o x) = w \o <<"/">> \o x
        <5> DEFINE slash == <<"/">>
        <5>0. slash \in Seq(PathByte)
          BY <1>1
        <5> HIDE DEF slash
        <5>1. q \o slash \in Seq(PathByte)
          BY <2>4, <5>0
        <5>a. \A u, v, y \in Seq(PathByte) : (u \o v) \o y = u \o (v \o y)
          BY Associates
        <5>2. (lead \o (q \o slash)) \o x = lead \o ((q \o slash) \o x)
          BY <1>1, <2>1, <5>1, <5>a, ZenonT(60)
        <5>3. (lead \o q) \o slash = lead \o (q \o slash)
          BY <1>1, <2>4, <5>0, <5>a, Zenon
        <5> QED
          BY <5>2, <5>3, Zenon DEF slash, w
      <4> QED
        BY <2>7, <3>1, <4>1 DEF JoinStep
    <3>2. CASE q = <<>>
      <4>1. JoinStep(q, x) = x /\ w = lead
        BY <1>1, <1>3, <3>2 DEF JoinStep
      <4>2. r = <<>>
        BY <1>2, <2>2, <4>1
      <4>3. CASE lead = <<>>
        <5>1. Kept(x) = FilterStep(<<>>, x) /\ <<>> \o x = x
          BY <1>1, <1>3, <2>1, KeptSteps
        <5> QED
          BY <2>5, <4>1, <4>2, <4>3, <5>1
      <4>4. CASE lead = <<"/">>
        <5>1. Kept(<<>> \o <<"/">> \o x) = FilterStep(Kept(<<>>), x)
          BY <1>1, <2>1, KeptSteps
        <5>2. <<>> \o <<"/">> = <<"/">>
          OBVIOUS
        <5> QED
          BY <1>2, <2>5, <4>1, <4>2, <4>4, <5>1, <5>2
      <4> QED
        BY <4>3, <4>4
    <3> QED
      BY <3>1, <3>2
  <2> QED
    BY <2>3, <2>4, <2>8
<1>6. Is(Len(ks))
  <2> HIDE DEF Is
  <2>1. 0 \in S /\ \A j \in 1 .. Len(ks) : j - 1 \in S => j \in S
    BY <1>1, <1>4, <1>5
  <2>2. \A j \in 0 .. Len(ks) : j \in S
    <3> HIDE DEF S
    <3> QED
      BY <1>1, <2>1, Along
  <2> QED
    BY <1>1, <2>2
<1>7. Begin(Len(ks)) = ks
  BY <1>1, SubSeqFull
<1> QED
  BY <1>6, <1>7

(* Nothing is put together of no segments only.                            *)
LEMMA JoinEmpty ==
  ASSUME NEW ks \in Seq(GoodSeg)
  PROVE  /\ JoinSegs(ks) \in Tidy /\ JoinSegs(ks) \in Seq(PathByte)
         /\ JoinSegs(ks) = <<>> <=> ks = <<>>
         /\ \A seg \in GoodSeg : JoinSegs(Append(ks, seg)) = JoinStep(JoinSegs(ks), seg)
<1>1. JoinSegs(<<>>) = <<>> /\ <<>> \in Tidy
  BY JoinNone, SegSteps
<1>2. \A q \in Tidy : q \in Seq(PathByte)
  BY DEF Tidy
<1>3. ASSUME NEW r \in Seq(GoodSeg), NEW x \in GoodSeg
      PROVE  /\ JoinSegs(r) \in Tidy
             /\ JoinSegs(Append(r, x)) = JoinStep(JoinSegs(r), x)
             /\ JoinSegs(Append(r, x)) \in Tidy
             /\ JoinSegs(Append(r, x)) # <<>>
  <2>1. JoinSegs(r) \in Tidy /\ JoinSegs(Append(r, x)) = JoinStep(JoinSegs(r), x)
    BY JoinSteps
  <2> QED
    BY <2>1, JoinStepTypes
<1>4. CASE ks = <<>>
  BY <1>1, <1>2, <1>3, <1>4
<1>5. CASE ks # <<>>
  <2>1. \E r \in Seq(GoodSeg) : \E x \in GoodSeg : ks = Append(r, x)
    BY <1>5, LastOne, Zenon
  <2>2. PICK r \in Seq(GoodSeg), x \in GoodSeg : ks = Append(r, x)
    BY <2>1, Zenon
  <2>3. JoinSegs(ks) \in Tidy /\ JoinSegs(ks) # <<>>
    BY <1>3, <2>2, Zenon
  <2> QED
    BY <1>2, <1>3, <1>5, <2>3, Zenon
<1> QED
  BY <1>4, <1>5, Zenon

-----------------------------------------------------------------------------
(* The loop.                                                               *)

(* What lies between two slashes of a path, or before its first one, is a  *)
(* segment, and the path up to there is what lies before it and the        *)
(* segment.                                                                *)
LEMMA PiecesOfAPath ==
  ASSUME NEW path \in Seq(PathByte), NEW from \in 1 .. Len(path) + 1, NEW to \in from .. Len(path) + 1,
         \A n \in from .. to - 1 : path[n] # "/",
         from > 1 => path[from - 1] = "/"
  PROVE  /\ SubSeq(path, from, to - 1) \in Seg
         /\ Kept(SubSeq(path, 1, from - 2)) \in Seq(GoodSeg)
         /\ Kept(SubSeq(path, 1, to - 1)) =
              FilterStep(Kept(SubSeq(path, 1, from - 2)), SubSeq(path, from, to - 1))
<1> DEFINE seg == SubSeq(path, from, to - 1)
           before == SubSeq(path, 1, from - 2)
           upto == SubSeq(path, 1, to - 1)
<1>1. from \in Nat \ {0} /\ to \in Nat \ {0} /\ from <= to /\ to <= Len(path) + 1 /\ Len(path) \in Nat
      /\ \A n \in 1 .. Len(path) : path[n] \in PathByte
  OBVIOUS
<1>2. seg = [n \in 1 .. to - from |-> path[from + n - 1]]
  BY <1>1
<1>3. seg \in Seg
  <2>1. seg \in Seq(PathByte)
    BY <1>1, <1>2
  <2>2. \A n \in DOMAIN seg : seg[n] # "/"
    BY <1>1, <1>2
  <2> QED
    BY <2>1, <2>2 DEF Seg
<1>4. upto = [n \in 1 .. to - 1 |-> path[n]] /\ upto \in Seq(PathByte) /\ Len(upto) = to - 1
  BY <1>1
<1>5. CASE from = 1
  <2>1. upto = seg /\ before = <<>>
    BY <1>1, <1>5
  <2> HIDE DEF upto, seg, before
  <2>2. Kept(seg) = FilterStep(<<>>, seg) /\ Kept(<<>>) = <<>>
    BY <1>3, SegSteps, KeptSteps
  <2>3. Kept(<<>>) \in Seq(GoodSeg)
    BY <2>2, SegSteps
  <2> QED
    BY <1>3, <2>1, <2>2, <2>3 DEF upto, seg, before
<1>6. CASE from # 1
  <2>1. before = [n \in 1 .. from - 2 |-> path[n]] /\ before \in Seq(PathByte) /\ Len(before) = from - 2
    BY <1>1, <1>6
  <2>2. seg \in Seq(PathByte) /\ Len(seg) = to - from
    BY <1>1, <1>2
  <2> DEFINE slash == <<"/">>
  <2>3. slash \in Seq(PathByte) /\ Len(slash) = 1 /\ slash[1] = "/"
    BY SegSteps
  <2> HIDE DEF slash, before, seg, upto
  <2>4. upto = before \o slash \o seg
    <3> DEFINE u == before \o slash
               w == u \o seg
    <3>a. /\ u \in Seq(PathByte) /\ Len(u) = Len(before) + Len(slash)
          /\ \A n \in 1 .. Len(before) + Len(slash) :
               u[n] = IF n <= Len(before) THEN before[n] ELSE slash[n - Len(before)]
      BY <2>1, <2>3, ConcatProperties, ZenonT(60)
    <3> HIDE DEF u
    <3>b. /\ w \in Seq(PathByte) /\ Len(w) = Len(u) + Len(seg)
          /\ \A n \in 1 .. Len(u) + Len(seg) :
               w[n] = IF n <= Len(u) THEN u[n] ELSE seg[n - Len(u)]
      BY <2>2, <3>a, ConcatProperties, ZenonT(60)
    <3> HIDE DEF w
    <3>c. Len(u) = from - 1
      BY <1>1, <1>6, <2>1, <2>3, <3>a
    <3>1. w \in Seq(PathByte) /\ Len(w) = to - 1
      BY <1>1, <1>6, <2>2, <3>b, <3>c
    <3>2. ASSUME NEW n \in 1 .. to - 1 PROVE w[n] = upto[n]
      <4>0. n \in 1 .. Len(u) + Len(seg) /\ upto[n] = path[n]
        BY <1>1, <1>4, <2>2, <3>c
      <4>1. CASE n \in 1 .. from - 2
        <5>1. w[n] = u[n]
          BY <1>1, <1>6, <3>b, <3>c, <4>0, <4>1
        <5>2. n \in 1 .. Len(before) + Len(slash) /\ n <= Len(before)
          BY <1>1, <1>6, <2>1, <2>3, <4>1
        <5>3. u[n] = before[n]
          BY <3>a, <5>2
        <5>4. before[n] = path[n]
          BY <2>1, <4>1
        <5> QED
          BY <4>0, <5>1, <5>3, <5>4
      <4>2. CASE n = from - 1
        <5>1. w[n] = u[n]
          BY <1>1, <1>6, <3>b, <3>c, <4>0, <4>2
        <5>2. n \in 1 .. Len(before) + Len(slash) /\ ~(n <= Len(before)) /\ n - Len(before) = 1
          BY <1>1, <1>6, <2>1, <2>3, <4>2
        <5>3. u[n] = "/"
          BY <2>3, <3>a, <5>2
        <5>4. path[n] = "/"
          BY <1>1, <1>6, <4>2
        <5> QED
          BY <4>0, <5>1, <5>3, <5>4
      <4>3. CASE n \in from .. to - 1
        <5>1. ~(n <= Len(u)) /\ n - Len(u) = n - from + 1 /\ n - from + 1 \in 1 .. to - from
              /\ from + (n - from + 1) - 1 = n
          BY <1>1, <1>6, <3>c, <4>3
        <5>2. w[n] = seg[n - from + 1]
          BY <3>b, <4>0, <5>1
        <5>3. seg[n - from + 1] = path[n]
          BY <1>2, <5>1
        <5> QED
          BY <4>0, <5>2, <5>3
      <4> QED
        <5>1. n \in 1 .. from - 2 \/ n = from - 1 \/ n \in from .. to - 1
          BY <1>1, <1>6
        <5> QED
          BY <4>1, <4>2, <4>3, <5>1
    <3> HIDE DEF w
    <3>3. w = upto
      BY <1>4, <3>1, <3>2, SeqEqual
    <3> QED
      BY <3>3 DEF u, w
  <2>5. Kept(before) \in Seq(GoodSeg) /\ Kept(before \o slash \o seg) = FilterStep(Kept(before), seg)
    BY <1>3, <2>1, KeptSteps, Zenon DEF slash
  <2> QED
    BY <1>3, <2>4, <2>5, Zenon DEF upto, seg, before
<1> QED
  BY <1>5, <1>6

(* One segment more is copied if it is worth keeping.                      *)
LEMMA OneSegmentMore ==
  ASSUME NEW lead \in Seq(PathByte), NEW ks \in Seq(GoodSeg), NEW seg \in Seg
  PROVE  /\ KeepSeg(seg) =>
              /\ (lead \o JoinSegs(ks)) \o (IF ks = <<>> THEN <<>> ELSE <<"/">>) \o seg =
                   lead \o JoinSegs(FilterStep(ks, seg))
              /\ FilterStep(ks, seg) # <<>>
         /\ ~KeepSeg(seg) => FilterStep(ks, seg) = ks
<1>1. CASE ~KeepSeg(seg)
  BY <1>1 DEF FilterStep
<1>2. CASE KeepSeg(seg)
  <2> DEFINE q == JoinSegs(ks)
             slash == <<"/">>
  <2>1. seg \in GoodSeg /\ seg \in Seq(PathByte)
    BY <1>2, SegSteps DEF GoodSeg
  <2>2. FilterStep(ks, seg) = Append(ks, seg)
    BY <1>2 DEF FilterStep
  <2>3. q \in Seq(PathByte) /\ (q = <<>> <=> ks = <<>>) /\ JoinSegs(Append(ks, seg)) = JoinStep(q, seg)
    BY <2>1, JoinEmpty, Zenon
  <2>4. slash \in Seq(PathByte)
    BY SegSteps
  <2>5. Append(ks, seg) # <<>>
    <3> DEFINE t == Append(ks, seg)
    <3>1. Len(t) = Len(ks) + 1 /\ Len(ks) \in Nat
      BY <2>1
    <3> HIDE DEF t
    <3>2. t # <<>>
      BY <3>1
    <3> QED
      BY <3>2 DEF t
  <2> HIDE DEF q, slash
  <2>a. \A u, v, y \in Seq(PathByte) : (u \o v) \o y = u \o (v \o y)
    BY Associates, SMTT(60)
  <2>b. \A u \in Seq(PathByte) : u \o <<>> = u
    OBVIOUS
  <2>6. CASE ks = <<>>
    <3>1. (lead \o q) \o <<>> \o seg = lead \o seg
      BY <2>3, <2>6, <2>b, Zenon
    <3>2. JoinStep(q, seg) = seg
      BY <2>3, <2>6 DEF JoinStep
    <3>3. (lead \o q) \o <<>> \o seg = lead \o JoinSegs(FilterStep(ks, seg))
      BY <2>2, <2>3, <3>1, <3>2, Zenon
    <3> QED
      BY <1>2, <2>2, <2>5, <2>6, <3>3 DEF q
  <2>7. CASE ks # <<>>
    <3>1. JoinStep(q, seg) = q \o slash \o seg
      BY <2>3, <2>7 DEF JoinStep, slash
    <3>2. q \o slash \in Seq(PathByte)
      BY <2>3, <2>4
    <3>3. lead \o (q \o slash \o seg) = (lead \o (q \o slash)) \o seg
      BY <2>1, <3>2, <2>a, Zenon
    <3>4. lead \o (q \o slash) = (lead \o q) \o slash
      BY <2>3, <2>4, <2>a, Zenon
    <3>5. (lead \o q) \o slash \o seg = lead \o JoinSegs(FilterStep(ks, seg))
      BY <2>2, <2>3, <3>1, <3>3, <3>4, Zenon
    <3> QED
      BY <1>2, <2>2, <2>5, <2>7, <3>5 DEF q, slash
  <2> QED
    BY <2>6, <2>7
<1> QED
  BY <1>1, <1>2

-----------------------------------------------------------------------------
(* What the loop has passed: the path up to the slash before the segment   *)
(* it reads.                                                               *)
Passed == SubSeq(p, 1, s - 2)

(* Nothing but a segment lies between s and i, behind a slash or nothing,  *)
(* and what lies before has been copied.                                   *)
SegInv ==
  /\ p \in Seq(PathByte)
  /\ s \in 1 .. Len(p) + 2 /\ i \in 1 .. Len(p) + 1
  /\ first \in BOOLEAN /\ ended \in BOOLEAN
  /\ ~ended => /\ s <= i
               /\ \A n \in s .. i - 1 : p[n] # "/"
               /\ s > 1 => p[s - 1] = "/"
  /\ ended => s = Len(p) + 2 \/ p = <<>>
  /\ Kept(Passed) \in Seq(GoodSeg)
  /\ out = Lead(p) \o JoinSegs(Kept(Passed))
  /\ first <=> Kept(Passed) = <<>>

(* When the segment before e ends, it is copied if it is worth keeping.    *)
LEMMA EmitSegCopies ==
  ASSUME SegInv, ~ended, EmitSeg(i)
  PROVE  /\ Kept(SubSeq(p, 1, i - 1)) \in Seq(GoodSeg)
         /\ out' = Lead(p) \o JoinSegs(Kept(SubSeq(p, 1, i - 1)))
         /\ first' <=> Kept(SubSeq(p, 1, i - 1)) = <<>>
         /\ first' \in BOOLEAN
<1> DEFINE seg == SubSeq(p, s, i - 1)
           ks == Kept(Passed)
           now == Kept(SubSeq(p, 1, i - 1))
           lead == Lead(p)
<1>1. p \in Seq(PathByte) /\ s \in 1 .. Len(p) + 1 /\ i \in s .. Len(p) + 1 /\ s \in Nat /\ i \in Nat /\ s <= i
      /\ (\A n \in s .. i - 1 : p[n] # "/") /\ (s > 1 => p[s - 1] = "/")
  <2>1. Len(p) \in Nat
    BY DEF SegInv
  <2> QED
    BY <2>1 DEF SegInv
<1>2. seg \in Seg /\ ks \in Seq(GoodSeg) /\ now = FilterStep(ks, seg)
  BY <1>1, PiecesOfAPath DEF Passed
<1>3. lead \in Seq(PathByte)
  <2>1. <<>> \in Seq(PathByte) /\ <<"/">> \in Seq(PathByte)
    BY SegSteps
  <2> QED
    BY <2>1, Zenon DEF Lead
<1>4. KeepSeg(seg) <=> ~(i = s \/ (i = s + 1 /\ p[s] = "."))
  <2>1. seg = [n \in 1 .. i - s |-> p[s + n - 1]]
    BY <1>1
  <2>2. seg \in Seq(PathByte) /\ Len(seg) = i - s
    BY <1>1, <2>1
  <2>3. i = s <=> seg = <<>>
    <3> HIDE DEF seg
    <3> QED
      BY <1>1, <2>2
  <2>4. (i = s + 1 /\ p[s] = ".") <=> seg = <<".">>
    <3> DEFINE dot == <<".">>
    <3>1. dot \in Seq(PathByte) /\ Len(dot) = 1 /\ dot[1] = "."
      BY SegSteps
    <3>2. i = s + 1 => seg[1] = p[s]
      BY <1>1, <2>1
    <3> HIDE DEF seg, dot
    <3>3. ASSUME i = s + 1, p[s] = "." PROVE seg = dot
      <4>1. Len(seg) = Len(dot) /\ \A n \in 1 .. Len(seg) : seg[n] = dot[n]
        BY <1>1, <2>2, <3>1, <3>2, <3>3
      <4> QED
        BY <2>2, <3>1, <4>1, SeqEqual
    <3>4. ASSUME seg = dot PROVE i = s + 1 /\ p[s] = "."
      <4>1. Len(seg) = 1 /\ seg[1] = "."
        BY <3>1, <3>4, Zenon
      <4>2. i = s + 1
        <5>1. i - s = 1
          BY <2>2, <4>1, Zenon
        <5> QED
          BY <1>1, <5>1
      <4> QED
        BY <3>2, <4>1, <4>2, Zenon
    <3> QED
      BY <3>3, <3>4 DEF dot
  <2> HIDE DEF seg
  <2> QED
    BY <2>3, <2>4 DEF KeepSeg
<1>5. out = lead \o JoinSegs(ks) /\ (first <=> ks = <<>>) /\ first \in BOOLEAN
  BY Zenon DEF SegInv
<1>6. CASE KeepSeg(seg)
  <2>1. out' = out \o (IF first THEN <<>> ELSE <<"/">>) \o seg /\ first' = FALSE
    BY <1>4, <1>6 DEF EmitSeg
  <2> HIDE DEF seg, ks, now, lead
  <2>2. (lead \o JoinSegs(ks)) \o (IF ks = <<>> THEN <<>> ELSE <<"/">>) \o seg = lead \o JoinSegs(now)
        /\ now # <<>>
    BY <1>2, <1>3, <1>6, OneSegmentMore, Zenon
  <2>3. out' = lead \o JoinSegs(now)
    BY <1>5, <2>1, <2>2, Zenon
  <2>4. now \in Seq(GoodSeg)
    BY <1>2, FilterStepTypes
  <2> QED
    BY <2>1, <2>2, <2>3, <2>4, Zenon DEF now, lead
<1>7. CASE ~KeepSeg(seg)
  <2>1. out' = out /\ first' = first
    BY <1>4, <1>7 DEF EmitSeg
  <2> HIDE DEF seg, ks, now, lead
  <2>2. now = ks
    BY <1>2, <1>3, <1>7, OneSegmentMore, Zenon
  <2> QED
    BY <1>2, <1>5, <2>1, <2>2, Zenon DEF now, lead
<1> QED
  BY <1>6, <1>7

(* It holds of every path at first.                                        *)
LEMMA SegInvFirst == ASSUME NormalizeInit PROVE SegInv
<1>1. p \in Seq(PathByte) /\ Len(p) \in Nat /\ out = Lead(p) /\ first = TRUE /\ s = 1 /\ i = 1 /\ ended = FALSE
  <2>1. \A q \in Seq(STRING) : q \in Seq(PathByte)
    <3>1. STRING \subseteq PathByte
      BY DEF PathByte
    <3> QED
      BY <3>1, SeqMonotonic, Zenon
  <2>2. p \in Seq(STRING)
    BY InputsAssumption DEF NormalizeInit
  <2>3. p \in Seq(PathByte)
    BY <2>1, <2>2
  <2> QED
    BY <2>3 DEF NormalizeInit
<1>2. Passed = <<>>
  BY <1>1 DEF Passed
<1>3. Kept(<<>>) = <<>> /\ JoinSegs(<<>>) = <<>> /\ <<>> \in Seq(GoodSeg)
  <2>1. <<>> \in Seq(PathByte) /\ <<>> \in Seg
    BY SegSteps
  <2> QED
    BY <2>1, SegSteps, KeptSteps, JoinNone
<1>4. Lead(p) \o <<>> = Lead(p)
  <2>1. <<>> \in Seq(PathByte) /\ <<"/">> \in Seq(PathByte)
    BY SegSteps
  <2>2. Lead(p) \in Seq(PathByte)
    BY <2>1, Zenon DEF Lead
  <2> QED
    BY <2>2, ConcatEmptySeq
<1>5. /\ s \in 1 .. Len(p) + 2 /\ i \in 1 .. Len(p) + 1 /\ s <= i
      /\ \A n \in s .. i - 1 : p[n] # "/"
      /\ ~(s > 1)
  BY <1>1
<1> QED
  BY <1>1, <1>2, <1>3, <1>4, <1>5, Zenon DEF SegInv

(* No step disturbs it.                                                    *)
LEMMA SegInvSteps == ASSUME SegInv, [NormalizeNext]_normalizeVars PROVE SegInv'
<1>0. p \in Seq(PathByte) /\ Len(p) \in Nat /\ s \in Nat \ {0} /\ i \in Nat \ {0}
  BY DEF SegInv
<1>1. ASSUME AtByte PROVE SegInv'
  <2>1. /\ i' = i + 1 /\ p' = p /\ out' = out /\ first' = first /\ s' = s /\ ended' = ended
        /\ ~ended /\ i <= Len(p) /\ p[i] # "/"
    BY <1>1 DEF AtByte, InLoop
  <2>2. Passed' = Passed
    BY <2>1 DEF Passed
  <2>3. i' \in 1 .. Len(p) + 1 /\ s <= i'
    BY <1>0, <2>1 DEF SegInv
  <2>4. ASSUME NEW n \in s .. i' - 1 PROVE p[n] # "/"
    <3>1. n = i \/ n \in s .. i - 1
      BY <1>0, <2>1
    <3> QED
      BY <2>1, <3>1 DEF SegInv
  <2>5. /\ s \in 1 .. Len(p) + 2 /\ first \in BOOLEAN /\ ended = FALSE /\ (s > 1 => p[s - 1] = "/")
        /\ Kept(Passed) \in Seq(GoodSeg)
        /\ out = Lead(p) \o JoinSegs(Kept(Passed))
        /\ first <=> Kept(Passed) = <<>>
    BY <2>1 DEF SegInv
  <2> QED
    BY <1>0, <2>1, <2>2, <2>3, <2>4, <2>5, Zenon DEF SegInv
<1>2. ASSUME AtSlash PROVE SegInv'
  <2>1. /\ i' = i + 1 /\ p' = p /\ s' = i + 1 /\ ended' = ended
        /\ ~ended /\ i <= Len(p) /\ p[i] = "/" /\ EmitSeg(i)
    BY <1>2 DEF AtSlash, InLoop
  <2>2. Passed' = SubSeq(p, 1, i - 1)
    <3>1. s' - 2 = i - 1
      BY <1>0, <2>1
    <3> QED
      BY <2>1, <3>1 DEF Passed
  <2>3. /\ Kept(Passed') \in Seq(GoodSeg)
        /\ out' = Lead(p) \o JoinSegs(Kept(Passed'))
        /\ first' <=> Kept(Passed') = <<>>
        /\ first' \in BOOLEAN
    BY <2>1, <2>2, EmitSegCopies, Zenon
  <2>4. /\ s' \in 1 .. Len(p) + 2 /\ i' \in 1 .. Len(p) + 1 /\ s' <= i'
        /\ \A n \in s' .. i' - 1 : p[n] # "/"
        /\ s' - 1 = i
    BY <1>0, <2>1
  <2>5. ended' = FALSE
    BY <2>1 DEF SegInv
  <2> QED
    BY <1>0, <2>1, <2>3, <2>4, <2>5, Zenon DEF SegInv
<1>3. ASSUME AtEnd PROVE SegInv'
  <2>1. /\ i' = i /\ p' = p /\ s' = i + 1 /\ ended' = TRUE
        /\ ~ended /\ i > Len(p) /\ EmitSeg(i)
    BY <1>3 DEF AtEnd
  <2>2. Passed' = SubSeq(p, 1, i - 1)
    <3>1. s' - 2 = i - 1
      BY <1>0, <2>1
    <3> QED
      BY <2>1, <3>1 DEF Passed
  <2>3. /\ Kept(Passed') \in Seq(GoodSeg)
        /\ out' = Lead(p) \o JoinSegs(Kept(Passed'))
        /\ first' <=> Kept(Passed') = <<>>
        /\ first' \in BOOLEAN
    BY <2>1, <2>2, EmitSegCopies, Zenon
  <2>4. i \in 1 .. Len(p) + 1
    BY DEF SegInv
  <2>5. s' \in 1 .. Len(p) + 2 /\ s' = Len(p) + 2
    BY <1>0, <2>1, <2>4
  <2> QED
    BY <1>0, <2>1, <2>3, <2>4, <2>5, Zenon DEF SegInv
<1>4. ASSUME EmptyPath PROVE SegInv'
  <2>1. /\ i' = i /\ p' = p /\ out' = out /\ first' = first /\ s' = s /\ ended' = TRUE /\ p = <<>>
    BY <1>4 DEF EmptyPath
  <2>2. Passed' = Passed
    BY <2>1 DEF Passed
  <2> QED
    BY <2>1, <2>2, Zenon DEF SegInv
<1>5. ASSUME UNCHANGED normalizeVars PROVE SegInv'
  <2>1. /\ i' = i /\ p' = p /\ out' = out /\ first' = first /\ s' = s /\ ended' = ended
    BY <1>5 DEF normalizeVars
  <2>2. Passed' = Passed
    BY <2>1 DEF Passed
  <2> QED
    BY <2>1, <2>2, Zenon DEF SegInv
<1> QED
  BY <1>1, <1>2, <1>3, <1>4, <1>5 DEF NormalizeNext

THEOREM SegInvAlways == NormalizeSpec => []SegInv
<1>1. NormalizeInit => SegInv
  BY SegInvFirst
<1>2. SegInv /\ [NormalizeNext]_normalizeVars => SegInv'
  BY SegInvSteps
<1> QED
  BY <1>1, <1>2, PTL DEF NormalizeSpec

(* The loop has copied the kept segments of what it has passed, and what   *)
(* it returns is the normal form.                                          *)
THEOREM CopiesAlways == NormalizeSpec => []CopiesTheKeptSegments
<1>1. SegInv => CopiesTheKeptSegments
  <2> SUFFICES ASSUME SegInv PROVE CopiesTheKeptSegments
    OBVIOUS
  <2>1. /\ p \in Seq(PathByte) /\ Len(p) \in Nat
        /\ s \in 1 .. Len(p) + 2 /\ i \in 1 .. Len(p) + 1
        /\ out = Lead(p) \o JoinSegs(Kept(Passed))
        /\ first <=> Kept(Passed) = <<>>
        /\ ended => s = Len(p) + 2 \/ p = <<>>
    BY DEF SegInv
  <2>2. s <= Len(p) + 2 /\ i <= Len(p) + 1
    BY <2>1
  <2>3. ASSUME ended PROVE Returned = NormalForm(p)
    <3>1. Passed = p
      <4>1. CASE s = Len(p) + 2
        <5>1. s - 2 = Len(p) /\ SubSeq(p, 1, Len(p)) = p
          BY <2>1, <4>1, SubSeqFull
        <5> QED
          BY <5>1 DEF Passed
      <4>2. CASE p = <<>>
        <5>1. Len(p) = 0 /\ s \in {1, 2}
          BY <2>1, <4>2
        <5>2. SubSeq(p, 1, s - 2) = <<>>
          <6>1. s - 2 <= 0 /\ s - 2 \in Int
            BY <5>1
          <6> QED
            BY <2>1, <6>1
        <5> QED
          BY <4>2, <5>2 DEF Passed
      <4> QED
        BY <2>1, <2>3, <4>1, <4>2
    <3> QED
      BY <2>1, <3>1, Zenon DEF Returned, NormalForm
  <2> QED
    BY <2>1, <2>2, <2>3, Zenon DEF CopiesTheKeptSegments, Passed
<1> QED
  BY <1>1, SegInvAlways, PTL

-----------------------------------------------------------------------------
(* The normal form.                                                        *)

(* Kept segments behind the slash of an absolute path, or nothing, start   *)
(* as the path did, with slashes inside and one at a time.                 *)
LEMMA LeadAndTidy ==
  ASSUME NEW lead \in {<<>>, <<"/">>}, NEW q \in Tidy
  PROVE  /\ StartsSlash(lead \o q) <=> lead = <<"/">>
         /\ \A n \in 1 .. Len(lead \o q) - 1 : (lead \o q)[n] = "/" => (lead \o q)[n + 1] # "/"
         /\ Len(lead \o q) > 1 => (lead \o q)[Len(lead \o q)] # "/"
         /\ lead \o q = <<>> => lead = <<>> /\ q = <<>>
<1>1. q \in Seq(PathByte) /\ Len(q) \in Nat
  BY DEF Tidy
<1>2. q # <<>> => /\ q[1] # "/" /\ q[Len(q)] # "/" /\ Len(q) # 0
                  /\ \A n \in 1 .. Len(q) - 1 : q[n] = "/" => q[n + 1] # "/"
  BY <1>1 DEF Tidy
<1>3. CASE lead = <<>>
  <2>1. lead \o q = q
    BY <1>1, <1>3, ConcatEmptySeq
  <2>2. q = <<>> => Len(q) = 0
    OBVIOUS
  <2>3. lead # <<"/">>
    <3>1. Len(<<>>) # Len(<<"/">>)
      OBVIOUS
    <3> QED
      BY <1>3, <3>1
  <2>4. StartsSlash(q) <=> FALSE
    BY <1>2 DEF StartsSlash
  <2>5. /\ \A n \in 1 .. Len(q) - 1 : q[n] = "/" => q[n + 1] # "/"
        /\ Len(q) > 1 => q[Len(q)] # "/"
    BY <1>2, <2>2
  <2> QED
    BY <1>3, <2>1, <2>3, <2>4, <2>5, Zenon
<1>4. CASE lead = <<"/">>
  <2> DEFINE slash == <<"/">>
             w == slash \o q
  <2>1. slash \in Seq(PathByte) /\ Len(slash) = 1 /\ slash[1] = "/"
    BY SegSteps
  <2> HIDE DEF slash
  <2>2. /\ w \in Seq(PathByte) /\ Len(w) = 1 + Len(q)
        /\ \A n \in 1 .. 1 + Len(q) : w[n] = IF n <= 1 THEN slash[n] ELSE q[n - 1]
    <3>1. /\ w \in Seq(PathByte) /\ Len(w) = Len(slash) + Len(q)
          /\ \A n \in 1 .. Len(slash) + Len(q) :
               w[n] = IF n <= Len(slash) THEN slash[n] ELSE q[n - Len(slash)]
      BY <1>1, <2>1, ConcatProperties
    <3> HIDE DEF w
    <3> QED
      BY <2>1, <3>1, Zenon
  <2> HIDE DEF w
  <2>3. w[1] = "/" /\ w # <<>>
    <3>1. w[1] = slash[1]
      BY <1>1, <2>2
    <3>2. Len(w) # 0
      BY <1>1, <2>2
    <3> QED
      BY <2>1, <3>1, <3>2
  <2>4. \A n \in 1 .. Len(q) : w[n + 1] = q[n]
    <3> SUFFICES ASSUME NEW n \in 1 .. Len(q) PROVE w[n + 1] = q[n]
      OBVIOUS
    <3>1. n + 1 \in 1 .. 1 + Len(q) /\ ~(n + 1 <= 1) /\ n + 1 - 1 = n
      BY <1>1
    <3> QED
      BY <2>2, <3>1
  <2>5. ASSUME NEW n \in 1 .. Len(w) - 1, w[n] = "/" PROVE w[n + 1] # "/"
    <3>0. n \in 1 .. Len(q) /\ Len(q) # 0
      BY <1>1, <2>2
    <3>1. q # <<>>
      BY <3>0
    <3>2. CASE n = 1
      BY <1>2, <2>4, <3>0, <3>1, <3>2
    <3>3. CASE n # 1
      <4>1. n - 1 \in 1 .. Len(q) - 1 /\ n - 1 \in 1 .. Len(q) /\ (n - 1) + 1 = n
        BY <1>1, <3>0, <3>3
      <4>2. w[n] = q[n - 1] /\ w[n + 1] = q[n]
        BY <2>4, <3>0, <4>1
      <4>3. q[n - 1] = "/" => q[n] # "/"
        BY <1>2, <3>1, <4>1
      <4> QED
        BY <2>5, <4>2, <4>3, Zenon
    <3> QED
      BY <3>2, <3>3
  <2>6. Len(w) > 1 => w[Len(w)] # "/"
    <3> SUFFICES ASSUME Len(w) > 1 PROVE w[Len(w)] # "/"
      OBVIOUS
    <3>1. Len(q) \in 1 .. Len(q) /\ Len(w) = Len(q) + 1 /\ Len(q) # 0
      BY <1>1, <2>2
    <3>2. q # <<>>
      BY <3>1
    <3> QED
      BY <1>2, <2>4, <3>1, <3>2
  <2> QED
    BY <1>4, <2>3, <2>5, <2>6, Zenon DEF StartsSlash, w, slash
<1> QED
  BY <1>3, <1>4

(* What is the normal form of some path is its own, and keeps its start    *)
(* and its segments.                                                       *)
LEMMA NormalFormStays ==
  ASSUME NEW path \in Seq(PathByte), NEW r, r = NormalForm(path)
  PROVE  /\ NormalForm(r) = r
         /\ Kept(r) = Kept(path)
         /\ StartsSlash(r) <=> StartsSlash(path)
         /\ \A n \in 1 .. Len(r) - 1 : r[n] = "/" => r[n + 1] # "/"
         /\ Len(r) > 1 => r[Len(r)] # "/"
<1> DEFINE ks == Kept(path)
           lead == Lead(path)
           q == JoinSegs(ks)
           dot == <<".">>
<1>1. ks \in Seq(GoodSeg)
  <2>1. <<>> \in Seg
    BY SegSteps
  <2> QED
    BY <2>1, KeptSteps, Zenon
<1>2. q \in Tidy /\ (q = <<>> <=> ks = <<>>)
  BY <1>1, JoinEmpty
<1>3. lead \in {<<>>, <<"/">>} /\ (lead = <<"/">> <=> StartsSlash(path))
  <2>1. <<>> # <<"/">>
    <3>1. Len(<<>>) # Len(<<"/">>)
      OBVIOUS
    <3> QED
      BY <3>1
  <2> QED
    BY <2>1, Zenon DEF Lead
<1>4. dot \in Seg /\ dot # <<>> /\ ~StartsSlash(dot) /\ ~KeepSeg(dot) /\ Len(dot) = 1
  <2>1. "." \in PathByte /\ "." # "/"
    BY SegSteps
  <2>2. dot \in Seq(PathByte) /\ Len(dot) = 1 /\ dot[1] = "." /\ dot # <<>> /\ DOMAIN dot = {1}
    BY <2>1
  <2> HIDE DEF dot
  <2> QED
    BY <2>1, <2>2 DEF Seg, StartsSlash, KeepSeg, dot
<1> HIDE DEF ks, lead, q
<1>5. CASE path # <<>> /\ ~StartsSlash(path) /\ ks = <<>>
  <2>1. r = dot
    BY <1>5, Zenon DEF NormalForm, ks, dot
  <2>2. Kept(dot) = <<>>
    <3>1. Kept(dot) = FilterStep(<<>>, dot)
      <4>1. <<>> \in Seq(PathByte)
        OBVIOUS
      <4> QED
        BY <1>4, <4>1, KeptSteps, Zenon
    <3> QED
      BY <1>4, <3>1, Zenon DEF FilterStep
  <2>3. NormalForm(dot) = dot
    BY <1>4, <2>2, Zenon DEF NormalForm
  <2> HIDE DEF dot
  <2>4. 1 .. Len(dot) - 1 = {} /\ ~(Len(dot) > 1)
    BY <1>4
  <2>5. \A n \in 1 .. Len(r) - 1 : FALSE
    BY <2>1, <2>4, Zenon
  <2> QED
    BY <1>4, <1>5, <2>1, <2>2, <2>3, <2>4, <2>5, Zenon DEF ks
<1>6. CASE ~(path # <<>> /\ ~StartsSlash(path) /\ ks = <<>>)
  <2>1. r = lead \o q
    BY <1>6, Zenon DEF NormalForm, ks, lead, q
  <2>2. Kept(r) = ks
    BY <1>1, <1>3, <2>1, KeptOfJoined, Zenon DEF q
  <2>3. /\ StartsSlash(r) <=> StartsSlash(path)
        /\ \A n \in 1 .. Len(r) - 1 : r[n] = "/" => r[n + 1] # "/"
        /\ Len(r) > 1 => r[Len(r)] # "/"
        /\ r = <<>> => lead = <<>> /\ q = <<>>
    BY <1>2, <1>3, <2>1, LeadAndTidy, Zenon
  <2>4. Lead(r) = lead
    BY <2>3, Zenon DEF Lead, lead
  <2>5. r # <<>> /\ ~StartsSlash(r) /\ ks = <<>> => FALSE
    <3> SUFFICES ASSUME r # <<>>, ~StartsSlash(r), ks = <<>> PROVE FALSE
      OBVIOUS
    <3>1. lead = <<>>
      BY <1>3, <2>3, Zenon
    <3>2. r = <<>>
      <4>1. <<>> \o <<>> = <<>>
        OBVIOUS
      <4> QED
        BY <1>2, <2>1, <3>1, <4>1, Zenon
    <3> QED
      BY <3>2
  <2>6. NormalForm(r) = r
    BY <2>1, <2>2, <2>4, <2>5, Zenon DEF NormalForm, q
  <2> QED
    BY <2>2, <2>3, <2>6, Zenon DEF ks
<1> QED
  BY <1>5, <1>6

(* The normal form has one spelling per place: normalising it again        *)
(* changes nothing, and it starts at the same directory and passes the     *)
(* same names and "..".                                                    *)
THEOREM OneSpellingAlways == NormalizeSpec => []OneSpellingPerPlace
<1>1. SegInv /\ CopiesTheKeptSegments => OneSpellingPerPlace
  <2> SUFFICES ASSUME SegInv, CopiesTheKeptSegments, ended PROVE OneSpellingPerPlace
    BY DEF OneSpellingPerPlace
  <2>1. p \in Seq(PathByte) /\ Returned = NormalForm(p)
    BY DEF SegInv, CopiesTheKeptSegments
  <2> QED
    BY <2>1, NormalFormStays, Zenon DEF OneSpellingPerPlace
<1> QED
  BY <1>1, SegInvAlways, CopiesAlways, PTL
-----------------------------------------------------------------------------
(* The path checks.                                                        *)

DotDot == <<".", ".">>

(* Two dots between slashes or the ends are a segment that is kept.        *)
LEMMA DotDotIsASegment ==
  ASSUME NEW path \in Seq(PathByte)
  PROVE  HasDotDot(path) <=> \E n \in DOMAIN Kept(path) : Kept(path)[n] = DotDot
<1> DEFINE Upto(m) == SubSeq(path, 1, m)
           Among(q) == \E n \in DOMAIN Kept(q) : Kept(q)[n] = DotDot
           Is(m) == HasDotDot(Upto(m)) <=> Among(Upto(m))
           S == {j \in 0 .. Len(path) : \A m \in 0 .. j : Is(m)}
<1>1. Len(path) \in Nat /\ \A n \in 1 .. Len(path) : path[n] \in PathByte
  OBVIOUS
<1>2. /\ DotDot \in Seg /\ KeepSeg(DotDot) /\ Len(DotDot) = 2 /\ DotDot[1] = "." /\ DotDot[2] = "."
      /\ DotDot \in Seq(PathByte)
  <2>1. "." \in PathByte /\ "." # "/"
    BY SegSteps
  <2>2. /\ DotDot \in Seq(PathByte) /\ Len(DotDot) = 2 /\ DotDot[1] = "." /\ DotDot[2] = "."
        /\ \A n \in DOMAIN DotDot : DotDot[n] # "/"
    BY <2>1 DEF DotDot
  <2>3. DotDot # <<>> /\ DotDot # <<".">>
    BY DEF DotDot
  <2> QED
    BY <2>2, <2>3 DEF Seg, KeepSeg
<1>3. \A m \in 0 .. Len(path) : Upto(m) = [n \in 1 .. m |-> path[n]] /\ Upto(m) \in Seq(PathByte) /\ Len(Upto(m)) = m
  BY <1>1
<1> HIDE DEF Upto
<1>4. \A ks \in Seq(GoodSeg), seg \in Seg :
        (\E n \in DOMAIN FilterStep(ks, seg) : FilterStep(ks, seg)[n] = DotDot)
          <=> (\E n \in DOMAIN ks : ks[n] = DotDot) \/ seg = DotDot
  <2> SUFFICES ASSUME NEW ks \in Seq(GoodSeg), NEW seg \in Seg
               PROVE  (\E n \in DOMAIN FilterStep(ks, seg) : FilterStep(ks, seg)[n] = DotDot)
                        <=> (\E n \in DOMAIN ks : ks[n] = DotDot) \/ seg = DotDot
    OBVIOUS
  <2>1. CASE KeepSeg(seg)
    <3> DEFINE t == Append(ks, seg)
    <3>1. /\ Len(ks) \in Nat /\ DOMAIN ks = 1 .. Len(ks) /\ DOMAIN t = 1 .. Len(ks) + 1 /\ t[Len(ks) + 1] = seg
          /\ \A n \in 1 .. Len(ks) : t[n] = ks[n]
      OBVIOUS
    <3>2. FilterStep(ks, seg) = t
      BY <2>1 DEF FilterStep
    <3> HIDE DEF t
    <3>3. \A n \in DOMAIN t : n \in DOMAIN ks \/ n = Len(ks) + 1
      BY <3>1
    <3>4. \A n \in DOMAIN ks : n \in DOMAIN t
      BY <3>1
    <3>5. Len(ks) + 1 \in DOMAIN t
      BY <3>1
    <3>6. (\E n \in DOMAIN t : t[n] = DotDot) <=> (\E n \in DOMAIN ks : ks[n] = DotDot) \/ seg = DotDot
      BY <3>1, <3>3, <3>4, <3>5
    <3> QED
      BY <3>2, <3>6
  <2>2. CASE ~KeepSeg(seg)
    BY <1>2, <2>2 DEF FilterStep
  <2> QED
    BY <2>1, <2>2
<1>5. ASSUME NEW m \in 0 .. Len(path), \A j \in 0 .. m - 1 : Is(j) PROVE Is(m)
  <2>1. \E from \in 1 .. m + 1 :
          (\A n \in from .. m : path[n] # "/") /\ (from > 1 => path[from - 1] = "/")
    <3>1. CASE \A n \in 1 .. m : path[n] # "/"
      <4>1. 1 \in 1 .. m + 1 /\ ~(1 > 1)
        BY <1>1
      <4> QED
        BY <3>1, <4>1
    <3>2. CASE \E g \in 1 .. m : path[g] = "/"
      <4> DEFINE D == {d \in Nat : d < m /\ path[m - d] = "/"}
      <4>1. D \in SUBSET Nat /\ D # {}
        <5>1. PICK g \in 1 .. m : path[g] = "/"
          BY <3>2
        <5>2. m - g \in Nat /\ m - g < m /\ m - (m - g) = g
          BY <1>1
        <5>3. m - g \in D
          BY <5>1, <5>2
        <5> QED
          BY <5>3
      <4> HIDE DEF D
      <4>2. PICK d \in D : \A e \in D : d <= e
        BY <4>1, Least
      <4>3. d \in Nat /\ d < m /\ path[m - d] = "/"
        BY <4>2 DEF D
      <4> DEFINE from == m - d + 1
      <4>4. from \in 1 .. m + 1 /\ from - 1 = m - d
        BY <1>1, <4>3
      <4>5. ASSUME NEW n \in from .. m, path[n] = "/" PROVE FALSE
        <5>1. m - n \in Nat /\ m - n < m /\ m - (m - n) = n /\ m - n < d
          BY <1>1, <4>3, <4>4
        <5>2. m - n \in D
          BY <4>5, <5>1 DEF D
        <5> QED
          BY <4>2, <4>3, <5>1, <5>2
      <4> HIDE DEF from
      <4> QED
        BY <4>3, <4>4, <4>5
    <3> QED
      BY <3>1, <3>2
  <2>2. PICK from \in 1 .. m + 1 :
          (\A n \in from .. m : path[n] # "/") /\ (from > 1 => path[from - 1] = "/")
    BY <2>1
  <2> DEFINE seg == SubSeq(path, from, m)
             before == Upto(from - 2)
  <2>3. seg \in Seg /\ Kept(before) \in Seq(GoodSeg) /\ Kept(Upto(m)) = FilterStep(Kept(before), seg)
    <3> DEFINE to == m + 1
    <3>1. /\ from \in 1 .. Len(path) + 1 /\ to \in from .. Len(path) + 1 /\ to - 1 = m
          /\ \A n \in from .. to - 1 : path[n] # "/"
          /\ from > 1 => path[from - 1] = "/"
      BY <1>1, <2>2
    <3> HIDE DEF to
    <3>2. /\ SubSeq(path, from, to - 1) \in Seg
          /\ Kept(SubSeq(path, 1, from - 2)) \in Seq(GoodSeg)
          /\ Kept(SubSeq(path, 1, to - 1)) = FilterStep(Kept(SubSeq(path, 1, from - 2)), SubSeq(path, from, to - 1))
      BY <3>1, PiecesOfAPath, Zenon
    <3> QED
      BY <3>1, <3>2, Zenon DEF Upto
  <2>4. Among(Upto(m)) <=> Among(before) \/ seg = DotDot
    <3> DEFINE kb == Kept(before)
               km == Kept(Upto(m))
    <3>1. km = FilterStep(kb, seg) /\ kb \in Seq(GoodSeg) /\ seg \in Seg
      BY <2>3
    <3> HIDE DEF kb, km, seg
    <3>2. (\E n \in DOMAIN FilterStep(kb, seg) : FilterStep(kb, seg)[n] = DotDot)
            <=> (\E n \in DOMAIN kb : kb[n] = DotDot) \/ seg = DotDot
      BY <1>4, <3>1, Zenon
    <3>3. (\E n \in DOMAIN km : km[n] = DotDot) <=> (\E n \in DOMAIN kb : kb[n] = DotDot) \/ seg = DotDot
      BY <3>1, <3>2, Zenon
    <3> QED
      BY <3>3, Zenon DEF kb, km
  <2>5. seg = DotDot <=> from + 1 = m /\ path[from] = "." /\ path[m] = "."
    <3>1. seg = [n \in 1 .. m - from + 1 |-> path[from + n - 1]]
      BY <1>1
    <3>2. seg \in Seq(PathByte) /\ Len(seg) = m - from + 1 /\ (\A n \in 1 .. m - from + 1 : seg[n] = path[from + n - 1])
      BY <1>1, <2>3, <3>1, SegSteps
    <3> HIDE DEF seg
    <3>3. ASSUME seg = DotDot PROVE from + 1 = m /\ path[from] = "." /\ path[m] = "."
      <4>1. m - from + 1 = 2 /\ seg[1] = "." /\ seg[2] = "."
        BY <1>2, <3>2, <3>3
      <4>2. from + 1 = m /\ 1 \in 1 .. m - from + 1 /\ 2 \in 1 .. m - from + 1 /\ from + 1 - 1 = from /\ from + 2 - 1 = m
        BY <4>1
      <4> QED
        BY <3>2, <4>1, <4>2
    <3>4. ASSUME from + 1 = m, path[from] = ".", path[m] = "." PROVE seg = DotDot
      <4>1. m - from + 1 = 2 /\ from + 1 - 1 = from /\ from + 2 - 1 = m /\ 1 \in 1 .. 2 /\ 2 \in 1 .. 2
        BY <3>4
      <4>2. Len(seg) = Len(DotDot) /\ seg[1] = DotDot[1] /\ seg[2] = DotDot[2]
        BY <1>2, <3>2, <3>4, <4>1
      <4>3. \A n \in 1 .. Len(seg) : n = 1 \/ n = 2
        BY <1>2, <4>2
      <4> QED
        BY <1>2, <3>2, <4>2, <4>3, SeqEqual
    <3> QED
      BY <3>3, <3>4
  <2>6. HasDotDot(Upto(m)) <=> HasDotDot(before) \/ (from + 1 = m /\ path[from] = "." /\ path[m] = ".")
    <3> DEFINE At(l, n) == /\ n \in 1 .. l - 1 /\ path[n] = "." /\ path[n + 1] = "."
                           /\ n = 1 \/ path[n - 1] = "/"
                           /\ n + 1 = l \/ path[n + 2] = "/"
    <3>1. ASSUME NEW l \in 0 .. Len(path) PROVE HasDotDot(Upto(l)) <=> \E n \in 1 .. l - 1 : At(l, n)
      <4>1. Len(Upto(l)) = l /\ \A n \in 1 .. l : Upto(l)[n] = path[n]
        BY <1>3
      <4>2. \A n \in 1 .. l - 1 : n \in 1 .. l /\ n + 1 \in 1 .. l /\ (n = 1 \/ n - 1 \in 1 .. l) /\ (n + 1 = l \/ n + 2 \in 1 .. l)
        BY <1>1
      <4> QED
        BY <4>1, <4>2 DEF HasDotDot
    <3>2. CASE from = 1
      <4>1. before = <<>> /\ ~HasDotDot(<<>>)
        <5>1. SubSeq(path, 1, -1) = <<>>
          BY <1>1
        <5>2. before = <<>>
          BY <3>2, <5>1 DEF Upto
        <5>3. ~HasDotDot(<<>>)
          BY DEF HasDotDot
        <5> QED
          BY <5>2, <5>3
      <4>2. ASSUME NEW n \in 1 .. m - 1, At(m, n) PROVE from + 1 = m /\ path[from] = "." /\ path[m] = "."
        <5>1. n - 1 \in from .. m \/ n = 1
          BY <3>2
        <5>2. n = 1
          BY <2>2, <4>2, <5>1
        <5>3. n + 2 \in from .. m \/ n + 1 = m
          BY <3>2
        <5> QED
          BY <2>2, <3>2, <4>2, <5>2, <5>3
      <4>3. ASSUME from + 1 = m, path[from] = ".", path[m] = "." PROVE 1 \in 1 .. m - 1 /\ At(m, 1)
        BY <3>2, <4>3
      <4> QED
        BY <3>1, <3>2, <4>1, <4>2, <4>3
    <3>3. CASE from # 1
      <4>0. from - 2 \in 0 .. Len(path) /\ path[from - 1] = "/" /\ from - 1 \in 1 .. m /\ from > 1 /\ from \in Nat /\ m \in Nat
        BY <1>1, <2>2, <3>3
      <4>1. HasDotDot(before) <=> \E n \in 1 .. from - 3 : At(from - 2, n)
        BY <3>1, <4>0
      <4>2. ASSUME NEW n \in 1 .. m - 1, At(m, n), n < from - 2 PROVE At(from - 2, n)
        BY <4>0, <4>2
      <4>3. ASSUME NEW n \in 1 .. m - 1, At(m, n), n >= from - 2
            PROVE  from + 1 = m /\ path[from] = "." /\ path[m] = "."
        <5>1. n # from - 1 /\ n + 1 # from - 1
          BY <4>0, <4>3
        <5>2. n >= from
          BY <4>0, <4>3, <5>1
        <5>3. n - 1 \in from .. m \/ n = from
          BY <4>0, <5>2
        <5>4. n = from
          BY <2>2, <4>0, <4>3, <5>2, <5>3
        <5>5. n + 2 \in from .. m \/ n + 1 = m
          BY <4>0, <5>4
        <5> QED
          BY <2>2, <4>3, <5>4, <5>5
      <4>4. ASSUME NEW n \in 1 .. from - 3, At(from - 2, n) PROVE n \in 1 .. m - 1 /\ At(m, n)
        <5>1. n + 1 = from - 2 => n + 2 = from - 1
          BY <4>0
        <5> QED
          BY <4>0, <4>4, <5>1
      <4>5. ASSUME from + 1 = m, path[from] = ".", path[m] = "." PROVE from \in 1 .. m - 1 /\ At(m, from)
        BY <4>0, <4>5
      <4> HIDE DEF At
      <4>6. (\E n \in 1 .. m - 1 : At(m, n)) <=>
              (\E n \in 1 .. from - 3 : At(from - 2, n)) \/ (from + 1 = m /\ path[from] = "." /\ path[m] = ".")
        <5>1. \A n \in 1 .. m - 1 : n >= from - 2 \/ (n < from - 2 /\ n \in 1 .. from - 3)
          BY <4>0
        <5> QED
          BY <4>2, <4>3, <4>4, <4>5, <5>1
      <4> QED
        BY <3>1, <4>1, <4>6
    <3> QED
      BY <3>2, <3>3
  <2>7. HasDotDot(before) <=> Among(before)
    <3>1. CASE from = 1
      <4>1. before = <<>>
        <5>1. SubSeq(path, 1, -1) = <<>>
          BY <1>1
        <5> QED
          BY <3>1, <5>1 DEF Upto
      <4>2. ~HasDotDot(<<>>)
        BY DEF HasDotDot
      <4>3. Kept(<<>>) = <<>>
        <5>1. <<>> \in Seq(PathByte) /\ <<>> \in Seg
          BY SegSteps
        <5> QED
          BY <5>1, KeptSteps, Zenon
      <4>4. DOMAIN <<>> = {}
        OBVIOUS
      <4> QED
        BY <4>1, <4>2, <4>3, <4>4
    <3>2. CASE from # 1
      <4>1. from - 2 \in 0 .. m - 1
        BY <1>1, <3>2
      <4> QED
        BY <1>5, <4>1
    <3> QED
      BY <3>1, <3>2
  <2> QED
    BY <2>4, <2>5, <2>6, <2>7
<1>6. \A j \in 0 .. Len(path) : j \in S
  <2> HIDE DEF Is
  <2>1. 0 \in S
    <3>1. Is(0)
      <4>1. 0 \in 0 .. Len(path) /\ \A j \in 0 .. 0 - 1 : Is(j)
        BY <1>1
      <4> QED
        BY <1>5, <4>1, Zenon
    <3> QED
      BY <1>1, <3>1
  <2>2. ASSUME NEW j \in 1 .. Len(path), j - 1 \in S PROVE j \in S
    <3>1. j \in 0 .. Len(path) /\ \A m \in 0 .. j - 1 : Is(m)
      BY <2>2
    <3>2. Is(j)
      BY <1>5, <3>1, Zenon
    <3>3. \A m \in 0 .. j : m \in 0 .. j - 1 \/ m = j
      BY <1>1
    <3> QED
      BY <3>1, <3>2, <3>3
  <2> HIDE DEF S
  <2> QED
    BY <1>1, <2>1, <2>2, Along
<1>7. Is(Len(path))
  <2>1. Len(path) \in 0 .. Len(path)
    BY <1>1
  <2> HIDE DEF Is
  <2> QED
    BY <1>6, <2>1
<1>8. Upto(Len(path)) = path
  BY SubSeqFull DEF Upto
<1> QED
  BY <1>7, <1>8

(* Folding leaves slashes and dots alone.                                  *)
LEMMA FoldKeeps ==
  ASSUME NEW bytes \in Seq(PathByte)
  PROVE  /\ FoldAscii(bytes) \in Seq(PathByte) /\ Len(FoldAscii(bytes)) = Len(bytes)
         /\ \A n \in 1 .. Len(bytes) : /\ FoldAscii(bytes)[n] = "/" <=> bytes[n] = "/"
                                       /\ FoldAscii(bytes)[n] = "." <=> bytes[n] = "."
         /\ HasDotDot(FoldAscii(bytes)) <=> HasDotDot(bytes)
         /\ StartsSlash(FoldAscii(bytes)) <=> StartsSlash(bytes)
<1> DEFINE b == FoldAscii(bytes)
<1>1. \A c \in PathByte : /\ FoldByte(c) \in PathByte
                          /\ FoldByte(c) = "/" <=> c = "/"
                          /\ FoldByte(c) = "." <=> c = "."
  <2>1. \A c \in STRING : c \in PathByte
    BY DEF PathByte
  <2> QED
    BY <2>1, LowerAssumption DEF FoldByte
<1>2. b = [n \in 1 .. Len(bytes) |-> FoldByte(bytes[n])] /\ Len(bytes) \in Nat
  <2>1. DOMAIN bytes = 1 .. Len(bytes)
    OBVIOUS
  <2> QED
    BY <2>1 DEF FoldAscii
<1>3. \A n \in 1 .. Len(bytes) : bytes[n] \in PathByte
  OBVIOUS
<1>4. b \in Seq(PathByte) /\ Len(b) = Len(bytes) /\ \A n \in 1 .. Len(bytes) : b[n] = FoldByte(bytes[n])
  <2>1. \A n \in 1 .. Len(bytes) : FoldByte(bytes[n]) \in PathByte
    BY <1>1, <1>3
  <2> QED
    BY <1>2, <2>1
<1> HIDE DEF b
<1>5. \A n \in 1 .. Len(bytes) : (b[n] = "/" <=> bytes[n] = "/") /\ (b[n] = "." <=> bytes[n] = ".")
  BY <1>1, <1>3, <1>4
<1>6. HasDotDot(b) <=> HasDotDot(bytes)
  <2>1. \A n \in 1 .. Len(b) - 1 : n \in 1 .. Len(bytes) /\ n + 1 \in 1 .. Len(bytes)
    BY <1>2, <1>4
  <2>2. \A n \in 1 .. Len(b) - 1 : n = 1 \/ n - 1 \in 1 .. Len(bytes)
    BY <1>2, <1>4
  <2>3. \A n \in 1 .. Len(b) - 1 : n + 1 = Len(b) \/ n + 2 \in 1 .. Len(bytes)
    <3> SUFFICES ASSUME NEW n \in 1 .. Len(b) - 1, n + 1 # Len(b) PROVE n + 2 \in 1 .. Len(bytes)
      OBVIOUS
    <3>1. Len(b) = Len(bytes) /\ Len(bytes) \in Nat
      BY <1>2, <1>4
    <3>2. n \in Nat /\ n >= 1 /\ n + 1 <= Len(b) /\ n + 1 # Len(b)
      BY <3>1
    <3> QED
      BY <3>1, <3>2
  <2> QED
    BY <1>4, <1>5, <2>1, <2>2, <2>3 DEF HasDotDot
<1>7. StartsSlash(b) <=> StartsSlash(bytes)
  <2>1. b = <<>> <=> Len(b) = 0
    BY <1>4
  <2>2. bytes = <<>> <=> Len(bytes) = 0
    OBVIOUS
  <2>3. bytes # <<>> => 1 \in 1 .. Len(bytes)
    BY <1>2, <2>2
  <2> QED
    BY <1>4, <1>5, <2>1, <2>2, <2>3 DEF StartsSlash
<1> QED
  BY <1>4, <1>5, <1>6, <1>7 DEF b

(* A ".." among the names is one between slashes.                          *)
LEMMA NamesHaveDotDot ==
  ASSUME NEW bytes \in Seq(PathByte)
  PROVE  HasDotDot(bytes) <=> ~\A n \in DOMAIN Names(bytes) : Names(bytes)[n] # <<".", ".">>
<1>1. FoldAscii(bytes) \in Seq(PathByte) /\ (HasDotDot(FoldAscii(bytes)) <=> HasDotDot(bytes))
  BY FoldKeeps
<1>2. HasDotDot(FoldAscii(bytes)) <=> \E n \in DOMAIN Names(bytes) : Names(bytes)[n] = <<".", ".">>
  BY <1>1, DotDotIsASegment, Zenon DEF Names, DotDot
<1> QED
  BY <1>1, <1>2, Zenon

(* The four checks are those that tell whether a path leads where it says. *)
LEMMA FaultSays ==
  ASSUME NEW path, path.bytes \in Seq(PathByte), path.more \in BOOLEAN, path.tilde \in BOOLEAN,
         cwd \in BOOLEAN
  PROVE  PathFault(path.bytes, path.more, path.tilde, cwd) = {} <=> LeadsWhereItSays(path)
<1> DEFINE bytes == path.bytes
           dots == \A n \in DOMAIN Names(bytes) : Names(bytes)[n] # <<".", ".">>
<1>1. HasDotDot(bytes) <=> ~dots
  BY NamesHaveDotDot, Zenon
<1>2. Anchor(path.tilde, bytes) # "here" <=> path.tilde \/ StartsSlash(bytes)
  BY DEF Anchor
<1>3. PathFault(bytes, path.more, path.tilde, cwd) = {} <=>
        /\ ~path.more /\ ~HasDotDot(bytes) /\ ~HasNonAscii(bytes)
        /\ ~(cwd /\ ~path.tilde /\ ~StartsSlash(bytes))
  BY DEF PathFault
<1>4. LeadsWhereItSays(path) <=>
        /\ ~path.more /\ dots /\ ~HasNonAscii(bytes)
        /\ cwd => Anchor(path.tilde, bytes) # "here"
  BY Zenon DEF LeadsWhereItSays
<1> HIDE DEF dots, bytes
<1> QED
  BY <1>1, <1>2, <1>3, <1>4 DEF bytes

-----------------------------------------------------------------------------
(* The words of a command.                                                 *)

(* Bytes of words are bytes of paths.                                      *)
LEMMA PartBytes ==
  ASSUME NEW ps \in Seq(Part)
  PROVE  /\ LitPrefix(ps) \in Seq(Byte) /\ Body(ps) \in Seq(Part) /\ PathLead(ps) \in Seq(PathByte)
         /\ LitPrefix(ps) \in Seq(PathByte)
<1>1. \A qs \in Seq(Part) : LitPrefix(qs) \in Seq(Byte)
  <2> SUFFICES ASSUME NEW qs \in Seq(Part) PROVE LitPrefix(qs) \in Seq(Byte)
    OBVIOUS
  <2> DEFINE Piece(n) == IF HasOpaque(SubSeq(qs, 1, n)) THEN <<>> ELSE qs[n].bytes
             pieces == [n \in 1 .. Len(qs) |-> Piece(n)]
  <2>1. \A n \in 1 .. Len(qs) : Piece(n) \in Seq(Byte)
    <3>1. \A n \in 1 .. Len(qs) : qs[n].bytes \in Seq(Byte)
      <4>1. \A n \in 1 .. Len(qs) : qs[n] \in Part
        OBVIOUS
      <4>2. \A x \in Part : x.bytes \in Seq(Byte)
        BY DEF Part
      <4> QED
        BY <4>1, <4>2, Zenon
    <3>2. <<>> \in Seq(Byte)
      OBVIOUS
    <3> QED
      BY <3>1, <3>2
  <2> HIDE DEF Piece
  <2>2. pieces \in Seq(Seq(Byte)) /\ <<>> \in Seq(Byte)
    BY <2>1
  <2>3. FlattenSeq(pieces) \in Seq(Byte)
    <3> HIDE DEF pieces
    <3> QED
      BY <2>2, Flattened, Zenon
  <2> QED
    BY <2>3, Zenon DEF LitPrefix, pieces, Piece
<1>2. Body(ps) \in Seq(Part)
  <2>1. CASE HasTilde(ps)
    <3> DEFINE n == CHOOSE n \in TildeAt(ps) : TRUE
    <3>1. n \in TildeAt(ps)
      BY <2>1 DEF HasTilde
    <3>2. n \in 1 .. Len(ps)
      BY <3>1 DEF TildeAt
    <3> HIDE DEF n
    <3>3. SubSeq(ps, n + 1, Len(ps)) \in Seq(Part)
      BY <3>2
    <3> QED
      BY <2>1, <3>3 DEF Body, n
  <2>2. CASE ~HasTilde(ps)
    BY <2>2 DEF Body
  <2> QED
    BY <2>1, <2>2
<1>3. \A b \in Seq(Byte) : b \in Seq(PathByte)
  <2>1. Byte \subseteq PathByte
    BY DEF PathByte
  <2> QED
    BY <2>1, SeqMonotonic, Zenon
<1> QED
  BY <1>1, <1>2, <1>3, Zenon DEF PathLead

(* A command, and a parse of it: the bytes before an inline value are of   *)
(* the word, and the word is literal.                                      *)
CmdOK ==
  /\ cmd \in Command /\ cmd.start <= Len(cmd.ws)
  /\ slots \in Readings(cmd.g, Views(cmd.ws), cmd.start)
  /\ cwd \in BOOLEAN

LEMMA SlotsOfWords ==
  ASSUME CmdOK, NEW n \in DOMAIN slots
  PROVE  /\ parts(n) \in Seq(Part)
         /\ \A v \in InlinePaths(n) : v.off \in Nat /\ ~InlineBad(parts(n), v.off)
<1> DEFINE g == cmd.g
           ws == Views(cmd.ws)
           w == ws[cmd.start + n]
           b == w.lit
<1>1. /\ cmd.ws \in Seq(Seq(Part)) /\ cmd.start \in Nat /\ Len(cmd.ws) \in Nat
      /\ ws = [d \in 1 .. Len(cmd.ws) |-> LitView(cmd.ws[d])] /\ Len(ws) = Len(cmd.ws)
  BY DEF CmdOK, Command, Views
<1>2. n \in 1 .. Len(cmd.ws) - cmd.start /\ Fits(g, ws, cmd.start, slots, n) /\ cmd.start + n \in 1 .. Len(cmd.ws)
  <2>1. /\ DOMAIN slots = 1 .. Len(cmd.ws) - cmd.start
        /\ \A d \in DOMAIN slots : Fits(g, ws, cmd.start, slots, d)
    <3> HIDE DEF ws, g
    <3>1. slots \in Readings(g, ws, cmd.start)
      BY DEF CmdOK, ws, g
    <3>2. DOMAIN slots = 1 .. Len(ws) - cmd.start /\ Reads(g, ws, cmd.start, slots)
      BY <3>1 DEF Readings
    <3> QED
      BY <1>1, <3>2 DEF Reads
  <2> HIDE DEF ws, g
  <2> QED
    BY <1>1, <2>1
<1>3. parts(n) \in Seq(Part)
  BY <1>1, <1>2 DEF parts
<1>4. w = [lit |-> LitPrefix(parts(n)), opaque |-> HasOpaque(parts(n))]
  BY <1>1, <1>2 DEF parts, LitView
<1> HIDE DEF ws
<1>5. b \in Seq(Byte) /\ b = LitPrefix(parts(n)) /\ (w.opaque <=> HasOpaque(parts(n)))
  BY <1>3, <1>4, PartBytes
<1> HIDE DEF w, b, g
<1>6. ASSUME NEW v \in slots[n].value PROVE ~w.opaque /\ v \in InlineValue(g, b)
  <2>1. \/ \E r \in Role : slots[n] = OptValueSlot(r)
        \/ ~w.opaque /\ slots[n] = OptsSlot(InlineValue(g, b))
        \/ slots[n] = DashDashSlot
        \/ \E r \in Role \cup cmd.g.rest : slots[n] = OperandSlot(r)
        \/ \E r : slots[n] = OperandSlot(r) \/ slots[n] = OptValueSlot(r)
    BY <1>2 DEF Fits, w, b
  <2> QED
    BY <1>6, <2>1 DEF OptValueSlot, OptsSlot, DashDashSlot, OperandSlot
<1>7. \A v \in InlineValue(g, b) : v.off \in 2 .. Len(b)
  <2>1. Len(b) \in Nat
    BY <1>5
  <2>2. FindEq(b) \subseteq 2 .. Len(b)
    BY <2>1 DEF FindEq
  <2>3. \A d \in 2 .. Len(b) - 1 : d \in 2 .. Len(b)
    BY <2>1
  <2> QED
    BY <2>2, <2>3 DEF InlineValue
<1>8. ASSUME NEW v \in InlinePaths(n) PROVE v.off \in Nat /\ ~InlineBad(parts(n), v.off)
  <2>1. v \in slots[n].value
    BY <1>8 DEF InlinePaths
  <2>2. ~w.opaque /\ v.off \in 2 .. Len(b) /\ Len(b) \in Nat
    BY <1>5, <1>6, <1>7, <2>1
  <2> QED
    BY <1>5, <2>2 DEF InlineBad
<1> QED
  BY <1>3, <1>8

(* The paths of one slot.                                                  *)
WordPath(n) ==
  [slot |-> n, tilde |-> HasTilde(parts(n)), bytes |-> PathLead(parts(n)), more |-> PathMore(parts(n))]

InlinePath(n, v) ==
  [slot |-> n, tilde |-> FALSE, bytes |-> InlineValueOf(parts(n), v.off), more |-> FALSE]

LEMMA PathsOfSlots ==
  /\ \A path \in PathsGiven :
       \E n \in DOMAIN slots :
         \/ slots[n].role = "Path" /\ path = WordPath(n)
         \/ \E v \in InlinePaths(n) : path = InlinePath(n, v)
  /\ \A n \in DOMAIN slots : /\ slots[n].role = "Path" => WordPath(n) \in PathsGiven
                             /\ \A v \in InlinePaths(n) : InlinePath(n, v) \in PathsGiven
<1> DEFINE Words == {WordPath(n) : n \in {m \in DOMAIN slots : slots[m].role = "Path"}}
           Inlines(n) == {InlinePath(n, v) : v \in InlinePaths(n)}
<1>1. PathsGiven = Words \cup UNION {Inlines(n) : n \in DOMAIN slots}
  BY Zenon DEF PathsGiven, WordPath, InlinePath
<1>2. ASSUME NEW path \in PathsGiven
      PROVE  \E n \in DOMAIN slots :
               \/ slots[n].role = "Path" /\ path = WordPath(n)
               \/ \E v \in InlinePaths(n) : path = InlinePath(n, v)
  <2>1. CASE path \in Words
    BY <2>1
  <2>2. CASE path \in UNION {Inlines(n) : n \in DOMAIN slots}
    <3>1. PICK n \in DOMAIN slots : path \in Inlines(n)
      BY <2>2
    <3> QED
      BY <3>1
  <2> QED
    BY <1>1, <2>1, <2>2
<1>3. ASSUME NEW n \in DOMAIN slots
      PROVE  /\ slots[n].role = "Path" => WordPath(n) \in PathsGiven
             /\ \A v \in InlinePaths(n) : InlinePath(n, v) \in PathsGiven
  <2>1. slots[n].role = "Path" => WordPath(n) \in Words
    OBVIOUS
  <2>2. \A v \in InlinePaths(n) : InlinePath(n, v) \in Inlines(n)
    OBVIOUS
  <2> HIDE DEF Words, Inlines
  <2> QED
    BY <1>1, <2>1, <2>2
<1> QED
  BY <1>2, <1>3, Zenon

(* Every path given is of a slot.                                          *)
LEMMA PathsAreOfSlots == \A path \in PathsGiven : path.slot \in DOMAIN slots
<1>1. \A n, v : WordPath(n).slot = n /\ InlinePath(n, v).slot = n
  BY DEF WordPath, InlinePath
<1> SUFFICES ASSUME NEW path \in PathsGiven PROVE path.slot \in DOMAIN slots
  OBVIOUS
<1>2. PICK n \in DOMAIN slots :
        \/ slots[n].role = "Path" /\ path = WordPath(n)
        \/ \E v \in InlinePaths(n) : path = InlinePath(n, v)
  BY PathsOfSlots, Zenon
<1>3. path.slot = n
  BY <1>1, <1>2, Zenon
<1> QED
  BY <1>3

(* A slot passes exactly when all its paths lead where they say.           *)
LEMMA SlotFaultSays ==
  ASSUME CmdOK, NEW n \in DOMAIN slots
  PROVE  SlotFault(n) = {} <=> \A path \in PathsGiven : path.slot = n => LeadsWhereItSays(path)
<1>1. parts(n) \in Seq(Part) /\ \A v \in InlinePaths(n) : v.off \in Nat /\ ~InlineBad(parts(n), v.off)
  BY SlotsOfWords
<1>2. cwd \in BOOLEAN
  BY DEF CmdOK
<1>3. WordPathCheck(parts(n), cwd) = {} <=> LeadsWhereItSays(WordPath(n))
  <2> DEFINE path == WordPath(n)
  <2>1. /\ path.bytes = PathLead(parts(n)) /\ path.more = PathMore(parts(n)) /\ path.tilde = HasTilde(parts(n))
    BY DEF WordPath
  <2>2. path.bytes \in Seq(PathByte)
    BY <1>1, <2>1, PartBytes
  <2>3. path.more \in BOOLEAN /\ path.tilde \in BOOLEAN
    BY <2>1 DEF PathMore, HasTilde, HasOpaque
  <2> HIDE DEF path
  <2>4. PathFault(path.bytes, path.more, path.tilde, cwd) = {} <=> LeadsWhereItSays(path)
    BY <1>2, <2>2, <2>3, FaultSays, Zenon
  <2> QED
    BY <2>1, <2>4, Zenon DEF WordPathCheck, path
<1>4. ASSUME NEW v \in InlinePaths(n)
      PROVE  InlinePathCheck(parts(n), v.off, cwd) = {} <=> LeadsWhereItSays(InlinePath(n, v))
  <2> DEFINE path == InlinePath(n, v)
  <2>1. /\ path.bytes = InlineValueOf(parts(n), v.off) /\ path.more = FALSE /\ path.tilde = FALSE
    BY DEF InlinePath
  <2>2. path.bytes \in Seq(PathByte)
    <3> DEFINE lit == LitPrefix(parts(n))
    <3>1. lit \in Seq(PathByte) /\ v.off \in Nat
      BY <1>1, PartBytes
    <3> HIDE DEF lit
    <3>2. SubSeq(lit, v.off + 1, Len(lit)) \in Seq(PathByte)
      BY <3>1
    <3> QED
      BY <2>1, <3>2 DEF InlineValueOf, lit
  <2> HIDE DEF path
  <2>4. PathFault(path.bytes, path.more, path.tilde, cwd) = {} <=> LeadsWhereItSays(path)
    BY <1>2, <2>1, <2>2, FaultSays, Zenon
  <2>5. InlineBad(parts(n), v.off) = FALSE
    BY <1>1 DEF InlineBad
  <2> QED
    BY <2>1, <2>4, <2>5, Zenon DEF InlinePathCheck, path
<1>5. SlotFault(n) = {} <=>
        /\ \A v \in InlinePaths(n) : InlinePathCheck(parts(n), v.off, cwd) = {}
        /\ slots[n].role = "Path" => WordPathCheck(parts(n), cwd) = {}
  BY DEF SlotFault
<1>6. (\A path \in PathsGiven : path.slot = n => LeadsWhereItSays(path)) <=>
        /\ \A v \in InlinePaths(n) : LeadsWhereItSays(InlinePath(n, v))
        /\ slots[n].role = "Path" => LeadsWhereItSays(WordPath(n))
  <2>1. \A m, v : WordPath(m).slot = m /\ InlinePath(m, v).slot = m
    BY DEF WordPath, InlinePath
  <2>2. ASSUME NEW path \in PathsGiven, path.slot = n,
               \A v \in InlinePaths(n) : LeadsWhereItSays(InlinePath(n, v)),
               slots[n].role = "Path" => LeadsWhereItSays(WordPath(n))
        PROVE  LeadsWhereItSays(path)
    <3>1. PICK m \in DOMAIN slots :
            \/ slots[m].role = "Path" /\ path = WordPath(m)
            \/ \E v \in InlinePaths(m) : path = InlinePath(m, v)
      BY PathsOfSlots, Zenon
    <3>2. m = n
      BY <2>1, <2>2, <3>1, Zenon
    <3> QED
      BY <2>2, <3>1, <3>2, Zenon
  <2>3. /\ \A v \in InlinePaths(n) : InlinePath(n, v) \in PathsGiven
        /\ slots[n].role = "Path" => WordPath(n) \in PathsGiven
    BY PathsOfSlots, Zenon
  <2> QED
    BY <2>1, <2>2, <2>3, Zenon
<1> QED
  BY <1>3, <1>4, <1>5, <1>6, Zenon

(* The slots passed have no fault, and the one that failed has one and is  *)
(* the first.                                                              *)
Failing(f) ==
  \E n \in DOMAIN slots :
    /\ f.word = cmd.start + n /\ SlotFault(n) # {}
    /\ \A m \in DOMAIN slots : m < n => SlotFault(m) = {}

CheckInv ==
  /\ CmdOK
  /\ task = "check" => /\ failed = {} /\ k \in Nat \ {0}
                       /\ \A n \in DOMAIN slots : n < k => SlotFault(n) = {}
  /\ task # "check" => /\ failed = {} => \A n \in DOMAIN slots : SlotFault(n) = {}
                       /\ \A f \in failed : Failing(f)

(* No slot is passed before the first step.                               *)
LEMMA CheckInvFirst == ASSUME Init PROVE CheckInv
<1>1. cmd \in Command /\ cmd.start <= Len(cmd.ws)
  BY CommandsAssumption DEF Init
<1>2. CmdOK
  BY <1>1 DEF Init, CmdOK
<1>3. task = "check" /\ failed = {} /\ k = 1
  BY DEF Init
<1>4. \A n \in DOMAIN slots : ~(n < k)
  <2>1. DOMAIN slots = 1 .. Len(Views(cmd.ws)) - cmd.start
    BY <1>2 DEF CmdOK, Readings
  <2> QED
    BY <1>3, <2>1
<1> QED
  BY <1>2, <1>3, <1>4 DEF CheckInv

(* The input stays, and so does what the check finds of it.                *)
LEMMA InputStays ==
  ASSUME UNCHANGED input
  PROVE  /\ CmdOK' <=> CmdOK
         /\ DOMAIN slots' = DOMAIN slots /\ cmd' = cmd /\ cwd' = cwd /\ slots' = slots
         /\ \A n : SlotFault(n)' = SlotFault(n)
         /\ PathsGiven' = PathsGiven
         /\ \A path : LeadsWhereItSays(path)' <=> LeadsWhereItSays(path)
<1>1. cmd' = cmd /\ slots' = slots /\ cwd' = cwd
  BY DEF input
<1>2. CmdOK' <=> CmdOK
  BY <1>1 DEF CmdOK
<1>3. \A n : SlotFault(n)' = SlotFault(n)
  BY <1>1 DEF SlotFault, InlinePaths, parts
<1>4. PathsGiven' = PathsGiven
  BY <1>1 DEF PathsGiven, InlinePaths, parts
<1>5. \A path : LeadsWhereItSays(path)' <=> LeadsWhereItSays(path)
  BY <1>1 DEF LeadsWhereItSays
<1> QED
  BY <1>1, <1>2, <1>3, <1>4, <1>5

(* The slots are counted from 1.                                           *)
LEMMA SlotsCounted == CmdOK => DOMAIN slots = 1 .. Len(slots) /\ Len(slots) \in Nat
<1> SUFFICES ASSUME CmdOK PROVE DOMAIN slots = 1 .. Len(slots) /\ Len(slots) \in Nat
  OBVIOUS
<1> DEFINE ws == Views(cmd.ws)
           m == Len(ws) - cmd.start
           A == UNION {SlotsFor(cmd.g, ws[n]) : n \in cmd.start + 1 .. Len(ws)}
<1>1. slots \in [1 .. m -> A]
  BY DEF CmdOK, Readings
<1>2. m \in Nat
  <2>1. cmd.ws \in Seq(Seq(Part)) /\ cmd.start \in Nat /\ cmd.start <= Len(cmd.ws)
    BY DEF CmdOK, Command
  <2>2. Len(ws) = Len(cmd.ws)
    BY <2>1 DEF Views
  <2> HIDE DEF ws
  <2> QED
    BY <2>1, <2>2
<1> HIDE DEF m, A
<1>3. slots \in Seq(A)
  BY <1>1, <1>2
<1> QED
  BY <1>3

(* Only the path check itself changes what is said of the slots.          *)
LEMMA CheckInvSteps == ASSUME CheckInv, [Next]_vars PROVE CheckInv'
<1>0. CmdOK /\ DOMAIN slots = 1 .. Len(slots) /\ Len(slots) \in Nat
  BY SlotsCounted DEF CheckInv
<1>1. UNCHANGED input
  BY DEF Next, vars, input, PathPasses, PathFails, PathsPass, KeyMisses, KeyHits, OptPresent, OptMissing,
    OptsPresent, TargetHit, TargetMiss, NoTargetHit, Goto, Advance, RuleHits
<1>2. /\ CmdOK' /\ slots' = slots /\ cmd' = cmd
      /\ \A n : SlotFault(n)' = SlotFault(n)
  BY <1>0, <1>1, InputStays
<1>3. \A f : Failing(f)' <=> Failing(f)
  BY <1>2 DEF Failing
<1>4. CASE PathPasses
  <2>1. task = "check" /\ k <= Len(slots) /\ SlotFault(k) = {} /\ k' = k + 1 /\ task' = task /\ failed' = failed
    BY <1>4 DEF PathPasses, Advance
  <2>2. failed = {} /\ k \in Nat \ {0} /\ \A n \in DOMAIN slots : n < k => SlotFault(n) = {}
    BY <2>1 DEF CheckInv
  <2>3. \A n \in DOMAIN slots : n < k + 1 => n < k \/ n = k
    BY <1>0, <2>2
  <2>4. \A n \in DOMAIN slots : n < k' => SlotFault(n) = {}
    BY <2>1, <2>2, <2>3
  <2> QED
    BY <1>2, <2>1, <2>2, <2>4 DEF CheckInv
<1>5. CASE PathFails
  <2>1. /\ task = "check" /\ k <= Len(slots) /\ task' = "key"
        /\ \E u \in SlotFault(k) : failed' = {[kind |-> u, word |-> cmd.start + k]}
    BY <1>5 DEF PathFails
  <2>2. k \in Nat \ {0} /\ \A n \in DOMAIN slots : n < k => SlotFault(n) = {}
    BY <2>1 DEF CheckInv
  <2>3. k \in DOMAIN slots
    BY <1>0, <2>1, <2>2
  <2>4. \A f \in failed' : Failing(f)
    BY <2>1, <2>2, <2>3 DEF Failing
  <2>5. failed' # {}
    BY <2>1
  <2>6. \A f \in failed' : Failing(f)'
    BY <1>3, <2>4
  <2> QED
    BY <1>2, <2>1, <2>5, <2>6 DEF CheckInv
<1>6. CASE PathsPass
  <2>1. task = "check" /\ k > Len(slots) /\ task' = "key" /\ failed' = failed
    BY <1>6 DEF PathsPass, Goto
  <2>2. failed = {} /\ k \in Nat \ {0} /\ \A n \in DOMAIN slots : n < k => SlotFault(n) = {}
    BY <2>1 DEF CheckInv
  <2>3. \A n \in DOMAIN slots : n < k
    BY <1>0, <2>1, <2>2
  <2> QED
    BY <1>2, <2>1, <2>2, <2>3 DEF CheckInv
<1>7. ASSUME task # "check", task' # "check", failed' = failed PROVE CheckInv'
  BY <1>2, <1>3, <1>7 DEF CheckInv
<1>8. CASE KeyMisses \/ KeyHits \/ OptPresent \/ OptMissing \/ OptsPresent
           \/ TargetHit \/ TargetMiss \/ NoTargetHit
  <2>1. task # "check" /\ task' # "check" /\ failed' = failed
    BY <1>8 DEF KeyMisses, KeyHits, OptPresent, OptMissing, OptsPresent, TargetHit, TargetMiss, NoTargetHit,
      Goto, Advance, RuleHits
  <2> QED
    BY <1>7, <2>1
<1>9. CASE UNCHANGED vars
  <2>1. task' = task /\ failed' = failed /\ k' = k
    BY <1>9 DEF vars
  <2> QED
    BY <1>2, <1>3, <2>1 DEF CheckInv
<1> QED
  BY <1>4, <1>5, <1>6, <1>8, <1>9 DEF Next

(* The check of a command goes through its slots in order: those it has   *)
(* passed have no fault, and it fails at the first that has one.           *)
THEOREM CheckInvAlways == Spec => []CheckInv
<1>1. Init => CheckInv
  BY CheckInvFirst
<1>2. CheckInv /\ [Next]_vars => CheckInv'
  BY CheckInvSteps
<1> QED
  BY <1>1, <1>2, PTL DEF Spec

(* The path check passes exactly when every path of the command leads      *)
(* where it says, and names the first word with one that does not.         *)
THEOREM ChecksEveryPathAlways == Spec => []ChecksEveryPath
<1>1. CheckInv => ChecksEveryPath
  <2> SUFFICES ASSUME CheckInv, task = "done" PROVE ChecksEveryPath
    BY DEF ChecksEveryPath
  <2>1. CmdOK /\ (failed = {} => \A n \in DOMAIN slots : SlotFault(n) = {}) /\ \A f \in failed : Failing(f)
    BY DEF CheckInv
  <2>2. \A n \in DOMAIN slots :
          SlotFault(n) = {} <=> \A path \in PathsGiven : path.slot = n => LeadsWhereItSays(path)
    BY <2>1, SlotFaultSays
  <2>3. \A path \in PathsGiven : path.slot \in DOMAIN slots
    BY PathsAreOfSlots
  <2>4. ASSUME failed = {} PROVE \A path \in PathsGiven : LeadsWhereItSays(path)
    BY <2>1, <2>2, <2>3, <2>4, Zenon
  <2>5. ASSUME NEW f \in failed
        PROVE  \E path \in PathsGiven :
                 /\ f.word = cmd.start + path.slot /\ ~LeadsWhereItSays(path)
                 /\ \A other \in PathsGiven : other.slot < path.slot => LeadsWhereItSays(other)
    <3>1. PICK n \in DOMAIN slots : /\ f.word = cmd.start + n /\ SlotFault(n) # {}
                                    /\ \A m \in DOMAIN slots : m < n => SlotFault(m) = {}
      BY <2>1, Zenon DEF Failing
    <3>2. PICK path \in PathsGiven : path.slot = n /\ ~LeadsWhereItSays(path)
      BY <2>2, <3>1, Zenon
    <3> QED
      BY <2>2, <2>3, <3>1, <3>2, Zenon
  <2>6. ASSUME \A path \in PathsGiven : LeadsWhereItSays(path) PROVE failed = {}
    <3>1. \A f \in failed : FALSE
      BY <2>5, <2>6, Zenon
    <3> QED
      BY <3>1
  <2> QED
    BY <2>4, <2>5, <2>6, Zenon DEF ChecksEveryPath
<1> QED
  BY <1>1, CheckInvAlways, PTL

-----------------------------------------------------------------------------
(* Paths cut and put together.                                             *)

(* What holds of nothing, and of one element more, holds of all.           *)
LEMMA ByAppending ==
  ASSUME NEW A, NEW S, <<>> \in S, \A seq \in Seq(A), x \in A : seq \in S => Append(seq, x) \in S
  PROVE  \A seq \in Seq(A) : seq \in S
<1> DEFINE T == {n \in Nat : \A seq \in Seq(A) : Len(seq) = n => seq \in S}
<1>1. 0 \in T
  <2>1. \A seq \in Seq(A) : Len(seq) = 0 => seq = <<>>
    OBVIOUS
  <2> QED
    BY <2>1
<1>2. ASSUME NEW n \in Nat, n \in T PROVE n + 1 \in T
  <2> SUFFICES ASSUME NEW seq \in Seq(A), Len(seq) = n + 1 PROVE seq \in S
    BY <1>2
  <2>1. seq # <<>>
    OBVIOUS
  <2>2. PICK r \in Seq(A) : \E x \in A : seq = Append(r, x)
    BY <2>1, LastOne, Zenon
  <2>3. PICK x \in A : seq = Append(r, x)
    BY <2>2
  <2>4. Len(r) = n
    BY <2>3
  <2>5. r \in S
    BY <1>2, <2>4
  <2> QED
    BY <2>3, <2>5
<1> HIDE DEF T
<1>3. \A n \in Nat : n \in T
  BY <1>1, <1>2, Induct
<1> QED
  BY <1>3 DEF T

(* A path is one segment, or has one behind its last slash.                *)
LEMMA CutAtLastSlash ==
  ASSUME NEW y \in Seq(PathByte), y \notin Seg
  PROVE  \E x \in Seq(PathByte), seg \in Seg : y = x \o <<"/">> \o seg /\ Len(x) < Len(y)
<1> DEFINE at == {n \in 1 .. Len(y) : y[n] = "/"}
<1>1. at # {} /\ at \in SUBSET (1 .. Len(y)) /\ Len(y) \in Nat
  BY DEF Seg
<1>2. \E n \in at : \A m \in at : m <= n
  <2> DEFINE far == {Len(y) - n : n \in at}
  <2>1. far \in SUBSET Nat /\ far # {}
    BY <1>1
  <2>2. PICK d \in far : \A e \in far : d <= e
    BY <2>1, Least
  <2>3. PICK n \in at : d = Len(y) - n
    BY <2>2
  <2>4. \A m \in at : Len(y) - n <= Len(y) - m
    BY <2>2, <2>3
  <2>5. \A m \in at : m \in Nat
    BY <1>1
  <2> HIDE DEF at
  <2> QED
    BY <1>1, <2>3, <2>4, <2>5
<1>3. PICK n \in at : \A m \in at : m <= n
  BY <1>2
<1>4. n \in 1 .. Len(y) /\ y[n] = "/" /\ \A m \in n + 1 .. Len(y) : y[m] # "/"
  BY <1>1, <1>3
<1> HIDE DEF at
<1> DEFINE x == SubSeq(y, 1, n - 1)
           seg == SubSeq(y, n + 1, Len(y))
<1>5. x \in Seq(PathByte) /\ Len(x) = n - 1 /\ \A m \in 1 .. n - 1 : x[m] = y[m]
  BY <1>4
<1>6. seg \in Seq(PathByte) /\ Len(seg) = Len(y) - n /\ \A m \in 1 .. Len(y) - n : seg[m] = y[n + m]
  BY <1>4
<1>7. seg \in Seg
  <2>1. DOMAIN seg = 1 .. Len(y) - n
    BY <1>4, <1>6
  <2>2. \A m \in 1 .. Len(y) - n : n + m \in n + 1 .. Len(y)
    BY <1>4
  <2> HIDE DEF seg
  <2>3. \A m \in DOMAIN seg : seg[m] # "/"
    BY <1>4, <1>6, <2>1, <2>2
  <2> QED
    BY <1>6, <2>3 DEF Seg
<1>8. <<"/">> \in Seq(PathByte)
  BY SegSteps
<1> HIDE DEF x, seg
<1>9. y = x \o <<"/">> \o seg
  <2> DEFINE z == x \o <<"/">> \o seg
  <2>1. z \in Seq(PathByte) /\ Len(z) = Len(y)
    BY <1>4, <1>5, <1>6, <1>8
  <2>2. ASSUME NEW m \in 1 .. Len(y) PROVE z[m] = y[m]
    <3>1. m \in 1 .. n - 1 \/ m = n \/ m \in n + 1 .. Len(y)
      BY <1>4
    <3>2. CASE m \in 1 .. n - 1
      BY <1>4, <1>5, <1>6, <1>8, <3>2
    <3>3. CASE m = n
      BY <1>4, <1>5, <1>6, <1>8, <3>3
    <3>4. CASE m \in n + 1 .. Len(y)
      <4>1. z[m] = seg[m - n] /\ m - n \in 1 .. Len(y) - n /\ n + (m - n) = m
        BY <1>4, <1>5, <1>6, <1>8, <3>4
      <4> QED
        BY <1>6, <4>1
    <3> QED
      BY <3>1, <3>2, <3>3, <3>4
  <2> HIDE DEF z
  <2>3. z = y
    BY <2>1, <2>2
  <2> QED
    BY <2>3 DEF z
<1>10. Len(x) < Len(y)
  BY <1>4, <1>5
<1> QED
  BY <1>5, <1>7, <1>9, <1>10, Zenon

(* What holds of segments, and of one more behind a slash, holds of paths. *)
LEMMA BySegments ==
  ASSUME NEW S, \A seg \in Seg : seg \in S,
         \A x \in Seq(PathByte), seg \in Seg : x \in S => x \o <<"/">> \o seg \in S
  PROVE  \A y \in Seq(PathByte) : y \in S
<1> DEFINE T == {n \in Nat : \A y \in Seq(PathByte) : Len(y) <= n => y \in S}
<1>1. \A y \in Seq(PathByte) :
        y \notin S => \E x \in Seq(PathByte) : x \notin S /\ Len(x) < Len(y)
  <2> SUFFICES ASSUME NEW y \in Seq(PathByte), y \notin S
               PROVE  \E x \in Seq(PathByte) : x \notin S /\ Len(x) < Len(y)
    OBVIOUS
  <2>1. y \notin Seg
    BY Zenon
  <2>2. PICK x \in Seq(PathByte) : \E seg \in Seg : y = x \o <<"/">> \o seg /\ Len(x) < Len(y)
    BY <2>1, CutAtLastSlash, Zenon
  <2> QED
    BY <2>2, Zenon
<1> DEFINE Bad == {Len(y) : y \in {z \in Seq(PathByte) : z \notin S}}
<1>2. SUFFICES ASSUME Bad # {} PROVE FALSE
  OBVIOUS
<1>3. Bad \in SUBSET Nat
  OBVIOUS
<1>4. PICK n \in Bad : \A m \in Bad : n <= m
  BY <1>2, <1>3, Least, Zenon
<1>5. PICK y \in Seq(PathByte) : y \notin S /\ n = Len(y)
  BY <1>4
<1>6. PICK x \in Seq(PathByte) : x \notin S /\ Len(x) < Len(y)
  BY <1>1, <1>5, Zenon
<1>7. Len(x) \in Bad
  BY <1>6
<1> HIDE DEF Bad
<1> QED
  BY <1>4, <1>5, <1>6, <1>7

(* A path and what is behind a slash of it.                                *)
Over(x, y) == x \o <<"/">> \o y

Slash == <<"/">>

(* Slashes and pieces in a row are put together in any order.              *)
LEMMA OverTypes ==
  /\ Slash \in Seq(PathByte)
  /\ \A x, y \in Seq(PathByte) : x \o y \in Seq(PathByte)
  /\ \A x, y \in Seq(PathByte) : Over(x, y) \in Seq(PathByte)
<1>1. Slash \in Seq(PathByte)
  BY SegSteps DEF Slash
<1>2. \A x, y \in Seq(PathByte) : x \o y \in Seq(PathByte)
  OBVIOUS
<1>3. \A x, y : Over(x, y) = (x \o Slash) \o y
  BY DEF Over, Slash
<1> QED
  BY <1>1, <1>2, <1>3

(* Where sequences are put together first does not matter.                 *)
LEMMA CatCat ==
  ASSUME NEW x \in Seq(PathByte), NEW y \in Seq(PathByte), NEW z \in Seq(PathByte)
  PROVE  (x \o y) \o z = x \o (y \o z)
BY Associates

(* What follows a path goes with its last part.                            *)
LEMMA OverCat ==
  ASSUME NEW x \in Seq(PathByte), NEW y \in Seq(PathByte), NEW z \in Seq(PathByte)
  PROVE  Over(x, y) \o z = Over(x, y \o z)
<1>1. x \o Slash \in Seq(PathByte)
  BY OverTypes
<1>2. ((x \o Slash) \o y) \o z = (x \o Slash) \o (y \o z)
  BY <1>1, CatCat
<1> QED
  BY <1>2, Zenon DEF Over, Slash

(* What is in front of a path goes with its first part.                    *)
LEMMA CatOver ==
  ASSUME NEW x \in Seq(PathByte), NEW y \in Seq(PathByte), NEW z \in Seq(PathByte)
  PROVE  Over(x \o y, z) = x \o Over(y, z)
<1>1. Slash \in Seq(PathByte) /\ y \o Slash \in Seq(PathByte)
  BY OverTypes
<1>2. (x \o y) \o Slash = x \o (y \o Slash)
  BY <1>1, CatCat
<1>3. (x \o (y \o Slash)) \o z = x \o ((y \o Slash) \o z)
  BY <1>1, CatCat, SMTT(60)
<1> QED
  BY <1>2, <1>3, Zenon DEF Over, Slash

(* So does a slash in front.                                               *)
LEMMA SlashOver ==
  ASSUME NEW x \in Seq(PathByte), NEW z \in Seq(PathByte)
  PROVE  Over(Slash \o x, z) = Slash \o Over(x, z)
<1>1. \A w \in Seq(PathByte) : Over(w \o x, z) = w \o Over(x, z)
  BY CatOver
<1> QED
  BY <1>1, OverTypes, Zenon

(* A path of three parts is cut at either slash.                           *)
LEMMA OverOver ==
  ASSUME NEW x \in Seq(PathByte), NEW y \in Seq(PathByte), NEW z \in Seq(PathByte)
  PROVE  Over(Over(x, y), z) = Over(x, Over(y, z))
<1>1. x \o Slash \in Seq(PathByte)
  BY OverTypes
<1>2. Over((x \o Slash) \o y, z) = (x \o Slash) \o Over(y, z)
  BY <1>1, CatOver
<1> QED
  BY <1>2, Zenon DEF Over, Slash

(* Pieces of paths, by name.                                               *)
LEMMA KeptOver ==
  ASSUME NEW q \in Seq(PathByte), NEW seg \in Seg
  PROVE  Kept(Over(q, seg)) = FilterStep(Kept(q), seg)
BY KeptSteps, Zenon DEF Over

(* What is kept behind the segments kept before.                           *)
LEMMA FilterBehind ==
  ASSUME NEW front \in Seq(GoodSeg), NEW ks \in Seq(GoodSeg), NEW seg \in Seg
  PROVE  /\ front \o FilterStep(ks, seg) = FilterStep(front \o ks, seg)
         /\ front \o FilterStep(<<>>, seg) = FilterStep(front, seg)
         /\ FilterStep(ks, seg) \in Seq(GoodSeg)
<1>1. KeepSeg(seg) => seg \in GoodSeg
  BY DEF GoodSeg
<1>2. FilterStep(ks, seg) \in Seq(GoodSeg)
  BY FilterTypes, Zenon
<1>3. \A ls \in Seq(GoodSeg) : front \o FilterStep(ls, seg) = FilterStep(front \o ls, seg)
  <2> SUFFICES ASSUME NEW ls \in Seq(GoodSeg)
               PROVE  front \o FilterStep(ls, seg) = FilterStep(front \o ls, seg)
    OBVIOUS
  <2>1. CASE KeepSeg(seg)
    <3>1. front \o Append(ls, seg) = Append(front \o ls, seg)
      BY <1>1, <2>1, BehindBoth
    <3> QED
      BY <2>1, <3>1 DEF FilterStep
  <2>2. CASE ~KeepSeg(seg)
    BY <2>2 DEF FilterStep
  <2> QED
    BY <2>1, <2>2
<1>4. <<>> \in Seq(GoodSeg) /\ front \o <<>> = front
  OBVIOUS
<1> QED
  BY <1>2, <1>3, <1>4, Zenon

(* The segments of a path and of what is behind a slash.                   *)
LEMMA KeptAtSlash ==
  ASSUME NEW x \in Seq(PathByte)
  PROVE  \A y \in Seq(PathByte) : Kept(Over(x, y)) = Kept(x) \o Kept(y)
<1> DEFINE S == {y \in Seq(PathByte) : Kept(Over(x, y)) = Kept(x) \o Kept(y)}
<1>0. \A seg \in Seg : seg \in Seq(PathByte)
  BY SegSteps
<1>1. \A q \in Seq(PathByte) : Kept(q) \in Seq(GoodSeg)
  BY KeptSteps, SegSteps, Zenon
<1>2. ASSUME NEW seg \in Seg PROVE seg \in S
  <2>1. Kept(seg) = FilterStep(<<>>, seg) /\ Kept(Over(x, seg)) = FilterStep(Kept(x), seg)
    BY KeptOver, KeptSteps, Zenon
  <2>2. Kept(x) \o FilterStep(<<>>, seg) = FilterStep(Kept(x), seg)
    BY <1>1, FilterBehind, Zenon
  <2> QED
    BY <1>0, <2>1, <2>2
<1>3. ASSUME NEW y \in Seq(PathByte), NEW seg \in Seg, y \in S PROVE y \o <<"/">> \o seg \in S
  <2>1. Kept(Over(x, y)) = Kept(x) \o Kept(y) /\ Over(x, y) \in Seq(PathByte) /\ Over(y, seg) \in Seq(PathByte)
    BY <1>0, <1>3, OverTypes
  <2>2. Over(x, Over(y, seg)) = Over(Over(x, y), seg)
    BY <1>0, OverOver, Zenon
  <2>3. Kept(Over(Over(x, y), seg)) = FilterStep(Kept(x) \o Kept(y), seg) /\ Kept(Over(y, seg)) = FilterStep(Kept(y), seg)
    BY <2>1, KeptOver, Zenon
  <2>4. Kept(x) \o FilterStep(Kept(y), seg) = FilterStep(Kept(x) \o Kept(y), seg)
    BY <1>1, FilterBehind, Zenon
  <2>5. Over(y, seg) \in S
    BY <2>1, <2>2, <2>3, <2>4, Zenon
  <2> QED
    BY <2>5, Zenon DEF Over
<1> HIDE DEF S
<1>4. \A y \in Seq(PathByte) : y \in S
  BY <1>2, <1>3, BySegments, Zenon
<1> QED
  BY <1>4 DEF S

(* A path ends with one segment behind what is kept before it.             *)
LEMMA LastPiece ==
  ASSUME NEW y \in Seq(PathByte)
  PROVE  \E x \in Seq(PathByte), ks \in Seq(GoodSeg), seg \in Seg :
           y = x \o seg /\ \A w \in Seq(PathByte) : Kept(x \o w) = ks \o Kept(w)
<1>0. <<>> \in Seq(PathByte) /\ <<>> \in Seq(GoodSeg) /\ \A q \in Seq(PathByte) : Kept(q) \in Seq(GoodSeg)
  BY KeptSteps, SegSteps
<1>1. CASE y \in Seg
  <2>1. y = <<>> \o y /\ \A w \in Seq(PathByte) : <<>> \o w = w
    OBVIOUS
  <2>2. \A w \in Seq(PathByte) : <<>> \o Kept(w) = Kept(w)
    BY <1>0
  <2>3. \A w \in Seq(PathByte) : Kept(<<>> \o w) = <<>> \o Kept(w)
    BY <2>1, <2>2, Zenon
  <2> QED
    BY <1>0, <1>1, <2>1, <2>3
<1>2. CASE y \notin Seg
  <2>1. PICK x \in Seq(PathByte), seg \in Seg : y = x \o <<"/">> \o seg
    BY <1>2, CutAtLastSlash, Zenon
  <2>2. x \o Slash \in Seq(PathByte)
    BY OverTypes, Zenon
  <2>3. \A w : Over(x, w) = (x \o Slash) \o w
    BY DEF Over, Slash
  <2>4. \A w \in Seq(PathByte) : Kept((x \o Slash) \o w) = Kept(x) \o Kept(w)
    BY <2>3, KeptAtSlash, ZenonT(60)
  <2>5. y = (x \o Slash) \o seg
    BY <2>1 DEF Slash
  <2> QED
    BY <1>0, <2>2, <2>4, <2>5, Zenon
<1> QED
  BY <1>1, <1>2

(* A path begins with one segment, and a slash is behind it or nothing.    *)
LEMMA FirstPiece ==
  ASSUME NEW r \in Seq(PathByte)
  PROVE  \E seg \in Seg, rest \in Seq(PathByte), ks \in Seq(GoodSeg) :
           r = seg \o rest /\ \A w \in Seq(PathByte) : Kept(w \o rest) = Kept(w) \o ks
<1> DEFINE Rest(q) == q = <<>> \/ \E x \in Seq(PathByte) : q = Slash \o x
           S == {y \in Seq(PathByte) : \E seg \in Seg, q \in Seq(PathByte) : y = seg \o q /\ Rest(q)}
<1>0. /\ <<>> \in Seq(PathByte) /\ <<>> \in Seq(GoodSeg) /\ \A seg \in Seg : seg \in Seq(PathByte)
      /\ Slash \in Seq(PathByte)
  BY SegSteps, OverTypes
<1>1. \A q \in Seq(PathByte) : Kept(q) \in Seq(GoodSeg)
  BY KeptSteps, SegSteps, Zenon
<1>2. \A x, y : Over(x, y) = (x \o Slash) \o y
  BY DEF Over, Slash
<1>3. ASSUME NEW seg \in Seg PROVE seg \in S
  <2>1. seg = seg \o <<>>
    BY <1>0
  <2> QED
    BY <1>0, <2>1
<1>4. ASSUME NEW y \in Seq(PathByte), NEW seg \in Seg, y \in S PROVE y \o <<"/">> \o seg \in S
  <2>1. PICK s1 \in Seg, q \in Seq(PathByte) : y = s1 \o q /\ Rest(q)
    BY <1>4
  <2>2. Over(y, seg) = s1 \o Over(q, seg) /\ Over(q, seg) \in Seq(PathByte) /\ Over(y, seg) \in Seq(PathByte)
    <3>1. seg \in Seq(PathByte) /\ s1 \in Seq(PathByte)
      BY <1>0
    <3>2. Over(s1 \o q, seg) = s1 \o Over(q, seg)
      BY <3>1, CatOver, ZenonT(60)
    <3>3. Over(q, seg) \in Seq(PathByte) /\ Over(y, seg) \in Seq(PathByte)
      BY <2>1, <3>1, OverTypes, Zenon
    <3> QED
      BY <2>1, <3>2, <3>3, Zenon
  <2>3. Rest(Over(q, seg))
    <3>1. CASE q = <<>>
      <4>1. <<>> \o Slash = Slash
        BY <1>0
      <4> QED
        BY <1>0, <1>2, <3>1, <4>1
    <3>2. ASSUME NEW x \in Seq(PathByte), q = Slash \o x PROVE Rest(Over(q, seg))
      <4>1. Over(q, seg) = Slash \o Over(x, seg) /\ Over(x, seg) \in Seq(PathByte)
        <5>1. seg \in Seq(PathByte)
          BY <1>0
        <5>2. Slash \in Seq(PathByte) /\ Over(x, seg) \in Seq(PathByte)
          BY <5>1, OverTypes, Zenon
        <5>3. Over(Slash \o x, seg) = Slash \o Over(x, seg)
          BY <5>1, SlashOver, Zenon
        <5> QED
          BY <3>2, <5>2, <5>3, Zenon
      <4> QED
        BY <4>1
    <3> QED
      BY <2>1, <3>1, <3>2
  <2> HIDE DEF Rest
  <2>4. Over(y, seg) \in S
    BY <2>2, <2>3
  <2> QED
    BY <2>4 DEF Over
<1> HIDE DEF S
<1>5. r \in S
  BY <1>3, <1>4, BySegments, Zenon
<1>6. PICK seg \in Seg, q \in Seq(PathByte) : r = seg \o q /\ Rest(q)
  BY <1>5 DEF S
<1>7. CASE q = <<>>
  <2>1. \A w \in Seq(PathByte) : w \o q = w
    BY <1>7
  <2>2. \A ks \in Seq(GoodSeg) : ks \o <<>> = ks
    OBVIOUS
  <2>3. \A w \in Seq(PathByte) : Kept(w \o q) = Kept(w) \o <<>>
    BY <1>1, <2>1, <2>2, Zenon
  <2> QED
    BY <1>0, <1>6, <2>3, Zenon
<1>8. ASSUME NEW x \in Seq(PathByte), q = Slash \o x
      PROVE  \E ks \in Seq(GoodSeg) : \A w \in Seq(PathByte) : Kept(w \o q) = Kept(w) \o ks
  <2>1. \A w \in Seq(PathByte) : w \o q = Over(w, x)
    <3>0. Slash \in Seq(PathByte)
      BY OverTypes
    <3>1. \A w \in Seq(PathByte) : w \o (Slash \o x) = (w \o Slash) \o x
      BY <3>0, CatCat, SMTT(60)
    <3> QED
      BY <1>2, <1>8, <3>1, Zenon
  <2>2. \A w \in Seq(PathByte) : Kept(w \o q) = Kept(w) \o Kept(x)
    BY <2>1, KeptAtSlash, Zenon
  <2> QED
    BY <1>1, <2>2, Zenon
<1> QED
  BY <1>6, <1>7, <1>8, Zenon

(* What begins a sequence has the rest of it behind.                       *)
LEMMA PrefixRest ==
  ASSUME NEW A, NEW q \in Seq(A), NEW y \in Seq(A)
  PROVE  /\ IsPrefix(q, y) => Len(q) <= Len(y) /\ y = q \o SubSeq(y, Len(q) + 1, Len(y))
         /\ IsPrefix(q, y) => SubSeq(y, Len(q) + 1, Len(y)) \in Seq(A)
         /\ IsPrefix(q, q \o y)
<1>1. Len(q) \in Nat /\ Len(y) \in Nat
  OBVIOUS
<1>2. ASSUME IsPrefix(q, y) PROVE y = q \o SubSeq(y, Len(q) + 1, Len(y)) /\ SubSeq(y, Len(q) + 1, Len(y)) \in Seq(A)
  <2> DEFINE r == SubSeq(y, Len(q) + 1, Len(y))
  <2>1. Len(q) <= Len(y) /\ SubSeq(q, 1, Len(q)) = SubSeq(y, 1, Len(q))
    BY <1>2 DEF IsPrefix
  <2>2. SubSeq(q, 1, Len(q)) = q
    BY NoneAndAll
  <2>3. \A n \in 1 .. Len(q) : q[n] = y[n]
    <3>1. \A n \in 1 .. Len(q) : SubSeq(y, 1, Len(q))[n] = y[n]
      BY <1>1, <2>1
    <3> QED
      BY <2>1, <2>2, <3>1
  <2>4. r \in Seq(A) /\ Len(r) = Len(y) - Len(q) /\ \A n \in 1 .. Len(y) - Len(q) : r[n] = y[Len(q) + n]
    BY <1>1, <2>1
  <2> HIDE DEF r
  <2> DEFINE z == q \o r
  <2>5. z \in Seq(A) /\ Len(z) = Len(y)
    BY <1>1, <2>1, <2>4
  <2>6. ASSUME NEW n \in 1 .. Len(y) PROVE z[n] = y[n]
    <3>1. CASE n <= Len(q)
      BY <1>1, <2>1, <2>3, <2>4, <3>1
    <3>2. CASE n > Len(q)
      <4>1. z[n] = r[n - Len(q)] /\ n - Len(q) \in 1 .. Len(y) - Len(q) /\ Len(q) + (n - Len(q)) = n
        BY <1>1, <2>1, <2>4, <3>2
      <4> QED
        BY <2>4, <4>1
    <3>3. n <= Len(q) \/ n > Len(q)
      BY <1>1
    <3> QED
      BY <3>1, <3>2, <3>3
  <2> HIDE DEF z
  <2>7. z = y
    BY <2>5, <2>6
  <2> QED
    BY <2>4, <2>7 DEF z, r
<1>3. IsPrefix(q, q \o y)
  <2> DEFINE z == q \o y
  <2>1. z \in Seq(A) /\ Len(z) = Len(q) + Len(y) /\ \A n \in 1 .. Len(q) : z[n] = q[n]
    OBVIOUS
  <2> HIDE DEF z
  <2>2. SubSeq(z, 1, Len(q)) = SubSeq(q, 1, Len(q))
    BY <1>1, <2>1
  <2> QED
    BY <1>1, <2>1, <2>2 DEF IsPrefix, z
<1> QED
  BY <1>2, <1>3 DEF IsPrefix

(* A beginning of a sequence.                                              *)
LEMMA Beginning ==
  ASSUME NEW A, NEW seq \in Seq(A), NEW m \in 0 .. Len(seq)
  PROVE  /\ SubSeq(seq, 1, m) \in Seq(A) /\ Len(SubSeq(seq, 1, m)) = m
         /\ \A n \in 1 .. m : SubSeq(seq, 1, m)[n] = seq[n]
OBVIOUS

(* What begins a list of names starts it.                                  *)
LEMMA PrefixStarts ==
  ASSUME NEW qs \in Seq(GoodSeg), NEW ns \in Seq(GoodSeg), IsPrefix(qs, ns)
  PROVE  StartOf(qs, ns)
<1>1. Len(qs) \in Nat /\ Len(ns) \in Nat /\ Len(qs) <= Len(ns)
  BY DEF IsPrefix
<1>2. CASE qs # <<>>
  <2>1. Len(qs) >= 1
    BY <1>1, <1>2
  <2>2. SubSeq(qs, 1, Len(qs)) = SubSeq(ns, 1, Len(qs))
    BY DEF IsPrefix
  <2>3. \A n \in 1 .. Len(qs) : qs[n] = ns[n]
    <3>1. \A n \in 1 .. Len(qs) : SubSeq(ns, 1, Len(qs))[n] = ns[n]
      BY <1>1
    <3>2. SubSeq(qs, 1, Len(qs)) = qs
      BY NoneAndAll
    <3> QED
      BY <2>2, <3>1, <3>2
  <2> DEFINE fr == Front(qs)
  <2>4. fr \in Seq(GoodSeg) /\ Len(fr) = Len(qs) - 1 /\ \A n \in 1 .. Len(fr) : fr[n] = qs[n]
    <3>0. Len(qs) - 1 \in 0 .. Len(qs)
      BY <1>1, <2>1
    <3>1. fr = SubSeq(qs, 1, Len(qs) - 1)
      BY Zenon DEF Front
    <3> HIDE DEF fr
    <3>2. SubSeq(qs, 1, Len(qs) - 1) \in Seq(GoodSeg) /\ Len(SubSeq(qs, 1, Len(qs) - 1)) = Len(qs) - 1
      BY <3>0, Beginning
    <3>3. \A n \in 1 .. Len(qs) - 1 : SubSeq(qs, 1, Len(qs) - 1)[n] = qs[n]
      BY <3>0, Beginning
    <3> QED
      BY <3>1, <3>2, <3>3
  <2> HIDE DEF fr
  <2>5. SubSeq(fr, 1, Len(fr)) = SubSeq(ns, 1, Len(fr))
    BY <1>1, <2>1, <2>3, <2>4, SMTT(60)
  <2>6. IsPrefix(fr, ns)
    BY <1>1, <2>1, <2>4, <2>5 DEF IsPrefix
  <2>7. Last(qs) = ns[Len(qs)] /\ Last(qs) \in Seq(PathByte)
    <3>1. \A x \in GoodSeg : x \in Seq(PathByte)
      BY SegSteps DEF GoodSeg
    <3> QED
      BY <1>1, <2>1, <2>3, <3>1 DEF Last
  <2>8. IsPrefix(Last(qs), ns[Len(qs)])
    <3>1. \A x \in Seq(PathByte) : IsPrefix(x, x)
      BY DEF IsPrefix
    <3> QED
      BY <2>7, <3>1, Zenon
  <2> QED
    BY <1>1, <2>6, <2>8 DEF StartOf, fr
<1>3. CASE qs = <<>>
  BY <1>3 DEF StartOf
<1> QED
  BY <1>2, <1>3

(* A name cut short, behind the same names.                                *)
LEMMA CutShort ==
  ASSUME NEW ks \in Seq(GoodSeg), NEW short \in GoodSeg, NEW name \in GoodSeg, NEW rest \in Seq(GoodSeg),
         IsPrefix(short, name)
  PROVE  StartOf(Append(ks, short), Append(ks, name) \o rest)
<1> DEFINE qs == Append(ks, short)
           ns == Append(ks, name) \o rest
<1>1. Len(ks) \in Nat /\ Len(rest) \in Nat
  OBVIOUS
<1>2. /\ qs \in Seq(GoodSeg) /\ Len(qs) = Len(ks) + 1 /\ qs[Len(ks) + 1] = short
      /\ \A n \in 1 .. Len(ks) : qs[n] = ks[n]
  OBVIOUS
<1>3. /\ ns \in Seq(GoodSeg) /\ Len(ns) = Len(ks) + 1 + Len(rest) /\ ns[Len(ks) + 1] = name
      /\ \A n \in 1 .. Len(ks) : ns[n] = ks[n]
  OBVIOUS
<1> HIDE DEF qs, ns
<1> DEFINE fr == Front(qs)
<1>4. fr \in Seq(GoodSeg) /\ Len(fr) = Len(ks) /\ \A n \in 1 .. Len(ks) : fr[n] = ks[n]
  BY <1>1, <1>2 DEF Front
<1> HIDE DEF fr
<1>5. SubSeq(fr, 1, Len(fr)) = SubSeq(ns, 1, Len(fr))
  BY <1>1, <1>3, <1>4
<1>6. IsPrefix(fr, ns)
  BY <1>1, <1>3, <1>4, <1>5 DEF IsPrefix
<1>7. Last(qs) = short /\ ns[Len(qs)] = name
  BY <1>2, <1>3 DEF Last
<1>8. Len(qs) <= Len(ns)
  BY <1>1, <1>2, <1>3
<1> QED
  BY <1>6, <1>7, <1>8 DEF StartOf, fr, qs, ns

(* A directory above a path has the first of its names.                    *)
LEMMA UnderSays ==
  ASSUME NEW q \in Seq(PathByte), NEW y \in Seq(PathByte), Under(q, y)
  PROVE  q = <<>> \/ IsPrefix(Kept(q), Kept(y))
<1> SUFFICES ASSUME q # <<>> PROVE IsPrefix(Kept(q), Kept(y))
  OBVIOUS
<1>0. \A x \in Seq(PathByte) : Kept(x) \in Seq(GoodSeg)
  BY KeptSteps, SegSteps, Zenon
<1>a. \A ks, ls \in Seq(GoodSeg) : IsPrefix(ks, ks \o ls)
  BY PrefixRest
<1> DEFINE r == SubSeq(y, Len(q) + 1, Len(y))
<1>1. Len(q) <= Len(y) /\ y = q \o r /\ r \in Seq(PathByte)
  BY PrefixRest DEF Under
<1>2. Len(q) \in Nat \ {0} /\ Len(y) \in Nat
  OBVIOUS
<1>3. Len(r) = Len(y) - Len(q) /\ \A n \in 1 .. Len(y) - Len(q) : r[n] = y[Len(q) + n]
  BY <1>1, <1>2
<1> HIDE DEF r
<1>4. CASE Len(q) = Len(y)
  <2>1. r = <<>>
    BY <1>1, <1>3, <1>4
  <2>2. y = q
    BY <1>1, <2>1
  <2>3. \A ks \in Seq(GoodSeg) : ks \o <<>> = ks /\ <<>> \in Seq(GoodSeg)
    OBVIOUS
  <2> QED
    BY <1>0, <1>a, <2>2, <2>3, Zenon
<1>5. CASE Len(q) # Len(y) /\ y[Len(q) + 1] = "/"
  <2>1. r # <<>> /\ r[1] = "/"
    BY <1>1, <1>2, <1>3, <1>5
  <2> DEFINE x == SubSeq(r, 2, Len(r))
  <2>2. x \in Seq(PathByte)
    BY <1>1
  <2>3. r = Slash \o x
    BY <1>1, <2>1 DEF Slash
  <2> HIDE DEF x
  <2>4. y = Over(q, x)
    <3>1. Slash \in Seq(PathByte)
      BY OverTypes
    <3>2. (q \o Slash) \o x = q \o (Slash \o x)
      BY <2>2, <3>1, CatCat
    <3> QED
      BY <1>1, <2>3, <3>2, Zenon DEF Over, Slash
  <2>5. Kept(y) = Kept(q) \o Kept(x)
    BY <2>2, <2>4, KeptAtSlash, Zenon
  <2> QED
    BY <1>0, <1>a, <2>2, <2>5, Zenon
<1>6. CASE q[Len(q)] = "/"
  <2> DEFINE x == SubSeq(q, 1, Len(q) - 1)
  <2>1. x \in Seq(PathByte) /\ q = Append(x, "/") /\ q = x \o Slash
    <3>1. x \in Seq(PathByte) /\ Len(x) = Len(q) - 1 /\ \A n \in 1 .. Len(q) - 1 : x[n] = q[n]
      <4>1. Len(q) - 1 \in 0 .. Len(q)
        BY <1>2
      <4> QED
        BY <4>1, Beginning
    <3> HIDE DEF x
    <3>2. q = Append(x, "/")
      BY <1>2, <1>6, <3>1
    <3>3. Append(x, "/") = x \o Slash
      BY <3>1 DEF Slash
    <3> QED
      BY <3>1, <3>2, <3>3
  <2> HIDE DEF x
  <2>2. y = Over(x, r)
    BY <1>1, <2>1, Zenon DEF Over, Slash
  <2>3. Kept(y) = Kept(x) \o Kept(r)
    BY <1>1, <2>1, <2>2, KeptAtSlash, Zenon
  <2>4. Kept(q) = Kept(x)
    BY <2>1, KeptSteps, SegSteps, Zenon
  <2> QED
    BY <1>0, <1>1, <1>a, <2>1, <2>3, <2>4, Zenon
<1> QED
  BY <1>4, <1>5, <1>6 DEF Under

(* What a path begins with starts its names.                               *)
LEMMA BeginsSays ==
  ASSUME NEW q \in Seq(PathByte), NEW y \in Seq(PathByte), IsPrefix(q, y)
  PROVE  StartOf(Kept(q), Kept(y))
<1>0. \A x \in Seq(PathByte) : Kept(x) \in Seq(GoodSeg)
  BY KeptSteps, SegSteps, Zenon
<1>1. PICK x \in Seq(PathByte), ks \in Seq(GoodSeg), short \in Seg :
        q = x \o short /\ \A w \in Seq(PathByte) : Kept(x \o w) = ks \o Kept(w)
  BY LastPiece
<1> DEFINE r == SubSeq(y, Len(q) + 1, Len(y))
<1>2. y = q \o r /\ r \in Seq(PathByte)
  BY PrefixRest
<1> HIDE DEF r
<1>3. PICK more \in Seg, rest \in Seq(PathByte), ls \in Seq(GoodSeg) :
        r = more \o rest /\ \A w \in Seq(PathByte) : Kept(w \o rest) = Kept(w) \o ls
  BY <1>2, FirstPiece
<1> DEFINE name == short \o more
<1>4. /\ short \in Seq(PathByte) /\ more \in Seq(PathByte)
      /\ \A n \in 1 .. Len(short) : short[n] # "/"
      /\ \A n \in 1 .. Len(more) : more[n] # "/"
  BY SegSteps
<1>5. /\ name \in Seq(PathByte) /\ Len(name) = Len(short) + Len(more)
      /\ \A n \in 1 .. Len(short) : name[n] = short[n]
  BY <1>4
<1>6. name \in Seg
  <2>1. \A n \in 1 .. Len(name) : name[n] # "/"
    <3> SUFFICES ASSUME NEW n \in 1 .. Len(name) PROVE name[n] # "/"
      OBVIOUS
    <3>1. CASE n <= Len(short)
      BY <1>4, <1>5, <3>1
    <3>2. CASE n > Len(short)
      <4>1. name[n] = more[n - Len(short)] /\ n - Len(short) \in 1 .. Len(more)
        BY <1>4, <3>2
      <4> QED
        BY <1>4, <4>1
    <3>3. n <= Len(short) \/ n > Len(short)
      BY <1>4
    <3> QED
      BY <3>1, <3>2, <3>3
  <2> HIDE DEF name
  <2>2. DOMAIN name = 1 .. Len(name)
    BY <1>5
  <2> QED
    BY <1>5, <2>1, <2>2 DEF Seg
<1>7. IsPrefix(short, name)
  BY <1>4, PrefixRest
<1>8. Kept(q) = ks \o FilterStep(<<>>, short)
  <2>1. Kept(short) = FilterStep(<<>>, short)
    BY KeptSteps, Zenon
  <2> QED
    BY <1>1, <1>4, <2>1, Zenon
<1>9. y = x \o (name \o rest)
  <2>1. (x \o short) \o (more \o rest) = x \o (short \o (more \o rest))
    <3>1. more \o rest \in Seq(PathByte)
      BY <1>4
    <3> QED
      BY <1>4, <3>1, CatCat, ZenonT(60)
  <2>2. (short \o more) \o rest = short \o (more \o rest)
    BY <1>4, CatCat, ZenonT(60)
  <2> QED
    BY <1>1, <1>2, <1>3, <2>1, <2>2, Zenon
<1> HIDE DEF name
<1>10. Kept(y) = ks \o (FilterStep(<<>>, name) \o ls)
  <2>1. name \o rest \in Seq(PathByte)
    BY <1>5
  <2>2. Kept(name) = FilterStep(<<>>, name)
    BY <1>6, KeptSteps, Zenon
  <2>3. Kept(name \o rest) = FilterStep(<<>>, name) \o ls
    BY <1>3, <1>5, <2>2, Zenon
  <2> QED
    BY <1>1, <1>9, <2>1, <2>3, Zenon
<1>11. FilterStep(<<>>, name) \in Seq(GoodSeg) /\ FilterStep(<<>>, short) \in Seq(GoodSeg)
  BY <1>6, FilterTypes, Zenon
<1>12. CASE ~KeepSeg(short)
  <2>1. Kept(q) = ks
    <3>1. FilterStep(<<>>, short) = <<>>
      BY <1>12 DEF FilterStep
    <3>2. ks \o <<>> = ks
      OBVIOUS
    <3> QED
      BY <1>8, <3>1, <3>2, Zenon
  <2>2. FilterStep(<<>>, name) \o ls \in Seq(GoodSeg)
    BY <1>11
  <2>3. IsPrefix(Kept(q), Kept(y)) /\ Kept(y) \in Seq(GoodSeg)
    BY <1>0, <1>10, <2>1, <2>2, PrefixRest, ZenonT(60)
  <2> QED
    BY <2>1, <2>3, PrefixStarts
<1>13. CASE KeepSeg(short)
  <2>1. KeepSeg(name)
    <3>1. short # <<>> /\ short # <<".">>
      BY <1>13 DEF KeepSeg
    <3>2. Len(short) \in Nat \ {0}
      BY <1>4, <3>1
    <3>3. ASSUME name = <<".">> PROVE FALSE
      <4>1. Len(name) = 1 /\ name[1] = "."
        BY <3>3
      <4>2. Len(short) = 1 /\ short[1] = "."
        BY <1>4, <1>5, <3>2, <4>1
      <4>3. short = <<".">>
        BY <1>4, <4>2
      <4> QED
        BY <3>1, <4>3
    <3>4. name # <<>>
      BY <1>4, <1>5, <3>2
    <3> QED
      BY <3>3, <3>4 DEF KeepSeg
  <2>2. short \in GoodSeg /\ name \in GoodSeg
    BY <1>6, <1>13, <2>1 DEF GoodSeg
  <2>3. FilterStep(<<>>, short) = <<short>> /\ FilterStep(<<>>, name) = <<name>>
    BY <1>13, <2>1 DEF FilterStep
  <2>4. \A seg \in GoodSeg : <<seg>> \in Seq(GoodSeg) /\ ks \o <<seg>> = Append(ks, seg)
    OBVIOUS
  <2>5. ks \o (<<name>> \o ls) = Append(ks, name) \o ls
    <3>1. (ks \o <<name>>) \o ls = ks \o (<<name>> \o ls)
      BY <2>2, <2>4, Associates
    <3> QED
      BY <2>2, <2>4, <3>1, Zenon
  <2> QED
    BY <1>7, <1>8, <1>10, <2>2, <2>3, <2>4, <2>5, CutShort
<1> QED
  BY <1>12, <1>13

(* Segments put together are put together at a slash.                      *)
LEMMA JoinOver ==
  ASSUME NEW a \in Seq(GoodSeg), a # <<>>
  PROVE  \A b \in Seq(GoodSeg) : b # <<>> => JoinSegs(a \o b) = Over(JoinSegs(a), JoinSegs(b))
<1> DEFINE S == {b \in Seq(GoodSeg) : b # <<>> => JoinSegs(a \o b) = Over(JoinSegs(a), JoinSegs(b))}
<1>0. /\ \A ks \in Seq(GoodSeg) : JoinSegs(ks) \in Seq(PathByte)
      /\ \A ks \in Seq(GoodSeg) : JoinSegs(ks) = <<>> <=> ks = <<>>
      /\ \A ks \in Seq(GoodSeg), x \in GoodSeg : JoinSegs(Append(ks, x)) = JoinStep(JoinSegs(ks), x)
      /\ \A x \in GoodSeg : x \in Seq(PathByte)
  <2>1. \A x \in GoodSeg : x \in Seq(PathByte)
    BY SegSteps DEF GoodSeg
  <2> QED
    BY <2>1, JoinEmpty
<1>1. <<>> \in S
  OBVIOUS
<1>2. ASSUME NEW b \in Seq(GoodSeg), NEW x \in GoodSeg, b \in S PROVE Append(b, x) \in S
  <2>1. a \o Append(b, x) = Append(a \o b, x) /\ a \o b \in Seq(GoodSeg)
    BY BehindBoth
  <2>2. a \o b # <<>>
    OBVIOUS
  <2>3. JoinSegs(a \o Append(b, x)) = Over(JoinSegs(a \o b), x)
    <3>1. JoinSegs(Append(a \o b, x)) = JoinStep(JoinSegs(a \o b), x) /\ JoinSegs(a \o b) # <<>>
      BY <1>0, <2>1, <2>2, Zenon
    <3> QED
      BY <2>1, <3>1 DEF JoinStep, Over
  <2>4. CASE b = <<>>
    <3>1. a \o b = a /\ Append(b, x) = <<x>>
      BY <2>4
    <3>2. JoinSegs(Append(b, x)) = x
      BY <1>0, <2>4, JoinNone DEF JoinStep
    <3> QED
      BY <2>3, <3>1, <3>2
  <2>5. CASE b # <<>>
    <3>1. JoinSegs(a \o b) = Over(JoinSegs(a), JoinSegs(b))
      BY <1>2, <2>5
    <3>2. JoinSegs(a) \in Seq(PathByte) /\ JoinSegs(b) \in Seq(PathByte) /\ x \in Seq(PathByte)
      BY <1>0
    <3>3. Over(Over(JoinSegs(a), JoinSegs(b)), x) = Over(JoinSegs(a), Over(JoinSegs(b), x))
      BY <3>2, OverOver, Zenon
    <3>4. JoinSegs(Append(b, x)) = Over(JoinSegs(b), x)
      BY <1>0, <2>5 DEF JoinStep, Over
    <3> QED
      BY <2>3, <3>1, <3>3, <3>4
  <2> QED
    BY <2>4, <2>5
<1> HIDE DEF S
<1>3. \A b \in Seq(GoodSeg) : b \in S
  BY <1>1, <1>2, ByAppending, Zenon
<1> QED
  BY <1>3 DEF S

(* The first of a path's names are a directory above it.                   *)
LEMMA NamesUnder ==
  ASSUME NEW qs \in Seq(GoodSeg), NEW ns \in Seq(GoodSeg), qs # <<>>, IsPrefix(qs, ns)
  PROVE  /\ IsPrefix(JoinSegs(qs), JoinSegs(ns))
         /\ \/ Len(JoinSegs(qs)) = Len(JoinSegs(ns))
            \/ JoinSegs(ns)[Len(JoinSegs(qs)) + 1] = "/"
<1> DEFINE rest == SubSeq(ns, Len(qs) + 1, Len(ns))
           q == JoinSegs(qs)
<1>1. ns = qs \o rest /\ rest \in Seq(GoodSeg)
  BY PrefixRest
<1>2. q \in Seq(PathByte) /\ JoinSegs(rest) \in Seq(PathByte) /\ Slash \in Seq(PathByte)
  BY <1>1, JoinEmpty, OverTypes
<1>3. CASE rest = <<>>
  <2>1. ns = qs
    <3> HIDE DEF rest
    <3>1. \A ks \in Seq(GoodSeg) : ks \o <<>> = ks
      OBVIOUS
    <3> QED
      BY <1>1, <1>3, <3>1, Zenon
  <2> HIDE DEF q
  <2>2. IsPrefix(q, q)
    BY <1>2 DEF IsPrefix
  <2> QED
    BY <2>1, <2>2 DEF q
<1>4. CASE rest # <<>>
  <2> HIDE DEF rest
  <2> DEFINE tail == Slash \o JoinSegs(rest)
  <2>1. JoinSegs(ns) = q \o tail
    <3>1. JoinSegs(ns) = Over(q, JoinSegs(rest))
      BY <1>1, <1>4, JoinOver
    <3> HIDE DEF q
    <3>2. Over(q, JoinSegs(rest)) = q \o tail
      BY <1>2, CatCat DEF Over, Slash
    <3> QED
      BY <3>1, <3>2
  <2>2. tail \in Seq(PathByte) /\ Len(tail) > 0 /\ tail[1] = "/"
    BY <1>2 DEF Slash
  <2> HIDE DEF tail, q
  <2>3. IsPrefix(q, q \o tail)
    BY <1>2, <2>2, PrefixRest
  <2>4. (q \o tail)[Len(q) + 1] = "/"
    BY <1>2, <2>2
  <2> QED
    BY <2>1, <2>3, <2>4 DEF q
<1> QED
  BY <1>3, <1>4

(* Names cut short are what the path begins with.                          *)
LEMMA NamesStart ==
  ASSUME NEW qs \in Seq(GoodSeg), NEW ns \in Seq(GoodSeg), qs # <<>>, StartOf(qs, ns)
  PROVE  IsPrefix(JoinSegs(qs), JoinSegs(ns))
<1>1. /\ Len(qs) <= Len(ns) /\ IsPrefix(Front(qs), ns) /\ IsPrefix(Last(qs), ns[Len(qs)])
      /\ Len(qs) \in Nat \ {0} /\ Len(ns) \in Nat
  BY DEF StartOf
<1> DEFINE ks == SubSeq(qs, 1, Len(qs) - 1)
           short == qs[Len(qs)]
           name == ns[Len(qs)]
           upto == SubSeq(ns, 1, Len(qs))
<1>2. ks \in Seq(GoodSeg) /\ short \in GoodSeg /\ name \in GoodSeg
  <2>1. Len(qs) - 1 \in 0 .. Len(qs) /\ Len(qs) \in 1 .. Len(qs) /\ Len(qs) \in 1 .. Len(ns)
    BY <1>1
  <2> QED
    BY <2>1, Beginning
<1>3. qs = Append(ks, short)
  <2>1. Len(qs) - 1 \in 0 .. Len(qs)
    BY <1>1
  <2>2. Len(ks) = Len(qs) - 1 /\ \A n \in 1 .. Len(qs) - 1 : ks[n] = qs[n]
    BY <2>1, Beginning
  <2> HIDE DEF ks
  <2> QED
    BY <1>1, <1>2, <2>2, OneLonger
<1>4. upto = Append(ks, name) /\ upto \in Seq(GoodSeg) /\ IsPrefix(upto, ns)
  <2>1. Len(qs) \in 0 .. Len(ns) /\ Len(qs) - 1 \in 0 .. Len(qs)
    BY <1>1
  <2>2. upto \in Seq(GoodSeg) /\ Len(upto) = Len(qs) /\ \A n \in 1 .. Len(qs) : upto[n] = ns[n]
    BY <2>1, Beginning
  <2>3. Len(ks) = Len(qs) - 1
    BY <2>1, Beginning
  <2>4. ks = SubSeq(ns, 1, Len(qs) - 1)
    <3>1. ks = Front(qs)
      BY DEF Front
    <3>2. SubSeq(ks, 1, Len(ks)) = SubSeq(ns, 1, Len(ks))
      BY <1>1, <3>1, Zenon DEF IsPrefix
    <3>3. SubSeq(ks, 1, Len(ks)) = ks
      BY <1>2, NoneAndAll
    <3> QED
      BY <2>3, <3>2, <3>3, Zenon
  <2>5. \A n \in 1 .. Len(ks) : ks[n] = ns[n]
    <3>1. Len(qs) - 1 \in 0 .. Len(ns)
      BY <1>1
    <3> QED
      BY <2>3, <2>4, <3>1, Beginning
  <2> HIDE DEF ks, upto
  <2>6. upto = Append(ks, name)
    <3>1. Len(upto) = Len(ks) + 1 /\ upto[Len(ks) + 1] = name /\ \A n \in 1 .. Len(ks) : upto[n] = ks[n]
      BY <1>1, <2>2, <2>3, <2>5
    <3> QED
      BY <1>2, <2>2, <3>1, OneLonger
  <2>7. IsPrefix(upto, ns)
    <3>1. SubSeq(upto, 1, Len(upto)) = upto
      BY <2>2, NoneAndAll
    <3> QED
      BY <1>1, <2>2, <3>1 DEF IsPrefix, upto
  <2> QED
    BY <2>2, <2>6, <2>7
<1> HIDE DEF ks, upto, name, short
<1>5. IsPrefix(short, name)
  BY <1>1 DEF Last, short, name
<1>6. short \in Seq(PathByte) /\ name \in Seq(PathByte)
  BY <1>2, SegSteps DEF GoodSeg
<1> DEFINE t == SubSeq(name, Len(short) + 1, Len(name))
           k1 == JoinSegs(ks)
<1>7. name = short \o t /\ t \in Seq(PathByte)
  BY <1>5, <1>6, PrefixRest
<1> HIDE DEF t
<1>8. k1 \in Seq(PathByte)
  BY <1>2, JoinEmpty
<1>9. JoinSegs(qs) = JoinStep(k1, short) /\ JoinSegs(upto) = JoinStep(k1, name)
  BY <1>2, <1>3, <1>4, JoinEmpty
<1> HIDE DEF k1
<1>10. JoinStep(k1, name) = JoinStep(k1, short) \o t
  <2>1. Over(k1, short \o t) = Over(k1, short) \o t
    BY <1>6, <1>7, <1>8, OverCat, Zenon
  <2> QED
    BY <1>7, <2>1 DEF JoinStep, Over
<1>11. JoinSegs(qs) \in Seq(PathByte) /\ JoinSegs(upto) \in Seq(PathByte) /\ JoinSegs(ns) \in Seq(PathByte)
  BY <1>4, JoinEmpty
<1>12. IsPrefix(JoinSegs(qs), JoinSegs(upto))
  BY <1>7, <1>9, <1>10, <1>11, PrefixRest
<1>13. upto # <<>>
  BY <1>2, <1>4
<1>14. IsPrefix(JoinSegs(upto), JoinSegs(ns))
  BY <1>4, <1>13, NamesUnder
<1>15. \A u, v, w \in Seq(PathByte) : IsPrefix(u, v) /\ IsPrefix(v, w) => IsPrefix(u, w)
  <2> SUFFICES ASSUME NEW u \in Seq(PathByte), NEW v \in Seq(PathByte), NEW w \in Seq(PathByte),
                      IsPrefix(u, v), IsPrefix(v, w)
               PROVE  IsPrefix(u, w)
    OBVIOUS
  <2>1. v = u \o SubSeq(v, Len(u) + 1, Len(v)) /\ SubSeq(v, Len(u) + 1, Len(v)) \in Seq(PathByte)
    BY PrefixRest
  <2>2. w = v \o SubSeq(w, Len(v) + 1, Len(w)) /\ SubSeq(w, Len(v) + 1, Len(w)) \in Seq(PathByte)
    BY PrefixRest
  <2> DEFINE r1 == SubSeq(v, Len(u) + 1, Len(v))
             r2 == SubSeq(w, Len(v) + 1, Len(w))
  <2> HIDE DEF r1, r2
  <2>3. (u \o r1) \o r2 = u \o (r1 \o r2) /\ r1 \o r2 \in Seq(PathByte)
    BY <2>1, <2>2, CatCat, OverTypes, ZenonT(60) DEF r1, r2
  <2>4. w = u \o (r1 \o r2)
    BY <2>1, <2>2, <2>3, Zenon DEF r1, r2
  <2> QED
    BY <2>3, <2>4, PrefixRest
<1> QED
  BY <1>11, <1>12, <1>14, <1>15, Zenon

-----------------------------------------------------------------------------
(* Targets that say what is in the middle of a path.                       *)

(* The two parts of a sequence.                                            *)
LEMMA TwoParts ==
  ASSUME NEW A, NEW s1 \in Seq(A), NEW s2 \in Seq(A)
  PROVE  /\ SubSeq(s1 \o s2, Len(s1) + 1, Len(s1 \o s2)) = s2
         /\ \A n \in 0 .. Len(s1) : /\ SubSeq(s1, 1, n) \in Seq(A) /\ SubSeq(s1, n + 1, Len(s1)) \in Seq(A)
                                    /\ s1 = SubSeq(s1, 1, n) \o SubSeq(s1, n + 1, Len(s1))
<1>1. SubSeq(s1 \o s2, Len(s1) + 1, Len(s1 \o s2)) = s2
  <2> DEFINE z == s1 \o s2
             t == SubSeq(z, Len(s1) + 1, Len(z))
  <2>1. /\ z \in Seq(A) /\ Len(z) = Len(s1) + Len(s2) /\ Len(s1) \in Nat /\ Len(s2) \in Nat
        /\ \A n \in 1 .. Len(s2) : z[Len(s1) + n] = s2[n]
    OBVIOUS
  <2> HIDE DEF z
  <2>2. t \in Seq(A) /\ Len(t) = Len(s2) /\ \A n \in 1 .. Len(s2) : t[n] = z[Len(s1) + n]
    BY <2>1
  <2> HIDE DEF t
  <2>3. t = s2
    BY <2>1, <2>2
  <2> QED
    BY <2>3 DEF t, z
<1>2. ASSUME NEW n \in 0 .. Len(s1)
      PROVE  /\ SubSeq(s1, 1, n) \in Seq(A) /\ SubSeq(s1, n + 1, Len(s1)) \in Seq(A)
             /\ s1 = SubSeq(s1, 1, n) \o SubSeq(s1, n + 1, Len(s1))
  <2> DEFINE q == SubSeq(s1, 1, n)
  <2>1. q \in Seq(A) /\ Len(q) = n /\ \A m \in 1 .. n : q[m] = s1[m]
    BY Beginning
  <2>2. IsPrefix(q, s1)
    <3>1. SubSeq(q, 1, Len(q)) = q
      BY <2>1, NoneAndAll
    <3>2. Len(q) <= Len(s1)
      BY <2>1
    <3> QED
      BY <2>1, <3>1, <3>2 DEF IsPrefix
  <2> QED
    BY <2>1, <2>2, PrefixRest
<1> QED
  BY <1>1, <1>2

(* q is at the start of what is behind a slash, or of all; whole, to its   *)
(* end or to a slash.                                                      *)
AtStart(q, y, whole) ==
  IsPrefix(q, y) /\ (whole => Len(q) = Len(y) \/ y[Len(q) + 1] = "/")

(* A component is found at the start of the key or behind one of its       *)
(* slashes.                                                                *)
LEMMA ComponentIsAtStart ==
  ASSUME NEW key \in Seq(PathByte), NEW q \in Seq(PathByte), q # <<>>, NEW whole, Component(key, q, whole)
  PROVE  \E y \in Seq(PathByte) :
           /\ key = y \/ \E x \in Seq(PathByte) : key = Over(x, y)
           /\ AtStart(q, y, whole)
<1>1. PICK n \in 1 .. Len(key) - Len(q) + 1 : SegHit(key, q, n, whole)
  BY DEF Component
<1>2. Len(q) \in Nat \ {0} /\ Len(key) \in Nat /\ n \in Nat \ {0} /\ n + Len(q) <= Len(key) + 1
  BY <1>1
<1>3. /\ n = 1 \/ key[n - 1] = "/"
      /\ SubSeq(key, n, n + Len(q) - 1) = q
      /\ whole => n + Len(q) - 1 = Len(key) \/ key[n + Len(q)] = "/"
  BY <1>1 DEF SegHit
<1> DEFINE x == SubSeq(key, 1, n - 1)
           y == SubSeq(key, n, Len(key))
<1>4. x \in Seq(PathByte) /\ y \in Seq(PathByte) /\ key = x \o y
  <2>1. n - 1 \in 0 .. Len(key) /\ (n - 1) + 1 = n
    BY <1>2
  <2> QED
    BY <2>1, TwoParts
<1>5. Len(x) = n - 1 /\ \A m \in 1 .. n - 1 : x[m] = key[m]
  BY <1>2
<1>6. Len(y) = Len(key) - n + 1 /\ \A m \in 1 .. Len(key) - n + 1 : y[m] = key[n + m - 1]
  BY <1>2
<1> HIDE DEF x, y
<1>7. Len(q) <= Len(y)
  BY <1>2, <1>6
<1>8. SubSeq(y, 1, Len(q)) = q
  <2> DEFINE b == SubSeq(y, 1, Len(q))
  <2>1. b \in Seq(PathByte) /\ Len(b) = Len(q) /\ \A m \in 1 .. Len(q) : b[m] = y[m]
    <3>1. Len(q) \in 0 .. Len(y)
      BY <1>2, <1>7
    <3> QED
      BY <1>4, <3>1, Beginning
  <2> HIDE DEF b
  <2>2. \A m \in 1 .. Len(q) : y[m] = key[n + m - 1]
    BY <1>2, <1>6
  <2>3. \A m \in 1 .. Len(q) : SubSeq(key, n, n + Len(q) - 1)[m] = key[n + m - 1]
    BY <1>2
  <2>4. \A m \in 1 .. Len(q) : b[m] = q[m]
    BY <1>3, <2>1, <2>2, <2>3
  <2>5. b = q
    BY <2>1, <2>4
  <2> QED
    BY <2>5 DEF b
<1>9. IsPrefix(q, y)
  <2>1. SubSeq(q, 1, Len(q)) = q
    BY NoneAndAll
  <2> QED
    BY <1>7, <1>8, <2>1 DEF IsPrefix
<1>10. whole => Len(q) = Len(y) \/ y[Len(q) + 1] = "/"
  <2>1. CASE whole /\ n + Len(q) - 1 = Len(key)
    BY <1>2, <1>6, <2>1
  <2>2. CASE whole /\ n + Len(q) - 1 # Len(key) /\ key[n + Len(q)] = "/"
    <3>1. Len(q) + 1 \in 1 .. Len(key) - n + 1 /\ n + (Len(q) + 1) - 1 = n + Len(q)
      BY <1>2, <2>2
    <3> QED
      BY <1>6, <2>2, <3>1
  <2> QED
    BY <1>3, <2>1, <2>2
<1>11. CASE n = 1
  <2>1. x = <<>>
    BY <1>4, <1>5, <1>11
  <2>2. \A z \in Seq(PathByte) : <<>> \o z = z
    OBVIOUS
  <2>3. key = y
    BY <1>4, <2>1, <2>2, Zenon
  <2> QED
    BY <1>4, <1>9, <1>10, <2>3 DEF AtStart
<1>12. CASE n # 1
  <2> DEFINE w == SubSeq(x, 1, Len(x) - 1)
  <2>1. Len(x) \in Nat \ {0} /\ x[Len(x)] = "/"
    BY <1>2, <1>3, <1>5, <1>12
  <2>2. w \in Seq(PathByte) /\ x = w \o Slash
    <3>1. Len(x) - 1 \in 0 .. Len(x)
      BY <2>1
    <3>2. w \in Seq(PathByte) /\ Len(w) = Len(x) - 1 /\ \A m \in 1 .. Len(x) - 1 : w[m] = x[m]
      BY <1>4, <3>1, Beginning
    <3> HIDE DEF w
    <3>3. x = Append(w, "/")
      <4>1. "/" \in PathByte /\ Len(x) = Len(w) + 1 /\ x[Len(w) + 1] = "/" /\ \A m \in 1 .. Len(w) : x[m] = w[m]
        BY <2>1, <3>2, SegSteps
      <4> QED
        BY <1>4, <3>2, <4>1, OneLonger
    <3>4. Append(w, "/") = w \o Slash
      BY <3>2 DEF Slash
    <3> QED
      BY <3>2, <3>3, <3>4
  <2> HIDE DEF w
  <2>3. key = Over(w, y)
    BY <1>4, <2>2, Zenon DEF Over, Slash
  <2> QED
    BY <1>4, <1>9, <1>10, <2>2, <2>3 DEF AtStart
<1> QED
  BY <1>11, <1>12

(* What is there is found as a component.                                  *)
LEMMA AtStartIsComponent ==
  ASSUME NEW x \in Seq(PathByte), NEW y \in Seq(PathByte), NEW q \in Seq(PathByte), q # <<>>, NEW whole,
         AtStart(q, y, whole), x = <<>> \/ x[Len(x)] = "/"
  PROVE  Component(x \o y, q, whole)
<1> DEFINE key == x \o y
           n == Len(x) + 1
<1>1. Len(q) \in Nat \ {0} /\ Len(x) \in Nat /\ Len(y) \in Nat /\ Len(q) <= Len(y)
  BY DEF AtStart, IsPrefix
<1>2. /\ key \in Seq(PathByte) /\ Len(key) = Len(x) + Len(y)
      /\ \A m \in 1 .. Len(x) : key[m] = x[m]
      /\ \A m \in 1 .. Len(y) : key[Len(x) + m] = y[m]
  OBVIOUS
<1>3. \A m \in 1 .. Len(q) : y[m] = q[m]
  <2>1. Len(q) \in 0 .. Len(y)
    BY <1>1
  <2>2. \A m \in 1 .. Len(q) : SubSeq(y, 1, Len(q))[m] = y[m]
    BY <2>1, Beginning
  <2>3. SubSeq(q, 1, Len(q)) = q
    BY NoneAndAll
  <2>4. SubSeq(q, 1, Len(q)) = SubSeq(y, 1, Len(q))
    BY DEF AtStart, IsPrefix
  <2> QED
    BY <2>2, <2>3, <2>4
<1> HIDE DEF key
<1>4. n \in 1 .. Len(key) - Len(q) + 1
  BY <1>1, <1>2
<1>5. n = 1 \/ key[n - 1] = "/"
  BY <1>1, <1>2
<1>6. SubSeq(key, n, n + Len(q) - 1) = q
  <2> DEFINE b == SubSeq(key, n, n + Len(q) - 1)
  <2>1. b \in Seq(PathByte) /\ Len(b) = Len(q) /\ \A m \in 1 .. Len(q) : b[m] = key[Len(x) + m]
    BY <1>1, <1>2, SMTT(60)
  <2> HIDE DEF b
  <2>2. \A m \in 1 .. Len(q) : key[Len(x) + m] = q[m]
    BY <1>1, <1>2, <1>3
  <2>3. b = q
    BY <2>1, <2>2
  <2> QED
    BY <2>3 DEF b
<1>7. whole => n + Len(q) - 1 = Len(key) \/ key[n + Len(q)] = "/"
  <2> SUFFICES ASSUME whole, n + Len(q) - 1 # Len(key) PROVE key[n + Len(q)] = "/"
    OBVIOUS
  <2>0. Len(key) = Len(x) + Len(y)
    BY <1>2
  <2>1. Len(q) # Len(y)
    BY <1>1, <2>0
  <2>2. y[Len(q) + 1] = "/" /\ Len(q) + 1 \in 1 .. Len(y) /\ n + Len(q) = Len(x) + (Len(q) + 1)
    BY <1>1, <2>1 DEF AtStart
  <2> QED
    BY <1>2, <2>2
<1> HIDE DEF n
<1>8. SegHit(key, q, n, whole)
  BY <1>5, <1>6, <1>7 DEF SegHit
<1> QED
  BY <1>4, <1>8 DEF Component, key

(* Names found from some name of the path on.                              *)
NamesAmong(qs, ns) == \E n \in 0 .. Len(ns) : IsPrefix(qs, SubSeq(ns, n + 1, Len(ns)))

NamesStartAmong(qs, ns) == \E n \in 0 .. Len(ns) : StartOf(qs, SubSeq(ns, n + 1, Len(ns)))

(* A component found in a key is a run of its names, or begins one.        *)
LEMMA ComponentSays ==
  ASSUME NEW key \in Seq(PathByte), NEW q \in Seq(PathByte), q # <<>>
  PROVE  /\ Component(key, q, TRUE) => NamesAmong(Kept(q), Kept(key))
         /\ Component(key, q, FALSE) => NamesStartAmong(Kept(q), Kept(key))
<1>0. \A x \in Seq(PathByte) : Kept(x) \in Seq(GoodSeg)
  BY KeptSteps, SegSteps, Zenon
<1>1. ASSUME NEW y \in Seq(PathByte), key = y \/ \E x \in Seq(PathByte) : key = Over(x, y)
      PROVE  \E n \in 0 .. Len(Kept(key)) : SubSeq(Kept(key), n + 1, Len(Kept(key))) = Kept(y)
  <2>1. CASE key = y
    <3>1. \A ks \in Seq(GoodSeg) : SubSeq(ks, 0 + 1, Len(ks)) = ks /\ 0 \in 0 .. Len(ks)
      OBVIOUS
    <3> QED
      BY <1>0, <2>1, <3>1
  <2>2. ASSUME NEW x \in Seq(PathByte), key = Over(x, y)
        PROVE  \E n \in 0 .. Len(Kept(key)) : SubSeq(Kept(key), n + 1, Len(Kept(key))) = Kept(y)
    <3>1. Kept(key) = Kept(x) \o Kept(y)
      BY <2>2, KeptAtSlash, Zenon
    <3> DEFINE front == Kept(x)
               back == Kept(y)
    <3>2. front \in Seq(GoodSeg) /\ back \in Seq(GoodSeg)
      BY <1>0
    <3> HIDE DEF front, back
    <3>3. SubSeq(front \o back, Len(front) + 1, Len(front \o back)) = back
      BY <3>2, TwoParts
    <3>4. Len(front) \in 0 .. Len(front \o back)
      BY <3>2
    <3> QED
      BY <3>1, <3>3, <3>4 DEF front, back
  <2> QED
    BY <1>1, <2>1, <2>2
<1>2. ASSUME Component(key, q, TRUE) PROVE NamesAmong(Kept(q), Kept(key))
  <2>1. PICK y \in Seq(PathByte) : /\ key = y \/ \E x \in Seq(PathByte) : key = Over(x, y)
                                   /\ AtStart(q, y, TRUE)
    BY <1>2, ComponentIsAtStart
  <2>2. Under(q, y)
    BY <2>1 DEF AtStart, Under
  <2>3. IsPrefix(Kept(q), Kept(y))
    BY <2>2, UnderSays
  <2> QED
    BY <1>1, <2>1, <2>3 DEF NamesAmong
<1>3. ASSUME Component(key, q, FALSE) PROVE NamesStartAmong(Kept(q), Kept(key))
  <2>1. PICK y \in Seq(PathByte) : /\ key = y \/ \E x \in Seq(PathByte) : key = Over(x, y)
                                   /\ AtStart(q, y, FALSE)
    BY <1>3, ComponentIsAtStart
  <2>2. IsPrefix(q, y)
    BY <2>1 DEF AtStart
  <2>3. StartOf(Kept(q), Kept(y))
    BY <2>2, BeginsSays
  <2> QED
    BY <1>1, <2>1, <2>3 DEF NamesStartAmong
<1> QED
  BY <1>2, <1>3

(* A key that ends with some names has them behind a slash, or is them.    *)
LEMMA EndOfKey ==
  ASSUME NEW lead \in {<<>>, Slash}, NEW ns \in Seq(GoodSeg), NEW n \in 0 .. Len(ns),
         SubSeq(ns, n + 1, Len(ns)) # <<>>
  PROVE  \E x \in Seq(PathByte) :
           /\ x = <<>> \/ x[Len(x)] = "/"
           /\ lead \o JoinSegs(ns) = x \o JoinSegs(SubSeq(ns, n + 1, Len(ns)))
<1> DEFINE front == SubSeq(ns, 1, n)
           back == SubSeq(ns, n + 1, Len(ns))
<1>1. ns = front \o back /\ front \in Seq(GoodSeg) /\ back \in Seq(GoodSeg)
  BY TwoParts
<1>2. lead \in Seq(PathByte) /\ Slash \in Seq(PathByte) /\ (lead = <<>> \/ lead[Len(lead)] = "/")
  <2>1. <<>> \in Seq(PathByte) /\ Slash \in Seq(PathByte)
    BY OverTypes, SegSteps
  <2>2. Slash[Len(Slash)] = "/"
    BY DEF Slash
  <2> QED
    BY <2>1, <2>2
<1>3. JoinSegs(front) \in Seq(PathByte) /\ JoinSegs(back) \in Seq(PathByte)
  BY <1>1, JoinEmpty
<1>4. CASE front = <<>>
  <2> HIDE DEF front, back
  <2>1. \A ks \in Seq(GoodSeg) : <<>> \o ks = ks
    OBVIOUS
  <2>2. ns = back
    BY <1>1, <1>4, <2>1, Zenon
  <2>3. \E x \in Seq(PathByte) : (x = <<>> \/ x[Len(x)] = "/") /\ lead \o JoinSegs(ns) = x \o JoinSegs(back)
    BY <1>2, <2>2
  <2> QED
    BY <2>3 DEF back
<1>5. CASE front # <<>>
  <2>1. JoinSegs(ns) = Over(JoinSegs(front), JoinSegs(back))
    <3> HIDE DEF front
    <3> QED
      BY <1>1, <1>5, JoinOver
  <2> DEFINE u == JoinSegs(front)
             v == JoinSegs(back)
             x == lead \o (u \o Slash)
  <2> HIDE DEF front, back
  <2>2. u \in Seq(PathByte) /\ v \in Seq(PathByte)
    BY <1>3
  <2> HIDE DEF u, v
  <2>3. u \o Slash \in Seq(PathByte) /\ x \in Seq(PathByte)
    BY <1>2, <2>2, OverTypes
  <2>4. lead \o ((u \o Slash) \o v) = (lead \o (u \o Slash)) \o v
    BY <1>2, <2>2, <2>3, CatCat, ZenonT(60)
  <2>5. x[Len(x)] = "/"
    <3> DEFINE w == u \o Slash
    <3>1. w \in Seq(PathByte) /\ Len(w) = Len(u) + 1 /\ w[Len(w)] = "/" /\ Len(u) \in Nat
      <4>1. w \in Seq(PathByte)
        BY <2>3
      <4>2. Len(w) = Len(u) + 1 /\ Len(u) \in Nat /\ w[Len(u) + 1] = "/"
        BY <2>2 DEF Slash
      <4> QED
        BY <4>1, <4>2
    <3> HIDE DEF w
    <3>2. Len(lead \o w) = Len(lead) + Len(w) /\ (lead \o w)[Len(lead) + Len(w)] = w[Len(w)]
      BY <1>2, <3>1, SMTT(60)
    <3> QED
      BY <3>1, <3>2 DEF w
  <2>6. lead \o JoinSegs(ns) = x \o v
    BY <2>1, <2>4, Zenon DEF Over, Slash, u, v
  <2> HIDE DEF x
  <2> QED
    BY <2>3, <2>5, <2>6 DEF v, back
<1> QED
  BY <1>4, <1>5

(* Names of a path are found in its key.                                   *)
LEMMA SaysComponent ==
  ASSUME NEW lead \in {<<>>, Slash}, NEW ns \in Seq(GoodSeg), NEW qs \in Seq(GoodSeg), qs # <<>>
  PROVE  /\ NamesAmong(qs, ns) => Component(lead \o JoinSegs(ns), JoinSegs(qs), TRUE)
         /\ NamesStartAmong(qs, ns) => Component(lead \o JoinSegs(ns), JoinSegs(qs), FALSE)
<1>1. JoinSegs(qs) \in Seq(PathByte) /\ JoinSegs(qs) # <<>>
  BY JoinEmpty
<1>2. ASSUME NEW n \in 0 .. Len(ns), NEW whole, NEW back, back = SubSeq(ns, n + 1, Len(ns)), back # <<>>,
             AtStart(JoinSegs(qs), JoinSegs(back), whole)
      PROVE  Component(lead \o JoinSegs(ns), JoinSegs(qs), whole)
  <2>1. back \in Seq(GoodSeg)
    BY <1>2, TwoParts
  <2>2. JoinSegs(back) \in Seq(PathByte)
    BY <2>1, JoinEmpty
  <2>3. PICK x \in Seq(PathByte) : /\ x = <<>> \/ x[Len(x)] = "/"
                                   /\ lead \o JoinSegs(ns) = x \o JoinSegs(back)
    BY <1>2, EndOfKey
  <2>4. Component(x \o JoinSegs(back), JoinSegs(qs), whole)
    BY <1>1, <1>2, <2>2, <2>3, AtStartIsComponent
  <2> QED
    BY <2>3, <2>4
<1>3. \A n \in 0 .. Len(ns) : SubSeq(ns, n + 1, Len(ns)) \in Seq(GoodSeg)
  BY TwoParts
<1>4. ASSUME NamesAmong(qs, ns) PROVE Component(lead \o JoinSegs(ns), JoinSegs(qs), TRUE)
  <2>1. PICK n \in 0 .. Len(ns) : IsPrefix(qs, SubSeq(ns, n + 1, Len(ns)))
    BY <1>4 DEF NamesAmong
  <2> DEFINE back == SubSeq(ns, n + 1, Len(ns))
  <2>2. back \in Seq(GoodSeg)
    BY <1>3
  <2>3. IsPrefix(qs, back)
    BY <2>1
  <2> HIDE DEF back
  <2>4. AtStart(JoinSegs(qs), JoinSegs(back), TRUE)
    BY <2>2, <2>3, NamesUnder DEF AtStart
  <2>5. back # <<>>
    BY <2>3 DEF IsPrefix
  <2> QED
    BY <1>2, <2>4, <2>5 DEF back
<1>5. ASSUME NamesStartAmong(qs, ns) PROVE Component(lead \o JoinSegs(ns), JoinSegs(qs), FALSE)
  <2>1. PICK n \in 0 .. Len(ns) : StartOf(qs, SubSeq(ns, n + 1, Len(ns)))
    BY <1>5 DEF NamesStartAmong
  <2> DEFINE back == SubSeq(ns, n + 1, Len(ns))
  <2>2. back \in Seq(GoodSeg)
    BY <1>3
  <2>3. StartOf(qs, back)
    BY <2>1
  <2> HIDE DEF back
  <2>4. AtStart(JoinSegs(qs), JoinSegs(back), FALSE)
    BY <2>2, <2>3, NamesStart DEF AtStart
  <2>5. back # <<>>
    BY <2>3 DEF StartOf
  <2> QED
    BY <1>2, <2>4, <2>5 DEF back
<1> QED
  BY <1>4, <1>5

-----------------------------------------------------------------------------
(* What views of paths say.                                                *)

(* Folding goes byte by byte.                                              *)
LEMMA FoldBytes ==
  ASSUME NEW y \in Seq(PathByte)
  PROVE  /\ FoldAscii(y) \in Seq(PathByte) /\ Len(FoldAscii(y)) = Len(y)
         /\ \A n \in 1 .. Len(y) : FoldAscii(y)[n] = FoldByte(y[n])
<1>1. FoldAscii(y) \in Seq(PathByte) /\ Len(FoldAscii(y)) = Len(y)
  BY FoldKeeps
<1>2. DOMAIN y = 1 .. Len(y)
  OBVIOUS
<1> QED
  BY <1>1, <1>2 DEF FoldAscii

(* Parts are folded on their own.                                          *)
LEMMA FoldCat ==
  ASSUME NEW x \in Seq(PathByte), NEW y \in Seq(PathByte)
  PROVE  FoldAscii(x \o y) = FoldAscii(x) \o FoldAscii(y)
<1> DEFINE z == x \o y
           f == FoldAscii(z)
           g == FoldAscii(x) \o FoldAscii(y)
<1>1. z \in Seq(PathByte) /\ Len(z) = Len(x) + Len(y) /\ Len(x) \in Nat /\ Len(y) \in Nat
  OBVIOUS
<1>2. /\ \A n \in 1 .. Len(x) : z[n] = x[n]
      /\ \A n \in 1 .. Len(y) : z[Len(x) + n] = y[n]
  OBVIOUS
<1>3. g \in Seq(PathByte) /\ Len(g) = Len(x) + Len(y)
  BY FoldBytes
<1>4. /\ \A n \in 1 .. Len(x) : g[n] = FoldByte(x[n])
      /\ \A n \in 1 .. Len(y) : g[Len(x) + n] = FoldByte(y[n])
  <2> DEFINE a == FoldAscii(x)
             b == FoldAscii(y)
  <2>1. a \in Seq(PathByte) /\ b \in Seq(PathByte) /\ Len(a) = Len(x) /\ Len(b) = Len(y)
    BY FoldBytes
  <2>2. (\A n \in 1 .. Len(x) : a[n] = FoldByte(x[n])) /\ (\A n \in 1 .. Len(y) : b[n] = FoldByte(y[n]))
    BY FoldBytes
  <2> HIDE DEF a, b
  <2>3. \A n \in 1 .. Len(x) : (a \o b)[n] = a[n]
    BY <2>1
  <2>4. \A n \in 1 .. Len(y) : (a \o b)[Len(x) + n] = b[n]
    BY <2>1
  <2> QED
    BY <2>2, <2>3, <2>4 DEF a, b
<1> HIDE DEF z, g
<1>5. f \in Seq(PathByte) /\ Len(f) = Len(z) /\ \A n \in 1 .. Len(z) : f[n] = FoldByte(z[n])
  BY <1>1, FoldBytes
<1> HIDE DEF f
<1>6. ASSUME NEW n \in 1 .. Len(z) PROVE f[n] = g[n]
  <2>1. n <= Len(x) \/ n > Len(x)
    BY <1>1
  <2>2. CASE n <= Len(x)
    <3>1. n \in 1 .. Len(x)
      BY <1>1, <2>2
    <3> QED
      BY <1>2, <1>4, <1>5, <3>1
  <2>3. CASE n > Len(x)
    <3>1. n - Len(x) \in 1 .. Len(y) /\ Len(x) + (n - Len(x)) = n
      BY <1>1, <2>3
    <3>2. z[n] = y[n - Len(x)] /\ g[n] = FoldByte(y[n - Len(x)])
      BY <1>2, <1>4, <3>1
    <3> QED
      BY <1>5, <3>2
  <2> QED
    BY <2>1, <2>2, <2>3
<1>7. f = g
  BY <1>1, <1>3, <1>5, <1>6
<1> QED
  BY <1>7 DEF f, g, z

(* Folding leaves segments, and whether they are kept.                     *)
LEMMA FoldSeg ==
  ASSUME NEW seg \in Seg
  PROVE  FoldAscii(seg) \in Seg /\ (KeepSeg(FoldAscii(seg)) <=> KeepSeg(seg))
<1>1. seg \in Seq(PathByte) /\ \A n \in 1 .. Len(seg) : seg[n] # "/"
  BY SegSteps
<1> DEFINE f == FoldAscii(seg)
<1>2. /\ f \in Seq(PathByte) /\ Len(f) = Len(seg)
      /\ \A n \in 1 .. Len(seg) : (f[n] = "/" <=> seg[n] = "/") /\ (f[n] = "." <=> seg[n] = ".")
  BY <1>1, FoldKeeps
<1> HIDE DEF f
<1>3. \A n \in DOMAIN f : f[n] # "/"
  <2>1. DOMAIN f = 1 .. Len(seg)
    BY <1>2
  <2> QED
    BY <1>1, <1>2, <2>1
<1>4. \A q \in Seq(PathByte) : KeepSeg(q) <=> Len(q) # 0 /\ ~(Len(q) = 1 /\ q[1] = ".")
  <2>1. \A q \in Seq(PathByte) : q = <<".">> <=> Len(q) = 1 /\ q[1] = "."
    OBVIOUS
  <2>2. \A q \in Seq(PathByte) : q = <<>> <=> Len(q) = 0
    OBVIOUS
  <2> QED
    BY <2>1, <2>2 DEF KeepSeg
<1>5. KeepSeg(f) <=> KeepSeg(seg)
  <2>1. Len(seg) = 1 => (f[1] = "." <=> seg[1] = ".")
    BY <1>2
  <2> QED
    BY <1>1, <1>2, <1>4, <2>1
<1> QED
  BY <1>2, <1>3, <1>5 DEF Seg, f

(* A path has no names when its text keeps no segments.                    *)
LEMMA EmptyFolds == \A y \in Seq(PathByte) : Kept(FoldAscii(y)) = <<>> <=> Kept(y) = <<>>
<1> DEFINE S == {y \in Seq(PathByte) : Kept(FoldAscii(y)) = <<>> <=> Kept(y) = <<>>}
<1>0. /\ \A seg \in Seg : seg \in Seq(PathByte)
      /\ \A x \in Seq(PathByte) : Kept(x) \in Seq(GoodSeg) /\ FoldAscii(x) \in Seq(PathByte)
  BY SegSteps, KeptSteps, FoldKeeps
<1>1. \A ks \in Seq(GoodSeg), seg \in Seg : FilterStep(ks, seg) = <<>> <=> ks = <<>> /\ ~KeepSeg(seg)
  <2> SUFFICES ASSUME NEW ks \in Seq(GoodSeg), NEW seg \in Seg
               PROVE  FilterStep(ks, seg) = <<>> <=> ks = <<>> /\ ~KeepSeg(seg)
    OBVIOUS
  <2>1. CASE KeepSeg(seg)
    <3>1. seg \in GoodSeg
      BY <2>1 DEF GoodSeg
    <3> DEFINE t == Append(ks, seg)
    <3>2. Len(t) = Len(ks) + 1 /\ Len(ks) \in Nat
      BY <3>1
    <3> HIDE DEF t
    <3>3. t # <<>>
      BY <3>2
    <3> QED
      BY <2>1, <3>3 DEF FilterStep, t
  <2>2. CASE ~KeepSeg(seg)
    BY <2>2 DEF FilterStep
  <2> QED
    BY <2>1, <2>2
<1>2. ASSUME NEW seg \in Seg PROVE seg \in S
  <2>1. Kept(seg) = FilterStep(<<>>, seg) /\ Kept(FoldAscii(seg)) = FilterStep(<<>>, FoldAscii(seg))
    BY KeptSteps, FoldSeg, SegSteps, Zenon
  <2>2. <<>> \in Seq(GoodSeg)
    OBVIOUS
  <2> QED
    BY <1>0, <1>1, <2>1, <2>2, FoldSeg
<1>3. ASSUME NEW x \in Seq(PathByte), NEW seg \in Seg, x \in S PROVE x \o <<"/">> \o seg \in S
  <2>1. FoldAscii(Over(x, seg)) = Over(FoldAscii(x), FoldAscii(seg))
    <3>1. Slash \in Seq(PathByte) /\ x \o Slash \in Seq(PathByte) /\ seg \in Seq(PathByte)
      BY <1>0, OverTypes
    <3>2. FoldAscii((x \o Slash) \o seg) = FoldAscii(x \o Slash) \o FoldAscii(seg)
      BY <3>1, FoldCat
    <3>3. FoldAscii(x \o Slash) = FoldAscii(x) \o FoldAscii(Slash)
      BY <3>1, FoldCat
    <3>4. FoldAscii(Slash) = Slash
      <4>1. FoldAscii(Slash) \in Seq(PathByte) /\ Len(FoldAscii(Slash)) = Len(Slash)
            /\ \A n \in 1 .. Len(Slash) : FoldAscii(Slash)[n] = "/" <=> Slash[n] = "/"
        BY <3>1, FoldKeeps
      <4>2. Len(Slash) = 1 /\ Slash[1] = "/"
        BY DEF Slash
      <4> DEFINE f == FoldAscii(Slash)
      <4>3. Len(f) = 1 /\ f[1] = "/" /\ f \in Seq(PathByte)
        BY <4>1, <4>2
      <4> HIDE DEF f
      <4>4. f = <<"/">>
        BY <4>3
      <4> QED
        BY <4>4 DEF f, Slash
    <3> QED
      BY <3>2, <3>3, <3>4, Zenon DEF Over, Slash
  <2>2. Kept(Over(x, seg)) = FilterStep(Kept(x), seg)
    BY KeptOver, Zenon
  <2>3. Kept(Over(FoldAscii(x), FoldAscii(seg))) = FilterStep(Kept(FoldAscii(x)), FoldAscii(seg))
    BY <1>0, FoldSeg, KeptOver, Zenon
  <2>4. Kept(FoldAscii(x)) = <<>> <=> Kept(x) = <<>>
    BY <1>3
  <2>5. Over(x, seg) \in Seq(PathByte)
    BY <1>0, OverTypes, Zenon
  <2>6. Over(x, seg) \in S
    <3>1. Kept(Over(x, seg)) = <<>> <=> Kept(x) = <<>> /\ ~KeepSeg(seg)
      BY <1>0, <1>1, <2>2, Zenon
    <3>2. Kept(FoldAscii(Over(x, seg))) = <<>> <=> Kept(FoldAscii(x)) = <<>> /\ ~KeepSeg(FoldAscii(seg))
      BY <1>0, <1>1, <2>1, <2>3, FoldSeg, Zenon
    <3> QED
      BY <2>4, <2>5, <3>1, <3>2, FoldSeg
  <2> QED
    BY <2>6, Zenon DEF Over
<1> HIDE DEF S
<1>4. \A y \in Seq(PathByte) : y \in S
  BY <1>2, <1>3, BySegments, Zenon
<1> QED
  BY <1>4 DEF S

(* A path word without variables as it is compared, by its "~" and bytes.  *)
Norm(b) == NormalForm(FoldAscii(b))

Key(t, b) == IF t /\ b = <<>> THEN Slash ELSE Norm(b)

View(t, b) ==
  [tilde |-> t, lead |-> FoldAscii(b), norm |-> Norm(b), key |-> Key(t, b), more |-> FALSE]

(* A "~" is followed by a slash or nothing, and something is given.        *)
GivenPath(t, b) ==
  t \in BOOLEAN /\ b \in Seq(PathByte) /\ (t => b = <<>> \/ StartsSlash(b)) /\ (t \/ b # <<>>)

Rooted(t, b) == t \/ StartsSlash(b)

(* A path's key is its names, behind a slash or not, or a dot.             *)
LEMMA KeySays ==
  ASSUME NEW t, NEW b, GivenPath(t, b)
  PROVE  /\ Key(t, b) \in Seq(PathByte) /\ Norm(b) \in Seq(PathByte) /\ Names(b) \in Seq(GoodSeg)
         /\ Key(t, b) # <<>>
         /\ Kept(Key(t, b)) = Names(b) /\ Kept(Norm(b)) = Names(b)
         /\ StartsSlash(Norm(b)) <=> StartsSlash(b)
         /\ StartsSlash(Key(t, b)) <=> Rooted(t, b)
         /\ Rooted(t, b) => Key(t, b) = Slash \o JoinSegs(Names(b))
         /\ ~Rooted(t, b) /\ Names(b) # <<>> => Key(t, b) = <<>> \o JoinSegs(Names(b))
         /\ ~Rooted(t, b) /\ Names(b) = <<>> => Key(t, b) = <<".">>
<1> DEFINE f == FoldAscii(b)
           ns == Kept(f)
<1>1. /\ b \in Seq(PathByte) /\ f \in Seq(PathByte) /\ Len(f) = Len(b)
      /\ StartsSlash(f) <=> StartsSlash(b)
  BY FoldKeeps DEF GivenPath
<1>2. f = <<>> <=> b = <<>>
  BY <1>1
<1>3. Names(b) = ns
  BY DEF Names
<1> HIDE DEF f
<1>4. ns \in Seq(GoodSeg)
  BY <1>1, KeptSteps, SegSteps, Zenon
<1> HIDE DEF ns
<1>5. /\ Slash \in Seq(PathByte) /\ <<>> \in Seq(PathByte) /\ <<".">> \in Seq(PathByte)
      /\ Slash # <<>> /\ <<".">> # <<>> /\ StartsSlash(Slash) /\ ~StartsSlash(<<".">>) /\ ~StartsSlash(<<>>)
  <2>1. "." \in PathByte /\ "." # "/"
    BY SegSteps
  <2>2. <<".">> \in Seq(PathByte) /\ <<".">> # <<>> /\ ~StartsSlash(<<".">>)
    BY <2>1 DEF StartsSlash
  <2>3. Slash \in Seq(PathByte)
    BY OverTypes
  <2>4. Slash # <<>> /\ StartsSlash(Slash) /\ ~StartsSlash(<<>>)
    BY DEF Slash, StartsSlash
  <2> QED
    BY <2>2, <2>3, <2>4
<1>6. JoinSegs(ns) \in Seq(PathByte) /\ (JoinSegs(ns) = <<>> <=> ns = <<>>)
  BY <1>4, JoinEmpty
<1>7. Kept(<<>>) = <<>>
  BY KeptSteps, SegSteps
<1>8. f = <<>> => ns = <<>>
  BY <1>7 DEF ns
<1>9. Norm(b) = IF f # <<>> /\ ~StartsSlash(f) /\ ns = <<>> THEN <<".">>
                ELSE (IF StartsSlash(f) THEN Slash ELSE <<>>) \o JoinSegs(ns)
  BY Zenon DEF Norm, NormalForm, Lead, Slash, f, ns
<1>10. \A z \in Seq(PathByte) : <<>> \o z = z /\ Slash \o z \in Seq(PathByte) /\ Slash \o z # <<>>
  <2>1. \A z \in Seq(PathByte) : <<>> \o z = z
    OBVIOUS
  <2>2. \A z \in Seq(PathByte) : Slash \o z \in Seq(PathByte)
    BY <1>5, OverTypes
  <2>3. \A z \in Seq(PathByte) : Slash \o z # <<>>
    <3> SUFFICES ASSUME NEW z \in Seq(PathByte) PROVE Slash \o z # <<>>
      OBVIOUS
    <3> DEFINE u == Slash \o z
    <3>1. u \in Seq(PathByte) /\ Len(u) = 1 + Len(z) /\ Len(z) \in Nat
      BY <1>5 DEF Slash
    <3> HIDE DEF u
    <3>2. u # <<>>
      BY <3>1
    <3> QED
      BY <3>2 DEF u
  <2> QED
    BY <2>1, <2>2, <2>3
<1>11. /\ Norm(b) \in Seq(PathByte)
       /\ StartsSlash(f) => Norm(b) = Slash \o JoinSegs(ns)
       /\ ~StartsSlash(f) /\ ns # <<>> => Norm(b) = JoinSegs(ns)
       /\ ~StartsSlash(f) /\ ns = <<>> /\ f # <<>> => Norm(b) = <<".">>
       /\ Norm(b) = <<>> => f = <<>>
  BY <1>5, <1>6, <1>8, <1>9, <1>10
<1>12. Kept(Norm(b)) = ns /\ (StartsSlash(Norm(b)) <=> StartsSlash(f))
  BY <1>1, NormalFormStays DEF Norm, f, ns
<1>13. CASE t /\ b = <<>>
  <2>1. Key(t, b) = Slash /\ ns = <<>> /\ Rooted(t, b)
    BY <1>2, <1>8, <1>13 DEF Key, Rooted
  <2>2. Kept(Slash) = <<>>
    <3>1. Append(<<>>, "/") = Slash
      BY DEF Slash
    <3>2. Kept(Append(<<>>, "/")) = Kept(<<>>)
      BY KeptSteps, SegSteps
    <3> QED
      BY <1>7, <3>1, <3>2
  <2>3. Slash \o JoinSegs(ns) = Slash
    <3>1. JoinSegs(ns) = <<>>
      BY <1>6, <2>1
    <3>2. \A z \in Seq(PathByte) : z \o <<>> = z
      OBVIOUS
    <3> QED
      BY <1>5, <3>1, <3>2
  <2> QED
    BY <1>1, <1>3, <1>4, <1>5, <1>11, <1>12, <2>1, <2>2, <2>3
<1>14. CASE ~(t /\ b = <<>>)
  <2>1. Key(t, b) = Norm(b) /\ (Rooted(t, b) <=> StartsSlash(b)) /\ b # <<>>
    BY <1>14 DEF Key, Rooted, GivenPath
  <2>2. <<>> \o JoinSegs(ns) = JoinSegs(ns)
    BY <1>6, <1>10
  <2> QED
    BY <1>1, <1>2, <1>3, <1>4, <1>11, <1>12, <2>1, <2>2
<1> QED
  BY <1>13, <1>14

(* Two paths start in the same place when they agree on "~" and the slash. *)
LEMMA SameAnchor ==
  ASSUME NEW pt \in BOOLEAN, NEW pb, NEW wt \in BOOLEAN, NEW wb
  PROVE  Anchor(pt, pb) = Anchor(wt, wb) <=> pt = wt /\ (pt \/ (StartsSlash(pb) <=> StartsSlash(wb)))
BY DEF Anchor

(* A target that is not Exact, and is not behind a "~" or a slash, has a   *)
(* name.                                                                   *)
LEMMA AcceptedNames ==
  ASSUME NEW pt, NEW pb, NEW kind, GivenPath(pt, pb), TargetAccepted(pt, pb, kind), kind # "Exact",
         ~Rooted(pt, pb)
  PROVE  Names(pb) # <<>>
<1>1. pb \in Seq(PathByte) /\ pb # <<>> /\ ~StartsSlash(pb)
  BY DEF GivenPath, Rooted
<1>2. NormalForm(pb) = pb /\ pb # <<".">>
  BY DEF TargetAccepted
<1>3. Kept(pb) # <<>>
  BY <1>1, <1>2 DEF NormalForm
<1> QED
  BY <1>1, <1>3, EmptyFolds DEF Names

(* What begins a path has its slash in front or not.                       *)
LEMMA SameStart ==
  ASSUME NEW q \in Seq(PathByte), NEW y \in Seq(PathByte), IsPrefix(q, y), q # <<>>
  PROVE  StartsSlash(q) <=> StartsSlash(y)
<1>1. Len(q) \in Nat \ {0} /\ Len(q) <= Len(y) /\ Len(y) \in Nat
  BY DEF IsPrefix
<1>2. q[1] = y[1]
  <2>1. SubSeq(q, 1, Len(q)) = SubSeq(y, 1, Len(q))
    BY DEF IsPrefix
  <2>2. Len(q) \in 0 .. Len(y) /\ Len(q) \in 0 .. Len(q) /\ 1 \in 1 .. Len(q)
    BY <1>1
  <2>3. SubSeq(q, 1, Len(q))[1] = q[1]
    BY <2>2, Beginning
  <2>4. SubSeq(y, 1, Len(q))[1] = y[1]
    BY <2>2, Beginning
  <2> QED
    BY <2>1, <2>3, <2>4
<1>3. q # <<>> /\ y # <<>>
  BY <1>1
<1> QED
  BY <1>2, <1>3 DEF StartsSlash

(* A slash in front of both changes nothing.                               *)
LEMMA SlashInFront ==
  ASSUME NEW q \in Seq(PathByte), NEW y \in Seq(PathByte), IsPrefix(q, y)
  PROVE  /\ IsPrefix(Slash \o q, Slash \o y)
         /\ Len(q) = Len(y) \/ y[Len(q) + 1] = "/" => Under(Slash \o q, Slash \o y)
<1>1. /\ Slash \in Seq(PathByte) /\ Slash \o q \in Seq(PathByte) /\ Slash \o y \in Seq(PathByte)
      /\ Len(q) \in Nat /\ Len(y) \in Nat /\ Len(q) <= Len(y)
  BY OverTypes DEF IsPrefix
<1> DEFINE r == SubSeq(y, Len(q) + 1, Len(y))
<1>2. y = q \o r /\ r \in Seq(PathByte)
  BY PrefixRest
<1> HIDE DEF r
<1>3. Slash \o y = (Slash \o q) \o r
  <2>1. (Slash \o q) \o r = Slash \o (q \o r)
    BY <1>1, <1>2, CatCat
  <2> QED
    BY <1>2, <2>1
<1>4. IsPrefix(Slash \o q, Slash \o y)
  <2>1. \A u, v \in Seq(PathByte) : IsPrefix(u, u \o v)
    BY PrefixRest
  <2>2. IsPrefix(Slash \o q, (Slash \o q) \o r)
    BY <1>1, <1>2, <2>1, Zenon
  <2> QED
    BY <1>3, <2>2
<1>5. ASSUME Len(q) = Len(y) \/ y[Len(q) + 1] = "/" PROVE Under(Slash \o q, Slash \o y)
  <2>1. Len(Slash \o q) = Len(q) + 1 /\ Len(Slash \o y) = Len(y) + 1
    BY <1>1 DEF Slash
  <2>2. Len(q) # Len(y) => (Slash \o y)[Len(q) + 2] = y[Len(q) + 1]
    BY <1>1 DEF Slash
  <2>3. Len(Slash \o q) = Len(Slash \o y) \/ (Slash \o y)[Len(Slash \o q) + 1] = "/"
    BY <1>1, <1>5, <2>1, <2>2
  <2> QED
    BY <1>4, <2>3 DEF Under
<1> QED
  BY <1>4, <1>5

(* A beginning of either form has the path's names and place.              *)
LEMMA LeadSays ==
  ASSUME NEW pt, NEW pb, NEW wt, NEW wb, GivenPath(pt, pb), GivenPath(wt, wb), pt = wt
  PROVE  /\ IsPrefix(FoldAscii(pb), Norm(wb)) => Anchor(pt, pb) = Anchor(wt, wb)
         /\ IsPrefix(Key(pt, pb), Key(wt, wb)) => Anchor(pt, pb) = Anchor(wt, wb)
<1>1. /\ FoldAscii(pb) \in Seq(PathByte) /\ (StartsSlash(FoldAscii(pb)) <=> StartsSlash(pb))
      /\ Len(FoldAscii(pb)) = Len(pb) /\ pb \in Seq(PathByte) /\ (pt \/ pb # <<>>)
      /\ pt \in BOOLEAN /\ wt \in BOOLEAN
  BY FoldKeeps DEF GivenPath
<1>2. /\ Key(pt, pb) \in Seq(PathByte) /\ Key(wt, wb) \in Seq(PathByte) /\ Key(pt, pb) # <<>>
      /\ Norm(wb) \in Seq(PathByte) /\ (StartsSlash(Norm(wb)) <=> StartsSlash(wb))
      /\ (StartsSlash(Key(pt, pb)) <=> Rooted(pt, pb)) /\ (StartsSlash(Key(wt, wb)) <=> Rooted(wt, wb))
  BY KeySays
<1>3. Anchor(pt, pb) = Anchor(wt, wb) <=> pt \/ (StartsSlash(pb) <=> StartsSlash(wb))
  BY <1>1, SameAnchor
<1>4. ASSUME IsPrefix(FoldAscii(pb), Norm(wb)), ~pt PROVE StartsSlash(pb) <=> StartsSlash(wb)
  <2>1. FoldAscii(pb) # <<>>
    BY <1>1, <1>4
  <2> QED
    BY <1>1, <1>2, <1>4, <2>1, SameStart
<1>5. ASSUME IsPrefix(Key(pt, pb), Key(wt, wb)), ~pt PROVE StartsSlash(pb) <=> StartsSlash(wb)
  <2>1. StartsSlash(Key(pt, pb)) <=> StartsSlash(Key(wt, wb))
    BY <1>2, <1>5, SameStart
  <2> QED
    BY <1>2, <1>5, <2>1 DEF Rooted
<1> QED
  BY <1>3, <1>4, <1>5

(* An Exact target matches the paths of its place and its names.           *)
LEMMA ExactSays ==
  ASSUME NEW pt, NEW pb, NEW wt, NEW wb, GivenPath(pt, pb), GivenPath(wt, wb)
  PROVE  pt = wt /\ (Norm(wb) = FoldAscii(pb) \/ Key(wt, wb) = Key(pt, pb))
           <=> Anchor(pt, pb) = Anchor(wt, wb) /\ Names(wb) = Names(pb)
<1>1. /\ pt \in BOOLEAN /\ wt \in BOOLEAN /\ FoldAscii(pb) \in Seq(PathByte)
      /\ \A z \in Seq(PathByte) : IsPrefix(z, z)
  BY FoldKeeps DEF GivenPath, IsPrefix
<1>2. /\ Key(pt, pb) \in Seq(PathByte)
      /\ Kept(Key(pt, pb)) = Names(pb) /\ Kept(Key(wt, wb)) = Names(wb) /\ Kept(Norm(wb)) = Names(wb)
  BY KeySays
<1>3. ASSUME pt = wt, Norm(wb) = FoldAscii(pb) \/ Key(wt, wb) = Key(pt, pb)
      PROVE  Anchor(pt, pb) = Anchor(wt, wb) /\ Names(wb) = Names(pb)
  <2>1. IsPrefix(FoldAscii(pb), Norm(wb)) \/ IsPrefix(Key(pt, pb), Key(wt, wb))
    BY <1>1, <1>2, <1>3
  <2>2. Anchor(pt, pb) = Anchor(wt, wb)
    BY <1>3, <2>1, LeadSays
  <2>3. Names(wb) = Names(pb)
    BY <1>2, <1>3 DEF Names
  <2> QED
    BY <2>2, <2>3
<1>4. ASSUME Anchor(pt, pb) = Anchor(wt, wb), Names(wb) = Names(pb) PROVE pt = wt /\ Key(wt, wb) = Key(pt, pb)
  <2>1. pt = wt /\ (Rooted(pt, pb) <=> Rooted(wt, wb))
    BY <1>1, <1>4, SameAnchor DEF Rooted
  <2>2. Key(wt, wb) = Key(pt, pb)
    <3>1. CASE Rooted(pt, pb)
      <4>1. Key(pt, pb) = Slash \o JoinSegs(Names(pb)) /\ Key(wt, wb) = Slash \o JoinSegs(Names(wb))
        BY <2>1, <3>1, KeySays, Zenon
      <4> QED
        BY <1>4, <4>1, Zenon
    <3>2. CASE ~Rooted(pt, pb) /\ Names(pb) # <<>>
      BY <1>4, <2>1, <3>2, KeySays
    <3>3. CASE ~Rooted(pt, pb) /\ Names(pb) = <<>>
      BY <1>4, <2>1, <3>3, KeySays
    <3> QED
      BY <3>1, <3>2, <3>3
  <2> QED
    BY <2>1, <2>2
<1> QED
  BY <1>3, <1>4

(* An Under target matches the paths of its place that begin with its names.*)
LEMMA UnderCovers ==
  ASSUME NEW pt, NEW pb, NEW wt, NEW wb, GivenPath(pt, pb), GivenPath(wt, wb), TargetAccepted(pt, pb, "Under")
  PROVE  pt = wt /\ (Under(FoldAscii(pb), Norm(wb)) \/ Under(Key(pt, pb), Key(wt, wb)))
           <=> Anchor(pt, pb) = Anchor(wt, wb) /\ IsPrefix(Names(pb), Names(wb))
<1>1. /\ pt \in BOOLEAN /\ wt \in BOOLEAN /\ FoldAscii(pb) \in Seq(PathByte) /\ Len(FoldAscii(pb)) = Len(pb)
      /\ pb \in Seq(PathByte) /\ \A z : Under(FoldAscii(pb), z) => IsPrefix(FoldAscii(pb), z)
      /\ \A u, z : Under(u, z) => IsPrefix(u, z)
  BY FoldKeeps DEF GivenPath, Under
<1>2. /\ Key(pt, pb) \in Seq(PathByte) /\ Key(wt, wb) \in Seq(PathByte) /\ Norm(wb) \in Seq(PathByte)
      /\ Key(pt, pb) # <<>>
      /\ Names(pb) \in Seq(GoodSeg) /\ Names(wb) \in Seq(GoodSeg)
      /\ Kept(Key(pt, pb)) = Names(pb) /\ Kept(Key(wt, wb)) = Names(wb) /\ Kept(Norm(wb)) = Names(wb)
  BY KeySays
<1>3. ASSUME pt = wt, Under(FoldAscii(pb), Norm(wb)) \/ Under(Key(pt, pb), Key(wt, wb))
      PROVE  Anchor(pt, pb) = Anchor(wt, wb) /\ IsPrefix(Names(pb), Names(wb))
  <2>1. IsPrefix(FoldAscii(pb), Norm(wb)) \/ IsPrefix(Key(pt, pb), Key(wt, wb))
    BY <1>1, <1>3
  <2>2. Anchor(pt, pb) = Anchor(wt, wb)
    BY <1>3, <2>1, LeadSays
  <2>3. CASE Under(FoldAscii(pb), Norm(wb))
    <3>1. FoldAscii(pb) = <<>> \/ IsPrefix(Kept(FoldAscii(pb)), Names(wb))
      BY <1>1, <1>2, <2>3, UnderSays
    <3>2. FoldAscii(pb) = <<>> => IsPrefix(Names(pb), Names(wb))
      <4>1. Kept(<<>>) = <<>>
        BY KeptSteps, SegSteps
      <4>2. \A ns \in Seq(GoodSeg) : IsPrefix(<<>>, ns)
        BY DEF IsPrefix
      <4> QED
        BY <1>2, <4>1, <4>2 DEF Names
    <3> QED
      BY <2>2, <3>1, <3>2 DEF Names
  <2>4. CASE Under(Key(pt, pb), Key(wt, wb))
    <3>1. IsPrefix(Kept(Key(pt, pb)), Kept(Key(wt, wb)))
      BY <1>2, <2>4, UnderSays
    <3> QED
      BY <1>2, <2>2, <3>1
  <2> QED
    BY <1>3, <2>3, <2>4
<1>4. ASSUME Anchor(pt, pb) = Anchor(wt, wb), IsPrefix(Names(pb), Names(wb))
      PROVE  pt = wt /\ Under(Key(pt, pb), Key(wt, wb))
  <2>1. pt = wt /\ (Rooted(pt, pb) <=> Rooted(wt, wb))
    BY <1>1, <1>4, SameAnchor DEF Rooted
  <2> DEFINE q == JoinSegs(Names(pb))
             y == JoinSegs(Names(wb))
  <2>2. q \in Seq(PathByte) /\ y \in Seq(PathByte) /\ (q = <<>> <=> Names(pb) = <<>>)
    BY <1>2, JoinEmpty
  <2>3. ASSUME Names(pb) # <<>>
        PROVE  IsPrefix(q, y) /\ (Len(q) = Len(y) \/ y[Len(q) + 1] = "/")
    BY <1>2, <1>4, <2>3, NamesUnder
  <2>4. CASE Rooted(pt, pb)
    <3>1. Key(pt, pb) = Slash \o q /\ Key(wt, wb) = Slash \o y
      BY <2>1, <2>4, KeySays, Zenon
    <3> HIDE DEF q, y
    <3>2. CASE Names(pb) # <<>>
      <4>1. Under(Slash \o q, Slash \o y)
        BY <2>2, <2>3, <3>2, SlashInFront
      <4> QED
        BY <2>1, <3>1, <4>1
    <3>3. CASE Names(pb) = <<>>
      <4>1. Slash \o q = Slash
        <5>1. \A z \in Seq(PathByte) : z \o <<>> = z
          OBVIOUS
        <5> QED
          BY <2>2, <3>3, <5>1, OverTypes
      <4>2. IsPrefix(Slash, Slash \o y)
        BY <2>2, OverTypes, PrefixRest
      <4>3. Slash # <<>> /\ Slash[Len(Slash)] = "/"
        BY DEF Slash
      <4>4. Under(Slash, Slash \o y)
        BY <4>2, <4>3 DEF Under
      <4> QED
        BY <2>1, <3>1, <4>1, <4>4
    <3> QED
      BY <3>2, <3>3
  <2>5. CASE ~Rooted(pt, pb)
    <3>1. Names(pb) # <<>>
      BY <2>5, AcceptedNames
    <3>2. Names(wb) # <<>>
      BY <1>2, <1>4, <3>1 DEF IsPrefix
    <3>3. Key(pt, pb) = <<>> \o q /\ Key(wt, wb) = <<>> \o y
      BY <2>1, <2>5, <3>1, <3>2, KeySays, Zenon
    <3> HIDE DEF q, y
    <3>4. Key(pt, pb) = q /\ Key(wt, wb) = y
      BY <2>2, <3>3
    <3> QED
      BY <2>1, <2>3, <3>1, <3>4 DEF Under
  <2> QED
    BY <2>4, <2>5
<1> QED
  BY <1>3, <1>4

(* A Prefix target matches the paths of its place that its names start.    *)
LEMMA PrefixCovers ==
  ASSUME NEW pt, NEW pb, NEW wt, NEW wb, GivenPath(pt, pb), GivenPath(wt, wb), TargetAccepted(pt, pb, "Prefix")
  PROVE  pt = wt /\ (IsPrefix(FoldAscii(pb), Norm(wb)) \/ IsPrefix(Key(pt, pb), Key(wt, wb)))
           <=> Anchor(pt, pb) = Anchor(wt, wb) /\ StartOf(Names(pb), Names(wb))
<1>1. pt \in BOOLEAN /\ wt \in BOOLEAN /\ FoldAscii(pb) \in Seq(PathByte)
  BY FoldKeeps DEF GivenPath
<1>2. /\ Key(pt, pb) \in Seq(PathByte) /\ Key(wt, wb) \in Seq(PathByte) /\ Norm(wb) \in Seq(PathByte)
      /\ Names(pb) \in Seq(GoodSeg) /\ Names(wb) \in Seq(GoodSeg)
      /\ Kept(Key(pt, pb)) = Names(pb) /\ Kept(Key(wt, wb)) = Names(wb) /\ Kept(Norm(wb)) = Names(wb)
  BY KeySays
<1>3. ASSUME pt = wt, IsPrefix(FoldAscii(pb), Norm(wb)) \/ IsPrefix(Key(pt, pb), Key(wt, wb))
      PROVE  Anchor(pt, pb) = Anchor(wt, wb) /\ StartOf(Names(pb), Names(wb))
  <2>1. Anchor(pt, pb) = Anchor(wt, wb)
    BY <1>3, LeadSays
  <2>2. IsPrefix(FoldAscii(pb), Norm(wb)) => StartOf(Kept(FoldAscii(pb)), Kept(Norm(wb)))
    BY <1>1, <1>2, BeginsSays
  <2>3. IsPrefix(Key(pt, pb), Key(wt, wb)) => StartOf(Kept(Key(pt, pb)), Kept(Key(wt, wb)))
    BY <1>2, BeginsSays
  <2> QED
    BY <1>2, <1>3, <2>1, <2>2, <2>3 DEF Names
<1>4. ASSUME Anchor(pt, pb) = Anchor(wt, wb), StartOf(Names(pb), Names(wb))
      PROVE  pt = wt /\ IsPrefix(Key(pt, pb), Key(wt, wb))
  <2>1. pt = wt /\ (Rooted(pt, pb) <=> Rooted(wt, wb))
    BY <1>1, <1>4, SameAnchor DEF Rooted
  <2> DEFINE q == JoinSegs(Names(pb))
             y == JoinSegs(Names(wb))
  <2>2. q \in Seq(PathByte) /\ y \in Seq(PathByte) /\ (q = <<>> <=> Names(pb) = <<>>)
    BY <1>2, JoinEmpty
  <2>3. IsPrefix(q, y)
    <3>1. CASE Names(pb) # <<>>
      BY <1>2, <1>4, <3>1, NamesStart
    <3>2. CASE Names(pb) = <<>>
      <4>1. q = <<>>
        BY <2>2, <3>2
      <4> HIDE DEF q, y
      <4> QED
        BY <2>2, <4>1 DEF IsPrefix
    <3> QED
      BY <3>1, <3>2
  <2>4. CASE Rooted(pt, pb)
    <3>1. Key(pt, pb) = Slash \o q /\ Key(wt, wb) = Slash \o y
      BY <2>1, <2>4, KeySays, Zenon
    <3> HIDE DEF q, y
    <3>2. IsPrefix(Slash \o q, Slash \o y)
      BY <2>2, <2>3, SlashInFront
    <3> QED
      BY <2>1, <3>1, <3>2
  <2>5. CASE ~Rooted(pt, pb)
    <3>1. Names(pb) # <<>>
      BY <2>5, AcceptedNames
    <3>2. Names(wb) # <<>>
      BY <1>2, <1>4, <3>1 DEF StartOf
    <3>3. Key(pt, pb) = <<>> \o q /\ Key(wt, wb) = <<>> \o y
      BY <2>1, <2>5, <3>1, <3>2, KeySays, Zenon
    <3> HIDE DEF q, y
    <3>4. Key(pt, pb) = q /\ Key(wt, wb) = y
      BY <2>2, <3>3
    <3> QED
      BY <2>1, <2>3, <3>4
  <2> QED
    BY <2>4, <2>5
<1> QED
  BY <1>3, <1>4

(* A Component target matches the paths with its names anywhere on the way;*)
(* a ComponentPrefix target those that its names start there.              *)
LEMMA ComponentCovers ==
  ASSUME NEW pt, NEW pb, NEW wt, NEW wb, GivenPath(pt, pb), GivenPath(wt, wb), NEW kind,
         kind \in {"Component", "ComponentPrefix"}, TargetAccepted(pt, pb, kind)
  PROVE  /\ Component(Key(wt, wb), Key(pt, pb), TRUE) <=> NamesAmong(Names(pb), Names(wb))
         /\ Component(Key(wt, wb), Key(pt, pb), FALSE) <=> NamesStartAmong(Names(pb), Names(wb))
<1>1. /\ Key(pt, pb) \in Seq(PathByte) /\ Key(wt, wb) \in Seq(PathByte) /\ Key(pt, pb) # <<>>
      /\ Names(pb) \in Seq(GoodSeg) /\ Names(wb) \in Seq(GoodSeg)
      /\ Kept(Key(pt, pb)) = Names(pb) /\ Kept(Key(wt, wb)) = Names(wb)
  BY KeySays
<1>2. ~Rooted(pt, pb) /\ Names(pb) # <<>>
  <2>1. ~Rooted(pt, pb)
    BY DEF TargetAccepted, Rooted
  <2> QED
    BY <2>1, AcceptedNames
<1>3. /\ Component(Key(wt, wb), Key(pt, pb), TRUE) => NamesAmong(Names(pb), Names(wb))
      /\ Component(Key(wt, wb), Key(pt, pb), FALSE) => NamesStartAmong(Names(pb), Names(wb))
  <2>1. /\ Component(Key(wt, wb), Key(pt, pb), TRUE) => NamesAmong(Kept(Key(pt, pb)), Kept(Key(wt, wb)))
        /\ Component(Key(wt, wb), Key(pt, pb), FALSE) => NamesStartAmong(Kept(Key(pt, pb)), Kept(Key(wt, wb)))
    BY <1>1, ComponentSays
  <2> QED
    BY <1>1, <2>1
<1>4. Key(pt, pb) = JoinSegs(Names(pb))
  <2>1. Key(pt, pb) = <<>> \o JoinSegs(Names(pb))
    BY <1>2, KeySays, Zenon
  <2>2. JoinSegs(Names(pb)) \in Seq(PathByte)
    BY <1>1, JoinEmpty
  <2>3. \A z \in Seq(PathByte) : <<>> \o z = z
    OBVIOUS
  <2> QED
    BY <2>1, <2>2, <2>3, Zenon
<1>5. CASE Names(wb) # <<>> \/ Rooted(wt, wb)
  <2>1. \E lead \in {<<>>, Slash} : Key(wt, wb) = lead \o JoinSegs(Names(wb))
    BY <1>5, KeySays
  <2>2. PICK lead \in {<<>>, Slash} : Key(wt, wb) = lead \o JoinSegs(Names(wb))
    BY <2>1
  <2>3. /\ NamesAmong(Names(pb), Names(wb)) => Component(lead \o JoinSegs(Names(wb)), JoinSegs(Names(pb)), TRUE)
        /\ NamesStartAmong(Names(pb), Names(wb)) => Component(lead \o JoinSegs(Names(wb)), JoinSegs(Names(pb)), FALSE)
    BY <1>1, <1>2, SaysComponent
  <2> QED
    BY <1>3, <1>4, <2>2, <2>3
<1>6. CASE Names(wb) = <<>>
  <2>1. \A n \in 0 .. Len(Names(wb)) : SubSeq(Names(wb), n + 1, Len(Names(wb))) = <<>>
    BY <1>6
  <2>2. ~IsPrefix(Names(pb), <<>>) /\ ~StartOf(Names(pb), <<>>)
    BY <1>1, <1>2 DEF IsPrefix, StartOf
  <2>3. ~NamesAmong(Names(pb), Names(wb)) /\ ~NamesStartAmong(Names(pb), Names(wb))
    BY <2>1, <2>2 DEF NamesAmong, NamesStartAmong
  <2> QED
    BY <1>3, <2>3
<1> QED
  BY <1>5, <1>6

(* A target that the loader accepts matches a path as given exactly when   *)
(* it covers it.                                                           *)
LEMMA MatchCovers ==
  ASSUME NEW pat, PathView(pat.parts) = View(HasTilde(pat.parts), PathLead(pat.parts)), pat.kind \in PatKind,
         GivenPath(HasTilde(pat.parts), PathLead(pat.parts)),
         TargetAccepted(HasTilde(pat.parts), PathLead(pat.parts), pat.kind),
         NEW wt, NEW wb, GivenPath(wt, wb)
  PROVE  PatMatch(pat, View(wt, wb)) <=> CoversPath(pat.kind, HasTilde(pat.parts), PathLead(pat.parts), wt, wb)
<1> DEFINE pt == HasTilde(pat.parts)
           pb == PathLead(pat.parts)
           same == Anchor(pt, pb) = Anchor(wt, wb)
           exact == pt = wt /\ (Norm(wb) = FoldAscii(pb) \/ Key(wt, wb) = Key(pt, pb))
           begins == pt = wt /\ (IsPrefix(FoldAscii(pb), Norm(wb)) \/ IsPrefix(Key(pt, pb), Key(wt, wb)))
           under == pt = wt /\ (Under(FoldAscii(pb), Norm(wb)) \/ Under(Key(pt, pb), Key(wt, wb)))
           among == Component(Key(wt, wb), Key(pt, pb), TRUE)
           startAmong == Component(Key(wt, wb), Key(pt, pb), FALSE)
<1>1. GivenPath(pt, pb) /\ GivenPath(wt, wb) /\ TargetAccepted(pt, pb, pat.kind)
  OBVIOUS
<1>2. ~pt => FoldAscii(pb) # <<>>
  <2>1. pb \in Seq(PathByte) /\ (~pt => pb # <<>>)
    BY <1>1 DEF GivenPath
  <2> HIDE DEF pt, pb
  <2>2. FoldAscii(pb) \in Seq(PathByte) /\ Len(FoldAscii(pb)) = Len(pb)
    BY <2>1, FoldKeeps
  <2>3. \A z \in Seq(PathByte) : z = <<>> <=> Len(z) = 0
    OBVIOUS
  <2> QED
    BY <2>1, <2>2, <2>3
<1>3. PatMatch(pat, View(wt, wb)) <=>
        \/ pat.kind = "Exact" /\ exact
        \/ pat.kind = "Under" /\ under
        \/ pat.kind = "Prefix" /\ begins
        \/ pat.kind = "Component" /\ among
        \/ pat.kind = "ComponentPrefix" /\ startAmong
  <2>1. PatMatch(pat, View(wt, wb)) <=>
          \/ pat.kind = "Component" /\ among
          \/ pat.kind = "ComponentPrefix" /\ startAmong
          \/ pat.kind = "Prefix" /\ pt # wt /\ ~pt /\ FoldAscii(pb) = <<>>
          \/ /\ pt = wt
             /\ \/ pat.kind = "Exact" /\ (Norm(wb) = FoldAscii(pb) \/ Key(wt, wb) = Key(pt, pb))
                \/ pat.kind = "Prefix" /\ (IsPrefix(FoldAscii(pb), Norm(wb)) \/ IsPrefix(Key(pt, pb), Key(wt, wb)))
                \/ pat.kind = "Under" /\ (Under(FoldAscii(pb), Norm(wb)) \/ Under(Key(pt, pb), Key(wt, wb)))
    <3>1. PathView(pat.parts) = View(pt, pb)
      OBVIOUS
    <3>2. \A t, b : /\ View(t, b).tilde = t /\ View(t, b).lead = FoldAscii(b) /\ View(t, b).norm = Norm(b)
                    /\ View(t, b).key = Key(t, b) /\ View(t, b).more = FALSE
      BY DEF View
    <3> HIDE DEF pt, pb
    <3> DEFINE q == PathView(pat.parts)
               w == View(wt, wb)
    <3>3. PatMatch(pat, w) <=>
            \/ q.more
            \/ pat.kind = "Component" /\ Component(w.key, q.key, TRUE)
            \/ pat.kind = "ComponentPrefix" /\ Component(w.key, q.key, FALSE)
            \/ pat.kind = "Prefix" /\ q.tilde # w.tilde /\ ~q.tilde /\ q.lead = <<>>
            \/ /\ q.tilde = w.tilde
               /\ \/ pat.kind = "Exact" /\ ~w.more /\ (w.norm = q.lead \/ w.key = q.key)
                  \/ pat.kind = "Prefix" /\ (IsPrefix(q.lead, w.norm) \/ IsPrefix(q.key, w.key))
                  \/ pat.kind = "Under" /\ (Under(q.lead, w.norm) \/ Under(q.key, w.key))
      BY Zenon DEF PatMatch
    <3>4. /\ q.tilde = pt /\ q.lead = FoldAscii(pb) /\ q.norm = Norm(pb) /\ q.key = Key(pt, pb) /\ q.more = FALSE
          /\ w.tilde = wt /\ w.lead = FoldAscii(wb) /\ w.norm = Norm(wb) /\ w.key = Key(wt, wb) /\ w.more = FALSE
      BY <3>1, <3>2
    <3> HIDE DEF q, w
    <3>5. w = View(wt, wb)
      BY DEF w
    <3> QED
      BY <3>3, <3>4, <3>5
  <2> HIDE DEF pt, pb
  <2> QED
    BY <1>2, <2>1, Zenon
<1> HIDE DEF pt, pb
<1>4. CoversPath(pat.kind, pt, pb, wt, wb) <=>
        \/ pat.kind = "Exact" /\ same /\ Names(wb) = Names(pb)
        \/ pat.kind = "Under" /\ same /\ IsPrefix(Names(pb), Names(wb))
        \/ pat.kind = "Prefix" /\ same /\ StartOf(Names(pb), Names(wb))
        \/ pat.kind = "Component" /\ NamesAmong(Names(pb), Names(wb))
        \/ pat.kind = "ComponentPrefix" /\ NamesStartAmong(Names(pb), Names(wb))
  BY Zenon DEF CoversPath, NamesAmong, NamesStartAmong
<1>5. pat.kind = "Exact" => (exact <=> same /\ Names(wb) = Names(pb))
  <2>1. exact <=> same /\ Names(wb) = Names(pb)
    BY <1>1, ExactSays
  <2> QED
    BY <2>1
<1>6. pat.kind = "Under" => (under <=> same /\ IsPrefix(Names(pb), Names(wb)))
  <2>1. pat.kind = "Under" => TargetAccepted(pt, pb, "Under")
    BY <1>1
  <2> QED
    BY <1>1, <2>1, UnderCovers, Zenon
<1>7. pat.kind = "Prefix" => (begins <=> same /\ StartOf(Names(pb), Names(wb)))
  <2>1. pat.kind = "Prefix" => TargetAccepted(pt, pb, "Prefix")
    BY <1>1
  <2> QED
    BY <1>1, <2>1, PrefixCovers, Zenon
<1>8. pat.kind \in {"Component", "ComponentPrefix"} =>
        /\ among <=> NamesAmong(Names(pb), Names(wb))
        /\ startAmong <=> NamesStartAmong(Names(pb), Names(wb))
  <2>1. ASSUME NEW kind, kind \in {"Component", "ComponentPrefix"}, TargetAccepted(pt, pb, kind)
        PROVE  /\ among <=> NamesAmong(Names(pb), Names(wb))
               /\ startAmong <=> NamesStartAmong(Names(pb), Names(wb))
    BY <1>1, <2>1, ComponentCovers, Zenon
  <2> QED
    BY <1>1, <2>1
<1>9. /\ pat.kind = "Component" => (among <=> NamesAmong(Names(pb), Names(wb)))
      /\ pat.kind = "ComponentPrefix" => (startAmong <=> NamesStartAmong(Names(pb), Names(wb)))
  BY <1>8
<1> HIDE DEF same, exact, begins, under, among, startAmong
<1>10. PatMatch(pat, View(wt, wb)) <=> CoversPath(pat.kind, pt, pb, wt, wb)
  BY <1>3, <1>4, <1>5, <1>6, <1>7, <1>9, Zenon
<1> QED
  BY <1>10 DEF pt, pb

(* Without variables, a word or target is compared by its "~" and bytes;   *)
(* so is a value given inline.                                             *)
LEMMA PlainView ==
  /\ \A ps : ~PathMore(ps) => PathView(ps) = View(HasTilde(ps), PathLead(ps))
  /\ \A ps, off : InlineView(ps, off) = View(FALSE, InlineValueOf(ps, off))
<1>1. ASSUME NEW ps, ~PathMore(ps) PROVE PathView(ps) = View(HasTilde(ps), PathLead(ps))
  <2>1. PathMore(ps) = FALSE
    BY <1>1 DEF PathMore, HasOpaque
  <2>2. PathNorm(ps) = Norm(PathLead(ps))
    BY <1>1, Zenon DEF PathNorm, Norm
  <2> QED
    BY <1>1, <2>1, <2>2 DEF PathView, View, Key, Slash
<1>2. ASSUME NEW ps, NEW off PROVE InlineView(ps, off) = View(FALSE, InlineValueOf(ps, off))
  BY DEF InlineView, View, Key, Norm
<1> QED
  BY <1>1, <1>2

(* A target matches a path as given, empty or not, exactly when there is   *)
(* one and the target covers it.                                           *)
LEMMA TargetSays ==
  ASSUME NEW pat, pat.parts \in Seq(Part), pat.kind \in PatKind, ~PathMore(pat.parts),
         TargetAccepted(HasTilde(pat.parts), PathLead(pat.parts), pat.kind),
         NEW wt \in BOOLEAN, NEW wb \in Seq(PathByte), wt => wb = <<>> \/ StartsSlash(wb)
  PROVE  PatMatch(pat, View(wt, wb)) <=>
           (wt \/ wb # <<>>) /\ CoversPath(pat.kind, HasTilde(pat.parts), PathLead(pat.parts), wt, wb)
<1> DEFINE pt == HasTilde(pat.parts)
           pb == PathLead(pat.parts)
           q == PathView(pat.parts)
           w == View(wt, wb)
<1>1. GivenPath(pt, pb)
  <2>1. pt \in BOOLEAN
    BY DEF HasTilde
  <2>2. pb \in Seq(PathByte)
    BY PartBytes
  <2> QED
    BY <2>1, <2>2, Zenon DEF TargetAccepted, GivenPath
<1>2. q = View(pt, pb)
  BY PlainView
<1>3. CASE wt \/ wb # <<>>
  <2>1. GivenPath(wt, wb)
    BY <1>3 DEF GivenPath
  <2>2. PatMatch(pat, View(wt, wb)) <=> CoversPath(pat.kind, HasTilde(pat.parts), PathLead(pat.parts), wt, wb)
    BY <1>1, <1>2, <2>1, MatchCovers, Zenon
  <2> QED
    BY <1>3, <2>2, Zenon
<1>4. CASE ~wt /\ wb = <<>>
  <2>1. FoldAscii(<<>>) = <<>> /\ NormalForm(<<>>) = <<>>
    <3>1. FoldAscii(<<>>) = <<>>
      BY DEF FoldAscii
    <3>2. Kept(<<>>) = <<>> /\ JoinSegs(<<>>) = <<>>
      <4>1. <<>> \in Seq(GoodSeg)
        OBVIOUS
      <4> QED
        BY <4>1, KeptSteps, SegSteps, JoinEmpty
    <3>3. Lead(<<>>) = <<>>
      BY DEF Lead, StartsSlash
    <3>4. <<>> \o <<>> = <<>>
      OBVIOUS
    <3> QED
      BY <3>1, <3>2, <3>3, <3>4, Zenon DEF NormalForm
  <2>2. w.tilde = FALSE /\ w.norm = <<>> /\ w.key = <<>> /\ w.more = FALSE
    <3>1. Norm(wb) = <<>> /\ Key(wt, wb) = <<>>
      BY <1>4, <2>1 DEF Norm, Key
    <3> QED
      BY <1>4, <3>1 DEF View
  <2>3. /\ q.tilde = pt /\ q.lead = FoldAscii(pb) /\ q.key = Key(pt, pb) /\ q.more = FALSE
    BY <1>2 DEF View
  <2>4. Key(pt, pb) \in Seq(PathByte) /\ Key(pt, pb) # <<>>
    BY <1>1, KeySays
  <2>5. ~pt => FoldAscii(pb) # <<>>
    <3>1. pb \in Seq(PathByte) /\ (~pt => pb # <<>>)
      BY <1>1 DEF GivenPath
    <3> HIDE DEF pt, pb
    <3>2. FoldAscii(pb) \in Seq(PathByte) /\ Len(FoldAscii(pb)) = Len(pb)
      BY <3>1, FoldKeeps
    <3>3. \A z \in Seq(PathByte) : z = <<>> <=> Len(z) = 0
      OBVIOUS
    <3> QED
      BY <3>1, <3>2, <3>3
  <2>6. FoldAscii(pb) \in Seq(PathByte)
    <3>1. pb \in Seq(PathByte)
      BY <1>1 DEF GivenPath
    <3> HIDE DEF pb
    <3> QED
      BY <3>1, FoldKeeps
  <2>7. \A z \in Seq(PathByte) : z # <<>> => /\ ~IsPrefix(z, <<>>) /\ ~Under(z, <<>>)
                                             /\ \A whole : ~Component(<<>>, z, whole)
    <3> SUFFICES ASSUME NEW z \in Seq(PathByte), z # <<>>
                 PROVE  ~IsPrefix(z, <<>>) /\ ~Under(z, <<>>) /\ \A whole : ~Component(<<>>, z, whole)
      OBVIOUS
    <3>1. Len(z) \in Nat \ {0} /\ Len(<<>>) = 0
      OBVIOUS
    <3>2. ~IsPrefix(z, <<>>)
      BY <3>1 DEF IsPrefix
    <3>3. ~Under(z, <<>>)
      BY <3>2, Zenon DEF Under
    <3>4. 1 .. Len(<<>>) - Len(z) + 1 = {}
      BY <3>1
    <3> QED
      BY <3>2, <3>3, <3>4 DEF Component
  <2> HIDE DEF pt, pb
  <2>8. /\ ~IsPrefix(Key(pt, pb), <<>>) /\ ~Under(Key(pt, pb), <<>>)
        /\ ~Component(<<>>, Key(pt, pb), TRUE) /\ ~Component(<<>>, Key(pt, pb), FALSE)
        /\ ~pt => ~IsPrefix(FoldAscii(pb), <<>>) /\ ~Under(FoldAscii(pb), <<>>)
    BY <2>4, <2>5, <2>6, <2>7, Zenon
  <2>9. PatMatch(pat, w) <=>
          \/ q.more
          \/ pat.kind = "Component" /\ Component(w.key, q.key, TRUE)
          \/ pat.kind = "ComponentPrefix" /\ Component(w.key, q.key, FALSE)
          \/ pat.kind = "Prefix" /\ q.tilde # w.tilde /\ ~q.tilde /\ q.lead = <<>>
          \/ /\ q.tilde = w.tilde
             /\ \/ pat.kind = "Exact" /\ ~w.more /\ (w.norm = q.lead \/ w.key = q.key)
                \/ pat.kind = "Prefix" /\ (IsPrefix(q.lead, w.norm) \/ IsPrefix(q.key, w.key))
                \/ pat.kind = "Under" /\ (Under(q.lead, w.norm) \/ Under(q.key, w.key))
    BY Zenon DEF PatMatch
  <2> HIDE DEF q, w
  <2>10. ~PatMatch(pat, w)
    BY <2>2, <2>3, <2>4, <2>5, <2>8, <2>9
  <2> QED
    BY <1>4, <2>10 DEF w
<1> QED
  BY <1>3, <1>4

-----------------------------------------------------------------------------
(* Rules and the command.                                                  *)

(* A target of the rule covers a path of the command.                      *)
Covers(t, path) ==
  LET pat == rule.targets[t].parts IN
    /\ path.tilde \/ path.bytes # <<>>
    /\ CoversPath(rule.targets[t].kind, HasTilde(pat), PathLead(pat), path.tilde, path.bytes)

(* The command, the rule and the pipe are among the given.                 *)
GivenOK == CmdOK /\ cmd \in Commands /\ rule \in Rules /\ piped \in BOOLEAN

(* When all paths lead where they say, a target hits a slot exactly when   *)
(* it covers one of the paths of the slot.                                 *)
LEMMA SlotHitSays ==
  ASSUME GivenOK, NEW n \in DOMAIN slots, NEW t \in DOMAIN rule.targets,
         \A path \in PathsGiven : LeadsWhereItSays(path)
  PROVE  SlotHit(rule.targets[t], n) <=> \E path \in PathsGiven : path.slot = n /\ Covers(t, path)
<1> DEFINE pat == rule.targets[t]
<1>1. /\ pat.parts \in Seq(Part) /\ pat.kind \in PatKind /\ ~PathMore(pat.parts)
      /\ TargetAccepted(HasTilde(pat.parts), PathLead(pat.parts), pat.kind)
  <2>1. rule \in Rule /\ rule \in Rules
    BY RulesAssumption DEF GivenOK
  <2>2. pat \in Pat
    BY <2>1 DEF Rule
  <2>3. pat.parts \in Seq(Part) /\ pat.kind \in PatKind
    BY <2>2 DEF Pat
  <2>4. ~PathMore(pat.parts) /\ TargetAccepted(HasTilde(pat.parts), PathLead(pat.parts), pat.kind)
    BY <2>1, RulesAssumption, Zenon
  <2> QED
    BY <2>3, <2>4
<1>2. /\ parts(n) \in Seq(Part) /\ \A v \in InlinePaths(n) : v.off \in Nat /\ ~InlineBad(parts(n), v.off)
  BY SlotsOfWords DEF GivenOK
<1>3. \A path : Covers(t, path) <=>
        /\ path.tilde \/ path.bytes # <<>>
        /\ CoversPath(pat.kind, HasTilde(pat.parts), PathLead(pat.parts), path.tilde, path.bytes)
  BY Zenon DEF Covers
<1> HIDE DEF pat
<1>4. ASSUME slots[n].role = "Path" PROVE PatMatch(pat, PathView(parts(n))) <=> Covers(t, WordPath(n))
  <2> DEFINE tilde == HasTilde(parts(n))
             bytes == PathLead(parts(n))
  <2>1. WordPath(n).tilde = tilde /\ WordPath(n).bytes = bytes /\ WordPath(n).more = PathMore(parts(n))
    BY DEF WordPath
  <2>2. ~PathMore(parts(n))
    <3>1. LeadsWhereItSays(WordPath(n))
      BY <1>4, PathsOfSlots, Zenon
    <3> QED
      BY <2>1, <3>1, Zenon DEF LeadsWhereItSays
  <2>3. PathView(parts(n)) = View(tilde, bytes)
    BY <2>2, PlainView, Zenon
  <2>4. tilde \in BOOLEAN /\ bytes \in Seq(PathByte)
    BY <1>2, PartBytes DEF HasTilde
  <2>5. tilde => bytes = <<>> \/ StartsSlash(bytes)
    <3>1. cmd \in Commands /\ cmd.start + n \in DOMAIN cmd.ws
      <4>1. n \in 1 .. Len(Views(cmd.ws)) - cmd.start
        BY DEF GivenOK, CmdOK, Readings
      <4>2. cmd.ws \in Seq(Seq(Part)) /\ cmd.start \in Nat
        BY DEF GivenOK, CmdOK, Command
      <4>3. Len(Views(cmd.ws)) = Len(cmd.ws)
        BY <4>2 DEF Views
      <4>4. cmd.start + n \in 1 .. Len(cmd.ws)
        BY <4>1, <4>2, <4>3
      <4> QED
        BY <4>2, <4>4 DEF GivenOK
    <3> QED
      BY <3>1, WordsAssumption, Zenon DEF parts
  <2> HIDE DEF tilde, bytes
  <2>6. PatMatch(pat, View(tilde, bytes)) <=>
          (tilde \/ bytes # <<>>) /\ CoversPath(pat.kind, HasTilde(pat.parts), PathLead(pat.parts), tilde, bytes)
    BY <1>1, <2>4, <2>5, TargetSays
  <2> QED
    BY <1>3, <2>1, <2>3, <2>6, Zenon
<1>5. ASSUME NEW v \in InlinePaths(n)
      PROVE  InlineBad(parts(n), v.off) \/ PatMatch(pat, InlineView(parts(n), v.off)) <=> Covers(t, InlinePath(n, v))
  <2> DEFINE bytes == InlineValueOf(parts(n), v.off)
  <2>1. InlinePath(n, v).tilde = FALSE /\ InlinePath(n, v).bytes = bytes
    BY DEF InlinePath
  <2>2. bytes \in Seq(PathByte)
    <3> DEFINE lit == LitPrefix(parts(n))
    <3>1. lit \in Seq(PathByte) /\ v.off \in Nat
      BY <1>2, PartBytes
    <3> HIDE DEF lit
    <3>2. SubSeq(lit, v.off + 1, Len(lit)) \in Seq(PathByte)
      BY <3>1
    <3> QED
      BY <3>2 DEF InlineValueOf, lit
  <2>3. InlineView(parts(n), v.off) = View(FALSE, bytes)
    BY PlainView, Zenon
  <2> HIDE DEF bytes
  <2>4. PatMatch(pat, View(FALSE, bytes)) <=>
          (FALSE \/ bytes # <<>>) /\ CoversPath(pat.kind, HasTilde(pat.parts), PathLead(pat.parts), FALSE, bytes)
    BY <1>1, <2>2, TargetSays
  <2>5. ~InlineBad(parts(n), v.off)
    BY <1>2
  <2> QED
    BY <1>3, <2>1, <2>3, <2>4, <2>5, Zenon
<1>6. SlotHit(pat, n) <=>
        \/ \E v \in InlinePaths(n) :
             InlineBad(parts(n), v.off) \/ PatMatch(pat, InlineView(parts(n), v.off))
        \/ slots[n].role = "Path" /\ PatMatch(pat, PathView(parts(n)))
  BY Zenon DEF SlotHit
<1>7. (\E path \in PathsGiven : path.slot = n /\ Covers(t, path)) <=>
        \/ \E v \in InlinePaths(n) : Covers(t, InlinePath(n, v))
        \/ slots[n].role = "Path" /\ Covers(t, WordPath(n))
  <2>1. \A m, v : WordPath(m).slot = m /\ InlinePath(m, v).slot = m
    BY DEF WordPath, InlinePath
  <2>2. ASSUME NEW path \in PathsGiven, path.slot = n, Covers(t, path)
        PROVE  \/ \E v \in InlinePaths(n) : Covers(t, InlinePath(n, v))
               \/ slots[n].role = "Path" /\ Covers(t, WordPath(n))
    <3>1. PICK m \in DOMAIN slots :
            \/ slots[m].role = "Path" /\ path = WordPath(m)
            \/ \E v \in InlinePaths(m) : path = InlinePath(m, v)
      BY PathsOfSlots, Zenon
    <3>2. m = n
      BY <2>1, <2>2, <3>1, Zenon
    <3> QED
      BY <2>2, <3>1, <3>2, Zenon
  <2>3. /\ \A v \in InlinePaths(n) : InlinePath(n, v) \in PathsGiven
        /\ slots[n].role = "Path" => WordPath(n) \in PathsGiven
    BY PathsOfSlots, Zenon
  <2> QED
    BY <2>1, <2>2, <2>3, Zenon
<1>8. SlotHit(pat, n) <=> \E path \in PathsGiven : path.slot = n /\ Covers(t, path)
  BY <1>4, <1>5, <1>6, <1>7, Zenon
<1> QED
  BY <1>8 DEF pat

(* Some slot is hit by a target exactly when a path is covered by one.     *)
LEMMA HittingSays ==
  ASSUME GivenOK, \A path \in PathsGiven : LeadsWhereItSays(path)
  PROVE  (\E n \in DOMAIN slots : Hitting(n) # {}) <=>
           \E t \in DOMAIN rule.targets, path \in PathsGiven : Covers(t, path)
<1>1. \A n : Hitting(n) # {} <=> \E t \in DOMAIN rule.targets : SlotHit(rule.targets[t], n)
  BY DEF Hitting
<1>2. \A n \in DOMAIN slots : \A t \in DOMAIN rule.targets :
        SlotHit(rule.targets[t], n) <=> \E path \in PathsGiven : path.slot = n /\ Covers(t, path)
  BY SlotHitSays, Zenon
<1> QED
  BY <1>1, <1>2, PathsAreOfSlots, Zenon

(* The hit so far: the key, then the options before the counter, then the  *)
(* slots before it, and at the end the answer they make.                   *)
Optioned == \A e \in DOMAIN rule.alts : AltsSeen(rule.alts[e])

HitInv ==
  /\ GivenOK
  /\ task \in {"check", "key", "opts", "targets", "done"}
  /\ task \in {"check", "key"} => hit = {}
  /\ task = "opts" => /\ hit = {} /\ k \in Nat \ {0} /\ KeyMatches(rule.key, cmd.ws)
                      /\ \A e \in DOMAIN rule.alts : e < k => AltsSeen(rule.alts[e])
  /\ task = "targets" => /\ hit = {} /\ k \in Nat \ {0} /\ KeyMatches(rule.key, cmd.ws) /\ Optioned
                         /\ ~rule.pipe /\ rule.targets # <<>>
                         /\ \A n \in DOMAIN slots : n < k => Hitting(n) = {}
  /\ task = "done" =>
       (TRUE \in hit <=> /\ KeyMatches(rule.key, cmd.ws) /\ Optioned
                         /\ rule.pipe => piped
                         /\ ~rule.pipe /\ rule.targets # <<>> => \E n \in DOMAIN slots : Hitting(n) # {})

(* Nothing is hit before the first step.                                   *)
LEMMA HitInvFirst == ASSUME Init PROVE HitInv
<1>1. CmdOK
  BY CheckInvFirst DEF CheckInv
<1> QED
  BY <1>1 DEF Init, HitInv, GivenOK

(* The input stays, and so does what the rule's parts say of it.           *)
LEMMA RuleStays ==
  ASSUME UNCHANGED input
  PROVE  /\ GivenOK' <=> GivenOK
         /\ rule' = rule /\ cmd' = cmd /\ slots' = slots /\ piped' = piped
         /\ Optioned' <=> Optioned
         /\ KeyMatches(rule.key, cmd.ws)' <=> KeyMatches(rule.key, cmd.ws)
         /\ \A e : AltsSeen(rule.alts[e])' <=> AltsSeen(rule.alts[e])
         /\ \A n : Hitting(n)' = Hitting(n)
         /\ \A t, path : Covers(t, path)' <=> Covers(t, path)
<1>1. cmd' = cmd /\ slots' = slots /\ rule' = rule /\ piped' = piped
  BY DEF input
<1>2. \A e : AltsSeen(rule.alts[e])' <=> AltsSeen(rule.alts[e])
  BY <1>1 DEF AltsSeen
<1>3. \A n : Hitting(n)' = Hitting(n)
  BY <1>1 DEF Hitting, SlotHit, InlinePaths, parts
<1>4. GivenOK' <=> GivenOK
  BY <1>1, InputStays DEF GivenOK
<1>5. KeyMatches(rule.key, cmd.ws)' <=> KeyMatches(rule.key, cmd.ws)
  BY <1>1 DEF KeyMatches
<1>6. Optioned' <=> Optioned
  BY <1>1, <1>2 DEF Optioned
<1>7. \A t, path : Covers(t, path)' <=> Covers(t, path)
  BY <1>1 DEF Covers
<1> QED
  BY <1>1, <1>2, <1>3, <1>4, <1>5, <1>6, <1>7

(* Each step answers as the rule's parts say, or goes on to what it has    *)
(* not looked at.                                                          *)
LEMMA HitInvSteps == ASSUME HitInv, [Next]_vars PROVE HitInv'
<1>0. /\ GivenOK /\ DOMAIN slots = 1 .. Len(slots) /\ Len(slots) \in Nat
      /\ DOMAIN rule.alts = 1 .. Len(rule.alts) /\ Len(rule.alts) \in Nat
      /\ rule.pipe \in BOOLEAN
  <2>1. rule \in Rule
    BY RulesAssumption DEF HitInv, GivenOK
  <2>2. rule.alts \in Seq(SUBSET OptName) /\ rule.pipe \in BOOLEAN
    BY <2>1 DEF Rule
  <2>3. GivenOK
    BY DEF HitInv
  <2>4. CmdOK
    BY <2>3 DEF GivenOK
  <2> QED
    BY <2>2, <2>3, <2>4, SlotsCounted
<1>1. UNCHANGED input
  BY DEF Next, vars, input, PathPasses, PathFails, PathsPass, KeyMisses, KeyHits, OptPresent, OptMissing,
    OptsPresent, TargetHit, TargetMiss, NoTargetHit, Goto, Advance, RuleHits
<1>2. /\ GivenOK' /\ rule' = rule /\ slots' = slots /\ piped' = piped
      /\ Optioned' <=> Optioned
      /\ KeyMatches(rule.key, cmd.ws)' <=> KeyMatches(rule.key, cmd.ws)
      /\ \A e : AltsSeen(rule.alts[e])' <=> AltsSeen(rule.alts[e])
      /\ \A n : Hitting(n)' = Hitting(n)
  BY <1>0, <1>1, RuleStays
<1> DEFINE key == KeyMatches(rule.key, cmd.ws)
           some == \E n \in DOMAIN slots : Hitting(n) # {}
           answer == /\ key /\ Optioned
                     /\ rule.pipe => piped
                     /\ ~rule.pipe /\ rule.targets # <<>> => some
<1>3. ASSUME task' = "done", TRUE \in hit' <=> answer PROVE HitInv'
  BY <1>2, <1>3 DEF HitInv
<1>4. ASSUME NEW b \in BOOLEAN, RuleHits(b), b <=> answer PROVE HitInv'
  <2>1. hit' = {b} /\ task' = "done"
    BY <1>4 DEF RuleHits
  <2>2. TRUE \in hit' <=> answer
    <3> HIDE DEF answer
    <3> QED
      BY <1>4, <2>1
  <2> HIDE DEF answer
  <2> QED
    BY <1>3, <2>1, <2>2
<1>5. CASE PathPasses \/ PathFails \/ PathsPass
  <2>1. task = "check" /\ task' \in {"check", "key"} /\ hit' = hit
    BY <1>5 DEF PathPasses, PathFails, PathsPass, Goto, Advance
  <2>2. hit = {}
    BY <2>1 DEF HitInv
  <2> QED
    BY <1>2, <2>1, <2>2 DEF HitInv
<1>6. CASE KeyMisses
  <2>1. RuleHits(FALSE) /\ ~key
    BY <1>6 DEF KeyMisses
  <2> QED
    BY <1>4, <2>1
<1>7. CASE KeyHits
  <2>1. task = "key" /\ key /\ task' = "opts" /\ k' = 1 /\ hit' = hit
    BY <1>7 DEF KeyHits, Goto
  <2>2. hit = {}
    BY <2>1 DEF HitInv
  <2>3. \A e \in DOMAIN rule.alts : ~(e < 1)
    BY <1>0
  <2> QED
    BY <1>2, <2>1, <2>2, <2>3 DEF HitInv
<1>8. CASE OptPresent
  <2>1. task = "opts" /\ AltsSeen(rule.alts[k]) /\ task' = task /\ k' = k + 1 /\ hit' = hit
    BY <1>8 DEF OptPresent, Advance
  <2>2. hit = {} /\ k \in Nat \ {0} /\ key /\ \A e \in DOMAIN rule.alts : e < k => AltsSeen(rule.alts[e])
    BY <2>1 DEF HitInv
  <2>3. k + 1 \in Nat \ {0} /\ \A e \in DOMAIN rule.alts : e < k + 1 => e < k \/ e = k
    BY <1>0, <2>2
  <2>4. \A e \in DOMAIN rule.alts : e < k' => AltsSeen(rule.alts[e])
    BY <2>1, <2>2, <2>3
  <2> QED
    BY <1>2, <2>1, <2>2, <2>3, <2>4 DEF HitInv
<1>9. CASE OptMissing
  <2>1. task = "opts" /\ k <= Len(rule.alts) /\ ~AltsSeen(rule.alts[k]) /\ RuleHits(FALSE)
    BY <1>9 DEF OptMissing
  <2>2. k \in Nat \ {0}
    BY <2>1 DEF HitInv
  <2>3. k \in DOMAIN rule.alts
    BY <1>0, <2>1, <2>2
  <2>4. ~Optioned
    BY <2>1, <2>3 DEF Optioned
  <2> QED
    BY <1>4, <2>1, <2>4
<1>10. CASE OptsPresent
  <2>1. task = "opts" /\ k > Len(rule.alts)
    BY <1>10 DEF OptsPresent
  <2>2. hit = {} /\ k \in Nat \ {0} /\ key /\ \A e \in DOMAIN rule.alts : e < k => AltsSeen(rule.alts[e])
    BY <2>1 DEF HitInv
  <2>3. \A e \in DOMAIN rule.alts : e < k
    BY <1>0, <2>1, <2>2
  <2>4. Optioned
    BY <2>2, <2>3 DEF Optioned
  <2>5. CASE rule.pipe /\ RuleHits(piped)
    <3>1. hit' = {piped} /\ task' = "done"
      BY <2>5 DEF RuleHits
    <3>2. TRUE \in hit' <=> piped = TRUE
      BY <3>1
    <3>3. piped \in BOOLEAN
      BY DEF HitInv, GivenOK
    <3>4. TRUE \in hit' <=> answer
      BY <2>2, <2>4, <2>5, <3>2, <3>3
    <3> HIDE DEF answer
    <3> QED
      BY <1>3, <3>1, <3>4
  <2>6. CASE ~rule.pipe /\ rule.targets = <<>> /\ RuleHits(TRUE)
    BY <1>4, <2>2, <2>4, <2>6
  <2>7. CASE ~rule.pipe /\ rule.targets # <<>> /\ Goto("targets")
    <3>1. task' = "targets" /\ k' = 1 /\ hit' = hit
      BY <2>7 DEF Goto
    <3>2. \A n \in DOMAIN slots : ~(n < 1)
      BY <1>0
    <3> QED
      BY <1>2, <2>2, <2>4, <2>7, <3>1, <3>2 DEF HitInv
  <2> QED
    BY <1>10, <2>5, <2>6, <2>7 DEF OptsPresent
<1>11. ASSUME task = "targets"
       PROVE  /\ hit = {} /\ k \in Nat \ {0} /\ key /\ Optioned /\ ~rule.pipe /\ rule.targets # <<>>
              /\ \A n \in DOMAIN slots : n < k => Hitting(n) = {}
  BY <1>11 DEF HitInv
<1>12. CASE TargetHit
  <2>1. task = "targets" /\ k <= Len(slots) /\ Hitting(k) # {} /\ RuleHits(TRUE)
    BY <1>12 DEF TargetHit
  <2>2. k \in DOMAIN slots
    BY <1>0, <1>11, <2>1
  <2>3. some
    BY <2>1, <2>2
  <2> QED
    BY <1>4, <1>11, <2>1, <2>3
<1>13. CASE TargetMiss
  <2>1. task = "targets" /\ Hitting(k) = {} /\ task' = task /\ k' = k + 1 /\ hit' = hit
    BY <1>13 DEF TargetMiss, Advance
  <2>2. k + 1 \in Nat \ {0} /\ \A n \in DOMAIN slots : n < k + 1 => n < k \/ n = k
    BY <1>0, <1>11, <2>1
  <2>3. \A n \in DOMAIN slots : n < k' => Hitting(n) = {}
    BY <1>11, <2>1, <2>2
  <2> QED
    BY <1>2, <1>11, <2>1, <2>2, <2>3 DEF HitInv
<1>14. CASE NoTargetHit
  <2>1. task = "targets" /\ k > Len(slots) /\ RuleHits(FALSE)
    BY <1>14 DEF NoTargetHit
  <2>2. \A n \in DOMAIN slots : n < k
    BY <1>0, <1>11, <2>1
  <2>3. ~some
    BY <1>11, <2>1, <2>2
  <2> QED
    BY <1>4, <1>11, <2>1, <2>3
<1>15. CASE UNCHANGED vars
  <2>1. task' = task /\ hit' = hit /\ k' = k
    BY <1>15 DEF vars
  <2> QED
    BY <1>2, <2>1 DEF HitInv
<1> QED
  BY <1>5, <1>6, <1>7, <1>8, <1>9, <1>10, <1>12, <1>13, <1>14, <1>15 DEF Next

(* What the rule makes of the command so far is what its key, its options  *)
(* and its targets make of the words it has looked at.                     *)
THEOREM HitInvAlways == Spec => []HitInv
<1>1. Init => HitInv
  BY HitInvFirst
<1>2. HitInv /\ [Next]_vars => HitInv'
  BY HitInvSteps
<1> QED
  BY <1>1, <1>2, PTL DEF Spec

(* A rule with targets hits a command that passed its checks exactly when  *)
(* it has the rule's options and gives a path that a target covers: a path *)
(* is covered however it is spelled, and no target covers one next to its  *)
(* own.                                                                    *)
THEOREM HitsWhatTargetsCoverAlways == Spec => []HitsWhatTargetsCover
<1>1. HitInv /\ ChecksEveryPath => HitsWhatTargetsCover
  <2> SUFFICES ASSUME HitInv, ChecksEveryPath, task = "done", failed = {}
               PROVE  TRUE \in hit <=>
                        /\ KeyMatches(rule.key, cmd.ws)
                        /\ Optioned
                        /\ rule.pipe => piped
                        /\ ~rule.pipe /\ rule.targets # <<>> =>
                             \E t \in DOMAIN rule.targets, path \in PathsGiven : Covers(t, path)
    BY Zenon DEF HitsWhatTargetsCover, Optioned, Covers
  <2>1. \A path \in PathsGiven : LeadsWhereItSays(path)
    BY DEF ChecksEveryPath
  <2>2. GivenOK
    BY DEF HitInv
  <2>3. (\E n \in DOMAIN slots : Hitting(n) # {}) <=>
          \E t \in DOMAIN rule.targets, path \in PathsGiven : Covers(t, path)
    BY <2>1, <2>2, HittingSays, Zenon
  <2> QED
    BY <2>3, Zenon DEF HitInv
<1> QED
  BY <1>1, HitInvAlways, ChecksEveryPathAlways, PTL

-----------------------------------------------------------------------------
(* Bytes that are not ASCII.                                               *)

(* Such a byte is in a path put together when it is in one of its sides.   *)
LEMMA OddCat ==
  ASSUME NEW x \in Seq(PathByte), NEW y \in Seq(PathByte)
  PROVE  HasNonAscii(x \o y) <=> HasNonAscii(x) \/ HasNonAscii(y)
<1> DEFINE z == x \o y
<1>1. Len(x) \in Nat /\ Len(y) \in Nat /\ DOMAIN x = 1 .. Len(x) /\ DOMAIN y = 1 .. Len(y)
  OBVIOUS
<1>2. /\ DOMAIN z = 1 .. Len(x) + Len(y)
      /\ \A n \in 1 .. Len(x) + Len(y) : z[n] = IF n <= Len(x) THEN x[n] ELSE y[n - Len(x)]
  BY <1>1
<1> HIDE DEF z
<1>3. ASSUME NEW n \in DOMAIN z, z[n] \in NonAscii PROVE HasNonAscii(x) \/ HasNonAscii(y)
  <2>1. CASE n <= Len(x)
    <3>1. n \in DOMAIN x /\ z[n] = x[n]
      BY <1>1, <1>2, <2>1
    <3> QED
      BY <1>3, <3>1 DEF HasNonAscii
  <2>2. CASE ~(n <= Len(x))
    <3>1. n - Len(x) \in DOMAIN y /\ z[n] = y[n - Len(x)]
      BY <1>1, <1>2, <2>2
    <3> QED
      BY <1>3, <3>1 DEF HasNonAscii
  <2> QED
    BY <2>1, <2>2
<1>4. ASSUME NEW n \in DOMAIN x, x[n] \in NonAscii PROVE HasNonAscii(z)
  <2>1. n \in DOMAIN z /\ z[n] = x[n]
    BY <1>1, <1>2
  <2> QED
    BY <1>4, <2>1 DEF HasNonAscii
<1>5. ASSUME NEW n \in DOMAIN y, y[n] \in NonAscii PROVE HasNonAscii(z)
  <2> DEFINE m == Len(x) + n
  <2>1. m \in 1 .. Len(x) + Len(y) /\ ~(m <= Len(x)) /\ m - Len(x) = n
    BY <1>1
  <2> HIDE DEF m
  <2>2. m \in DOMAIN z /\ z[m] = y[n]
    BY <1>2, <2>1
  <2> QED
    BY <1>5, <2>2 DEF HasNonAscii
<1>6. HasNonAscii(z) <=> HasNonAscii(x) \/ HasNonAscii(y)
  BY <1>3, <1>4, <1>5 DEF HasNonAscii
<1> QED
  BY <1>6 DEF z

(* A slash between them is ASCII.                                          *)
LEMMA OddOver ==
  ASSUME NEW x \in Seq(PathByte), NEW y \in Seq(PathByte)
  PROVE  HasNonAscii(Over(x, y)) <=> HasNonAscii(x) \/ HasNonAscii(y)
<1>1. Slash \in Seq(PathByte) /\ x \o Slash \in Seq(PathByte)
  BY OverTypes
<1>2. ~HasNonAscii(Slash)
  BY AsciiAssumption DEF HasNonAscii, Slash
<1>3. HasNonAscii(x \o Slash) <=> HasNonAscii(x) \/ HasNonAscii(Slash)
  BY <1>1, OddCat, Zenon
<1>4. HasNonAscii((x \o Slash) \o y) <=> HasNonAscii(x \o Slash) \/ HasNonAscii(y)
  BY <1>1, OddCat, Zenon
<1>5. Over(x, y) = (x \o Slash) \o y
  BY DEF Over, Slash
<1> QED
  BY <1>2, <1>3, <1>4, <1>5, Zenon

(* Folding neither makes nor hides one.                                    *)
LEMMA OddFolds == \A y \in Seq(PathByte) : HasNonAscii(FoldAscii(y)) <=> HasNonAscii(y)
<1>1. \A y : DOMAIN FoldAscii(y) = DOMAIN y /\ \A n \in DOMAIN y : FoldAscii(y)[n] = FoldByte(y[n])
  BY DEF FoldAscii
<1>2. \A c : FoldByte(c) \in NonAscii <=> c \in NonAscii
  BY AsciiAssumption DEF FoldByte
<1> QED
  BY <1>1, <1>2 DEF HasNonAscii

(* A name with one.                                                        *)
OddNames(ns) == \E n \in DOMAIN ns : HasNonAscii(ns[n])

(* A path has one when one of its names does.                              *)
LEMMA OddSays == \A y \in Seq(PathByte) : HasNonAscii(y) <=> OddNames(Kept(y))
<1> DEFINE S == {y \in Seq(PathByte) : HasNonAscii(y) <=> OddNames(Kept(y))}
<1>1. \A ks \in Seq(GoodSeg), seg \in Seg : OddNames(FilterStep(ks, seg)) <=> OddNames(ks) \/ HasNonAscii(seg)
  <2> SUFFICES ASSUME NEW ks \in Seq(GoodSeg), NEW seg \in Seg
               PROVE  OddNames(FilterStep(ks, seg)) <=> OddNames(ks) \/ HasNonAscii(seg)
    OBVIOUS
  <2>1. CASE KeepSeg(seg)
    <3>1. seg \in GoodSeg
      BY <2>1 DEF GoodSeg
    <3> DEFINE t == Append(ks, seg)
    <3>2. /\ Len(ks) \in Nat /\ DOMAIN ks = 1 .. Len(ks) /\ DOMAIN t = 1 .. Len(ks) + 1
          /\ t[Len(ks) + 1] = seg /\ \A n \in 1 .. Len(ks) : t[n] = ks[n]
      BY <3>1
    <3> HIDE DEF t
    <3>3. (\A n \in DOMAIN t : n \in 1 .. Len(ks) \/ n = Len(ks) + 1) /\ Len(ks) + 1 \in DOMAIN t
          /\ \A n \in DOMAIN ks : n \in DOMAIN t
      BY <3>2
    <3>4. OddNames(t) <=> OddNames(ks) \/ HasNonAscii(seg)
      BY <3>2, <3>3 DEF OddNames
    <3> QED
      BY <2>1, <3>4 DEF FilterStep, t
  <2>2. CASE ~KeepSeg(seg)
    <3>1. seg = <<>> \/ seg = <<".">>
      BY <2>2 DEF KeepSeg
    <3>2. ~HasNonAscii(<<>>) /\ ~HasNonAscii(<<".">>)
      BY AsciiAssumption DEF HasNonAscii
    <3> QED
      BY <2>2, <3>1, <3>2 DEF FilterStep
  <2> QED
    BY <2>1, <2>2
<1>2. ~OddNames(<<>>)
  BY DEF OddNames
<1>3. ASSUME NEW seg \in Seg PROVE seg \in S
  <2>1. seg \in Seq(PathByte) /\ <<>> \in Seq(PathByte) /\ <<>> \in Seq(GoodSeg)
    BY SegSteps
  <2>2. Kept(seg) = FilterStep(<<>>, seg)
    BY <2>1, KeptSteps, Zenon
  <2>3. HasNonAscii(seg) <=> OddNames(Kept(seg))
    BY <1>1, <1>2, <2>1, <2>2, Zenon
  <2> QED
    BY <2>1, <2>3
<1>4. ASSUME NEW x \in Seq(PathByte), NEW seg \in Seg, x \in S PROVE x \o <<"/">> \o seg \in S
  <2>1. seg \in Seq(PathByte) /\ Kept(x) \in Seq(GoodSeg)
    BY SegSteps, KeptSteps
  <2>2. Kept(Over(x, seg)) = FilterStep(Kept(x), seg)
    BY KeptOver, Zenon
  <2>3. Over(x, seg) \in Seq(PathByte)
    BY <2>1, OverTypes, Zenon
  <2>4. HasNonAscii(x) <=> OddNames(Kept(x))
    BY <1>4
  <2>5. HasNonAscii(Over(x, seg)) <=> OddNames(Kept(Over(x, seg)))
    BY <1>1, <2>1, <2>2, <2>4, OddOver, ZenonT(60)
  <2>6. Over(x, seg) \in S
    BY <2>3, <2>5
  <2> HIDE DEF S
  <2> QED
    BY <2>6, Zenon DEF Over
<1> HIDE DEF S
<1>5. \A y \in Seq(PathByte) : y \in S
  BY <1>3, <1>4, BySegments, Zenon
<1> QED
  BY <1>5 DEF S

(* A sequence has the elements of one that begins it.                      *)
LEMMA PrefixNames ==
  ASSUME NEW A, NEW q \in Seq(A), NEW y \in Seq(A), IsPrefix(q, y)
  PROVE  \A n \in DOMAIN q : n \in DOMAIN y /\ y[n] = q[n]
<1>1. Len(q) \in Nat /\ Len(q) <= Len(y) /\ Len(y) \in Nat /\ SubSeq(q, 1, Len(q)) = SubSeq(y, 1, Len(q))
  BY DEF IsPrefix
<1>2. Len(q) \in 0 .. Len(y) /\ Len(q) \in 0 .. Len(q) /\ DOMAIN q = 1 .. Len(q) /\ DOMAIN y = 1 .. Len(y)
  BY <1>1
<1>3. \A n \in 1 .. Len(q) : SubSeq(q, 1, Len(q))[n] = q[n]
  BY <1>2, Beginning
<1>4. \A n \in 1 .. Len(q) : SubSeq(y, 1, Len(q))[n] = y[n]
  BY <1>2, Beginning
<1>5. \A n \in 1 .. Len(q) : n \in 1 .. Len(y)
  BY <1>1
<1> QED
  BY <1>1, <1>2, <1>3, <1>4, <1>5

(* What begins with a byte string, or a list of names, that has one has    *)
(* one; so does a list whose end has one.                                  *)
LEMMA OddStays ==
  /\ \A q, y \in Seq(PathByte) : IsPrefix(q, y) /\ HasNonAscii(q) => HasNonAscii(y)
  /\ \A qs, ns \in Seq(GoodSeg) : IsPrefix(qs, ns) /\ OddNames(qs) => OddNames(ns)
  /\ \A ns \in Seq(GoodSeg) : \A n \in 0 .. Len(ns) : OddNames(SubSeq(ns, n + 1, Len(ns))) => OddNames(ns)
<1>2. \A q, y \in Seq(PathByte) : IsPrefix(q, y) /\ HasNonAscii(q) => HasNonAscii(y)
  BY PrefixNames DEF HasNonAscii
<1>3. \A qs, ns \in Seq(GoodSeg) : IsPrefix(qs, ns) /\ OddNames(qs) => OddNames(ns)
  BY PrefixNames DEF OddNames
<1>4. ASSUME NEW ns \in Seq(GoodSeg), NEW n \in 0 .. Len(ns), OddNames(SubSeq(ns, n + 1, Len(ns)))
      PROVE  OddNames(ns)
  <2> DEFINE ls == SubSeq(ns, n + 1, Len(ns))
  <2>1. Len(ns) \in Nat /\ DOMAIN ls = 1 .. Len(ns) - n /\ \A m \in 1 .. Len(ns) - n : ls[m] = ns[n + m]
    OBVIOUS
  <2> HIDE DEF ls
  <2>2. PICK m \in DOMAIN ls : HasNonAscii(ls[m])
    BY <1>4 DEF OddNames, ls
  <2>3. n + m \in DOMAIN ns /\ ls[m] = ns[n + m]
    BY <2>1
  <2> QED
    BY <2>2, <2>3 DEF OddNames
<1> QED
  BY <1>2, <1>3, <1>4

(* What a list of names with one starts has one.                           *)
LEMMA OddStart ==
  ASSUME NEW qs \in Seq(GoodSeg), NEW ns \in Seq(GoodSeg), StartOf(qs, ns), OddNames(qs)
  PROVE  OddNames(ns)
<1>1. PICK n \in DOMAIN qs : HasNonAscii(qs[n])
  BY DEF OddNames
<1>2. qs # <<>> /\ Len(qs) \in Nat \ {0} /\ DOMAIN qs = 1 .. Len(qs) /\ Len(ns) \in Nat /\ DOMAIN ns = 1 .. Len(ns)
  OBVIOUS
<1>3. Len(qs) <= Len(ns) /\ IsPrefix(Front(qs), ns) /\ IsPrefix(Last(qs), ns[Len(qs)])
  BY <1>2 DEF StartOf
<1>4. \A seg \in GoodSeg : seg \in Seq(PathByte)
  BY SegSteps DEF GoodSeg
<1>5. CASE n = Len(qs)
  <2>1. Last(qs) = qs[n] /\ qs[n] \in Seq(PathByte) /\ ns[n] \in Seq(PathByte) /\ n \in DOMAIN ns
    BY <1>2, <1>3, <1>4, <1>5 DEF Last
  <2>2. IsPrefix(qs[n], ns[n])
    BY <1>3, <1>5, <2>1
  <2>3. HasNonAscii(ns[n])
    BY <1>1, <2>1, <2>2, OddStays, Zenon
  <2> QED
    BY <2>1, <2>3 DEF OddNames
<1>6. CASE n # Len(qs)
  <2>1. Len(qs) - 1 \in 0 .. Len(qs) /\ n \in 1 .. Len(qs) - 1
    BY <1>2, <1>6
  <2>2. Front(qs) \in Seq(GoodSeg) /\ Len(Front(qs)) = Len(qs) - 1 /\ Front(qs)[n] = qs[n]
    BY <2>1, Beginning DEF Front
  <2>3. n \in DOMAIN Front(qs)
    BY <2>1, <2>2
  <2>4. OddNames(Front(qs))
    BY <1>1, <2>2, <2>3 DEF OddNames
  <2> QED
    BY <1>3, <2>2, <2>4, OddStays, Zenon
<1> QED
  BY <1>5, <1>6

(* A target with one covers only paths with one; an Exact or Under target  *)
(* with a ".." covers only paths with a "..".                              *)
LEMMA OddCovers ==
  ASSUME NEW kind, NEW pt, NEW pb \in Seq(PathByte), NEW wt, NEW wb \in Seq(PathByte),
         CoversPath(kind, pt, pb, wt, wb)
  PROVE  /\ HasNonAscii(pb) => HasNonAscii(wb)
         /\ kind \in {"Exact", "Under"} /\ HasDotDot(pb) => HasDotDot(wb)
<1> DEFINE qs == Names(pb)
           ns == Names(wb)
<1>1. \A y \in Seq(PathByte) : /\ Names(y) \in Seq(GoodSeg) /\ (HasNonAscii(y) <=> OddNames(Names(y)))
                               /\ HasDotDot(y) <=> \E n \in DOMAIN Names(y) : Names(y)[n] = DotDot
  <2> SUFFICES ASSUME NEW y \in Seq(PathByte)
               PROVE  /\ Names(y) \in Seq(GoodSeg) /\ (HasNonAscii(y) <=> OddNames(Names(y)))
                      /\ HasDotDot(y) <=> \E n \in DOMAIN Names(y) : Names(y)[n] = DotDot
    OBVIOUS
  <2>1. FoldAscii(y) \in Seq(PathByte) /\ (HasDotDot(FoldAscii(y)) <=> HasDotDot(y))
    BY FoldKeeps
  <2>2. Names(y) \in Seq(GoodSeg)
    BY <2>1, KeptSteps, SegSteps, Zenon DEF Names
  <2>3. HasNonAscii(y) <=> OddNames(Names(y))
    BY <2>1, OddFolds, OddSays, Zenon DEF Names
  <2>4. HasDotDot(y) <=> \E n \in DOMAIN Names(y) : Names(y)[n] = DotDot
    BY <2>1, DotDotIsASegment, Zenon DEF Names
  <2> QED
    BY <2>2, <2>3, <2>4
<1>2. qs \in Seq(GoodSeg) /\ ns \in Seq(GoodSeg)
  BY <1>1
<1>3. \/ kind = "Exact" /\ ns = qs
      \/ kind = "Under" /\ IsPrefix(qs, ns)
      \/ kind = "Prefix" /\ StartOf(qs, ns)
      \/ kind = "Component" /\ \E n \in 0 .. Len(ns) : IsPrefix(qs, SubSeq(ns, n + 1, Len(ns)))
      \/ kind = "ComponentPrefix" /\ \E n \in 0 .. Len(ns) : StartOf(qs, SubSeq(ns, n + 1, Len(ns)))
  BY Zenon DEF CoversPath
<1>4. ASSUME HasNonAscii(pb) PROVE HasNonAscii(wb)
  <2> SUFFICES OddNames(ns)
    BY <1>1
  <2> HIDE DEF qs, ns
  <2>1. OddNames(qs)
    BY <1>1, <1>4 DEF qs
  <2>2. \A n \in 0 .. Len(ns) : SubSeq(ns, n + 1, Len(ns)) \in Seq(GoodSeg)
    BY <1>2
  <2>3. CASE ns = qs
    BY <2>1, <2>3
  <2>4. CASE IsPrefix(qs, ns)
    BY <1>2, <2>1, <2>4, OddStays, Zenon
  <2>5. CASE StartOf(qs, ns)
    BY <1>2, <2>1, <2>5, OddStart
  <2>6. ASSUME NEW n \in 0 .. Len(ns), IsPrefix(qs, SubSeq(ns, n + 1, Len(ns))) \/ StartOf(qs, SubSeq(ns, n + 1, Len(ns)))
        PROVE  OddNames(ns)
    <3> DEFINE ls == SubSeq(ns, n + 1, Len(ns))
    <3>1. ls \in Seq(GoodSeg) /\ (IsPrefix(qs, ls) \/ StartOf(qs, ls))
      BY <2>2, <2>6
    <3>2. OddNames(ls) => OddNames(ns)
      BY <1>2, OddStays, Zenon
    <3> HIDE DEF ls
    <3>3. IsPrefix(qs, ls) => OddNames(ls)
      BY <1>2, <2>1, <3>1, OddStays, Zenon
    <3>4. StartOf(qs, ls) => OddNames(ls)
      BY <1>2, <2>1, <3>1, OddStart
    <3> QED
      BY <3>1, <3>2, <3>3, <3>4
  <2> QED
    BY <1>3, <2>3, <2>4, <2>5, <2>6, Zenon
<1>5. ASSUME kind \in {"Exact", "Under"}, HasDotDot(pb) PROVE HasDotDot(wb)
  <2>1. PICK n \in DOMAIN qs : qs[n] = DotDot
    BY <1>1, <1>5, Zenon
  <2>2. ns = qs \/ IsPrefix(qs, ns)
    BY <1>3, <1>5
  <2> HIDE DEF qs, ns
  <2>3. n \in DOMAIN ns /\ ns[n] = qs[n]
    BY <1>2, <2>2, PrefixNames
  <2> QED
    BY <1>1, <2>1, <2>3 DEF ns
<1> QED
  BY <1>4, <1>5

(* The bytes of the paths given are bytes.                                 *)
LEMMA GivenBytes == CmdOK => \A path \in PathsGiven : path.bytes \in Seq(PathByte)
<1> SUFFICES ASSUME CmdOK, NEW path \in PathsGiven PROVE path.bytes \in Seq(PathByte)
  OBVIOUS
<1>1. PICK n \in DOMAIN slots :
        \/ slots[n].role = "Path" /\ path = WordPath(n)
        \/ \E v \in InlinePaths(n) : path = InlinePath(n, v)
  BY PathsOfSlots, Zenon
<1>2. /\ parts(n) \in Seq(Part) /\ \A v \in InlinePaths(n) : v.off \in Nat
  BY SlotsOfWords
<1>3. CASE path = WordPath(n)
  <2>1. path.bytes = PathLead(parts(n))
    BY <1>3 DEF WordPath
  <2> QED
    BY <1>2, <2>1, PartBytes
<1>4. ASSUME NEW v \in InlinePaths(n), path = InlinePath(n, v) PROVE path.bytes \in Seq(PathByte)
  <2> DEFINE lit == LitPrefix(parts(n))
  <2>1. path.bytes = SubSeq(lit, v.off + 1, Len(lit))
    BY <1>4 DEF InlinePath, InlineValueOf
  <2>2. lit \in Seq(PathByte) /\ v.off \in Nat
    BY <1>2, PartBytes
  <2> HIDE DEF lit
  <2>3. SubSeq(lit, v.off + 1, Len(lit)) \in Seq(PathByte)
    BY <2>2
  <2> QED
    BY <2>1, <2>3
<1> QED
  BY <1>1, <1>3, <1>4

(* A rule with targets hits a command whose paths lead where they say only *)
(* by a target without a non-ASCII byte and, when it is an Exact or Under  *)
(* one, without a "..": the others hit only what fails a check anyway.     *)
THEOREM OddTargetsHitFailuresAlways == Spec => []OddTargetsHitFailures
<1>1. HitInv /\ ChecksEveryPath /\ HitsWhatTargetsCover => OddTargetsHitFailures
  <2> SUFFICES ASSUME HitInv, ChecksEveryPath, HitsWhatTargetsCover,
                      TRUE \in hit, ~rule.pipe, rule.targets # <<>>, failed = {}
               PROVE  \E t \in DOMAIN rule.targets :
                        LET lead == PathLead(rule.targets[t].parts) IN
                          /\ ~HasNonAscii(lead)
                          /\ rule.targets[t].kind \in {"Exact", "Under"} =>
                               \A n \in DOMAIN Kept(lead) : Kept(lead)[n] # <<".", ".">>
    BY Zenon DEF OddTargetsHitFailures
  <2>1. task = "done"
    <3>1. task \in {"check", "key", "opts", "targets", "done"} /\ (task # "done" => hit = {})
      BY DEF HitInv
    <3> QED
      BY <3>1
  <2>2. PICK t \in DOMAIN rule.targets, path \in PathsGiven : Covers(t, path)
    BY <2>1, Zenon DEF HitsWhatTargetsCover, Covers
  <2>3. LeadsWhereItSays(path)
    BY <2>1 DEF ChecksEveryPath
  <2> DEFINE pat == rule.targets[t]
             lead == PathLead(pat.parts)
  <2>4. lead \in Seq(PathByte)
    <3>1. rule \in Rule
      BY RulesAssumption DEF HitInv, GivenOK
    <3>2. pat.parts \in Seq(Part)
      <4>1. pat \in Pat
        BY <3>1 DEF Rule
      <4> QED
        BY <4>1 DEF Pat
    <3> QED
      BY <3>2, PartBytes
  <2>5. path.bytes \in Seq(PathByte)
    BY GivenBytes DEF HitInv, GivenOK
  <2>6. CoversPath(pat.kind, HasTilde(pat.parts), lead, path.tilde, path.bytes)
    BY <2>2, Zenon DEF Covers
  <2>7. ~HasNonAscii(path.bytes) /\ ~HasDotDot(path.bytes)
    BY <2>3, <2>5, NamesHaveDotDot, Zenon DEF LeadsWhereItSays
  <2> HIDE DEF lead
  <2>8. ~HasNonAscii(lead) /\ (pat.kind \in {"Exact", "Under"} => ~HasDotDot(lead))
    BY <2>4, <2>5, <2>6, <2>7, OddCovers
  <2>9. ~HasDotDot(lead) => \A n \in DOMAIN Kept(lead) : Kept(lead)[n] # <<".", ".">>
    BY <2>4, DotDotIsASegment, Zenon DEF DotDot
  <2>10. ~HasNonAscii(lead) /\ (pat.kind \in {"Exact", "Under"} => \A n \in DOMAIN Kept(lead) : Kept(lead)[n] # <<".", ".">>)
    BY <2>8, <2>9
  <2> QED
    BY <2>10, Zenon DEF lead
<1> QED
  BY <1>1, HitInvAlways, ChecksEveryPathAlways, HitsWhatTargetsCoverAlways, PTL
=============================================================================

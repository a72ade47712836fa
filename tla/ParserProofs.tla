---------------------------- MODULE ParserProofs ----------------------------
(***************************************************************************)
(* Proofs about lexing and parsing, for every input.                       *)
(***************************************************************************)
EXTENDS Parser, FoldProofs, FiniteSetTheorems, SequenceTheorems

Byte == STRING \ {None}

Part == [kind: {"Lit", "Var", "Tilde"}, bytes: Seq(Byte), quoted: BOOLEAN]

Parts == Seq(Part)

Token ==
  {WordToken(ps) : ps \in Parts \ {<<>>}}
    \cup {OpToken(op) : op \in {"Semi", "Newline", "AndIf", "OrIf", "Pipe"}}
    \cup {RedirToken(r) : r \in {"ErrToOut", "OutToErr", "OutDevNull", "ErrDevNull"}}

-----------------------------------------------------------------------------
(* Runs of bytes.                                                          *)

(* What is past a string is no byte.                                       *)
LEMMA Bytes ==
  ASSUME NEW s \in Seq(Byte), NEW k \in Int
  PROVE  /\ k \in 1 .. Len(s) => ByteAt(s, k) = s[k] /\ s[k] \in Byte /\ s[k] # None
         /\ k \notin 1 .. Len(s) => ByteAt(s, k) = None
         /\ ByteAt(s, k) # None => k \in 1 .. Len(s)
<1>1. DOMAIN s = 1 .. Len(s)
  OBVIOUS
<1>2. k \in 1 .. Len(s) => s[k] \in Byte
  OBVIOUS
<1> QED
  BY <1>1, <1>2 DEF ByteAt, Byte

(* A run ends at the first byte that is not of its set.                    *)
LEMMA RunEnds ==
  ASSUME NEW s \in Seq(Byte), NEW k \in 1 .. Len(s) + 1, NEW set, None \notin set
  PROVE  /\ RunEnd(s, k, set) \in k .. Len(s) + 1
         /\ \A m \in k .. RunEnd(s, k, set) - 1 : s[m] \in set
         /\ ByteAt(s, RunEnd(s, k, set)) \notin set
<1> DEFINE Ends == {e \in k .. Len(s) + 1 : ByteAt(s, e) \notin set}
<1>1. Len(s) + 1 \in Ends
  BY Bytes
<1>2. Ends \in SUBSET Nat
  OBVIOUS
<1>3. PICK e \in Ends : \A m \in Ends : e <= m
  BY <1>1, <1>2, Least
<1>4. \A m \in k .. e - 1 : s[m] \in set
  <2>1. SUFFICES ASSUME NEW m \in k .. e - 1 PROVE s[m] \in set
    OBVIOUS
  <2>2. m \notin Ends /\ m \in k .. Len(s) + 1 /\ m \in 1 .. Len(s)
    BY <1>3
  <2> QED
    BY <2>2, Bytes
<1>5. e \in k .. Len(s) + 1 /\ (\A m \in k .. e - 1 : s[m] \in set) /\ ByteAt(s, e) \notin set
  BY <1>3, <1>4
<1> DEFINE P(d) == (\A m \in k .. d - 1 : s[m] \in set) /\ ByteAt(s, d) \notin set
<1>6. \E d \in k .. Len(s) + 1 : P(d)
  BY <1>5
<1>7. RunEnd(s, k, set) = CHOOSE d \in k .. Len(s) + 1 : P(d)
  BY DEF RunEnd
<1> HIDE DEF P
<1>8. RunEnd(s, k, set) \in k .. Len(s) + 1 /\ P(RunEnd(s, k, set))
  BY <1>6, <1>7
<1> QED
  BY <1>8 DEF P

(* The bytes of names are bytes.                                           *)
LEMMA NoneIsNoByte ==
  /\ None \notin Letter /\ None \notin Control /\ None \notin NonAscii /\ None \notin Digit
  /\ None \notin NameByte /\ None \notin Blank
BY BytesAssumption DEF None, NameByte, Digit, Blank

(* A name lies within the string.                                          *)
LEMMA NameEnds ==
  ASSUME NEW s \in Seq(Byte), NEW k \in 1 .. Len(s) + 1
  PROVE  NameEnd(s, k) \in k .. Len(s) + 1
<1>1. CASE ByteAt(s, k) \in Letter
  <2>1. RunEnd(s, k, NameByte) \in k .. Len(s) + 1
    BY RunEnds, NoneIsNoByte
  <2> QED
    BY <1>1, <2>1 DEF NameEnd
<1>2. CASE ByteAt(s, k) \notin Letter
  BY <1>2 DEF NameEnd
<1> QED
  BY <1>1, <1>2

(* A piece of a string is a string.                                        *)
LEMMA Pieces ==
  ASSUME NEW s \in Seq(Byte), NEW m \in 1 .. Len(s) + 1, NEW k \in 0 .. Len(s)
  PROVE  SubSeq(s, m, k) \in Seq(Byte)
OBVIOUS

-----------------------------------------------------------------------------
(* Parts.                                                                  *)

(* Pushing keeps the type and leaves nothing empty.                        *)
LEMMA Pushed ==
  ASSUME NEW ps \in Parts, NEW part \in Part
  PROVE  Push(ps, part) \in Parts \ {<<>>}
<1>1. CASE ps # <<>> /\ part.kind = "Lit" /\ Last(ps).kind = "Lit" /\ Last(ps).quoted = part.quoted
  <2>1. Last(ps) \in Part /\ Front(ps) \in Parts
    BY <1>1 DEF Last, Front, Parts
  <2>2. Last(ps).bytes \o part.bytes \in Seq(Byte)
    BY <2>1 DEF Part
  <2>3. [Last(ps) EXCEPT !.bytes = @ \o part.bytes] \in Part
    BY <2>1, <2>2 DEF Part
  <2> QED
    BY <1>1, <2>1, <2>3 DEF Push, Parts
<1>2. CASE ~(ps # <<>> /\ part.kind = "Lit" /\ Last(ps).kind = "Lit" /\ Last(ps).quoted = part.quoted)
  BY <1>2 DEF Push, Parts
<1> QED
  BY <1>1, <1>2

(* Literals, variables and tildes are parts.                               *)
LEMMA PartsAre ==
  /\ \A bytes \in Seq(Byte), quoted \in BOOLEAN : Lit(bytes, quoted) \in Part
  /\ \A name \in Seq(Byte) : Var(name) \in Part
  /\ Tilde \in Part
BY DEF Lit, Var, Tilde, Part

(* Pushing a variable keeps the type and leaves nothing empty.             *)
LEMMA VarPushed ==
  ASSUME NEW ps \in Parts \ {<<>>}, NEW name \in Seq(Byte)
  PROVE  PushVar(ps, name) \in Parts \ {<<>>}
<1>1. Front(ps) \in Parts
  BY DEF Front, Parts
<1> QED
  BY <1>1, PartsAre, SMTT(20) DEF PushVar, Parts

(* Appending parts is pushing them one after the other.                    *)
LEMMA AppendedByPushes ==
  ASSUME NEW ps \in Parts, NEW others \in Parts
  PROVE  \E h \in [0 .. Len(others) -> Parts] :
           /\ h[0] = ps
           /\ \A k \in 1 .. Len(others) : h[k] = Push(h[k - 1], others[k])
           /\ AppendParts(ps, others) = h[Len(others)]
<1> DEFINE G == [qs \in Parts |-> [part \in Part |-> Push(qs, part)]]
           IsIter(iter) ==
             iter = [s \in SUBSET DOMAIN others |->
                       IF s = {} THEN ps ELSE Push(iter[s \ {Max(s)}], others[Max(s)])]
<1>1. G \in [Parts -> [Part -> Parts]]
  BY Pushed
<1>2. others \in Seq(Part) /\ DOMAIN others = 1 .. Len(others) /\ ps \in Parts
      /\ Len(others) \in Nat
  BY DEF Parts
<1>3. HasFold(Parts, G, ps, others)
  <2> HIDE DEF G
  <2> QED
    BY <1>1, <1>2, FoldExists, Zenon
<1>4. PICK f \in [SUBSET (1 .. Len(others)) -> Parts] :
             \A s \in SUBSET (1 .. Len(others)) : f[s] = FoldStep(G, ps, others, f, s)
  <2> HIDE DEF G
  <2> QED
    BY <1>3 DEF HasFold
<1>5. ASSUME NEW s \in SUBSET (1 .. Len(others))
      PROVE  f[s] = IF s = {} THEN ps ELSE Push(f[s \ {Max(s)}], others[Max(s)])
  <2>1. CASE s = {}
    BY <1>4, <2>1 DEF FoldStep
  <2>2. CASE s # {}
    <3>1. Max(s) \in s
      BY <1>2, <2>2, GreatestOfIndices
    <3>2. others[Max(s)] \in Part /\ f[s \ {Max(s)}] \in Parts
      <4>1. Max(s) \in 1 .. Len(others) /\ s \ {Max(s)} \in SUBSET (1 .. Len(others))
        BY <3>1
      <4> QED
        BY <1>2, <1>4, <4>1
    <3> QED
      BY <1>4, <2>2, <3>2 DEF FoldStep
  <2> QED
    BY <2>1, <2>2
<1>6. IsIter(f)
  BY <1>2, <1>4, <1>5
<1>7. AppendParts(ps, others) = (CHOOSE iter : IsIter(iter))[DOMAIN others]
  BY Zenon DEF AppendParts, FoldLeft, MapThenFoldSet
<1> HIDE DEF IsIter
<1>8. PICK g : IsIter(g) /\ AppendParts(ps, others) = g[1 .. Len(others)]
  BY <1>2, <1>6, <1>7
<1> DEFINE h == [k \in 0 .. Len(others) |-> g[1 .. k]]
<1>9. h[0] = ps
  BY <1>2, <1>8 DEF IsIter
<1>10. ASSUME NEW k \in 1 .. Len(others) PROVE h[k] = Push(h[k - 1], others[k])
  <2>1. k \in Nat \ {0} /\ 1 .. k \in SUBSET DOMAIN others
    BY <1>2
  <2>2. g[1 .. k] = Push(g[1 .. k - 1], others[k])
    BY <1>8, <2>1, IndexSets DEF IsIter
  <2> QED
    BY <1>2, <2>1, <2>2
<1> HIDE DEF h
<1> DEFINE P == {k \in 0 .. Len(others) : h[k] \in Parts}
<1>11. 0 \in P /\ \A k \in 1 .. Len(others) : k - 1 \in P => k \in P
  <2>1. 0 \in P
    BY <1>2, <1>9
  <2>2. ASSUME NEW k \in 1 .. Len(others), h[k - 1] \in Parts PROVE h[k] \in Parts
    BY <1>2, <1>10, <2>2, Pushed
  <2> QED
    BY <2>1, <2>2
<1>12. \A k \in 0 .. Len(others) : k \in P
  <2> HIDE DEF P
  <2> QED
    BY <1>2, <1>11, Along
<1>13. h = [k \in 0 .. Len(others) |-> h[k]] /\ AppendParts(ps, others) = h[Len(others)]
  BY <1>2, <1>8 DEF h
<1>14. h \in [0 .. Len(others) -> Parts]
  BY <1>12, <1>13
<1> QED
  BY <1>9, <1>10, <1>13, <1>14

(* Appending parts keeps the type and leaves nothing empty.                *)
LEMMA PartsAppended ==
  ASSUME NEW ps \in Parts, NEW others \in Parts \ {<<>>}
  PROVE  AppendParts(ps, others) \in Parts \ {<<>>}
<1>1. PICK h \in [0 .. Len(others) -> Parts] :
             /\ \A k \in 1 .. Len(others) : h[k] = Push(h[k - 1], others[k])
             /\ AppendParts(ps, others) = h[Len(others)]
  BY AppendedByPushes
<1>2. Len(others) \in 1 .. Len(others) /\ others[Len(others)] \in Part
      /\ Len(others) - 1 \in 0 .. Len(others)
  BY DEF Parts
<1>3. h[Len(others) - 1] \in Parts /\ h[Len(others)] = Push(h[Len(others) - 1], others[Len(others)])
  BY <1>1, <1>2
<1> QED
  BY <1>1, <1>2, <1>3, Pushed

-----------------------------------------------------------------------------
(* Lexing: types, and lexemes in order and apart.                          *)

Lexeme == [offset: Nat, end: Nat, token: Token]

(* What has become lexemes ends here.                                      *)
Lexed == IF mode = "Between" THEN pos ELSE start

LexOrdered ==
  /\ mode # "Between" => start <= pos
  /\ mode = "Quotes" \/ (mode = "Word" /\ parts # <<>>) => start < pos
  /\ \A k \in DOMAIN lexemes :
       1 <= lexemes[k].offset /\ lexemes[k].offset < lexemes[k].end /\ lexemes[k].end <= Lexed
  /\ \A k, m \in DOMAIN lexemes : k < m => lexemes[k].end <= lexemes[m].offset

LexInv ==
  /\ input \in Seq(Byte) /\ parts \in Parts /\ inner \in Parts /\ lexemes \in Seq(Lexeme)
  /\ LexTypeOK /\ LexOrdered

(* What is seen ahead is there.                                            *)
LEMMA Seen ==
  ASSUME LexInv, NEW k \in Nat
  PROVE  /\ pos + k \in 1 .. Len(input) => Peek(k) = input[pos + k] /\ Peek(k) \in Byte
         /\ pos + k > Len(input) => Peek(k) = None
         /\ Peek(k) # None => pos + k \in 1 .. Len(input)
<1>1. input \in Seq(Byte) /\ pos \in 1 .. Len(input) + 1 /\ Len(input) \in Nat
  BY DEF LexInv, LexTypeOK
<1> QED
  BY <1>1, Bytes DEF Peek

(* A finding changes nothing else.                                         *)
LEMMA FailKeeps ==
  ASSUME LexInv, NEW kind, NEW offset \in 1 .. Len(input) + 1, Fail(kind, offset)
  PROVE  LexInv'
BY DEF LexInv, LexTypeOK, LexOrdered, Lexed, Fail, token, Peek

(* A lexeme found is behind the others.                                    *)
LEMMA EmitKeeps ==
  ASSUME LexInv, NEW what \in Token, NEW first, NEW end \in 1 .. Len(input) + 1,
         first = Lexed, first < end, Emit(what, first, end), mode' = "Between", UNCHANGED token
  PROVE  LexInv'
<1>1. first \in Nat /\ first >= 1
  BY DEF Lexed, LexInv, LexTypeOK
<1> DEFINE l == [offset |-> first, end |-> end, token |-> what]
<1>2. l \in Lexeme /\ lexemes' = Append(lexemes, l) /\ lexemes \in Seq(Lexeme)
  BY <1>1 DEF Lexeme, Emit, LexInv
<1>3. /\ lexemes' \in Seq(Lexeme) /\ Len(lexemes') = Len(lexemes) + 1
      /\ DOMAIN lexemes' = 1 .. Len(lexemes) + 1 /\ DOMAIN lexemes = 1 .. Len(lexemes)
      /\ lexemes'[Len(lexemes) + 1] = l
      /\ \A k \in DOMAIN lexemes : lexemes'[k] = lexemes[k]
  BY <1>2
<1>4. Lexed' = end /\ end \in Nat
  BY DEF Emit, Lexed
<1>5. \A k \in DOMAIN lexemes : /\ lexemes[k].offset \in Nat /\ lexemes[k].end \in Nat
                               /\ 1 <= lexemes[k].offset /\ lexemes[k].offset < lexemes[k].end
                               /\ lexemes[k].end <= first
  <2>1. \A k \in DOMAIN lexemes : lexemes[k] \in Lexeme
    BY <1>2
  <2> QED
    BY <2>1 DEF Lexeme, LexInv, LexOrdered
<1>6. \A k \in DOMAIN lexemes' :
        /\ 1 <= lexemes'[k].offset /\ lexemes'[k].offset < lexemes'[k].end
        /\ lexemes'[k].end <= end
  BY <1>1, <1>3, <1>5
<1>7. \A k, m \in DOMAIN lexemes' : k < m => lexemes'[k].end <= lexemes'[m].offset
  BY <1>3, <1>5 DEF LexInv, LexOrdered
<1>8. LexOrdered'
  BY <1>4, <1>6, <1>7 DEF LexOrdered
<1>9. LexTypeOK'
  BY DEF LexInv, LexTypeOK, Emit, token
<1> QED
  BY <1>3, <1>8, <1>9 DEF LexInv, Emit, token

(* A chunk of a word is read.                                              *)
LEMMA ChunkKeeps ==
  ASSUME LexInv, NEW ps \in Parts \ {<<>>}, NEW end \in pos + 1 .. Len(input) + 1,
         mode = "Word", Chunk(ps, end)
  PROVE  LexInv'
<1>1. LexTypeOK'
  BY DEF LexInv, LexTypeOK, Chunk, Peek
<1>2. start \in Nat /\ end \in Nat /\ start < end /\ pos' = end /\ UNCHANGED <<Lexed, mode, start, lexemes>>
  BY DEF LexInv, LexTypeOK, LexOrdered, Chunk, Lexed
<1>3. LexOrdered'
  BY <1>2 DEF LexInv, LexOrdered
<1> QED
  BY <1>1, <1>3 DEF LexInv, Chunk

(* A chunk in double quotes is read.                                       *)
LEMMA QuotedKeeps ==
  ASSUME LexInv, NEW ps \in Parts \ {<<>>}, NEW k \in Nat \ {0}, pos + k <= Len(input) + 1,
         mode = "Quotes", QuotedChunk(ps, k)
  PROVE  LexInv'
<1>1. LexTypeOK'
  BY DEF LexInv, LexTypeOK, QuotedChunk, Peek
<1>2. /\ start \in Nat /\ pos + k \in Nat /\ start < pos + k /\ pos' = pos + k
      /\ UNCHANGED <<Lexed, mode, start, lexemes>>
  BY DEF LexInv, LexTypeOK, LexOrdered, QuotedChunk, Lexed
<1>3. LexOrdered'
  BY <1>2 DEF LexInv, LexOrdered
<1> QED
  BY <1>1, <1>3 DEF LexInv, QuotedChunk

(* Nothing changes but the place.                                          *)
LEMMA BlankKeeps == LexInv /\ SkipBlank => LexInv'
<1>1. SUFFICES ASSUME LexInv, SkipBlank PROVE LexInv'
  OBVIOUS
<1>2. /\ pos \in Nat /\ pos <= Len(input) /\ pos' = pos + 1 /\ mode = "Between"
      /\ UNCHANGED <<input, mode, token, lexemes, err, lexed>>
  BY <1>1 DEF SkipBlank, Between, LexInv, LexTypeOK
<1>3. LexTypeOK'
  BY <1>1, <1>2 DEF LexInv, LexTypeOK, token
<1>4. \A k \in DOMAIN lexemes : lexemes[k].end \in Nat
  <2>1. \A k \in DOMAIN lexemes : lexemes[k] \in Lexeme
    BY <1>1 DEF LexInv
  <2> QED
    BY <2>1 DEF Lexeme
<1>5. LexOrdered'
  BY <1>1, <1>2, <1>4 DEF LexInv, LexOrdered, Lexed, token
<1> QED
  BY <1>1, <1>2, <1>3, <1>5 DEF LexInv, token

(* The operators, and what no token starts with.                           *)
LEMMA OpsKeep ==
  LexInv /\ (NoToken \/ Newline \/ Semicolon \/ Ampersand \/ Pipe) => LexInv'
<1>1. SUFFICES ASSUME LexInv, Between,
                      NoToken \/ Newline \/ Semicolon \/ Ampersand \/ Pipe
               PROVE  LexInv'
  BY DEF NoToken, Newline, Semicolon, Ampersand, Pipe
<1>2. pos \in 1 .. Len(input) /\ Len(input) \in Nat /\ mode = "Between"
  BY <1>1 DEF Between, LexInv, LexTypeOK
<1>3. ASSUME NEW kind, Fail(kind, pos) PROVE LexInv'
  BY <1>1, <1>2, <1>3, FailKeeps
<1>4. ASSUME NEW op \in {"Semi", "Newline", "AndIf", "OrIf", "Pipe"}, NEW k \in {1, 2},
             pos + k <= Len(input) + 1, EmitOp(op, k)
      PROVE  LexInv'
  <2>1. OpToken(op) \in Token
    BY DEF Token
  <2>2. pos + k \in 1 .. Len(input) + 1 /\ pos = Lexed /\ pos < pos + k
    BY <1>2, <1>4 DEF Lexed
  <2>3. Emit(OpToken(op), pos, pos + k) /\ mode' = "Between" /\ UNCHANGED token
    BY <1>2, <1>4 DEF EmitOp
  <2> QED
    BY <1>1, <2>1, <2>2, <2>3, EmitKeeps
<1>5. pos + 1 <= Len(input) + 1
  BY <1>2
<1>6. Peek(1) # None => pos + 2 <= Len(input) + 1
  BY <1>1, <1>2, Seen
<1>7. Peek(1) \in {"&", "|"} => pos + 2 <= Len(input) + 1
  BY <1>6 DEF None
<1>8. CASE NoToken
  BY <1>3, <1>8 DEF NoToken
<1>9. CASE Newline
  BY <1>4, <1>5, <1>9 DEF Newline
<1>10. CASE Semicolon
  BY <1>3, <1>4, <1>5, <1>10 DEF Semicolon
<1>11. CASE Ampersand
  BY <1>3, <1>4, <1>7, <1>11 DEF Ampersand
<1>12. CASE Pipe
  BY <1>3, <1>4, <1>5, <1>7, <1>12 DEF Pipe
<1> QED
  BY <1>1, <1>8, <1>9, <1>10, <1>11, <1>12

(* A redirect whose ">" is d bytes further on.                             *)
LEMMA RedirectKeeps ==
  ASSUME LexInv, Between, NEW d \in {0, 1}, Peek(d) = ">", NEW fd \in Digit, Redirect(fd, d)
  PROVE  LexInv'
<1>1. /\ pos \in 1 .. Len(input) /\ Len(input) \in Nat /\ mode = "Between"
      /\ input \in Seq(Byte)
  BY DEF Between, LexInv, LexTypeOK
<1>2. pos + d \in 1 .. Len(input)
  BY Seen DEF None
<1>3. ASSUME NEW kind, Fail(kind, pos) PROVE LexInv'
  BY <1>1, <1>3, FailKeeps
<1>4. CASE NoRedirect(d)
  BY <1>3, <1>4 DEF NoRedirect
<1>5. CASE Dup(fd, d)
  <2>1. CASE Peek(d + 2) \notin Digit \/ Peek(d + 3) \notin TokenEnd
    BY <1>3, <1>5, <2>1 DEF Dup
  <2>2. CASE ~(Peek(d + 2) \notin Digit \/ Peek(d + 3) \notin TokenEnd)
    <3> DEFINE c == <<fd, Peek(d + 2)>>
    <3>1. CopyTo(fd, d)
      BY <1>5, <2>2 DEF Dup
    <3>2. CASE c \notin DOMAIN Copies
      BY <1>3, <3>1, <3>2 DEF CopyTo
    <3>3. CASE c \in DOMAIN Copies
      <4>1. RedirToken(Copies[c]) \in Token
        <5>1. Copies[c] \in {"ErrToOut", "OutToErr"}
          BY <3>3 DEF Copies
        <5> QED
          BY <5>1 DEF Token
      <4>2. Emit(RedirToken(Copies[c]), pos, pos + d + 3) /\ UNCHANGED <<mode, token>>
        BY <3>1, <3>3 DEF CopyTo
      <4>3. Peek(d + 2) # None
        BY <2>2, NoneIsNoByte
      <4>4. pos + (d + 2) \in 1 .. Len(input)
        BY <4>3, Seen
      <4>5. pos + d + 3 \in 1 .. Len(input) + 1 /\ pos < pos + d + 3 /\ pos = Lexed
        BY <1>1, <4>4 DEF Lexed
      <4> QED
        BY <1>1, <4>1, <4>2, <4>5, EmitKeeps
    <3> QED
      BY <3>2, <3>3
  <2> QED
    BY <2>1, <2>2
<1>6. CASE RedirectTo(fd, d)
  <2> DEFINE target == RunEnd(input, pos + d + 1, Blank)
  <2>1. pos + d + 1 \in 1 .. Len(input) + 1
    BY <1>1, <1>2
  <2>2. target \in pos + d + 1 .. Len(input) + 1
    BY <1>1, <2>1, RunEnds, NoneIsNoByte
  <2>3. CASE target > Len(input) \/ input[target] \in WordTerminator
    BY <1>3, <1>6, <2>3 DEF RedirectTo
  <2>4. CASE ~(target > Len(input) \/ input[target] \in WordTerminator)
    <3>1. /\ mode' = "Word" /\ start' = pos /\ from' = {fd} /\ parts' = <<>> /\ pos' = target
          /\ UNCHANGED <<input, opened, inner, lexemes, err, lexed>>
      BY <1>6, <2>4 DEF RedirectTo
    <3> HIDE DEF target
    <3>2. target \in 1 .. Len(input) /\ pos < target
      BY <1>1, <1>2, <2>2, <2>4
    <3>3. Peek(0)' = input[target] /\ input[target] # None
      BY <1>1, <3>1, <3>2, Bytes DEF Peek
    <3>4. LexTypeOK'
      BY <1>1, <2>4, <3>1, <3>2, <3>3 DEF LexInv, LexTypeOK
    <3>5. UNCHANGED Lexed
      BY <1>1, <3>1 DEF Lexed
    <3>6. LexOrdered'
      BY <1>1, <3>1, <3>2, <3>5 DEF LexInv, LexOrdered
    <3> QED
      BY <3>1, <3>4, <3>6 DEF LexInv, Parts
  <2> QED
    BY <2>3, <2>4
<1> QED
  BY <1>4, <1>5, <1>6 DEF Redirect

(* Where digits may be a descriptor.                                       *)
LEMMA DigitsAhead ==
  ASSUME LexInv, Between
  PROVE  Digits \in Nat /\ (Digits > 0 => Peek(0) \in Digit)
<1>1. pos \in 1 .. Len(input) /\ Len(input) \in Nat /\ input \in Seq(Byte)
  BY DEF Between, LexInv, LexTypeOK
<1>2. /\ RunEnd(input, pos, Digit) \in pos .. Len(input) + 1
      /\ \A m \in pos .. RunEnd(input, pos, Digit) - 1 : input[m] \in Digit
  BY <1>1, RunEnds, NoneIsNoByte
<1>3. Digits > 0 => input[pos] \in Digit
  BY <1>1, <1>2 DEF Digits
<1>4. Peek(0) = input[pos]
  <2>1. pos + 0 = pos
    BY <1>1
  <2> QED
    BY <1>1, <2>1, Seen
<1> QED
  BY <1>1, <1>2, <1>3, <1>4 DEF Digits

(* Redirects and words begin.                                              *)
LEMMA StartsKeep == LexInv /\ (Greater \/ IoNumber \/ StartWord) => LexInv'
<1>1. CASE LexInv /\ Greater
  BY <1>1, RedirectKeeps DEF Greater, Digit
<1>2. CASE LexInv /\ IoNumber
  <2>1. Digits > 0 /\ Peek(Digits) = ">" /\ Between /\ Digits \in Nat /\ Peek(0) \in Digit
    BY <1>2, DigitsAhead DEF IoNumber
  <2>2. CASE Digits > 1
    <3>1. Fail("MultiDigitFd", pos) /\ pos \in 1 .. Len(input) + 1
      BY <1>2, <2>2 DEF IoNumber, LexInv, LexTypeOK
    <3> QED
      BY <1>2, <3>1, FailKeeps
  <2>3. CASE ~(Digits > 1)
    <3>1. Digits = 1 /\ Redirect(Peek(0), 1)
      BY <1>2, <2>1, <2>3 DEF IoNumber
    <3> QED
      BY <1>2, <2>1, <3>1, RedirectKeeps
  <2> QED
    BY <2>2, <2>3
<1>3. CASE LexInv /\ StartWord
  <2>1. /\ pos \in 1 .. Len(input) /\ mode = "Between" /\ Peek(0) \notin WordTerminator
        /\ mode' = "Word" /\ start' = pos /\ from' = {} /\ parts' = <<>>
        /\ UNCHANGED <<input, pos, opened, inner, lexemes, err, lexed>>
    BY <1>3 DEF StartWord, Between, LexInv, LexTypeOK
  <2>2. Peek(0) # None
    <3>1. pos + 0 \in 1 .. Len(input)
      BY <2>1
    <3> QED
      BY <1>3, <3>1, Seen DEF Byte
  <2>3. Peek(0)' = Peek(0)
    BY <2>1 DEF Peek
  <2>4. LexTypeOK'
    BY <1>3, <2>1, <2>2, <2>3 DEF LexInv, LexTypeOK
  <2>5. UNCHANGED Lexed
    BY <2>1 DEF Lexed
  <2>6. LexOrdered'
    BY <1>3, <2>1, <2>5 DEF LexInv, LexOrdered
  <2> QED
    BY <1>3, <2>1, <2>4, <2>6 DEF LexInv, Parts
<1> QED
  BY <1>1, <1>2, <1>3

(* A word ends: it has parts by then.                                      *)
LEMMA EndKeeps == LexInv /\ EndWord => LexInv'
<1>1. SUFFICES ASSUME LexInv, EndWord PROVE LexInv'
  OBVIOUS
<1>2. /\ parts \in Parts \ {<<>>} /\ start < pos /\ start = Lexed /\ pos \in 1 .. Len(input) + 1
      /\ start \in 1 .. Len(input) + 1
  BY <1>1 DEF EndWord, LexInv, LexTypeOK, LexOrdered, Lexed
<1>3. ASSUME NEW kind, Fail(kind, start) PROVE LexInv'
  BY <1>1, <1>2, <1>3, FailKeeps
<1>4. ASSUME NEW what \in Token, EmitWord(what) PROVE LexInv'
  BY <1>1, <1>2, <1>4, EmitKeeps DEF EmitWord
<1>5. WordToken(parts) \in Token /\ RedirToken("OutDevNull") \in Token /\ RedirToken("ErrDevNull") \in Token
  BY <1>2 DEF Token
<1> QED
  BY <1>1, <1>3, <1>4, <1>5 DEF EndWord

(* In a word, the byte seen is there.                                      *)
LEMMA WordHere ==
  ASSUME LexInv, InWord
  PROVE  /\ mode = "Word" /\ pos \in 1 .. Len(input) /\ Peek(0) = input[pos] /\ Peek(0) \in Byte
         /\ input \in Seq(Byte) /\ parts \in Parts /\ Len(input) \in Nat
<1>1. Peek(0) # None /\ pos + 0 = pos
  BY DEF InWord, LexInv, LexTypeOK
<1>2. pos \in 1 .. Len(input) /\ Peek(0) = input[pos] /\ Peek(0) \in Byte
  BY <1>1, Seen
<1> QED
  BY <1>2 DEF InWord, LexInv, LexTypeOK

(* The plain units of a word.                                              *)
LEMMA UnitsKeep == LexInv /\ (NoUnit \/ PlainByte \/ LeadingTilde \/ LaterTilde) => LexInv'
<1>1. SUFFICES ASSUME LexInv, InWord, NoUnit \/ PlainByte \/ LeadingTilde \/ LaterTilde
               PROVE  LexInv'
  BY DEF NoUnit, PlainByte, LeadingTilde, LaterTilde
<1>2. /\ mode = "Word" /\ pos \in 1 .. Len(input) /\ Peek(0) \in Byte /\ parts \in Parts
      /\ Len(input) \in Nat
  BY <1>1, WordHere
<1>3. ASSUME NEW kind, Fail(kind, pos) PROVE LexInv'
  BY <1>1, <1>2, <1>3, FailKeeps
<1>4. ASSUME NEW ps \in Parts \ {<<>>}, Chunk(ps, pos + 1) PROVE LexInv'
  <2>1. pos + 1 \in pos + 1 .. Len(input) + 1
    BY <1>2
  <2> QED
    BY <1>1, <1>2, <1>4, <2>1, ChunkKeeps
<1>5. ASSUME NEW byte \in Byte PROVE Push(parts, Lit(<<byte>>, FALSE)) \in Parts \ {<<>>}
  <2>1. <<byte>> \in Seq(Byte)
    OBVIOUS
  <2> QED
    BY <1>2, <2>1, Pushed, PartsAre
<1>6. CASE NoUnit
  BY <1>3, <1>6 DEF NoUnit
<1>7. CASE PlainByte
  BY <1>2, <1>4, <1>5, <1>7 DEF PlainByte
<1>8. CASE LeadingTilde
  <2>1. <<Tilde>> \in Parts \ {<<>>}
    BY PartsAre DEF Parts
  <2> QED
    BY <1>3, <1>4, <1>8, <2>1 DEF LeadingTilde
<1>9. CASE LaterTilde
  <2>1. "~" \in Byte
    BY <1>2, <1>9 DEF LaterTilde
  <2> QED
    BY <1>3, <1>4, <1>5, <1>9, <2>1 DEF LaterTilde
<1> QED
  BY <1>1, <1>6, <1>7, <1>8, <1>9

(* A backslash: what is wrong is at it or the byte behind it.              *)
LEMMA BadEscapeKeeps == LexInv /\ pos <= Len(input) /\ BadEscape => LexInv'
<1>1. SUFFICES ASSUME LexInv, pos <= Len(input), BadEscape PROVE LexInv'
  OBVIOUS
<1>2. pos \in 1 .. Len(input) + 1 /\ pos + 1 \in 1 .. Len(input) + 1
  BY <1>1 DEF LexInv, LexTypeOK
<1>3. ASSUME NEW kind, NEW offset \in {pos, pos + 1}, Fail(kind, offset) PROVE LexInv'
  BY <1>1, <1>2, <1>3, FailKeeps
<1> QED
  BY <1>1, <1>3 DEF BadEscape

(* A backslash that escapes has a byte behind it.                          *)
LEMMA GoodEscapeIs ==
  ASSUME LexInv, GoodEscape
  PROVE  pos + 2 \in 1 .. Len(input) + 1 /\ Peek(1) \in Byte
<1>1. Peek(1) # None
  BY DEF GoodEscape
<1>2. pos + 1 \in 1 .. Len(input) /\ pos \in Nat /\ Len(input) \in Nat
  BY <1>1, Seen DEF LexInv, LexTypeOK
<1> QED
  BY <1>2, Seen

(* Escapes and single quotes.                                              *)
LEMMA QuotesKeep == LexInv /\ (Escape \/ SingleQuoted \/ OpenQuotes) => LexInv'
<1>1. SUFFICES ASSUME LexInv, InWord, Escape \/ SingleQuoted \/ OpenQuotes PROVE LexInv'
  BY DEF Escape, SingleQuoted, OpenQuotes
<1>2. /\ mode = "Word" /\ pos \in 1 .. Len(input) /\ Peek(0) \in Byte /\ parts \in Parts
      /\ Len(input) \in Nat /\ input \in Seq(Byte)
  BY <1>1, WordHere
<1>3. CASE Escape
  <2>1. CASE BadEscape
    BY <1>1, <1>2, <2>1, BadEscapeKeeps
  <2>2. CASE GoodEscape /\ Chunk(Push(parts, Lit(<<Peek(1)>>, TRUE)), pos + 2)
    <3>1. pos + 2 \in pos + 1 .. Len(input) + 1 /\ <<Peek(1)>> \in Seq(Byte)
      BY <1>1, <1>2, <2>2, GoodEscapeIs
    <3>2. Push(parts, Lit(<<Peek(1)>>, TRUE)) \in Parts \ {<<>>}
      BY <1>2, <3>1, Pushed, PartsAre
    <3> QED
      BY <1>1, <1>2, <2>2, <3>1, <3>2, ChunkKeeps
  <2> QED
    BY <1>3, <2>1, <2>2 DEF Escape
<1>4. CASE SingleQuoted
  <2> DEFINE P(d) == /\ ByteAt(input, d) \in Control \cup {"'", None}
                     /\ \A m \in pos + 1 .. d - 1 : input[m] \notin Control \cup {"'"}
             e == CHOOSE d \in pos + 1 .. Len(input) + 1 : P(d)
  <2>1. \E d \in pos + 1 .. Len(input) + 1 : P(d)
    <3> DEFINE Ends == {d \in pos + 1 .. Len(input) + 1 : ByteAt(input, d) \in Control \cup {"'", None}}
    <3>1. Len(input) + 1 \in Ends
      BY <1>2, Bytes
    <3>2. Ends \in SUBSET Nat
      BY <1>2
    <3>3. PICK d \in Ends : \A m \in Ends : d <= m
      BY <3>1, <3>2, Least
    <3>4. ASSUME NEW m \in pos + 1 .. d - 1 PROVE input[m] \notin Control \cup {"'"}
      <4>1. m \notin Ends /\ m \in pos + 1 .. Len(input) + 1 /\ m \in 1 .. Len(input)
        BY <1>2, <3>3
      <4> QED
        BY <1>2, <4>1, Bytes
    <3> QED
      BY <3>3, <3>4
  <2> HIDE DEF P
  <2>2. e \in pos + 1 .. Len(input) + 1
    BY <2>1
  <2>3. \/ ByteAt(input, e) = None /\ Fail("UnterminatedSingleQuote", pos)
        \/ ByteAt(input, e) \in Control /\ Fail("ControlByte", e)
        \/ /\ ByteAt(input, e) = "'"
           /\ Chunk(Push(parts, Lit(SubSeq(input, pos + 1, e - 1), TRUE)), e + 1)
    BY <1>4 DEF SingleQuoted, P
  <2> HIDE DEF e
  <2>4. ASSUME NEW kind, NEW offset \in {pos, e}, Fail(kind, offset) PROVE LexInv'
    <3>1. offset \in 1 .. Len(input) + 1
      BY <1>2, <2>2, <2>4
    <3> QED
      BY <1>1, <2>4, <3>1, FailKeeps
  <2>5. ASSUME ByteAt(input, e) = "'",
               Chunk(Push(parts, Lit(SubSeq(input, pos + 1, e - 1), TRUE)), e + 1)
        PROVE  LexInv'
    <3>1. e \in 1 .. Len(input)
      <4>1. ByteAt(input, e) # None
        BY <2>5 DEF None
      <4> QED
        BY <1>2, <2>2, <4>1, Bytes
    <3>2. e + 1 \in pos + 1 .. Len(input) + 1 /\ SubSeq(input, pos + 1, e - 1) \in Seq(Byte)
      BY <1>2, <2>2, <3>1, Pieces
    <3>3. Push(parts, Lit(SubSeq(input, pos + 1, e - 1), TRUE)) \in Parts \ {<<>>}
      BY <1>2, <3>2, Pushed, PartsAre
    <3> QED
      BY <1>1, <1>2, <2>5, <3>2, <3>3, ChunkKeeps
  <2> QED
    BY <2>3, <2>4, <2>5
<1>5. CASE OpenQuotes
  <2>1. /\ mode' = "Quotes" /\ opened' = pos /\ inner' = <<Lit(<<>>, TRUE)>> /\ pos' = pos + 1
        /\ UNCHANGED <<input, start, from, parts, lexemes, err, lexed>>
    BY <1>5 DEF OpenQuotes
  <2>2. inner' \in Parts \ {<<>>}
    <3>1. <<>> \in Seq(Byte)
      OBVIOUS
    <3>2. Lit(<<>>, TRUE) \in Part
      BY <3>1, PartsAre
    <3> DEFINE l == Lit(<<>>, TRUE)
    <3> HIDE DEF l
    <3>3. l \in Part
      BY <3>2 DEF l
    <3>4. <<l>> \in Parts \ {<<>>}
      BY <3>3 DEF Parts
    <3> QED
      BY <2>1, <3>4 DEF l
  <2>3. LexTypeOK'
    BY <1>1, <1>2, <2>1, <2>2 DEF LexInv, LexTypeOK
  <2>4. UNCHANGED Lexed
    BY <1>2, <2>1 DEF Lexed
  <2>5. start < pos + 1 /\ start \in Nat /\ pos \in Nat
    BY <1>1, <1>2 DEF LexInv, LexOrdered, LexTypeOK
  <2>6. LexOrdered'
    BY <1>1, <2>1, <2>4, <2>5 DEF LexInv, LexOrdered
  <2> QED
    BY <1>1, <2>1, <2>2, <2>3, <2>6 DEF LexInv
<1> QED
  BY <1>1, <1>3, <1>4, <1>5

(* What is read in double quotes.                                          *)
LEMMA InnerKeep ==
  LexInv /\ (NotQuotable \/ QuotedEscape \/ Dollar \/ QuotedByte \/ CloseQuotes) => LexInv'
<1>1. SUFFICES ASSUME LexInv, InQuotes,
                      NotQuotable \/ QuotedEscape \/ Dollar \/ QuotedByte \/ CloseQuotes
               PROVE  LexInv'
  BY DEF NotQuotable, QuotedEscape, Dollar, QuotedByte, CloseQuotes
<1>2. /\ mode = "Quotes" /\ pos \in 1 .. Len(input) + 1 /\ parts \in Parts
      /\ inner \in Parts \ {<<>>} /\ Len(input) \in Nat /\ input \in Seq(Byte)
      /\ opened \in 1 .. Len(input) + 1
  BY <1>1 DEF InQuotes, LexInv, LexTypeOK
<1>3. ASSUME NEW kind, NEW offset \in {pos, opened}, Fail(kind, offset) PROVE LexInv'
  BY <1>1, <1>2, <1>3, FailKeeps
<1>4. Peek(0) # None => pos \in 1 .. Len(input) /\ Peek(0) \in Byte
  <2>1. pos + 0 = pos
    BY <1>2
  <2> QED
    BY <1>1, <2>1, Seen
<1>5. ASSUME NEW bytes \in Seq(Byte) PROVE Push(inner, Lit(bytes, TRUE)) \in Parts \ {<<>>}
  BY <1>2, Pushed, PartsAre
<1>11. ASSUME NEW ps \in Parts \ {<<>>}, NEW k \in Nat \ {0}, pos + k <= Len(input) + 1,
              QuotedChunk(ps, k)
       PROVE  LexInv'
  BY <1>1, <1>2, <1>11, QuotedKeeps
<1>6. CASE NotQuotable
  BY <1>3, <1>6 DEF NotQuotable
<1>7. CASE QuotedEscape
  <2>1. pos <= Len(input) /\ "\\" \in Byte
    <3>1. Peek(0) = "\\" /\ Peek(0) # None
      BY <1>7, Zenon DEF QuotedEscape, None
    <3> QED
      BY <1>2, <1>4, <3>1
  <2>2. CASE BadEscape
    BY <1>1, <2>1, <2>2, BadEscapeKeeps
  <2>3. CASE ~BadEscape
    <3> DEFINE kept == IF Peek(1) \in {"$", Backquote, "\"", "\\"} THEN <<>> ELSE <<"\\">>
    <3>1. GoodEscape /\ QuotedChunk(Push(inner, Lit(Append(kept, Peek(1)), TRUE)), 2)
      BY <1>7, <2>3 DEF QuotedEscape
    <3>2. pos + 2 \in 1 .. Len(input) + 1 /\ Peek(1) \in Byte
      BY <1>1, <3>1, GoodEscapeIs
    <3>3. kept \in Seq(Byte)
      <4>1. kept \in {<<>>, <<"\\">>}
        BY Zenon
      <4>2. <<>> \in Seq(Byte) /\ \A b \in Byte : <<b>> \in Seq(Byte)
        OBVIOUS
      <4> HIDE DEF kept
      <4> QED
        BY <2>1, <4>1, <4>2, Zenon
    <3>4. Append(kept, Peek(1)) \in Seq(Byte)
      <4> HIDE DEF kept
      <4> QED BY <3>2, <3>3
    <3>5. Push(inner, Lit(Append(kept, Peek(1)), TRUE)) \in Parts \ {<<>>}
      <4> HIDE DEF kept
      <4> QED BY <1>5, <3>4
    <3>6. 2 \in Nat \ {0} /\ pos + 2 <= Len(input) + 1
      BY <1>2, <3>2
    <3> HIDE DEF kept
    <3> QED
      BY <1>11, <3>1, <3>5, <3>6, Zenon
  <2> QED
    BY <2>2, <2>3
<1>8. CASE Dollar
  <2>1. pos \in 1 .. Len(input) /\ "$" \in Byte
    <3>1. Peek(0) = "$" /\ Peek(0) # None
      BY <1>8, Zenon DEF Dollar, None
    <3> QED
      BY <1>4, <3>1
  <2>2. CASE BadDollar
    BY <1>3, <2>2 DEF BadDollar
  <2>3. CASE Peek(1) = "\"" /\ QuotedChunk(Push(inner, Lit(<<"$">>, TRUE)), 1)
    <3>1. <<"$">> \in Seq(Byte)
      BY <2>1
    <3>2. pos + 1 <= Len(input) + 1 /\ 1 \in Nat \ {0}
      BY <1>2, <2>1
    <3> QED
      BY <1>5, <1>11, <2>3, <3>1, <3>2, Zenon
  <2>4. ASSUME NEW k \in {pos + 1, pos + 2}, k <= Len(input) + 1,
               NEW e \in k .. Len(input) + 1, NEW m \in Nat \ {0}, pos + m <= Len(input) + 1,
               QuotedChunk(PushVar(inner, SubSeq(input, k, e - 1)), m)
        PROVE  LexInv'
    <3>1. k \in 1 .. Len(input) + 1 /\ e - 1 \in 0 .. Len(input)
      BY <1>2, <2>4
    <3>2. PushVar(inner, SubSeq(input, k, e - 1)) \in Parts \ {<<>>}
      BY <1>2, <3>1, Pieces, VarPushed
    <3> QED
      BY <1>1, <1>2, <2>4, <3>2, QuotedKeeps
  <2>5. Peek(1) # None => pos + 1 \in 1 .. Len(input)
    BY <1>1, Seen
  <2>6. CASE LET e == NameEnd(input, pos + 2) IN
               /\ Peek(1) = "{" /\ e > pos + 2 /\ ByteAt(input, e) = "}"
               /\ QuotedChunk(PushVar(inner, SubSeq(input, pos + 2, e - 1)), e + 1 - pos)
    <3> DEFINE e == NameEnd(input, pos + 2)
    <3>1. /\ Peek(1) # None /\ e > pos + 2 /\ ByteAt(input, e) # None
          /\ QuotedChunk(PushVar(inner, SubSeq(input, pos + 2, e - 1)), e + 1 - pos)
      BY <2>6, Zenon DEF None
    <3>2. pos + 2 \in 1 .. Len(input) + 1
      BY <1>2, <2>5, <3>1
    <3>3. e \in pos + 2 .. Len(input) + 1
      BY <1>2, <3>2, NameEnds
    <3> HIDE DEF e
    <3>5. e \in 1 .. Len(input)
      BY <1>2, <3>1, <3>3, Bytes
    <3>6. e + 1 - pos \in Nat \ {0} /\ pos + (e + 1 - pos) <= Len(input) + 1
      BY <1>2, <3>3, <3>5
    <3>7. pos + 2 \in {pos + 1, pos + 2} /\ pos + 2 <= Len(input) + 1
      BY <1>2, <3>2
    <3> QED
      BY <2>4, <3>1, <3>3, <3>6, <3>7, Zenon
  <2>7. CASE LET e == NameEnd(input, pos + 1) IN
               /\ Peek(1) \in Letter /\ ByteAt(input, e) \notin NonAscii
               /\ QuotedChunk(PushVar(inner, SubSeq(input, pos + 1, e - 1)), e - pos)
    <3> DEFINE e == NameEnd(input, pos + 1)
    <3>1. /\ Peek(1) \in Letter
          /\ QuotedChunk(PushVar(inner, SubSeq(input, pos + 1, e - 1)), e - pos)
      BY <2>7
    <3>2. pos + 1 \in 1 .. Len(input) + 1
      BY <1>2, <2>1
    <3>3. e \in pos + 1 .. Len(input) + 1
      BY <1>2, <3>2, NameEnds
    <3> HIDE DEF e
    <3>4. e - pos \in Nat \ {0} /\ pos + (e - pos) <= Len(input) + 1
      BY <1>2, <3>3
    <3> QED
      BY <1>2, <2>4, <3>1, <3>2, <3>3, <3>4
  <2> QED
    BY <1>8, <2>2, <2>3, <2>6, <2>7 DEF Dollar
<1>9. CASE QuotedByte
  <2>1. pos \in 1 .. Len(input) /\ Peek(0) \in Byte
        /\ QuotedChunk(Push(inner, Lit(<<Peek(0)>>, TRUE)), 1)
    BY <1>4, <1>9 DEF QuotedByte
  <2>2. <<Peek(0)>> \in Seq(Byte) /\ pos + 1 <= Len(input) + 1 /\ 1 \in Nat \ {0}
    BY <1>2, <2>1
  <2> QED
    BY <1>5, <1>11, <2>1, <2>2, Zenon
<1>10. CASE CloseQuotes
  <2>1. /\ Peek(0) # None /\ mode' = "Word" /\ parts' = AppendParts(parts, inner) /\ pos' = pos + 1
        /\ UNCHANGED <<input, start, opened, from, inner, lexemes, err, lexed>>
    BY <1>10, Zenon DEF CloseQuotes, None
  <2>2. pos \in 1 .. Len(input)
    BY <1>4, <2>1
  <2>3. parts' \in Parts \ {<<>>}
    BY <1>2, <2>1, PartsAppended
  <2>4. LexTypeOK'
    BY <1>1, <1>2, <2>1, <2>2, <2>3 DEF LexInv, LexTypeOK
  <2>5. UNCHANGED Lexed
    BY <1>2, <2>1 DEF Lexed
  <2>6. start < pos + 1 /\ start \in Nat
    BY <1>1, <1>2 DEF LexInv, LexOrdered, LexTypeOK
  <2>7. LexOrdered'
    BY <1>1, <1>2, <2>1, <2>5, <2>6 DEF LexInv, LexOrdered
  <2> QED
    BY <1>1, <2>1, <2>3, <2>4, <2>7 DEF LexInv
<1> QED
  BY <1>1, <1>6, <1>7, <1>8, <1>9, <1>10

(* The two ends of lexing.                                                 *)
LEMMA EndsKeep == LexInv /\ (InputTooLarge \/ EndOfInput) => LexInv'
<1>1. CASE LexInv /\ InputTooLarge
  <2>1. 1 \in 1 .. Len(input) + 1 /\ Fail("InputTooLarge", 1)
    BY <1>1 DEF InputTooLarge, LexInv
  <2> QED
    BY <1>1, <2>1, FailKeeps
<1>2. CASE LexInv /\ EndOfInput
  BY <1>2 DEF EndOfInput, LexInv, LexTypeOK, LexOrdered, Lexed, token, Peek
<1> QED
  BY <1>1, <1>2

(* Nothing lexed yet.                                                      *)
LEMMA LexStarts == LexInit => LexInv
<1>1. SUFFICES ASSUME LexInit PROVE LexInv
  OBVIOUS
<1>2. input \in Seq(Byte)
  BY <1>1, BytesAssumption DEF LexInit, Byte, None
<1>3. parts \in Parts /\ inner \in Parts /\ lexemes \in Seq(Lexeme)
  BY <1>1 DEF LexInit, Parts
<1>4. Len(input) \in Nat
  BY <1>2
<1>5. LexTypeOK
  <2>1. 1 \in 1 .. Len(input) + 1
    BY <1>4
  <2> QED
    BY <1>1, <2>1, Zenon DEF LexInit, LexTypeOK
<1>6. LexOrdered
  BY <1>1, <1>4 DEF LexInit, LexOrdered, Lexed
<1> QED
  BY <1>2, <1>3, <1>5, <1>6 DEF LexInv

(* Lexing keeps its types and the order of what it found.                  *)
LEMMA LexStep == LexInv /\ (LexNext \/ UNCHANGED lexVars) => LexInv'
<1>1. CASE LexInv /\ LexNext
  BY <1>1, EndsKeep, OpsKeep, BlankKeeps, StartsKeep, EndKeeps, UnitsKeep, QuotesKeep, InnerKeep
     DEF LexNext
<1>2. CASE LexInv /\ UNCHANGED lexVars
  BY <1>2 DEF lexVars, LexInv, LexTypeOK, LexOrdered, Lexed, Peek
<1> QED
  BY <1>1, <1>2

-----------------------------------------------------------------------------
(* Parsing.                                                                *)

(* Nothing is wrong with the tokens before k but what the end of a run     *)
(* that reaches k, or of the input, may show.                              *)
Passed(k) == \A m \in TooMany \cup Assigning \cup Reserving \cup Leading \cup Missing : m >= k

(* A run that starts at r has not ended before k.                          *)
Reaches(r, k) == r \in RunStarts /\ r <= k /\ \A l \in r .. k - 1 : IsCmd(l)

(* The run being read, where it began and whether it has a word yet.       *)
Reading(r) ==
  /\ Reaches(r, n)
  /\ at = lexemes[r].offset
  /\ cmd.words = <<>> <=> WordsOf(r .. n - 1) = {}

(* How far the tokens are read, and what is known of them.                 *)
Progress ==
  /\ words = Cardinality(WordsOf(1 .. n - 1))
  /\ Passed(n)
  /\ \A r \in Wordless : r < n => phase = "In" /\ Reaches(r, n)
  /\ phase = "In" => \E r \in RunStarts : Reading(r)
  /\ phase # "In" => AtEof \/ ~IsCmd(n - 1)
  /\ phase = "Must" => \E m \in 1 .. n - 1 : Opens(m, n)
  /\ phase = "May" => \A m \in 1 .. n - 1 : ~Opens(m, n)

Word == Seq([opaque: {"No", "Var", "Tilde"}, bytes: Seq(Byte)])

Redirs == {"ErrToOut", "OutToErr", "OutDevNull", "ErrDevNull"}

Cmds == [words: Seq(Word), redirs: Seq(Redirs)]

(* Before the end of the input is reached nothing is parsed.               *)
NotYet == n = 1 /\ phase = "May" /\ words = 0 /\ parsed = FALSE

ParseInv ==
  /\ LexInv /\ TypeOK
  /\ cmd \in Cmds /\ words \in Nat
  /\ ~lexed => NotYet
  /\ lexed /\ err = {} => NotYet \/ Progress
  /\ FirstProblemIsReported

-----------------------------------------------------------------------------
(* The tokens are what the lexer emits.                                    *)
LEMMA Tokens ==
  ASSUME NEW t \in Token
  PROVE  /\ t.is \in {"Word", "Op", "Redir"}
         /\ t.is = "Word" => t.parts \in Parts \ {<<>>}
         /\ t.is = "Op" => t.op \in {"Semi", "Newline", "AndIf", "OrIf", "Pipe"}
         /\ t.is = "Redir" => t.redir \in Redirs
BY DEF Token, WordToken, OpToken, RedirToken, Redirs

(* The lexemes are within the input and one after the other.               *)
LEMMA Places ==
  ASSUME LexInv
  PROVE  /\ DOMAIN lexemes = 1 .. Len(lexemes) /\ Len(lexemes) \in Nat /\ Len(input) \in Nat
         /\ \A k \in DOMAIN lexemes : /\ lexemes[k].offset \in 1 .. Len(input)
                                      /\ Tok(k) \in Token
         /\ \A k, m \in DOMAIN lexemes : k < m => lexemes[k].offset < lexemes[m].offset
<1>1. lexemes \in Seq(Lexeme) /\ Len(input) \in Nat
  BY DEF LexInv
<1>2. Lexed <= Len(input) + 1 /\ Lexed \in Nat
  BY DEF LexInv, LexTypeOK, Lexed
<1>3. \A k \in DOMAIN lexemes : lexemes[k] \in Lexeme
  BY <1>1
<1>4. \A k \in DOMAIN lexemes :
        /\ lexemes[k].offset \in Nat /\ lexemes[k].end \in Nat /\ Tok(k) \in Token
        /\ 1 <= lexemes[k].offset /\ lexemes[k].offset < lexemes[k].end /\ lexemes[k].end <= Lexed
  BY <1>3 DEF Lexeme, LexInv, LexOrdered, Tok
<1>5. \A k, m \in DOMAIN lexemes : k < m => lexemes[k].end <= lexemes[m].offset
  BY DEF LexInv, LexOrdered
<1> QED
  BY <1>1, <1>2, <1>4, <1>5

(* What is said of the tokens stays while they do.                         *)
LEMMA TokensStay ==
  ASSUME UNCHANGED <<input, lexemes>>
  PROVE  /\ \A k : IsCmd(k)' = IsCmd(k) /\ Tok(k)' = Tok(k) /\ Passed(k)' = Passed(k)
         /\ \A r, k : Reaches(r, k)' = Reaches(r, k) /\ Opens(r, k)' = Opens(r, k)
         /\ \A set : WordsOf(set)' = WordsOf(set)
         /\ RunStarts' = RunStarts /\ Wordless' = Wordless
         /\ GrammarProblems' = GrammarProblems
<1>1. \A k : Tok(k)' = Tok(k)
  BY DEF Tok
<1>2. \A k : IsCmd(k)' = IsCmd(k)
  BY <1>1 DEF IsCmd
<1>3. \A k, ops : IsOp(k, ops)' = IsOp(k, ops)
  BY <1>1 DEF IsOp
<1>4. RunStarts' = RunStarts
  BY <1>2 DEF RunStarts
<1>5. \A k : RunOf(k)' = RunOf(k)
  BY <1>2 DEF RunOf
<1>6. \A set : WordsOf(set)' = WordsOf(set)
  BY <1>1 DEF WordsOf
<1>7. \A k : WithinCap(k)' = WithinCap(k)
  BY <1>6 DEF WithinCap
<1>8. FirstWords' = FirstWords
  BY <1>1, <1>4, <1>5, <1>6 DEF FirstWords
<1>9. TooMany' = TooMany /\ Wordless' = Wordless
  BY <1>4, <1>5, <1>6, <1>7 DEF TooMany, Wordless
<1>10. Assigning' = Assigning /\ Reserving' = Reserving
  BY <1>1, <1>7, <1>8 DEF Assigning, Reserving
<1>11. Leading' = Leading /\ Missing' = Missing
  BY <1>2, <1>3 DEF Leading, Missing
<1>12. \A r, k : Opens(r, k)' = Opens(r, k)
  BY <1>3 DEF Opens
<1>13. OpenEnds' = OpenEnds /\ Eof' = Eof
  BY <1>12 DEF OpenEnds, Eof
<1>15. GrammarProblems' = GrammarProblems
  BY <1>9, <1>10, <1>11, <1>13 DEF GrammarProblems, At
<1>16. \A k : Passed(k)' = Passed(k)
  BY <1>9, <1>10, <1>11 DEF Passed
<1>17. \A r, k : Reaches(r, k)' = Reaches(r, k)
  BY <1>2, <1>4 DEF Reaches
<1> QED
  BY <1>1, <1>2, <1>4, <1>6, <1>9, <1>12, <1>15, <1>16, <1>17

(* The departures by kind and place.                                       *)
Departs(kind, k) ==
  \/ kind = "TooManyWords" /\ k \in TooMany
  \/ kind = "Assignment" /\ k \in Assigning
  \/ kind = "ReservedWord" /\ k \in Reserving
  \/ kind = "RedirectOnly" /\ k \in Wordless
  \/ kind = "LeadingSeparator" /\ k \in Leading
  \/ kind = "MissingCommand" /\ k \in Missing

Finding(kind, offset) == [kind |-> kind, offset |-> offset]

LEMMA ByPlace ==
  /\ \A kind, k : Departs(kind, k) => k \in DOMAIN lexemes
  /\ \A kind, k : Departs(kind, k) => Finding(kind, lexemes[k].offset) \in GrammarProblems
  /\ OpenEnds # {} => Finding("MissingCommand", Eof) \in GrammarProblems
  /\ \A p \in GrammarProblems :
       \/ \E kind, k : Departs(kind, k) /\ p = Finding(kind, lexemes[k].offset)
       \/ p = Finding("MissingCommand", Eof) /\ OpenEnds # {}
<1>1. FirstWords \subseteq DOMAIN lexemes /\ RunStarts \subseteq DOMAIN lexemes
  BY DEF FirstWords, RunStarts, WordsOf
<1>2. \A kind, k : Departs(kind, k) => k \in DOMAIN lexemes
  BY <1>1 DEF Departs, TooMany, Assigning, Reserving, Wordless, Leading, Missing, WordsOf
<1>3. \A kind, k : Departs(kind, k) => Finding(kind, lexemes[k].offset) \in GrammarProblems
  BY Zenon DEF Departs, Finding, GrammarProblems, At
<1>4. OpenEnds # {} => Finding("MissingCommand", Eof) \in GrammarProblems
  BY Zenon DEF Finding, GrammarProblems
<1>5. ASSUME NEW p \in GrammarProblems
      PROVE  \/ \E kind, k : Departs(kind, k) /\ p = Finding(kind, lexemes[k].offset)
             \/ p = Finding("MissingCommand", Eof) /\ OpenEnds # {}
  BY <1>5, Zenon DEF Departs, Finding, GrammarProblems, At
<1> QED
  BY <1>2, <1>3, <1>4, <1>5

(* A departure that none comes before, nor another at its place, is first. *)
LEMMA FirstDeparture ==
  ASSUME LexInv, NEW kind, NEW m, Departs(kind, m),
         \A d, k : Departs(d, k) /\ k <= m => d = kind /\ k = m
  PROVE  LET e == Finding(kind, lexemes[m].offset) IN
           e \in GrammarProblems /\ \A p \in GrammarProblems : p = e \/ p.offset > e.offset
<1> DEFINE e == Finding(kind, lexemes[m].offset)
<1>1. m \in DOMAIN lexemes /\ e \in GrammarProblems
  BY ByPlace
<1>2. e.offset = lexemes[m].offset
  BY DEF Finding
<1>3. ASSUME NEW p \in GrammarProblems PROVE p = e \/ p.offset > e.offset
  <2>1. CASE p = Finding("MissingCommand", Eof)
    <3>1. p.offset = Eof
      BY <2>1 DEF Finding
    <3> QED
      BY <1>1, <1>2, <3>1, Places DEF Eof
  <2>2. ASSUME NEW d, NEW k, Departs(d, k), p = Finding(d, lexemes[k].offset)
        PROVE  p = e \/ p.offset > e.offset
    <3>1. k \in DOMAIN lexemes /\ p.offset = lexemes[k].offset
      BY <2>2, ByPlace DEF Finding
    <3>2. CASE k <= m
      BY <2>2, <3>2
    <3>3. CASE ~(k <= m)
      <4>1. m < k
        BY <1>1, <3>1, <3>3, Places
      <4>2. lexemes[m].offset < lexemes[k].offset
        BY <1>1, <3>1, <4>1, Places
      <4>3. lexemes[m].offset \in Int /\ lexemes[k].offset \in Int
        BY <1>1, <3>1, Places
      <4> HIDE DEF e
      <4> QED
        BY <1>2, <3>1, <4>2, <4>3
    <3> QED
      BY <3>2, <3>3
  <2> QED
    BY <2>1, <2>2, ByPlace
<1> QED
  BY <1>1, <1>3

-----------------------------------------------------------------------------
(* Runs, and what departs at a token of each kind.                         *)

(* At most one run reaches a place.                                        *)
LEMMA OneRun ==
  ASSUME LexInv, NEW r, NEW q, NEW k \in Int, Reaches(r, k), Reaches(q, k)
  PROVE  r = q
<1>1. r \in DOMAIN lexemes /\ q \in DOMAIN lexemes /\ ~IsCmd(r - 1) /\ ~IsCmd(q - 1)
  BY DEF Reaches, RunStarts
<1>2. r \in Int /\ q \in Int
  BY <1>1, Places
<1>3. ~(r < q) /\ ~(q < r)
  BY <1>1, <1>2 DEF Reaches
<1> QED
  BY <1>2, <1>3

(* A run that reaches a word or redirect has it.                           *)
LEMMA RunHas ==
  ASSUME LexInv, NEW r, NEW k \in DOMAIN lexemes, Reaches(r, k), IsCmd(k)
  PROVE  /\ r .. k \subseteq RunOf(r) /\ Reaches(r, k + 1) /\ r \in Int /\ r <= k
<1>1. r \in DOMAIN lexemes /\ r <= k /\ \A l \in r .. k - 1 : IsCmd(l)
  BY DEF Reaches, RunStarts
<1>2. r \in Int /\ k \in Int /\ DOMAIN lexemes = 1 .. Len(lexemes)
  BY <1>1, Places
<1>3. \A l \in r .. k : IsCmd(l)
  BY <1>1, <1>2
<1>4. r .. k \subseteq RunOf(r)
  BY <1>1, <1>2, <1>3 DEF RunOf, IsCmd
<1>5. Reaches(r, k + 1)
  BY <1>1, <1>2, <1>3 DEF Reaches
<1> QED
  BY <1>1, <1>2, <1>4, <1>5

(* A run ends before what is no word or redirect.                          *)
LEMMA RunIs ==
  ASSUME LexInv, NEW r, NEW k \in Int, Reaches(r, k), ~IsCmd(k)
  PROVE  RunOf(r) = r .. k - 1 /\ r < k /\ r \in DOMAIN lexemes
<1>1. r \in DOMAIN lexemes /\ r <= k /\ IsCmd(r) /\ \A l \in r .. k - 1 : IsCmd(l)
  BY DEF Reaches, RunStarts
<1>2. r \in Int /\ DOMAIN lexemes = 1 .. Len(lexemes)
  BY <1>1, Places
<1>3. r < k
  BY <1>1, <1>2
<1>4. RunOf(r) = r .. k - 1
  BY <1>1, <1>2, <1>3 DEF RunOf, IsCmd
<1> QED
  BY <1>1, <1>3, <1>4

(* The words up to a token.                                                *)
LEMMA WordCount ==
  ASSUME LexInv, NEW k \in DOMAIN lexemes
  PROVE  /\ Cardinality(WordsOf(1 .. k - 1)) \in Nat
         /\ Tok(k).is = "Word" => Cardinality(WordsOf(1 .. k)) = Cardinality(WordsOf(1 .. k - 1)) + 1
         /\ Tok(k).is # "Word" => WordsOf(1 .. k) = WordsOf(1 .. k - 1)
<1>1. k \in 1 .. Len(lexemes) /\ Len(lexemes) \in Nat
  BY Places
<1>2. IsFiniteSet(1 .. k - 1)
  BY <1>1, FS_Interval
<1>3. IsFiniteSet(WordsOf(1 .. k - 1))
  BY <1>2, FS_Subset DEF WordsOf
<1>4. 1 .. k = (1 .. k - 1) \cup {k} /\ k \notin 1 .. k - 1
  BY <1>1
<1>5. k \notin WordsOf(1 .. k - 1)
  BY <1>4 DEF WordsOf
<1>6. Tok(k).is = "Word" => WordsOf(1 .. k) = WordsOf(1 .. k - 1) \cup {k}
  BY <1>4, Zenon DEF WordsOf
<1>7. Tok(k).is # "Word" => WordsOf(1 .. k) = WordsOf(1 .. k - 1)
  BY <1>4, Zenon DEF WordsOf
<1>8. Cardinality(WordsOf(1 .. k - 1) \cup {k}) = Cardinality(WordsOf(1 .. k - 1)) + 1
  BY <1>3, <1>5, FS_AddElement
<1> QED
  BY <1>3, <1>6, <1>7, <1>8, FS_CardinalityType

(* What may depart at an operator, at a redirect and at a word.            *)
LEMMA DepartsAt ==
  ASSUME LexInv, NEW k \in DOMAIN lexemes, NEW kind, Departs(kind, k)
  PROVE  /\ Tok(k).is = "Op" =>
              \/ kind = "LeadingSeparator" /\ k \in Leading /\ Tok(k).op = "Semi"
              \/ kind = "MissingCommand" /\ k \in Missing /\ Tok(k).op \in Joining
         /\ Tok(k).is = "Redir" => kind = "RedirectOnly" /\ k \in Wordless
         /\ Tok(k).is = "Word" =>
              \/ kind = "TooManyWords" /\ k \in TooMany
              \/ kind = "Assignment" /\ k \in Assigning
              \/ kind = "ReservedWord" /\ k \in Reserving
<1>1. Tok(k).is = "Op" => k \notin TooMany \cup Assigning \cup Reserving \cup Wordless
  BY DEF TooMany, Assigning, Reserving, Wordless, FirstWords, WordsOf, RunStarts, IsCmd
<1>2. Tok(k).is # "Op" => k \notin Leading \cup Missing
  BY DEF Leading, Missing, IsOp
<1>3. Tok(k).is = "Redir" => k \notin TooMany \cup Assigning \cup Reserving
  BY DEF TooMany, Assigning, Reserving, FirstWords, WordsOf
<1>4. Tok(k).is = "Word" => k \notin Wordless
  <2>1. SUFFICES ASSUME Tok(k).is = "Word", k \in Wordless PROVE FALSE
    OBVIOUS
  <2>2. k \in RunStarts /\ IsCmd(k) /\ k \in Int
    BY <2>1, Places DEF Wordless, RunStarts
  <2>3. k \in RunOf(k)
    BY <2>2 DEF RunOf
  <2> QED
    BY <2>1, <2>3 DEF Wordless, WordsOf
<1>5. k \in Leading => Tok(k).op = "Semi"
  BY DEF Leading, IsOp
<1>6. k \in Missing => Tok(k).op \in Joining
  BY DEF Missing, IsOp
<1> QED
  BY <1>1, <1>2, <1>3, <1>4, <1>5, <1>6 DEF Departs

-----------------------------------------------------------------------------
(* Steps of the parser.                                                    *)

(* Behind the token being read nothing departs, but the run it may belong  *)
(* to may have no word yet.                                                *)
LEMMA Behind ==
  ASSUME LexInv, Progress, NEW kind, NEW k, Departs(kind, k), n \in Int, k < n
  PROVE  kind = "RedirectOnly" /\ phase = "In" /\ Reaches(k, n) /\ k \in Wordless
<1>1. k \in DOMAIN lexemes /\ k \in Int
  BY ByPlace, Places
<1>2. k \notin TooMany \cup Assigning \cup Reserving \cup Leading \cup Missing
  BY <1>1 DEF Progress, Passed
<1>3. kind = "RedirectOnly" /\ k \in Wordless
  BY <1>2 DEF Departs
<1> QED
  BY <1>3 DEF Progress

(* A token that departs in no way but as a run without a word is passed.   *)
LEMMA PassesOn ==
  ASSUME LexInv, NEW k \in DOMAIN lexemes, Passed(k),
         \A kind : Departs(kind, k) => kind = "RedirectOnly"
  PROVE  Passed(k + 1)
<1> DEFINE All == TooMany \cup Assigning \cup Reserving \cup Leading \cup Missing
<1>1. \A m \in All : m \in DOMAIN lexemes
  <2>1. \A m \in All : \E kind : Departs(kind, m)
    BY DEF Departs
  <2> QED
    BY <2>1, ByPlace
<1>2. \A m \in All : m \in Int
  BY <1>1, Places
<1>3. k \notin All
  BY DEF Departs
<1>4. \A m \in All : m >= k
  BY DEF Passed
<1>5. k \in Int
  BY Places
<1>6. \A m \in All : m >= k + 1
  <2> HIDE DEF All
  <2> QED
    BY <1>2, <1>3, <1>4, <1>5
<1> QED
  BY <1>6 DEF Passed

(* Progress after a step, of the tokens that it leaves as they are.        *)
Onward ==
  /\ words' = Cardinality(WordsOf(1 .. n' - 1))
  /\ Passed(n')
  /\ \A r \in Wordless : r < n' => phase' = "In" /\ Reaches(r, n')
  /\ phase' = "In" => \E r \in RunStarts : /\ Reaches(r, n') /\ at' = lexemes[r].offset
                                           /\ cmd'.words = <<>> <=> WordsOf(r .. n' - 1) = {}
  /\ phase' # "In" => n' > Len(lexemes) \/ ~IsCmd(n' - 1)
  /\ phase' = "Must" => \E m \in 1 .. n' - 1 : Opens(m, n')
  /\ phase' = "May" => \A m \in 1 .. n' - 1 : ~Opens(m, n')

LEMMA OnwardIs ==
  ASSUME UNCHANGED <<input, lexemes>>, Onward
  PROVE  Progress'
<1>1. Progress' <=>
        /\ words' = Cardinality(WordsOf(1 .. n - 1)')
        /\ Passed(n)'
        /\ \A r \in Wordless' : r < n' => phase' = "In" /\ Reaches(r, n)'
        /\ phase' = "In" => \E r \in RunStarts' : Reading(r)'
        /\ phase' # "In" => n' > Len(lexemes') \/ ~IsCmd(n - 1)'
        /\ phase' = "Must" => \E m \in 1 .. n' - 1 : Opens(m, n)'
        /\ phase' = "May" => \A m \in 1 .. n' - 1 : ~Opens(m, n)'
  BY DEF Progress, AtEof
<1> QED
  BY <1>1, TokensStay DEF Onward, Reading

(* A step that goes on keeps the invariant.                                *)
LEMMA OnwardKeeps ==
  ASSUME ParseInv, Parsing, UNCHANGED lexVars, parsed' = parsed, Onward,
         n' \in 1 .. Len(lexemes) + 1, phase' \in {"May", "Must", "In"},
         conn' \in {"First", "AndIf", "OrIf"}, phase' # "In" => cmd' = NoCmd,
         phase' = "May" => list' = <<>> /\ pipe' = <<>> /\ conn' = "First",
         words' \in Nat, words' <= MaxWords, cmd' \in Cmds
  PROVE  ParseInv'
<1>1. UNCHANGED <<input, lexemes, err, lexed>> /\ lexed /\ err = {} /\ parsed' = FALSE
  BY DEF lexVars, Parsing, ParseInv, NotYet
<1>2. Progress'
  BY <1>1, OnwardIs
<1>3. LexInv'
  BY LexStep DEF ParseInv
<1>4. LexTypeOK'
  BY <1>3 DEF LexInv
<1>5. TypeOK'
  BY <1>1, <1>4 DEF TypeOK
<1>6. FirstProblemIsReported'
  BY <1>1 DEF FirstProblemIsReported
<1> QED
  BY <1>1, <1>2, <1>3, <1>5, <1>6 DEF ParseInv

(* A finding that is the first departure keeps the invariant.              *)
LEMMA RejectKeeps ==
  ASSUME ParseInv, Parsing, NEW kind, NEW offset \in 1 .. Len(input) + 1, Reject(kind, offset),
         Finding(kind, offset) \in GrammarProblems,
         \A p \in GrammarProblems : p = Finding(kind, offset) \/ p.offset > offset
  PROVE  ParseInv'
<1>1. Fail(kind, offset) /\ UNCHANGED parseVars /\ LexInv
  BY DEF Reject, Fail, ParseInv
<1>2. LexInv'
  BY <1>1, FailKeeps
<1>3. /\ lexed' = TRUE /\ parsed' = FALSE /\ err' = {Finding(kind, offset)}
      /\ UNCHANGED <<input, lexemes>>
  BY <1>1 DEF Fail, Parsing, parseVars, Finding, ParseInv, NotYet
<1>4. LexTypeOK'
  BY <1>2 DEF LexInv
<1>5. TypeOK'
  BY <1>1, <1>3, <1>4 DEF TypeOK, parseVars, ParseInv
<1>6. GrammarProblems' = GrammarProblems
  BY <1>3, TokensStay
<1>7. Finding(kind, offset).offset = offset
  BY DEF Finding
<1>8. FirstProblemIsReported'
  BY <1>3, <1>6, <1>7 DEF FirstProblemIsReported
<1> QED
  BY <1>1, <1>2, <1>3, <1>5, <1>8 DEF ParseInv, parseVars, NotYet

(* Rejecting at the first token that departs.                              *)
LEMMA RejectAtFirst ==
  ASSUME ParseInv, Parsing, NEW kind, NEW m, Departs(kind, m), Reject(kind, lexemes[m].offset),
         \A d, k : Departs(d, k) /\ k <= m => d = kind /\ k = m
  PROVE  ParseInv'
<1>1. LexInv
  BY DEF ParseInv
<1>2. m \in DOMAIN lexemes
  BY ByPlace
<1>3. lexemes[m].offset \in 1 .. Len(input) + 1
  BY <1>1, <1>2, Places
<1>4. Finding(kind, lexemes[m].offset).offset = lexemes[m].offset
  BY DEF Finding
<1>5. /\ Finding(kind, lexemes[m].offset) \in GrammarProblems
      /\ \A p \in GrammarProblems :
           p = Finding(kind, lexemes[m].offset) \/ p.offset > lexemes[m].offset
  BY <1>1, <1>4, FirstDeparture
<1> QED
  BY <1>3, <1>5, RejectKeeps

(* Nothing is known before the first token.                                *)
LEMMA BeforeAll == LexInv /\ NotYet => Progress
<1>1. SUFFICES ASSUME LexInv, n = 1, phase = "May", words = 0 PROVE Progress
  BY DEF NotYet
<1>2. WordsOf(1 .. n - 1) = {} /\ DOMAIN lexemes = 1 .. Len(lexemes)
  BY <1>1, Places DEF WordsOf
<1>3. Cardinality(WordsOf(1 .. n - 1)) = 0
  BY <1>2, FS_EmptySet
<1>4. Passed(n)
  <2>1. \A m \in TooMany \cup Assigning \cup Reserving \cup Leading \cup Missing : m \in DOMAIN lexemes
    BY ByPlace, Zenon DEF Departs
  <2> QED
    BY <1>1, <1>2, <2>1 DEF Passed
<1>5. \A r \in Wordless : ~(r < n)
  BY <1>1, <1>2 DEF Wordless, RunStarts
<1>6. ~IsCmd(n - 1)
  BY <1>1, <1>2 DEF IsCmd
<1> QED
  BY <1>1, <1>3, <1>4, <1>5, <1>6 DEF Progress

(* What the invariant says while the tokens are read.                      *)
LEMMA WhileParsing ==
  ASSUME ParseInv, Parsing
  PROVE  /\ LexInv /\ Progress /\ n \in 1 .. Len(lexemes) + 1 /\ n \in Nat /\ words \in Nat
         /\ DOMAIN lexemes = 1 .. Len(lexemes) /\ Len(lexemes) \in Nat
         /\ phase \in {"May", "Must", "In"} /\ cmd \in Cmds /\ words <= MaxWords /\ MaxWords \in Nat
         /\ conn \in {"First", "AndIf", "OrIf"}
         /\ phase # "In" => cmd = NoCmd
         /\ phase = "May" => list = <<>> /\ pipe = <<>> /\ conn = "First"
         /\ ~AtEof => n \in DOMAIN lexemes /\ Current = Tok(n) /\ Tok(n) \in Token
         /\ AtEof => n = Len(lexemes) + 1 /\ ~IsCmd(n)
         /\ AtOp <=> ~AtEof /\ Tok(n).is = "Op"
         /\ ~AtEof /\ ~AtOp => IsCmd(n)
<1>1. LexInv /\ Progress /\ n \in 1 .. Len(lexemes) + 1 /\ DOMAIN lexemes = 1 .. Len(lexemes)
      /\ Len(lexemes) \in Nat
  BY Places, BeforeAll DEF ParseInv, Parsing, TypeOK
<1>2. phase \in {"May", "Must", "In"} /\ cmd \in Cmds /\ words <= MaxWords /\ MaxWords \in Nat
         /\ conn \in {"First", "AndIf", "OrIf"} /\ words \in Nat
         /\ (phase # "In" => cmd = NoCmd)
         /\ (phase = "May" => list = <<>> /\ pipe = <<>> /\ conn = "First")
  BY WordsAssumption DEF ParseInv, TypeOK
<1>3. ~AtEof => n \in DOMAIN lexemes
  BY <1>1 DEF AtEof
<1>4. AtEof => n = Len(lexemes) + 1 /\ n \notin DOMAIN lexemes
  BY <1>1 DEF AtEof
<1>5. Current = Tok(n)
  BY DEF Current, Tok
<1>6. ~AtEof => Tok(n) \in Token
  BY <1>1, <1>3, Places
<1> QED
  BY <1>1, <1>2, <1>3, <1>4, <1>5, <1>6 DEF AtOp, IsCmd

(* A newline where a command may start is passed.                          *)
LEMMA NewlineKeeps == ParseInv /\ SkipNewline => ParseInv'
<1>1. SUFFICES ASSUME ParseInv, Parsing, SkipNewline PROVE ParseInv'
  BY DEF SkipNewline
<1>2. /\ phase # "In" /\ ~AtEof /\ n \in DOMAIN lexemes /\ Tok(n).is = "Op" /\ Tok(n).op = "Newline"
      /\ n' = n + 1 /\ UNCHANGED <<lexVars, phase, at, cmd, pipe, conn, list, script, words, parsed>>
  BY <1>1, WhileParsing DEF SkipNewline, AtOp
<1>3. n \in Nat /\ n + 1 \in 1 .. Len(lexemes) + 1 /\ (n + 1) - 1 = n
  BY <1>1, <1>2, WhileParsing
<1>4. words' = Cardinality(WordsOf(1 .. n' - 1))
  BY <1>1, <1>2, <1>3, WhileParsing, WordCount DEF Progress
<1>5. \A kind : ~Departs(kind, n)
  BY <1>1, <1>2, WhileParsing, DepartsAt DEF Joining
<1>6. Passed(n')
  BY <1>1, <1>2, <1>5, WhileParsing, PassesOn DEF Progress
<1>7. \A r \in Wordless : ~(r < n')
  <2>1. \A r \in Wordless : ~(r < n) /\ r # n /\ r \in Int
    BY <1>1, <1>2, <1>5, WhileParsing DEF Progress, Departs, Wordless, RunStarts
  <2> QED
    BY <1>2, <1>3, <2>1
<1>8. ~IsCmd(n)
  BY <1>2 DEF IsCmd
<1>9. IsOp(n, {"Newline"}) /\ ~IsOp(n, Joining)
  BY <1>2 DEF IsOp, Joining
<1>10. phase' = "Must" => \E m \in 1 .. n' - 1 : Opens(m, n')
  <2>1. SUFFICES ASSUME phase = "Must" PROVE \E m \in 1 .. n : Opens(m, n + 1)
    BY <1>2, <1>3
  <2>2. PICK m \in 1 .. n - 1 : Opens(m, n)
    BY <1>1, <2>1, WhileParsing DEF Progress
  <2>3. Opens(m, n + 1)
    BY <1>3, <1>9, <2>2 DEF Opens
  <2> QED
    BY <1>3, <2>2, <2>3
<1>11. phase' = "May" => \A m \in 1 .. n' - 1 : ~Opens(m, n')
  <2>1. SUFFICES ASSUME phase = "May", NEW m \in 1 .. n, Opens(m, n + 1) PROVE FALSE
    BY <1>2, <1>3
  <2>2. m # n
    BY <1>9, <2>1 DEF Opens
  <2>3. m \in 1 .. n - 1 /\ Opens(m, n)
    BY <1>3, <2>1, <2>2 DEF Opens
  <2> QED
    BY <1>1, <2>1, <2>3, WhileParsing DEF Progress
<1>12. Onward
  BY <1>2, <1>3, <1>4, <1>6, <1>7, <1>8, <1>10, <1>11 DEF Onward
<1> QED
  BY <1>1, <1>2, <1>3, <1>12, WhileParsing, OnwardKeeps

(* A word or a redirect starts a command.                                  *)
LEMMA StartKeeps == ParseInv /\ StartCommand => ParseInv'
<1>1. SUFFICES ASSUME ParseInv, Parsing, StartCommand PROVE ParseInv'
  BY DEF StartCommand
<1>2. /\ phase # "In" /\ ~AtEof /\ n \in DOMAIN lexemes /\ IsCmd(n) /\ phase' = "In"
      /\ at' = lexemes[n].offset
      /\ UNCHANGED <<lexVars, n, cmd, pipe, conn, list, script, words, parsed>>
  BY <1>1, WhileParsing DEF StartCommand
<1>3. n \in Nat /\ LexInv /\ Progress /\ cmd = NoCmd
  BY <1>1, <1>2, WhileParsing
<1>4. n \in RunStarts
  BY <1>2, <1>3 DEF Progress, RunStarts
<1>5. Reaches(n, n) /\ WordsOf(n .. n - 1) = {} /\ cmd.words = <<>>
  BY <1>3, <1>4 DEF Reaches, WordsOf, NoCmd
<1>6. \A r \in Wordless : ~(r < n)
  BY <1>2, <1>3 DEF Progress
<1>7. Onward
  BY <1>2, <1>3, <1>4, <1>5, <1>6 DEF Onward, Progress
<1> QED
  BY <1>1, <1>2, <1>7, WhileParsing, OnwardKeeps

(* A separator or another operator where a command must start.             *)
LEMMA MissingKeeps == ParseInv /\ MissingCommand => ParseInv'
<1>1. SUFFICES ASSUME ParseInv, Parsing, MissingCommand PROVE ParseInv'
  BY DEF MissingCommand
<1>2. phase # "In" /\ n \in Nat /\ LexInv /\ Progress
  BY <1>1, WhileParsing DEF MissingCommand
<1>3. \A d, k : Departs(d, k) => k \in DOMAIN lexemes /\ ~(k < n) /\ k \in Nat
  BY <1>2, ByPlace, Places, Behind
<1>4. CASE phase = "Must" /\ AtEof /\ Reject("MissingCommand", Eof)
  <2>1. n = Len(lexemes) + 1 /\ \A d, k : ~Departs(d, k)
    BY <1>1, <1>3, <1>4, WhileParsing
  <2>2. OpenEnds # {}
    <3>1. PICK m \in 1 .. n - 1 : Opens(m, n)
      BY <1>2, <1>4 DEF Progress
    <3> QED
      BY <1>2, <2>1, <3>1, Places DEF OpenEnds
  <2>3. /\ Finding("MissingCommand", Eof) \in GrammarProblems
        /\ \A p \in GrammarProblems : p = Finding("MissingCommand", Eof)
    BY <2>1, <2>2, ByPlace
  <2>4. Eof \in 1 .. Len(input) + 1
    BY <1>2, Places DEF Eof
  <2> QED
    BY <1>1, <1>4, <2>3, <2>4, RejectKeeps
<1>5. ASSUME NEW kind, AtOp, Departs(kind, n), Reject(kind, lexemes[n].offset)
      PROVE  ParseInv'
  <2>1. n \in DOMAIN lexemes /\ Tok(n).is = "Op"
    BY <1>1, <1>5, WhileParsing
  <2>2. \A d : Departs(d, n) => d = kind
    BY <1>2, <1>5, <2>1, DepartsAt DEF Joining
  <2>3. \A d, k : Departs(d, k) /\ k <= n => d = kind /\ k = n
    BY <1>2, <1>3, <2>2
  <2> QED
    BY <1>1, <1>5, <2>3, RejectAtFirst
<1>6. AtOp => n \in DOMAIN lexemes /\ ~IsCmd(n - 1) /\ Tok(n).is = "Op" /\ Current = Tok(n)
              /\ Tok(n).op \in {"Semi", "Newline", "AndIf", "OrIf", "Pipe"}
  BY <1>1, <1>2, WhileParsing, Tokens DEF Progress
<1>7. CASE AtOp /\ Current.op = "Semi" /\ Reject("LeadingSeparator", lexemes[n].offset)
  <2>1. Departs("LeadingSeparator", n)
    BY <1>6, <1>7 DEF Departs, Leading, IsOp
  <2> QED
    BY <1>5, <1>7, <2>1
<1>8. CASE AtOp /\ Current.op \notin {"Semi", "Newline"} /\ Reject("MissingCommand", lexemes[n].offset)
  <2>1. Departs("MissingCommand", n)
    BY <1>6, <1>8 DEF Departs, Missing, IsOp, Joining
  <2> QED
    BY <1>5, <1>8, <2>1
<1> QED
  BY <1>1, <1>4, <1>7, <1>8 DEF MissingCommand

(* The run being read.                                                     *)
LEMMA InRun ==
  ASSUME ParseInv, Parsing, phase = "In"
  PROVE  \E r \in RunStarts : /\ Reading(r) /\ Reaches(r, n) /\ r \in Int /\ r <= n
                              /\ \A q : Reaches(q, n) => q = r
<1>1. LexInv /\ n \in Int /\ Progress
  BY WhileParsing
<1>2. PICK r \in RunStarts : Reading(r)
  BY <1>1 DEF Progress
<1>3. Reaches(r, n) /\ r <= n
  BY <1>2 DEF Reading, Reaches
<1>4. r \in Int
  BY <1>1, <1>2, Places DEF RunStarts
<1>5. \A q : Reaches(q, n) => q = r
  BY <1>1, <1>3, OneRun
<1> QED
  BY <1>2, <1>3, <1>4, <1>5

(* What a word is for the grammar and for the parser.                      *)
LEMMA WordDeparts ==
  ASSUME ParseInv, Parsing, phase = "In", ~AtEof, Current.is = "Word"
  PROVE  /\ words >= MaxWords <=> Departs("TooManyWords", n)
         /\ words < MaxWords =>
              /\ cmd.words = <<>> /\ NameProblem(Current.parts) # "No"
                   => Departs(NameProblem(Current.parts), n)
              /\ \A kind : Departs(kind, n)
                   => kind = NameProblem(Current.parts) /\ kind # "No" /\ cmd.words = <<>>
         /\ words >= MaxWords => \A kind : Departs(kind, n) => kind = "TooManyWords"
<1>1. /\ n \in DOMAIN lexemes /\ LexInv /\ n \in Nat /\ Tok(n).is = "Word" /\ Current = Tok(n)
      /\ Progress /\ words \in Nat /\ MaxWords \in Nat /\ IsCmd(n) /\ Tok(n) \in Token
  BY WhileParsing DEF IsCmd
<1>2. PICK r \in RunStarts : /\ Reading(r) /\ Reaches(r, n) /\ r \in Int /\ r <= n
                             /\ \A q : Reaches(q, n) => q = r
  BY InRun
<1>3. WithinCap(n) <=> words < MaxWords
  BY <1>1, WordCount DEF WithinCap, Progress
<1>4. n \in WordsOf(DOMAIN lexemes)
  BY <1>1 DEF WordsOf
<1>5. n \in TooMany <=> words >= MaxWords
  BY <1>1, <1>3, <1>4 DEF TooMany
<1>6. n \in RunOf(r) /\ r .. n \subseteq RunOf(r)
  BY <1>1, <1>2, RunHas
<1>7. n \in FirstWords <=> cmd.words = <<>>
  <2>1. ASSUME cmd.words = <<>> PROVE n \in FirstWords
    <3>1. WordsOf(r .. n - 1) = {}
      BY <1>2, <2>1 DEF Reading
    <3> QED
      BY <1>2, <1>4, <1>6, <3>1 DEF FirstWords, WordsOf
  <2>2. ASSUME n \in FirstWords PROVE cmd.words = <<>>
    <3>1. PICK q \in RunStarts : n \in RunOf(q) /\ \A l \in q .. n - 1 : Tok(l).is # "Word"
      BY <2>2 DEF FirstWords
    <3>2. Reaches(q, n)
      <4>1. q <= n /\ \A l \in q .. n : IsCmd(l)
        BY <3>1 DEF RunOf
      <4>2. q \in Int
        BY <1>1, Places DEF RunStarts
      <4> QED
        BY <1>1, <4>1, <4>2 DEF Reaches
    <3>3. q = r
      BY <1>2, <3>2
    <3> QED
      BY <1>2, <3>1, <3>3 DEF Reading, WordsOf
  <2> QED
    BY <2>1, <2>2
<1> DEFINE ps == Current.parts
<1>8. ps \in Parts \ {<<>>} /\ ps = Tok(n).parts
  BY <1>1, Tokens
<1>9. ps[1] \in Part /\ Len(ps) \in Nat /\ ps \in Seq(Part)
  BY <1>8 DEF Parts
<1>10. /\ NameProblem(ps) = "Assignment" <=> Unquoted(ps[1]) /\ StartsWithAssignment(ps[1].bytes)
       /\ NameProblem(ps) = "ReservedWord" <=> /\ Unquoted(ps[1]) /\ ~StartsWithAssignment(ps[1].bytes)
                                               /\ Len(ps) = 1 /\ ps[1].bytes \in Reserved
       /\ NameProblem(ps) \in {"No", "Assignment", "ReservedWord"}
  BY DEF NameProblem
<1>11. ps \in {<<Lit(w, FALSE)>> : w \in Reserved}
         <=> Unquoted(ps[1]) /\ Len(ps) = 1 /\ ps[1].bytes \in Reserved
  <2>1. ASSUME NEW w \in Reserved, ps = <<Lit(w, FALSE)>>
        PROVE  Unquoted(ps[1]) /\ Len(ps) = 1 /\ ps[1].bytes \in Reserved
    BY <2>1 DEF Lit, Unquoted
  <2>2. ASSUME Unquoted(ps[1]), Len(ps) = 1, ps[1].bytes \in Reserved
        PROVE  ps = <<Lit(ps[1].bytes, FALSE)>>
    <3>1. ps[1] = Lit(ps[1].bytes, FALSE)
      <4> HIDE DEF ps
      <4> QED
        BY <1>9, <2>2 DEF Lit, Unquoted, Part
    <3>2. ps = <<ps[1]>>
      <4> HIDE DEF ps
      <4> QED
        BY <1>9, <2>2
    <3> QED
      BY <3>1, <3>2
  <2> QED
    BY <2>1, <2>2
<1>12. Unquoted(ps[1]) /\ Len(ps) = 1 /\ ps[1].bytes \in Reserved => ~StartsWithAssignment(ps[1].bytes)
  BY WordsAssumption
<1>13. n \in Assigning <=> words < MaxWords /\ cmd.words = <<>> /\ NameProblem(ps) = "Assignment"
  BY <1>3, <1>7, <1>8, <1>10 DEF Assigning
<1>14. n \in Reserving <=> words < MaxWords /\ cmd.words = <<>> /\ NameProblem(ps) = "ReservedWord"
  BY <1>3, <1>7, <1>8, <1>10, <1>11, <1>12 DEF Reserving
<1>15. \A kind : Departs(kind, n) <=>
         \/ kind = "TooManyWords" /\ n \in TooMany
         \/ kind = "Assignment" /\ n \in Assigning
         \/ kind = "ReservedWord" /\ n \in Reserving
  BY <1>1, DepartsAt DEF Departs
<1> HIDE DEF ps
<1>16. \A kind : Departs(kind, n) <=>
         \/ kind = "TooManyWords" /\ words >= MaxWords
         \/ /\ words < MaxWords /\ cmd.words = <<>> /\ kind = NameProblem(ps)
            /\ kind \in {"Assignment", "ReservedWord"}
  BY <1>5, <1>10, <1>13, <1>14, <1>15
<1>17. words >= MaxWords <=> ~(words < MaxWords)
  BY <1>1
<1> QED
  BY <1>10, <1>16, <1>17 DEF ps

(* Converting keeps the type.                                              *)
LEMMA Converted ==
  ASSUME NEW ps \in Seq(Part)
  PROVE  ConvertWord(ps) \in Word
<1> DEFINE R == [opaque: {"No", "Var", "Tilde"}, bytes: Seq(Byte)]
<1>1. \A part \in Part : ConvertPart(part) \in R
  BY DEF ConvertPart, Part
<1>2. DOMAIN ps = 1 .. Len(ps) /\ Len(ps) \in Nat /\ \A m \in 1 .. Len(ps) : ps[m] \in Part
  OBVIOUS
<1> HIDE DEF R
<1>3. ConvertWord(ps) \in [1 .. Len(ps) -> R]
  BY <1>1, <1>2 DEF ConvertWord
<1>4. ConvertWord(ps) \in Seq(R)
  BY <1>2, <1>3
<1> QED
  BY <1>4 DEF R, Word

(* A word is taken, or is the first departure.                             *)
LEMMA WordKeeps == ParseInv /\ ReadWord => ParseInv'
<1>1. SUFFICES ASSUME ParseInv, Parsing, phase = "In", ~AtEof, Current.is = "Word", ReadWord
               PROVE  ParseInv'
  BY DEF ReadWord
<1>2. /\ n \in DOMAIN lexemes /\ LexInv /\ n \in Nat /\ Tok(n).is = "Word" /\ Current = Tok(n)
      /\ Progress /\ words \in Nat /\ MaxWords \in Nat /\ IsCmd(n) /\ Tok(n) \in Token
      /\ n + 1 \in 1 .. Len(lexemes) + 1
  BY <1>1, WhileParsing DEF IsCmd
<1>3. PICK r \in RunStarts : /\ Reading(r) /\ Reaches(r, n) /\ r \in Int /\ r <= n
                             /\ \A q : Reaches(q, n) => q = r
  BY <1>1, InRun
<1>4. r .. n \subseteq RunOf(r) /\ Reaches(r, n + 1)
  BY <1>2, <1>3, RunHas
<1>5. r \notin Wordless /\ n \notin Wordless
  <2>1. n \in WordsOf(RunOf(r))
    BY <1>2, <1>3, <1>4 DEF WordsOf
  <2>2. ~Departs("RedirectOnly", n)
    BY <1>2, DepartsAt
  <2> QED
    BY <2>1, <2>2 DEF Wordless, Departs
<1>6. \A d, k : Departs(d, k) => k \in DOMAIN lexemes /\ k \in Int /\ ~(k < n)
  BY <1>2, <1>3, <1>5, Behind, ByPlace, Places
<1>7. ASSUME NEW kind, Departs(kind, n), \A d : Departs(d, n) => d = kind, Reject(kind, lexemes[n].offset)
      PROVE  ParseInv'
  <2>1. \A d, k : Departs(d, k) /\ k <= n => d = kind /\ k = n
    BY <1>2, <1>6, <1>7
  <2> QED
    BY <1>1, <1>7, <2>1, RejectAtFirst
<1> DEFINE problem == IF cmd.words = <<>> THEN NameProblem(Current.parts) ELSE "No"
<1>8. CASE words >= MaxWords
  <2>1. Reject("TooManyWords", lexemes[n].offset)
    BY <1>1, <1>8 DEF ReadWord
  <2> QED
    BY <1>1, <1>7, <1>8, <2>1, WordDeparts
<1>9. CASE ~(words >= MaxWords) /\ problem # "No"
  <2>1. Reject(problem, lexemes[n].offset)
    BY <1>1, <1>9 DEF ReadWord
  <2>2. words < MaxWords /\ cmd.words = <<>> /\ problem = NameProblem(Current.parts)
    BY <1>2, <1>9
  <2> HIDE DEF problem
  <2> QED
    BY <1>1, <1>7, <1>9, <2>1, <2>2, WordDeparts
<1>10. CASE ~(words >= MaxWords) /\ problem = "No"
  <2>1. TakeWord
    BY <1>1, <1>10 DEF ReadWord
  <2>2. words < MaxWords /\ words + 1 <= MaxWords
    BY <1>2, <1>10
  <2>3. \A kind : ~Departs(kind, n)
    BY <1>1, <1>10, <2>2, WordDeparts
  <2>4. /\ words' = words + 1 /\ n' = n + 1 /\ cmd' = [cmd EXCEPT !.words = Append(@, ConvertWord(Current.parts))]
        /\ UNCHANGED <<lexVars, phase, at, pipe, conn, list, script, parsed>>
    BY <2>1 DEF TakeWord
  <2>5. cmd \in Cmds /\ cmd.words \in Seq(Word) /\ ConvertWord(Current.parts) \in Word
    <3>1. Current.parts \in Seq(Part)
      BY <1>2, Tokens DEF Parts
    <3>3. ConvertWord(Current.parts) \in Word
      BY <3>1, Converted
    <3> QED
      BY <1>1, <3>3, WhileParsing DEF Cmds
  <2>6. cmd' \in Cmds /\ cmd'.words # <<>>
    <3> DEFINE w == ConvertWord(Current.parts)
    <3>1. w \in Word /\ cmd' = [cmd EXCEPT !.words = Append(cmd.words, w)]
      BY <2>4, <2>5
    <3> HIDE DEF w
    <3>2. Append(cmd.words, w) \in Seq(Word) /\ Append(cmd.words, w) # <<>>
      BY <2>5, <3>1
    <3> QED
      BY <2>5, <3>1, <3>2 DEF Cmds
  <2>7. words' = Cardinality(WordsOf(1 .. n' - 1))
    BY <1>2, <2>4, WordCount DEF Progress
  <2>8. Passed(n')
    BY <1>2, <2>3, <2>4, PassesOn DEF Progress
  <2>9. \A q \in Wordless : ~(q < n')
    <3>1. \A q \in Wordless : q \in Int /\ ~(q < n) /\ q # n
      BY <1>5, <1>6 DEF Departs
    <3> QED
      BY <1>2, <2>4, <3>1
  <2>10. WordsOf(r .. n' - 1) # {}
    BY <1>2, <1>3, <2>4 DEF WordsOf
  <2>11. Reaches(r, n') /\ at' = lexemes[r].offset
    BY <1>3, <1>4, <2>4 DEF Reading
  <2>12. Onward
    BY <1>1, <1>3, <2>4, <2>6, <2>7, <2>8, <2>9, <2>10, <2>11 DEF Onward
  <2> QED
    BY <1>1, <1>2, <2>2, <2>4, <2>6, <2>12, WhileParsing, OnwardKeeps
<1> QED
  BY <1>8, <1>9, <1>10

(* A redirect is taken.                                                    *)
LEMMA RedirKeeps == ParseInv /\ ReadRedir => ParseInv'
<1>1. SUFFICES ASSUME ParseInv, Parsing, phase = "In", ~AtEof, Current.is = "Redir", ReadRedir
               PROVE  ParseInv'
  BY DEF ReadRedir
<1>2. /\ n \in DOMAIN lexemes /\ LexInv /\ n \in Nat /\ Tok(n).is = "Redir" /\ Current = Tok(n)
      /\ Progress /\ words \in Nat /\ IsCmd(n) /\ Tok(n) \in Token /\ n + 1 \in 1 .. Len(lexemes) + 1
  BY <1>1, WhileParsing DEF IsCmd
<1>3. PICK r \in RunStarts : /\ Reading(r) /\ Reaches(r, n) /\ r \in Int /\ r <= n
                             /\ \A q : Reaches(q, n) => q = r
  BY <1>1, InRun
<1>4. Reaches(r, n + 1)
  BY <1>2, <1>3, RunHas
<1>5. /\ n' = n + 1 /\ cmd' = [cmd EXCEPT !.redirs = Append(@, Current.redir)]
      /\ UNCHANGED <<lexVars, phase, at, pipe, conn, list, script, words, parsed>>
  BY <1>1 DEF ReadRedir
<1>6. cmd' \in Cmds /\ cmd'.words = cmd.words
  <2>1. cmd \in Cmds /\ Current.redir \in Redirs
    BY <1>1, <1>2, WhileParsing, Tokens
  <2>2. cmd.redirs \in Seq(Redirs)
    BY <2>1 DEF Cmds
  <2>3. Append(cmd.redirs, Current.redir) \in Seq(Redirs)
    BY <2>1, <2>2
  <2> QED
    BY <1>5, <2>1, <2>3 DEF Cmds
<1>7. words' = Cardinality(WordsOf(1 .. n' - 1))
  BY <1>2, <1>5, WordCount DEF Progress
<1>8. Passed(n')
  BY <1>2, <1>5, DepartsAt, PassesOn DEF Progress
<1>9. \A q \in Wordless : q < n' => Reaches(q, n')
  <2>1. SUFFICES ASSUME NEW q \in Wordless, q < n' PROVE Reaches(q, n + 1)
    BY <1>5
  <2>2. q \in RunStarts /\ q \in Int
    BY <1>2, Places DEF Wordless, RunStarts
  <2>3. CASE q < n
    BY <1>2, <1>3, <1>4, <2>3 DEF Progress
  <2>4. CASE q = n
    BY <1>2, <2>2, <2>4 DEF Reaches
  <2> QED
    BY <1>2, <1>5, <2>1, <2>2, <2>3, <2>4
<1>10. WordsOf(r .. n' - 1) = WordsOf(r .. n - 1)
  <2>1. r .. n' - 1 = (r .. n - 1) \cup {n}
    BY <1>2, <1>3, <1>5
  <2> QED
    BY <1>2, <2>1, Zenon DEF WordsOf
<1>11. Reaches(r, n') /\ at' = lexemes[r].offset /\ (cmd'.words = <<>> <=> WordsOf(r .. n' - 1) = {})
  BY <1>3, <1>4, <1>5, <1>6, <1>10 DEF Reading
<1>12. Onward
  BY <1>1, <1>3, <1>5, <1>7, <1>8, <1>9, <1>11 DEF Onward
<1> QED
  BY <1>1, <1>2, <1>5, <1>6, <1>12, WhileParsing, OnwardKeeps

(* A run that ends without a word is the first departure.                  *)
LEMMA RedirectOnlyKeeps == ParseInv /\ RedirectOnly => ParseInv'
<1>1. SUFFICES ASSUME ParseInv, Parsing, phase = "In", AtEof \/ AtOp, cmd.words = <<>>,
                      Reject("RedirectOnly", at)
               PROVE  ParseInv'
  BY DEF RedirectOnly
<1>2. LexInv /\ n \in Nat /\ Progress /\ ~IsCmd(n)
  BY <1>1, WhileParsing DEF IsCmd
<1>3. PICK r \in RunStarts : /\ Reading(r) /\ Reaches(r, n) /\ r \in Int /\ r <= n
                             /\ \A q : Reaches(q, n) => q = r
  BY <1>1, InRun
<1>4. RunOf(r) = r .. n - 1 /\ r < n
  BY <1>2, <1>3, RunIs
<1>5. Departs("RedirectOnly", r) /\ at = lexemes[r].offset
  BY <1>1, <1>3, <1>4 DEF Reading, Departs, Wordless
<1>6. ASSUME NEW d, NEW k, Departs(d, k), k <= r PROVE d = "RedirectOnly" /\ k = r
  <2>1. k \in Int
    BY <1>2, <1>6, ByPlace, Places
  <2>2. k < n
    BY <1>2, <1>3, <1>4, <1>6, <2>1
  <2> QED
    BY <1>2, <1>3, <1>6, <2>2, Behind
<1> QED
  BY <1>1, <1>5, <1>6, RejectAtFirst

(* What an operator, or the end, finds when a command ends at it.          *)
LEMMA AtEndOfCommand ==
  ASSUME ParseInv, Parsing, phase = "In", cmd.words # <<>>, AtEof \/ AtOp
  PROVE  /\ IsCmd(n - 1) /\ n - 1 \in DOMAIN lexemes /\ \A d, k : Departs(d, k) => ~(k <= n)
         /\ \A m \in 1 .. n - 1 : ~Opens(m, n) /\ ~Opens(m, n + 1)
<1>1. LexInv /\ n \in Nat /\ Progress /\ ~IsCmd(n) /\ DOMAIN lexemes = 1 .. Len(lexemes)
  BY WhileParsing DEF IsCmd
<1>2. PICK r \in RunStarts : /\ Reading(r) /\ Reaches(r, n) /\ r \in Int /\ r <= n
                             /\ \A q : Reaches(q, n) => q = r
  BY InRun
<1>3. RunOf(r) = r .. n - 1 /\ r < n
  BY <1>1, <1>2, RunIs
<1>4. IsCmd(n - 1) /\ n - 1 \in DOMAIN lexemes
  BY <1>1, <1>2, <1>3 DEF Reaches, IsCmd
<1>5. r \notin Wordless
  BY <1>2, <1>3 DEF Reading, Wordless
<1>6. \A d, k : Departs(d, k) => ~(k < n)
  BY <1>1, <1>2, <1>5, Behind
<1>7. \A d : ~Departs(d, n)
  <2>1. SUFFICES ASSUME NEW d, Departs(d, n) PROVE FALSE
    OBVIOUS
  <2>2. n \in DOMAIN lexemes /\ Tok(n).is = "Op"
    BY <1>1, <2>1, ByPlace DEF IsCmd
  <2>3. n \in Leading \/ n \in Missing
    BY <1>1, <2>1, <2>2, DepartsAt
  <2> QED
    BY <1>4, <2>3 DEF Leading, Missing
<1>8. \A d, k : Departs(d, k) => ~(k <= n)
  <2>1. \A d, k : Departs(d, k) => k \in Int
    BY <1>1, ByPlace, Places
  <2> QED
    BY <1>1, <1>6, <1>7, <2>1
<1>9. ASSUME NEW m \in 1 .. n - 1, NEW k \in {n, n + 1} PROVE ~Opens(m, k)
  <2>1. SUFFICES ASSUME Opens(m, k) PROVE FALSE
    OBVIOUS
  <2>2. ~IsOp(n - 1, Joining) /\ ~IsOp(n - 1, {"Newline"})
    BY <1>4 DEF IsOp, IsCmd
  <2>3. m # n - 1
    BY <2>1, <2>2 DEF Opens
  <2>4. n - 1 \in m + 1 .. k - 1
    BY <1>1, <2>3
  <2> QED
    BY <2>1, <2>2, <2>4 DEF Opens
<1> QED
  BY <1>4, <1>8, <1>9

(* A command ends and what follows it is passed.                           *)
LEMMA CommandEnds ==
  ASSUME ParseInv, Parsing, EndCommand, AtEof \/ AtOp, phase' \in {"May", "Must"},
         n' = IF AtEof THEN n ELSE n + 1, AtEof => phase' = "May",
         AtOp => (phase' = "Must" <=> Current.op \in Joining),
         conn' \in {"First", "AndIf", "OrIf"},
         phase' = "May" => list' = <<>> /\ pipe' = <<>> /\ conn' = "First"
  PROVE  ParseInv'
<1>1. phase = "In" /\ cmd.words # <<>> /\ cmd' = NoCmd /\ UNCHANGED <<lexVars, at, words, parsed>>
  BY DEF EndCommand
<1>2. /\ LexInv /\ n \in Nat /\ Progress /\ n \in 1 .. Len(lexemes) + 1 /\ ~IsCmd(n)
      /\ DOMAIN lexemes = 1 .. Len(lexemes) /\ Len(lexemes) \in Nat
  BY WhileParsing DEF IsCmd
<1>3. /\ IsCmd(n - 1) /\ n - 1 \in DOMAIN lexemes /\ \A d, k : Departs(d, k) => ~(k <= n)
      /\ \A m \in 1 .. n - 1 : ~Opens(m, n) /\ ~Opens(m, n + 1)
  BY <1>1, AtEndOfCommand
<1>4. cmd' \in Cmds
  BY <1>1 DEF NoCmd, Cmds
<1>5. \A q \in Wordless : ~(q < n')
  <2>1. \A q \in Wordless : ~(q <= n) /\ q \in Int
    <3>1. Wordless \subseteq DOMAIN lexemes
      BY DEF Wordless, RunStarts
    <3>2. \A q \in Wordless : Departs("RedirectOnly", q)
      BY DEF Departs
    <3> QED
      BY <1>2, <1>3, <3>1, <3>2
  <2> QED
    BY <1>2, <2>1
<1>6. CASE AtEof
  <2>1. n' = n /\ n > Len(lexemes) /\ phase' = "May"
    BY <1>2, <1>6 DEF AtEof
  <2>2. Onward
    BY <1>1, <1>2, <1>3, <1>5, <2>1 DEF Onward, Progress
  <2> QED
    BY <1>1, <1>2, <1>4, <2>1, <2>2, WhileParsing, OnwardKeeps
<1>7. CASE AtOp
  <2>1. ~AtEof /\ n' = n + 1 /\ n \in DOMAIN lexemes /\ Current = Tok(n) /\ Tok(n).is = "Op"
        /\ n + 1 \in 1 .. Len(lexemes) + 1 /\ (n + 1) - 1 = n
    BY <1>2, <1>7, WhileParsing
  <2>2. words' = Cardinality(WordsOf(1 .. n' - 1))
    BY <1>1, <1>2, <2>1, WordCount DEF Progress
  <2>3. \A kind : ~Departs(kind, n)
    BY <1>2, <1>3
  <2>4. Passed(n')
    BY <1>2, <2>1, <2>3, PassesOn DEF Progress
  <2>5. phase' = "Must" => Opens(n, n + 1)
    BY <1>2, <1>7, <2>1 DEF Opens, IsOp
  <2>6. phase' = "May" => \A m \in 1 .. n : ~Opens(m, n + 1)
    <3>1. phase' = "May" => ~Opens(n, n + 1)
      BY <1>7, <2>1 DEF Opens, IsOp
    <3>2. \A m \in 1 .. n : m \in 1 .. n - 1 \/ m = n
      BY <1>2
    <3> QED
      BY <1>3, <3>1, <3>2
  <2>7. n \in 1 .. n
    BY <1>2, <2>1
  <2>8. phase' # "In"
    OBVIOUS
  <2>9. Onward
    BY <1>2, <1>5, <2>1, <2>2, <2>4, <2>5, <2>6, <2>7, <2>8 DEF Onward
  <2> QED
    BY <1>1, <1>2, <1>4, <2>1, <2>8, <2>9, WhileParsing, OnwardKeeps
<1> QED
  BY <1>6, <1>7

(* The operators, or the end, end a command.                               *)
LEMMA EndsOfCommandKeep ==
  ParseInv /\ (EndByPipe \/ EndByConnector \/ EndBySeparator) => ParseInv'
<1>1. SUFFICES ASSUME ParseInv, Parsing, EndCommand, EndByPipe \/ EndByConnector \/ EndBySeparator
               PROVE  ParseInv'
  BY DEF EndByPipe, EndByConnector, EndBySeparator, EndCommand
<1>2. conn \in {"First", "AndIf", "OrIf"} /\ (AtOp => ~AtEof)
  BY <1>1, WhileParsing
<1>3. CASE EndByPipe
  BY <1>1, <1>2, <1>3, CommandEnds DEF EndByPipe, Joining
<1>4. CASE EndByConnector
  BY <1>1, <1>2, <1>4, CommandEnds DEF EndByConnector, Joining
<1>5. CASE EndBySeparator
  BY <1>1, <1>2, <1>5, CommandEnds DEF EndBySeparator, Joining
<1> QED
  BY <1>1, <1>3, <1>4, <1>5

(* The script is complete: nothing departs.                                *)
LEMMA ScriptEndKeeps == ParseInv /\ EndOfScript => ParseInv'
<1>1. SUFFICES ASSUME ParseInv, Parsing, phase = "May", AtEof, EndOfScript PROVE ParseInv'
  BY DEF EndOfScript
<1>2. LexInv /\ n = Len(lexemes) + 1 /\ Progress /\ n \in Nat /\ DOMAIN lexemes = 1 .. Len(lexemes)
  BY <1>1, WhileParsing
<1>3. \A d, k : ~Departs(d, k)
  <2>1. SUFFICES ASSUME NEW d, NEW k, Departs(d, k) PROVE FALSE
    OBVIOUS
  <2>2. k < n
    BY <1>2, <2>1, ByPlace
  <2> QED
    BY <1>1, <1>2, <2>1, <2>2, Behind
<1>4. OpenEnds = {}
  BY <1>1, <1>2 DEF Progress, OpenEnds
<1>5. GrammarProblems = {}
  BY <1>3, <1>4, ByPlace
<1>6. /\ parsed' = TRUE /\ lexed /\ err = {}
      /\ UNCHANGED <<lexVars, n, phase, at, cmd, pipe, conn, list, script, words>>
  BY <1>1 DEF EndOfScript, Parsing
<1>7. UNCHANGED <<input, lexemes, err, lexed>>
  BY <1>6 DEF lexVars
<1>8. LexInv'
  BY <1>2, <1>6, LexStep
<1>9. LexTypeOK'
  BY <1>8 DEF LexInv
<1>10. TypeOK'
  BY <1>1, <1>6, <1>7, <1>9 DEF ParseInv, TypeOK
<1>11. Progress'
  <2>1. Onward
    BY <1>1, <1>2, <1>6 DEF Onward, Progress, AtEof
  <2> QED
    BY <1>7, <2>1, OnwardIs
<1>12. FirstProblemIsReported'
  BY <1>5, <1>6, <1>7, TokensStay DEF FirstProblemIsReported
<1> QED
  BY <1>1, <1>6, <1>7, <1>8, <1>10, <1>11, <1>12 DEF ParseInv

-----------------------------------------------------------------------------
(* The whole.                                                              *)

(* Lexing ends with the last token or with a finding, never both.          *)
LEMMA LexOnce == LexNext => ~lexed /\ err = {} /\ (err' = {} \/ lexed' = lexed)
<1>1. CASE InputTooLarge \/ EndOfInput \/ NoToken \/ SkipBlank \/ Newline
  BY <1>1, Zenon DEF InputTooLarge, EndOfInput, NoToken, SkipBlank, Newline, EmitOp, Emit, Fail,
     Between, Lexing
<1>2. CASE Semicolon \/ Ampersand \/ Pipe
  BY <1>2, Zenon DEF Semicolon, Ampersand, Pipe, EmitOp, Emit, Fail, Between, Lexing
<1>3. ASSUME NEW fd, NEW d, Redirect(fd, d) PROVE lexed' = lexed
  BY <1>3, Zenon DEF Redirect, NoRedirect, Dup, CopyTo, RedirectTo, Emit, Fail
<1>4. CASE Greater \/ IoNumber \/ StartWord
  BY <1>3, <1>4, Zenon DEF Greater, IoNumber, StartWord, Fail, Between, Lexing
<1>5. CASE EndWord \/ NoUnit \/ PlainByte \/ LeadingTilde \/ LaterTilde
  BY <1>5, Zenon DEF EndWord, NoUnit, PlainByte, LeadingTilde, LaterTilde, EmitWord, Emit, Chunk, Fail,
     InWord, Lexing
<1>6. BadEscape => lexed' = lexed
  BY Zenon DEF BadEscape, Fail
<1>7. CASE Escape \/ SingleQuoted \/ OpenQuotes
  BY <1>6, <1>7, Zenon DEF Escape, SingleQuoted, OpenQuotes, Chunk, Fail, InWord, Lexing
<1>8. BadDollar => lexed' = lexed
  BY Zenon DEF BadDollar, Fail
<1>9. CASE NotQuotable \/ QuotedEscape \/ Dollar \/ QuotedByte \/ CloseQuotes
  BY <1>6, <1>8, <1>9, Zenon DEF NotQuotable, QuotedEscape, Dollar, QuotedByte, CloseQuotes,
     QuotedChunk, Fail, InQuotes, Lexing
<1> QED
  BY <1>1, <1>2, <1>4, <1>5, <1>7, <1>9, Zenon DEF LexNext

(* A step of the lexer keeps the invariant.                                *)
LEMMA LexKeeps == ParseInv /\ Lex => ParseInv'
<1>1. SUFFICES ASSUME ParseInv, LexNext, UNCHANGED parseVars PROVE ParseInv'
  BY DEF Lex
<1>2. ~lexed /\ err = {} /\ (err' = {} \/ lexed' = lexed)
  BY <1>1, LexOnce
<1>3. LexInv'
  BY <1>1, LexStep DEF ParseInv
<1>4. LexTypeOK' /\ Len(lexemes') \in Nat /\ lexed' \in BOOLEAN
  BY <1>3 DEF LexInv, LexTypeOK
<1>5. NotYet /\ NotYet'
  BY <1>1, <1>2 DEF ParseInv, NotYet, parseVars
<1>6. UNCHANGED <<n, phase, at, cmd, pipe, conn, list, script, words, parsed>>
  BY <1>1 DEF parseVars
<1>7. TypeOK'
  BY <1>1, <1>4, <1>5, <1>6 DEF ParseInv, TypeOK, NotYet
<1>8. FirstProblemIsReported'
  BY <1>2, <1>4, <1>5 DEF FirstProblemIsReported, NotYet
<1> QED
  BY <1>1, <1>3, <1>5, <1>6, <1>7, <1>8 DEF ParseInv

(* The invariant holds before the first byte is read.                      *)
LEMMA ParseStarts == Init => ParseInv
<1>1. SUFFICES ASSUME Init PROVE ParseInv
  OBVIOUS
<1>2. LexInv /\ LexTypeOK /\ lexed = FALSE /\ err = {} /\ lexemes = <<>>
  BY <1>1, LexStarts DEF Init, LexInv, LexInit
<1>3. n = 1 /\ phase = "May" /\ at = 1 /\ words = 0 /\ parsed = FALSE
      /\ cmd = NoCmd /\ pipe = <<>> /\ conn = "First" /\ list = <<>> /\ script = <<>>
  BY <1>1 DEF Init
<1>4. cmd \in Cmds
  BY <1>3 DEF NoCmd, Cmds
<1>5. TypeOK
  BY <1>2, <1>3, WordsAssumption DEF TypeOK
<1> QED
  BY <1>2, <1>3, <1>4, <1>5 DEF ParseInv, NotYet, FirstProblemIsReported

(* Every step keeps the invariant.                                         *)
LEMMA ParseStep == ParseInv /\ [Next]_vars => ParseInv'
<1>1. CASE ParseInv /\ UNCHANGED vars
  <2>1. UNCHANGED <<lexVars, n, phase, at, cmd, pipe, conn, list, script, words, parsed>>
    BY <1>1 DEF vars, parseVars
  <2>2. UNCHANGED <<input, lexemes, err, lexed>>
    BY <2>1 DEF lexVars
  <2>3. LexInv'
    BY <1>1, <2>1, LexStep DEF ParseInv
  <2>4. LexTypeOK'
    BY <2>3 DEF LexInv
  <2>5. TypeOK'
    BY <1>1, <2>1, <2>2, <2>4 DEF ParseInv, TypeOK
  <2>6. Progress => Progress'
    <3>1. Progress => Onward
      BY <2>1, <2>2 DEF Progress, Onward, Reading, AtEof
    <3> QED
      BY <2>2, <3>1, OnwardIs
  <2>7. FirstProblemIsReported'
    BY <1>1, <2>1, <2>2, TokensStay DEF ParseInv, FirstProblemIsReported
  <2> QED
    BY <1>1, <2>1, <2>2, <2>3, <2>5, <2>6, <2>7 DEF ParseInv, NotYet
<1>2. CASE ParseInv /\ Parse
  BY <1>2, NewlineKeeps, ScriptEndKeeps, MissingKeeps, StartKeeps, WordKeeps, RedirKeeps,
     RedirectOnlyKeeps, EndsOfCommandKeep DEF Parse
<1> QED
  BY <1>1, <1>2, LexKeeps DEF Next, Done

(* In every reachable state.                                               *)
THEOREM ParseInvAlways == Spec => []ParseInv
BY ParseStarts, ParseStep, PTL DEF Spec

(* The types: every offset is one of the input, a word that ends has parts,*)
(* the words taken are within the cap and a script that is complete has no *)
(* finding.                                                                *)
THEOREM ParserTypeCorrect == Spec => []TypeOK
<1>1. ParseInv => TypeOK
  BY DEF ParseInv
<1> QED
  BY <1>1, ParseInvAlways, PTL

(* What parse reports is the first departure from the grammar, and what it *)
(* accepts has none.                                                       *)
THEOREM FirstProblemAlways == Spec => []FirstProblemIsReported
<1>1. ParseInv => FirstProblemIsReported
  BY DEF ParseInv
<1> QED
  BY <1>1, ParseInvAlways, PTL

-----------------------------------------------------------------------------
(* Members in order, and what is read of them.                             *)

(* What is read in order, one member behind the others.                    *)
LEMMA InOrderAppends ==
  ASSUME NEW S \in SUBSET Int, IsFiniteSet(S), NEW k \in Int, \A m \in S : m < k
  PROVE  /\ Cardinality(S) \in Nat /\ DOMAIN InOrder(S) = 1 .. Cardinality(S)
         /\ DOMAIN InOrder(S \cup {k}) = 1 .. Cardinality(S) + 1
         /\ InOrder(S \cup {k})[Cardinality(S) + 1] = k
         /\ \A i \in 1 .. Cardinality(S) : InOrder(S \cup {k})[i] = InOrder(S)[i]
<1> DEFINE T == S \cup {k}
           N == Cardinality(S)
<1>1. N \in Nat /\ k \notin S /\ Cardinality(T) = N + 1
  <2>1. k \notin S
    OBVIOUS
  <2>2. Cardinality(S \cup {k}) = Cardinality(S) + 1
    BY <2>1, FS_AddElement
  <2> QED
    BY <2>1, <2>2, FS_CardinalityType
<1>2. Rank(k, T) = N + 1
  <2>1. {m \in T : m <= k} = T
    <3>1. \A m \in T : m <= k
      OBVIOUS
    <3> QED
      BY <3>1, Zenon
  <2> QED
    BY <1>1, <2>1 DEF Rank
<1>3. ASSUME NEW m \in S PROVE Rank(m, T) = Rank(m, S) /\ Rank(m, S) \in Nat /\ Rank(m, S) <= N
  <2>1. {l \in T : l <= m} = {l \in S : l <= m}
    OBVIOUS
  <2>2. {l \in S : l <= m} \subseteq S
    OBVIOUS
  <2>3. Cardinality({l \in S : l <= m}) \in Nat /\ Cardinality({l \in S : l <= m}) <= N
    BY <2>2, FS_Subset, FS_CardinalityType
  <2> QED
    BY <2>1, <2>3 DEF Rank
<1>4. DOMAIN InOrder(S) = 1 .. N /\ DOMAIN InOrder(T) = 1 .. N + 1
  BY <1>1 DEF InOrder
<1>5. InOrder(T)[N + 1] = k
  <2>1. N + 1 \in 1 .. Cardinality(T)
    BY <1>1
  <2>2. InOrder(T)[N + 1] = CHOOSE m \in T : Rank(m, T) = N + 1
    BY <2>1 DEF InOrder
  <2>3. \A m \in T : Rank(m, T) = N + 1 => m = k
    BY <1>1, <1>3
  <2>4. k \in T /\ Rank(k, T) = N + 1
    BY <1>2
  <2> HIDE DEF T, N
  <2> QED
    BY <2>2, <2>3, <2>4, Zenon
<1>6. ASSUME NEW i \in 1 .. N PROVE InOrder(T)[i] = InOrder(S)[i]
  <2>1. i \in 1 .. Cardinality(T) /\ i # N + 1
    BY <1>1
  <2>2. InOrder(T)[i] = CHOOSE m \in T : Rank(m, T) = i
    BY <2>1 DEF InOrder
  <2>3. InOrder(S)[i] = CHOOSE m \in S : Rank(m, S) = i
    BY <1>6 DEF InOrder
  <2>4. \A m : (m \in T /\ Rank(m, T) = i) <=> (m \in S /\ Rank(m, S) = i)
    BY <1>2, <1>3, <2>1
  <2> HIDE DEF T, N
  <2> QED
    BY <2>2, <2>3, <2>4, Zenon
<1> QED
  BY <1>1, <1>4, <1>5, <1>6

(* Nothing in order is nothing.                                            *)
LEMMA NothingInOrder == DOMAIN InOrder({}) = {}
BY FS_EmptySet DEF InOrder

-----------------------------------------------------------------------------
(* What the tokens say.                                                    *)

(* The words of one more token.                                            *)
LEMMA WordAdded ==
  ASSUME NEW S \in SUBSET Int, IsFiniteSet(S), NEW k \in Int, \A m \in S : m < k,
         NEW A, ConvertWords(S) \in Seq(A), ConvertWord(Tok(k).parts) \in A
  PROVE  ConvertWords(S \cup {k}) = Append(ConvertWords(S), ConvertWord(Tok(k).parts))
<1> DEFINE N == Cardinality(S)
<1>1. /\ N \in Nat /\ DOMAIN InOrder(S) = 1 .. N
      /\ DOMAIN InOrder(S \cup {k}) = 1 .. N + 1 /\ InOrder(S \cup {k})[N + 1] = k
      /\ \A i \in 1 .. N : InOrder(S \cup {k})[i] = InOrder(S)[i]
  BY InOrderAppends
<1> HIDE DEF N
<1>2. DOMAIN ConvertWords(S) = 1 .. N
  BY <1>1 DEF ConvertWords
<1>3. Len(ConvertWords(S)) = N
  BY <1>1, <1>2
<1> DEFINE t == ConvertWords(S \cup {k})
<1>4. t = [i \in 1 .. N + 1 |-> t[i]]
  BY <1>1 DEF ConvertWords
<1>5. t[N + 1] = ConvertWord(Tok(k).parts)
  BY <1>1 DEF ConvertWords
<1>6. ASSUME NEW i \in 1 .. N PROVE t[i] = ConvertWords(S)[i]
  <2>0. i \in 1 .. N + 1
    BY <1>1
  <2>1. i \in DOMAIN InOrder(S) /\ i \in DOMAIN InOrder(S \cup {k}) /\ InOrder(S \cup {k})[i] = InOrder(S)[i]
    BY <1>1, <2>0, Zenon
  <2> QED
    BY <2>1, Zenon DEF ConvertWords
<1> HIDE DEF t
<1>7. t = Append(ConvertWords(S), ConvertWord(Tok(k).parts))
  BY <1>3, <1>4, <1>5, <1>6, OneMore, SMTT(20)
<1> QED
  BY <1>7 DEF t

(* The redirects of one more token.                                        *)
LEMMA RedirAdded ==
  ASSUME NEW S \in SUBSET Int, IsFiniteSet(S), NEW k \in Int, \A m \in S : m < k,
         NEW A, RedirsIn(S) \in Seq(A), Tok(k).redir \in A
  PROVE  RedirsIn(S \cup {k}) = Append(RedirsIn(S), Tok(k).redir)
<1> DEFINE N == Cardinality(S)
<1>1. /\ N \in Nat /\ DOMAIN InOrder(S) = 1 .. N
      /\ DOMAIN InOrder(S \cup {k}) = 1 .. N + 1 /\ InOrder(S \cup {k})[N + 1] = k
      /\ \A i \in 1 .. N : InOrder(S \cup {k})[i] = InOrder(S)[i]
  BY InOrderAppends
<1> HIDE DEF N
<1>2. DOMAIN RedirsIn(S) = 1 .. N
  BY <1>1 DEF RedirsIn
<1>3. Len(RedirsIn(S)) = N
  BY <1>1, <1>2
<1> DEFINE t == RedirsIn(S \cup {k})
<1>4. t = [i \in 1 .. N + 1 |-> t[i]]
  BY <1>1 DEF RedirsIn
<1>5. t[N + 1] = Tok(k).redir
  BY <1>1 DEF RedirsIn
<1>6. ASSUME NEW i \in 1 .. N PROVE t[i] = RedirsIn(S)[i]
  <2>0. i \in 1 .. N + 1
    BY <1>1
  <2>1. i \in DOMAIN InOrder(S) /\ i \in DOMAIN InOrder(S \cup {k}) /\ InOrder(S \cup {k})[i] = InOrder(S)[i]
    BY <1>1, <2>0, Zenon
  <2> QED
    BY <2>1, Zenon DEF RedirsIn
<1> HIDE DEF t
<1>7. t = Append(RedirsIn(S), Tok(k).redir)
  BY <1>3, <1>4, <1>5, <1>6, OneMore
<1> QED
  BY <1>7 DEF t

(* The commands of one more run.                                           *)
LEMMA RunAdded ==
  ASSUME NEW S \in SUBSET Int, IsFiniteSet(S), NEW r \in Int, \A m \in S : m < r,
         NEW A, JoinsOf(S) \in Seq(A), NEW said \in A,
         said = <<JoinBefore(r), CommandOf(RunOf(r))>>
  PROVE  JoinsOf(S \cup {r}) = Append(JoinsOf(S), said)
<1> DEFINE N == Cardinality(S)
<1>1. /\ N \in Nat /\ DOMAIN InOrder(S) = 1 .. N
      /\ DOMAIN InOrder(S \cup {r}) = 1 .. N + 1 /\ InOrder(S \cup {r})[N + 1] = r
      /\ \A i \in 1 .. N : InOrder(S \cup {r})[i] = InOrder(S)[i]
  BY InOrderAppends
<1> HIDE DEF N
<1>2. DOMAIN JoinsOf(S) = 1 .. N
  BY <1>1 DEF JoinsOf
<1>3. Len(JoinsOf(S)) = N
  BY <1>1, <1>2
<1> DEFINE t == JoinsOf(S \cup {r})
<1>4. t = [i \in 1 .. N + 1 |-> t[i]]
  BY <1>1 DEF JoinsOf
<1>5. t[N + 1] = said
  <2>1. N + 1 \in DOMAIN InOrder(S \cup {r})
    BY <1>1
  <2> QED
    BY <1>1, <2>1, Zenon DEF JoinsOf
<1>6. ASSUME NEW i \in 1 .. N PROVE t[i] = JoinsOf(S)[i]
  <2>0. i \in 1 .. N + 1
    BY <1>1
  <2>1. i \in DOMAIN InOrder(S) /\ i \in DOMAIN InOrder(S \cup {r}) /\ InOrder(S \cup {r})[i] = InOrder(S)[i]
    BY <1>1, <2>0, Zenon
  <2> QED
    BY <2>1, Zenon DEF JoinsOf
<1> HIDE DEF t
<1>7. t = Append(JoinsOf(S), said)
  BY <1>3, <1>4, <1>5, <1>6, OneMore, ZenonT(60)
<1> QED
  BY <1>7 DEF t

-----------------------------------------------------------------------------
(* What the script says so far.                                            *)
Links == [conn: {"First", "AndIf", "OrIf"}, pipe: Seq(Cmds)]

Join == {"Item", "Pipe", "AndIf", "OrIf"} \X Cmds

Sofar ==
  Joins \o ListJoins(list, "Item") \o PipeJoins([conn |-> conn, pipe |-> pipe], "Item")

(* What will join the command that ends next.                              *)
NextJoin == IF pipe # <<>> THEN "Pipe" ELSE IF conn = "First" THEN "Item" ELSE conn

(* The commands of a pipeline.                                             *)
LEMMA PipeJoined ==
  ASSUME NEW link \in Links
  PROVE  /\ PipeJoins(link, "Item") \in Seq(Join)
         /\ link.pipe = <<>> => PipeJoins(link, "Item") = <<>>
         /\ Len(PipeJoins(link, "Item")) = Len(link.pipe)
<1>1. link.pipe \in Seq(Cmds) /\ link.conn \in {"First", "AndIf", "OrIf"}
  BY DEF Links
<1>2. /\ DOMAIN link.pipe = 1 .. Len(link.pipe) /\ Len(link.pipe) \in Nat
      /\ \A m \in 1 .. Len(link.pipe) : link.pipe[m] \in Cmds
  BY <1>1
<1> DEFINE j(m) == <<IF m > 1 THEN "Pipe" ELSE IF link.conn = "First" THEN "Item" ELSE link.conn,
                     link.pipe[m]>>
<1>3. PipeJoins(link, "Item") = [m \in 1 .. Len(link.pipe) |-> j(m)]
  BY <1>2 DEF PipeJoins
<1>4. \A m \in 1 .. Len(link.pipe) : j(m) \in Join
  BY <1>1, <1>2 DEF Join
<1> HIDE DEF j
<1>5. PipeJoins(link, "Item") \in [1 .. Len(link.pipe) -> Join]
  BY <1>3, <1>4
<1>6. PipeJoins(link, "Item") \in Seq(Join) /\ Len(PipeJoins(link, "Item")) = Len(link.pipe)
  BY <1>2, <1>5
<1> QED
  BY <1>6

(* One more command of a pipeline.                                         *)
LEMMA PipedOne ==
  ASSUME NEW link \in Links, NEW c \in Cmds, NEW more \in Links,
         more.conn = link.conn, more.pipe = Append(link.pipe, c), NEW join \in Join,
         join = <<IF link.pipe # <<>> THEN "Pipe" ELSE IF link.conn = "First" THEN "Item" ELSE link.conn, c>>
  PROVE  PipeJoins(more, "Item") = Append(PipeJoins(link, "Item"), join)
<1> DEFINE N == Len(link.pipe)
           t == PipeJoins(more, "Item")
           s == PipeJoins(link, "Item")
<1>1. link.pipe \in Seq(Cmds)
  BY DEF Links
<1>2. /\ N \in Nat /\ DOMAIN link.pipe = 1 .. N /\ DOMAIN more.pipe = 1 .. N + 1
      /\ more.pipe[N + 1] = c /\ \A m \in 1 .. N : more.pipe[m] = link.pipe[m]
      /\ link.pipe # <<>> <=> N + 1 > 1
  BY <1>1
<1>3. s \in Seq(Join) /\ Len(s) = N
  BY PipeJoined
<1> HIDE DEF N
<1>4. t \in Seq(Join) /\ Len(t) = N + 1
  BY <1>2, PipeJoined
<1>5. t[N + 1] = join
  <2>1. N + 1 \in 1 .. N + 1
    BY <1>2
  <2> QED
    BY <1>2, <2>1, Zenon DEF PipeJoins
<1>6. ASSUME NEW m \in 1 .. N PROVE t[m] = s[m]
  <2>1. m \in 1 .. N + 1
    BY <1>2
  <2> QED
    BY <1>2, <2>1, Zenon DEF PipeJoins
<1> HIDE DEF t, s
<1>7. Len(t) = Len(s) + 1 /\ t[Len(s) + 1] = join /\ \A m \in 1 .. Len(s) : t[m] = s[m]
  BY <1>3, <1>4, <1>5, <1>6
<1>8. t = Append(s, join)
  BY <1>3, <1>4, <1>7, OneLonger, Zenon
<1> QED
  BY <1>8 DEF t, s

(* The commands of a list.                                                 *)
LEMMA ListJoined ==
  ASSUME NEW l \in Seq(Links)
  PROVE  /\ ListJoins(l, "Item") \in Seq(Join)
         /\ ListJoins(<<>>, "Item") = <<>>
         /\ \A link \in Links :
              ListJoins(Append(l, link), "Item") = ListJoins(l, "Item") \o PipeJoins(link, "Item")
<1> DEFINE A == Seq(Join)
           Each(k) == [m \in DOMAIN k |-> PipeJoins(k[m], "Item")]
<1>1. ASSUME NEW k \in Seq(Links) PROVE Each(k) \in Seq(A) /\ Len(Each(k)) = Len(k)
  <2>1. /\ DOMAIN k = 1 .. Len(k) /\ Len(k) \in Nat /\ \A m \in 1 .. Len(k) : k[m] \in Links
    OBVIOUS
  <2>2. \A m \in 1 .. Len(k) : PipeJoins(k[m], "Item") \in A
    BY <2>1, PipeJoined
  <2> HIDE DEF A
  <2>3. Each(k) \in [1 .. Len(k) -> A]
    BY <2>1, <2>2
  <2> HIDE DEF Each
  <2> QED
    BY <2>1, <2>3
<1>2. ListJoins(l, "Item") \in Seq(Join)
  <2>1. Each(l) \in Seq(Seq(Join))
    BY <1>1
  <2>2. FlattenSeq(Each(l)) \in Seq(Join)
    BY <2>1, Flattened
  <2> QED
    BY <2>2 DEF ListJoins
<1>3. ListJoins(<<>>, "Item") = <<>>
  <2>1. [m \in DOMAIN <<>> |-> PipeJoins(<<>>[m], "Item")] = <<>>
    OBVIOUS
  <2>2. FlattenSeq(<<>>) = <<>>
    <3>1. <<>> \in Seq(Seq(Join)) /\ <<>> \in Seq(Join)
      OBVIOUS
    <3> QED
      BY <3>1, Flattened, Zenon
  <2> QED
    BY <2>1, <2>2 DEF ListJoins
<1>4. ASSUME NEW link \in Links
      PROVE  ListJoins(Append(l, link), "Item") = ListJoins(l, "Item") \o PipeJoins(link, "Item")
  <2> DEFINE more == Append(l, link)
             x == PipeJoins(link, "Item")
  <2>1. /\ more \in Seq(Links) /\ Len(l) \in Nat /\ DOMAIN l = 1 .. Len(l)
        /\ DOMAIN more = 1 .. Len(l) + 1 /\ Len(more) = Len(l) + 1
        /\ more[Len(l) + 1] = link /\ \A m \in 1 .. Len(l) : more[m] = l[m]
    OBVIOUS
  <2>2. Each(l) \in Seq(A) /\ x \in A /\ Len(Each(l)) = Len(l)
    BY <1>1, PipeJoined
  <2> HIDE DEF A, more
  <2>3. Each(more) \in Seq(A) /\ Len(Each(more)) = Len(l) + 1
    <3> HIDE DEF Each
    <3> QED
      BY <1>1, <2>1
  <2>4. Each(more)[Len(l) + 1] = x
    BY <2>1
  <2>5. ASSUME NEW m \in 1 .. Len(l) PROVE Each(more)[m] = Each(l)[m]
    <3>1. m \in 1 .. Len(l) + 1
      BY <2>1
    <3> QED
      BY <2>1, <3>1, Zenon
  <2> DEFINE t == Each(more)
             s == Each(l)
  <2> HIDE DEF x, t, s, Each
  <2>6. t = Append(s, x)
    <3>1. Len(t) = Len(s) + 1 /\ t[Len(s) + 1] = x
      BY <2>2, <2>3, <2>4 DEF t, s
    <3>2. \A m \in 1 .. Len(s) : t[m] = s[m]
      BY <2>2, <2>5 DEF t, s
    <3>3. s \in Seq(A) /\ t \in Seq(A)
      BY <2>2, <2>3 DEF s, t
    <3> QED
      BY <2>2, <3>1, <3>2, <3>3, OneLonger, Zenon
  <2>7. s \in Seq(Seq(Join)) /\ x \in Seq(Join)
    BY <2>2 DEF s, A
  <2>8. FlattenSeq(t) = FlattenSeq(s) \o x
    BY <2>6, <2>7, Flattened
  <2> QED
    BY <2>8 DEF ListJoins, t, s, x, more, Each
<1> QED
  BY <1>2, <1>3, <1>4

(* What is built of the script has its type.                               *)
Built == pipe \in Seq(Cmds) /\ list \in Seq(Links) /\ script \in Seq(Seq(Links))

(* The lists of a script, and one more.                                    *)
ScriptJoins(lists) == FlattenSeq([m \in DOMAIN lists |-> ListJoins(lists[m], "Item")])

LEMMA ScriptJoined ==
  ASSUME NEW lists \in Seq(Seq(Links))
  PROVE  /\ ScriptJoins(lists) \in Seq(Join)
         /\ ScriptJoins(<<>>) = <<>>
         /\ \A l \in Seq(Links) :
              ScriptJoins(Append(lists, l)) = ScriptJoins(lists) \o ListJoins(l, "Item")
<1> DEFINE A == Seq(Join)
           B == Seq(Links)
           Each(k) == [m \in DOMAIN k |-> ListJoins(k[m], "Item")]
<1>1. ASSUME NEW k \in Seq(B) PROVE Each(k) \in Seq(A) /\ Len(Each(k)) = Len(k)
  <2>1. /\ DOMAIN k = 1 .. Len(k) /\ Len(k) \in Nat /\ \A m \in 1 .. Len(k) : k[m] \in B
    <3> HIDE DEF B
    <3> QED
      OBVIOUS
  <2>2. \A m \in 1 .. Len(k) : ListJoins(k[m], "Item") \in A
    BY <2>1, ListJoined
  <2> HIDE DEF A, B
  <2>3. Each(k) \in [1 .. Len(k) -> A]
    BY <2>1, <2>2
  <2> HIDE DEF Each
  <2> QED
    BY <2>1, <2>3
<1>2. ScriptJoins(lists) \in Seq(Join)
  <2>1. Each(lists) \in Seq(Seq(Join))
    BY <1>1
  <2>2. FlattenSeq(Each(lists)) \in Seq(Join)
    BY <2>1, Flattened
  <2> QED
    BY <2>2 DEF ScriptJoins
<1>3. ScriptJoins(<<>>) = <<>>
  <2>1. [m \in DOMAIN <<>> |-> ListJoins(<<>>[m], "Item")] = <<>>
    OBVIOUS
  <2>2. FlattenSeq(<<>>) = <<>>
    <3>1. <<>> \in Seq(Seq(Join)) /\ <<>> \in Seq(Join)
      OBVIOUS
    <3> QED
      BY <3>1, Flattened, Zenon
  <2> QED
    BY <2>1, <2>2 DEF ScriptJoins
<1>4. ASSUME NEW l \in Seq(Links)
      PROVE  ScriptJoins(Append(lists, l)) = ScriptJoins(lists) \o ListJoins(l, "Item")
  <2> DEFINE more == Append(lists, l)
             x == ListJoins(l, "Item")
  <2>1. /\ more \in Seq(B) /\ Len(lists) \in Nat /\ DOMAIN lists = 1 .. Len(lists)
        /\ DOMAIN more = 1 .. Len(lists) + 1 /\ Len(more) = Len(lists) + 1
        /\ more[Len(lists) + 1] = l /\ \A m \in 1 .. Len(lists) : more[m] = lists[m]
    <3>1. lists \in Seq(B) /\ l \in B
      OBVIOUS
    <3> HIDE DEF B
    <3> QED
      BY <3>1
  <2>2. Each(lists) \in Seq(A) /\ x \in A /\ Len(Each(lists)) = Len(lists)
    BY <1>1, ListJoined
  <2> HIDE DEF A, B, more
  <2>3. Each(more) \in Seq(A) /\ Len(Each(more)) = Len(lists) + 1
    <3> HIDE DEF Each
    <3> QED
      BY <1>1, <2>1
  <2>4. Each(more)[Len(lists) + 1] = x
    BY <2>1
  <2>5. ASSUME NEW m \in 1 .. Len(lists) PROVE Each(more)[m] = Each(lists)[m]
    <3>1. m \in 1 .. Len(lists) + 1
      BY <2>1
    <3> QED
      BY <2>1, <3>1, Zenon
  <2> DEFINE t == Each(more)
             s == Each(lists)
  <2> HIDE DEF x, t, s, Each
  <2>6. t = Append(s, x)
    <3>1. Len(t) = Len(s) + 1 /\ t[Len(s) + 1] = x
      BY <2>2, <2>3, <2>4 DEF t, s
    <3>2. \A m \in 1 .. Len(s) : t[m] = s[m]
      BY <2>2, <2>5 DEF t, s
    <3>3. s \in Seq(A) /\ t \in Seq(A)
      BY <2>2, <2>3 DEF s, t
    <3> QED
      BY <2>2, <3>1, <3>2, <3>3, OneLonger, Zenon
  <2>7. s \in Seq(Seq(Join)) /\ x \in Seq(Join)
    BY <2>2 DEF s, A
  <2>8. FlattenSeq(t) = FlattenSeq(s) \o x
    BY <2>6, <2>7, Flattened
  <2> QED
    BY <2>8 DEF ScriptJoins, t, s, x, more, Each
<1> QED
  BY <1>2, <1>3, <1>4

(* What joins a command that ends is what the script says of it.           *)
LEMMA NextIs ==
  ASSUME Built, conn \in {"First", "AndIf", "OrIf"}, NEW c \in Cmds
  PROVE  <<NextJoin, c>> \in Join
BY DEF NextJoin, Join

(* The last pipeline with the command that ends.                           *)
LEMMA LastPipe ==
  ASSUME Built, conn \in {"First", "AndIf", "OrIf"}, cmd \in Cmds
  PROVE  /\ [conn |-> conn, pipe |-> pipe] \in Links /\ [conn |-> conn, pipe |-> Piped] \in Links
         /\ PipeJoins([conn |-> conn, pipe |-> Piped], "Item")
              = Append(PipeJoins([conn |-> conn, pipe |-> pipe], "Item"), <<NextJoin, cmd>>)
<1> DEFINE link == [conn |-> conn, pipe |-> pipe]
           more == [conn |-> conn, pipe |-> Piped]
           join == <<NextJoin, cmd>>
<1>1. link \in Links /\ more \in Links
  BY DEF Built, Links, Piped
<1>2. more.conn = link.conn /\ more.pipe = Append(link.pipe, cmd)
  BY DEF Piped
<1>3. join = <<IF link.pipe # <<>> THEN "Pipe" ELSE IF link.conn = "First" THEN "Item" ELSE link.conn, cmd>>
  BY DEF NextJoin
<1>4. join \in Join
  BY NextIs
<1> HIDE DEF link, more, join
<1>5. PipeJoins(more, "Item") = Append(PipeJoins(link, "Item"), join)
  BY <1>1, <1>2, <1>3, <1>4, PipedOne
<1> QED
  BY <1>1, <1>5 DEF link, more, join

(* A command that ends is said behind the others, whatever it ends.        *)
LEMMA OneSaid ==
  ASSUME Built, conn \in {"First", "AndIf", "OrIf"}, cmd \in Cmds, conn' \in {"First", "AndIf", "OrIf"},
         \/ pipe' = Piped /\ UNCHANGED <<conn, list, script>>
         \/ pipe' = <<>> /\ list' = Listed /\ UNCHANGED script
         \/ pipe' = <<>> /\ list' = <<>> /\ script' = Append(script, Listed)
  PROVE  Built' /\ Sofar \in Seq(Join) /\ Sofar' = Append(Sofar, <<NextJoin, cmd>>)
<1> DEFINE link == [conn |-> conn, pipe |-> pipe]
           more == [conn |-> conn, pipe |-> Piped]
           join == <<NextJoin, cmd>>
           a == Joins
           b == ListJoins(list, "Item")
           c == PipeJoins(link, "Item")
           d == PipeJoins(more, "Item")
<1>1. link \in Links /\ more \in Links /\ join \in Join /\ d = Append(c, join)
  BY NextIs, LastPipe
<1>2. a = ScriptJoins(script) /\ Joins' = ScriptJoins(script')
  BY DEF Joins, ScriptJoins
<1>3. a \in Seq(Join) /\ b \in Seq(Join) /\ c \in Seq(Join) /\ d \in Seq(Join)
  BY <1>1, <1>2, ScriptJoined, ListJoined, PipeJoined DEF Built
<1>4. Sofar = a \o b \o c
  BY DEF Sofar
<1>5. Sofar' = Joins' \o ListJoins(list', "Item") \o PipeJoins([conn |-> conn', pipe |-> pipe'], "Item")
  BY DEF Sofar
<1>6. Listed = Append(list, more) /\ Listed \in Seq(Links) /\ Piped \in Seq(Cmds)
  BY <1>1 DEF Listed, Built, Piped
<1>7. ListJoins(Listed, "Item") = b \o d
  <2> HIDE DEF more
  <2> QED
    BY <1>1, <1>6, ListJoined DEF Built
<1>8. /\ ListJoins(<<>>, "Item") = <<>>
      /\ \A k \in {"First", "AndIf", "OrIf"} : PipeJoins([conn |-> k, pipe |-> <<>>], "Item") = <<>>
  <2>1. ListJoins(<<>>, "Item") = <<>>
    BY ListJoined DEF Built
  <2>2. ASSUME NEW k \in {"First", "AndIf", "OrIf"}
        PROVE  PipeJoins([conn |-> k, pipe |-> <<>>], "Item") = <<>>
    <3>1. [conn |-> k, pipe |-> <<>>] \in Links
      BY DEF Links
    <3> QED
      BY <3>1, PipeJoined
  <2> QED
    BY <2>1, <2>2
<1>9. /\ a \o b \o d = Append(a \o b \o c, join)
      /\ a \o (b \o d) \o <<>> = Append(a \o b \o c, join)
      /\ a \o (b \o d) \o <<>> \o <<>> = Append(a \o b \o c, join)
      /\ a \o b \o c \in Seq(Join)
  <2> HIDE DEF a, b, c, d, join
  <2>1. /\ a \o b \o Append(c, join) = Append(a \o b \o c, join)
        /\ a \o (b \o Append(c, join)) \o <<>> = Append(a \o b \o c, join)
        /\ a \o (b \o Append(c, join)) \o <<>> \o <<>> = Append(a \o b \o c, join)
        /\ a \o b \o c \in Seq(Join)
    BY <1>1, <1>3, BehindAll, Zenon
  <2> QED
    BY <1>1, <2>1, Zenon
<1> HIDE DEF a, b, c, d
<1>10. CASE pipe' = Piped /\ UNCHANGED <<conn, list, script>>
  <2>1. Built'
    BY <1>6, <1>10 DEF Built
  <2>2. Sofar' = a \o b \o d
    BY <1>2, <1>5, <1>10, Zenon DEF b, d
  <2> QED
    BY <1>4, <1>9, <2>1, <2>2, Zenon
<1>11. CASE pipe' = <<>> /\ list' = Listed /\ UNCHANGED script
  <2>1. Built'
    BY <1>6, <1>11 DEF Built
  <2>2. Sofar' = a \o (b \o d) \o <<>>
    BY <1>2, <1>5, <1>7, <1>8, <1>11
  <2> QED
    BY <1>4, <1>9, <2>1, <2>2, Zenon
<1>12. CASE pipe' = <<>> /\ list' = <<>> /\ script' = Append(script, Listed)
  <2>1. Built'
    <3> DEFINE B == Seq(Links)
    <3>1. script \in Seq(B) /\ Listed \in B
      BY <1>6 DEF Built
    <3> HIDE DEF B
    <3>2. Append(script, Listed) \in Seq(B)
      BY <3>1
    <3> QED
      BY <1>12, <3>2 DEF Built, B
  <2>2. Joins' = a \o (b \o d)
    BY <1>2, <1>6, <1>7, <1>12, ScriptJoined DEF Built
  <2>3. Sofar' = a \o (b \o d) \o <<>> \o <<>>
    BY <1>5, <1>8, <1>12, <2>2
  <2> QED
    BY <1>4, <1>9, <2>1, <2>3, Zenon
<1> QED
  BY <1>10, <1>11, <1>12

-----------------------------------------------------------------------------
(* The operator before a run.                                              *)

(* A token that is not the first behind a run joins nothing.               *)
LEMMA JoinStays ==
  ASSUME NEW k \in Nat \ {0}, ~(IsCmd(k - 1) /\ ~IsCmd(k))
  PROVE  JoinBefore(k + 1) = JoinBefore(k)
<1>1. EndsBefore(k + 1) = EndsBefore(k)
  <2>1. \A m : m \in 1 .. (k + 1) - 1 <=> m \in 1 .. k - 1 \/ m = k
    OBVIOUS
  <2> QED
    BY <2>1 DEF EndsBefore
<1> QED
  BY <1>1, Zenon DEF JoinBefore

(* The first token behind a run joins the next.                            *)
LEMMA JoinIs ==
  ASSUME NEW k \in Nat \ {0}, IsCmd(k - 1), ~IsCmd(k)
  PROVE  JoinBefore(k + 1) = JoinedBy(Tok(k).op)
<1>1. k \in EndsBefore(k + 1) /\ EndsBefore(k + 1) \in SUBSET (1 .. k)
  BY DEF EndsBefore
<1>2. Max(EndsBefore(k + 1)) = k /\ EndsBefore(k + 1) # {}
  BY <1>1, GreatestIndex
<1> QED
  BY <1>2, Zenon DEF JoinBefore

(* Nothing is before the first token.                                      *)
LEMMA JoinFirst == JoinBefore(1) = "Item"
<1>1. EndsBefore(1) = {}
  BY DEF EndsBefore
<1> QED
  BY <1>1, Zenon DEF JoinBefore

(* Nothing is said by no token.                                            *)
LEMMA NothingSaid == CommandOf({}) = NoCmd /\ JoinsOf({}) = <<>>
<1>1. WordsOf({}) = {} /\ RedirsOf({}) = {}
  BY DEF WordsOf, RedirsOf
<1>2. ConvertWords({}) = <<>> /\ RedirsIn({}) = <<>> /\ JoinsOf({}) = <<>>
  BY NothingInOrder DEF ConvertWords, RedirsIn, JoinsOf
<1> QED
  BY <1>1, <1>2 DEF CommandOf, NoCmd

(* What the tokens say stays while they do.                                *)
LEMMA SayingStays ==
  ASSUME UNCHANGED <<input, lexemes>>
  PROVE  /\ \A r : JoinBefore(r)' = JoinBefore(r)
         /\ \A run : CommandOf(run)' = CommandOf(run)
         /\ \A runs : JoinsOf(runs)' = JoinsOf(runs)
<1>1. \A k : IsCmd(k)' = IsCmd(k) /\ Tok(k)' = Tok(k)
  BY TokensStay
<1>2. \A r : JoinBefore(r)' = JoinBefore(r)
  <2>1. \A r : EndsBefore(r)' = EndsBefore(r)
    BY <1>1 DEF EndsBefore
  <2> QED
    BY <1>1, <2>1, Zenon DEF JoinBefore, JoinedBy
<1>3. \A set : WordsOf(set)' = WordsOf(set) /\ RedirsOf(set)' = RedirsOf(set)
  BY <1>1 DEF WordsOf, RedirsOf
<1>4. \A set : ConvertWords(set)' = ConvertWords(set) /\ RedirsIn(set)' = RedirsIn(set)
  BY <1>1, Zenon DEF ConvertWords, RedirsIn
<1>5. \A run : CommandOf(run)' = CommandOf(run)
  BY <1>3, <1>4, Zenon DEF CommandOf
<1>6. \A k : RunOf(k)' = RunOf(k)
  BY <1>1 DEF RunOf
<1>7. \A runs : JoinsOf(runs)' = JoinsOf(runs)
  BY <1>2, <1>5, <1>6, Zenon DEF JoinsOf
<1> QED
  BY <1>2, <1>5, <1>7

-----------------------------------------------------------------------------
(* What has been told of the tokens.                                       *)

(* The runs that have been read to their end.                              *)
ReadRuns == {r \in RunStarts : r < n /\ ~(phase = "In" /\ Reaches(r, n))}

(* The script says the runs read, and the command built the one being read.*)
Told ==
  /\ Sofar = JoinsOf(ReadRuns)
  /\ \A r \in RunStarts :
       phase = "In" /\ Reaches(r, n) => NextJoin = JoinBefore(r) /\ cmd = CommandOf(r .. n - 1)
  /\ phase # "In" /\ ~IsCmd(n - 1) => NextJoin = JoinBefore(n)

TellInv ==
  /\ Built
  /\ ~lexed => script = <<>>
  /\ lexed /\ err = {} => (NotYet /\ script = <<>>) \/ Told
  /\ ScriptSaysTheTokens

(* The runs read are finitely many.                                        *)
LEMMA ReadRunsAre ==
  ASSUME LexInv
  PROVE  ReadRuns \in SUBSET Int /\ IsFiniteSet(ReadRuns) /\ ReadRuns \subseteq RunStarts
<1>1. DOMAIN lexemes = 1 .. Len(lexemes) /\ Len(lexemes) \in Nat
  BY Places
<1>2. ReadRuns \subseteq DOMAIN lexemes
  BY DEF ReadRuns, RunStarts
<1>3. IsFiniteSet(DOMAIN lexemes)
  BY <1>1, FS_Interval
<1> QED
  BY <1>1, <1>2, <1>3, FS_Subset DEF ReadRuns

(* Nothing is told before the first token.                                 *)
LEMMA NothingTold ==
  ASSUME ParseInv, Built, NotYet, script = <<>>
  PROVE  Told
<1>1. n = 1 /\ phase = "May" /\ list = <<>> /\ pipe = <<>> /\ conn = "First" /\ LexInv
  BY DEF NotYet, ParseInv, TypeOK
<1>2. ReadRuns = {}
  BY <1>1, Places DEF ReadRuns, RunStarts
<1>3. Sofar = <<>>
  <2>1. Joins = <<>>
    <3>1. Joins = ScriptJoins(<<>>)
      BY DEF Joins, ScriptJoins
    <3>2. <<>> \in Seq(Seq(Links))
      OBVIOUS
    <3> QED
      BY <3>1, <3>2, ScriptJoined
  <2>2. ListJoins(list, "Item") = <<>>
    BY <1>1, ListJoined DEF Built
  <2>3. PipeJoins([conn |-> conn, pipe |-> pipe], "Item") = <<>>
    BY <1>1, PipeJoined DEF Built, Links
  <2>4. <<>> \o <<>> \o <<>> = <<>>
    OBVIOUS
  <2> QED
    BY <2>1, <2>2, <2>3, <2>4, Zenon DEF Sofar
<1>4. NextJoin = JoinBefore(n)
  BY <1>1, JoinFirst DEF NextJoin
<1> QED
  BY <1>1, <1>2, <1>3, <1>4, NothingSaid DEF Told

(* Told after a step, of the tokens that it leaves as they are.            *)
ReadThen == {r \in RunStarts : r < n' /\ ~(phase' = "In" /\ Reaches(r, n'))}

ToldOn ==
  /\ Sofar' = JoinsOf(ReadThen)
  /\ \A r \in RunStarts :
       phase' = "In" /\ Reaches(r, n') => NextJoin' = JoinBefore(r) /\ cmd' = CommandOf(r .. n' - 1)
  /\ phase' # "In" /\ ~IsCmd(n' - 1) => NextJoin' = JoinBefore(n')

LEMMA ToldOnIs ==
  ASSUME UNCHANGED <<input, lexemes>>, ToldOn
  PROVE  Told'
<1>1. Told' <=>
        /\ Sofar' = JoinsOf(ReadRuns)'
        /\ \A r \in RunStarts' :
             phase' = "In" /\ Reaches(r, n)' => NextJoin' = JoinBefore(r)' /\ cmd' = CommandOf(r .. n - 1)'
        /\ phase' # "In" /\ ~IsCmd(n - 1)' => NextJoin' = JoinBefore(n)'
  BY DEF Told
<1>2. ReadRuns' = {r \in RunStarts' : r < n' /\ ~(phase' = "In" /\ Reaches(r, n)')}
  BY DEF ReadRuns
<1> QED
  BY <1>1, <1>2, TokensStay, SayingStays DEF ToldOn, ReadThen

(* A step that goes on keeps what is told.                                 *)
LEMMA ToldOnKeeps ==
  ASSUME ParseInv, TellInv, Parsing, UNCHANGED lexVars, parsed' = parsed, Built', ToldOn
  PROVE  TellInv'
<1>1. UNCHANGED <<input, lexemes, err, lexed>> /\ lexed /\ parsed' = FALSE
  BY DEF lexVars, Parsing
<1> QED
  BY <1>1, ToldOnIs DEF TellInv, ScriptSaysTheTokens

(* What is known while the tokens are read.                                *)
LEMMA WhileTelling ==
  ASSUME ParseInv, TellInv, Parsing
  PROVE  Built /\ Told
BY NothingTold DEF TellInv, Parsing

(* A newline joins nothing.                                                *)
LEMMA NewlineTells == ParseInv /\ TellInv /\ SkipNewline => TellInv'
<1>1. SUFFICES ASSUME ParseInv, TellInv, Parsing, SkipNewline PROVE TellInv'
  BY DEF SkipNewline
<1>2. /\ phase # "In" /\ ~AtEof /\ Tok(n).is = "Op" /\ n' = n + 1
      /\ UNCHANGED <<lexVars, phase, at, cmd, pipe, conn, list, script, words, parsed>>
  BY <1>1, WhileParsing DEF SkipNewline, AtOp
<1>3. Built /\ Told /\ LexInv /\ Progress /\ n \in Nat \ {0} /\ (n + 1) - 1 = n
  BY <1>1, WhileParsing, WhileTelling
<1>4. ~IsCmd(n) /\ ~IsCmd(n - 1)
  BY <1>2, <1>3 DEF IsCmd, Progress
<1>5. ReadThen = ReadRuns
  <2>1. \A r \in RunStarts : r \in Int /\ IsCmd(r)
    BY <1>3, Places DEF RunStarts
  <2>2. \A r \in RunStarts : r < n + 1 <=> r < n
    BY <1>3, <1>4, <2>1
  <2> QED
    BY <1>2, <2>2 DEF ReadThen, ReadRuns
<1>6. Sofar' = Sofar /\ NextJoin' = NextJoin /\ Built'
  BY <1>2, <1>3 DEF Sofar, NextJoin, Joins, Built
<1>7. JoinBefore(n + 1) = NextJoin
  BY <1>2, <1>3, <1>4, JoinStays DEF Told
<1>8. ToldOn
  BY <1>2, <1>3, <1>4, <1>5, <1>6, <1>7 DEF ToldOn, Told
<1> QED
  BY <1>1, <1>2, <1>6, <1>8, ToldOnKeeps

(* A command that starts says nothing yet.                                 *)
LEMMA StartTells == ParseInv /\ TellInv /\ StartCommand => TellInv'
<1>1. SUFFICES ASSUME ParseInv, TellInv, Parsing, StartCommand PROVE TellInv'
  BY DEF StartCommand
<1>2. /\ phase # "In" /\ ~AtEof /\ IsCmd(n) /\ n \in DOMAIN lexemes /\ phase' = "In"
      /\ UNCHANGED <<lexVars, n, cmd, pipe, conn, list, script, words, parsed>>
  BY <1>1, WhileParsing DEF StartCommand
<1>3. Built /\ Told /\ LexInv /\ Progress /\ n \in Nat /\ cmd = NoCmd
  BY <1>1, <1>2, WhileParsing, WhileTelling
<1>4. ~IsCmd(n - 1) /\ n \in RunStarts
  BY <1>2, <1>3 DEF Progress, RunStarts
<1>5. Reaches(n, n)
  BY <1>3, <1>4 DEF Reaches
<1>6. \A r : Reaches(r, n) => r = n
  BY <1>3, <1>5, OneRun
<1>7. ReadThen = ReadRuns
  <2>1. \A r \in RunStarts : r < n => r # n
    BY <1>3
  <2> QED
    BY <1>2, <1>6, <2>1 DEF ReadThen, ReadRuns
<1>8. Sofar' = Sofar /\ NextJoin' = NextJoin /\ Built'
  BY <1>2, <1>3 DEF Sofar, NextJoin, Joins, Built
<1>9. n .. n - 1 = {} /\ CommandOf(n .. n - 1) = NoCmd
  <2>1. n .. n - 1 = {}
    BY <1>3
  <2> QED
    BY <2>1, NothingSaid
<1>10. ToldOn
  BY <1>2, <1>3, <1>4, <1>6, <1>7, <1>8, <1>9 DEF ToldOn, Told
<1> QED
  BY <1>1, <1>2, <1>8, <1>10, ToldOnKeeps

(* What the run being read says with one more token.                       *)
LEMMA RunGrows ==
  ASSUME LexInv, NEW r \in Int, NEW k \in Nat, r <= k, NEW c \in Cmds, c = CommandOf(r .. k - 1)
  PROVE  /\ Tok(k).is = "Word" /\ ConvertWord(Tok(k).parts) \in Word =>
              CommandOf(r .. k) = [c EXCEPT !.words = Append(@, ConvertWord(Tok(k).parts))]
         /\ Tok(k).is = "Redir" /\ Tok(k).redir \in Redirs =>
              CommandOf(r .. k) = [c EXCEPT !.redirs = Append(@, Tok(k).redir)]
<1> DEFINE ws == WordsOf(r .. k - 1)
           rs == RedirsOf(r .. k - 1)
<1>1. r .. k = (r .. k - 1) \cup {k} /\ \A m \in r .. k - 1 : m < k /\ m \in Int
  OBVIOUS
<1>2. /\ ws \in SUBSET Int /\ rs \in SUBSET Int /\ IsFiniteSet(ws) /\ IsFiniteSet(rs)
      /\ \A m \in ws : m < k
      /\ \A m \in rs : m < k
  <2>1. IsFiniteSet(r .. k - 1)
    BY FS_Interval
  <2>2. ws \subseteq r .. k - 1 /\ rs \subseteq r .. k - 1
    BY DEF WordsOf, RedirsOf
  <2>3. IsFiniteSet(ws) /\ IsFiniteSet(rs)
    BY <2>1, <2>2, FS_Subset
  <2> HIDE DEF ws, rs
  <2> QED
    BY <1>1, <2>2, <2>3
<1> DEFINE W == ConvertWords(ws)
           R == RedirsIn(rs)
<1>3. c = [words |-> W, redirs |-> R]
  BY DEF CommandOf
<1> HIDE DEF ws, rs
<1>4. W \in Seq(Word) /\ R \in Seq(Redirs)
  <2> HIDE DEF W, R
  <2> QED
    BY <1>3 DEF Cmds
<1>5. ASSUME Tok(k).is = "Word", ConvertWord(Tok(k).parts) \in Word
      PROVE  CommandOf(r .. k) = [c EXCEPT !.words = Append(@, ConvertWord(Tok(k).parts))]
  <2> DEFINE w == ConvertWord(Tok(k).parts)
  <2>1. WordsOf(r .. k) = ws \cup {k} /\ RedirsOf(r .. k) = rs
    BY <1>1, <1>5, Zenon DEF WordsOf, RedirsOf, ws, rs
  <2>2. ConvertWords(ws \cup {k}) = Append(W, w)
    <3>1. k \in Int
      OBVIOUS
    <3> QED
      BY <1>2, <1>4, <1>5, <3>1, WordAdded, Zenon
  <2>3. CommandOf(r .. k) = [words |-> Append(W, w), redirs |-> R]
    BY <2>1, <2>2, Zenon DEF CommandOf
  <2> HIDE DEF W, R, w
  <2>4. [c EXCEPT !.words = Append(@, w)] = [words |-> Append(W, w), redirs |-> R]
    BY <1>3
  <2> QED
    BY <2>3, <2>4 DEF w
<1>6. ASSUME Tok(k).is = "Redir", Tok(k).redir \in Redirs
      PROVE  CommandOf(r .. k) = [c EXCEPT !.redirs = Append(@, Tok(k).redir)]
  <2>1. WordsOf(r .. k) = ws /\ RedirsOf(r .. k) = rs \cup {k}
    BY <1>1, <1>6, Zenon DEF WordsOf, RedirsOf, ws, rs
  <2>2. RedirsIn(rs \cup {k}) = Append(R, Tok(k).redir)
    <3>1. k \in Int
      OBVIOUS
    <3> QED
      BY <1>2, <1>4, <1>6, <3>1, RedirAdded, Zenon
  <2> DEFINE d == Tok(k).redir
  <2>3. CommandOf(r .. k) = [words |-> W, redirs |-> Append(R, d)]
    BY <2>1, <2>2, Zenon DEF CommandOf
  <2> HIDE DEF W, R, d
  <2>4. [c EXCEPT !.redirs = Append(@, d)] = [words |-> W, redirs |-> Append(R, d)]
    BY <1>3
  <2> QED
    BY <2>3, <2>4 DEF d
<1> QED
  BY <1>5, <1>6

(* A token of a command is told when it is taken.                          *)
LEMMA TakenTells ==
  ASSUME ParseInv, TellInv, Parsing, phase = "In", ~AtEof, IsCmd(n), n' = n + 1,
         UNCHANGED <<lexVars, phase, pipe, conn, list, script, parsed>>,
         \A r \in RunStarts : Reaches(r, n) => cmd' = CommandOf(r .. n)
  PROVE  TellInv'
<1>1. Built /\ Told /\ LexInv /\ n \in Nat /\ (n + 1) - 1 = n /\ n \in DOMAIN lexemes
  BY WhileParsing, WhileTelling
<1>2. PICK r \in RunStarts : /\ Reaches(r, n) /\ r \in Int /\ r <= n
                             /\ \A q : Reaches(q, n) => q = r
  BY InRun
<1>3. Reaches(r, n + 1)
  BY <1>1, <1>2, RunHas
<1>4. \A q : Reaches(q, n + 1) => q = r
  BY <1>1, <1>3, OneRun
<1>5. ReadThen = ReadRuns
  <2>1. \A q \in RunStarts : q \in Int
    BY <1>1, Places DEF RunStarts
  <2>2. ASSUME NEW q \in RunStarts PROVE q < n + 1 /\ ~Reaches(q, n + 1) <=> q < n /\ ~Reaches(q, n)
    <3>1. CASE q = r
      BY <1>2, <1>3, <3>1
    <3>2. CASE q # r
      <4>1. q # n
        <5>1. SUFFICES ASSUME q = n PROVE FALSE
          OBVIOUS
        <5>2. Reaches(n, n)
          BY <1>1, <2>2, <5>1 DEF Reaches
        <5> QED
          BY <1>2, <3>2, <5>1, <5>2
      <4> QED
        BY <1>1, <1>2, <1>4, <2>1, <3>2, <4>1
    <3> QED
      BY <3>1, <3>2
  <2> QED
    BY <2>2 DEF ReadThen, ReadRuns
<1>6. Sofar' = Sofar /\ NextJoin' = NextJoin /\ Built'
  BY <1>1 DEF Sofar, NextJoin, Joins, Built
<1>7. ToldOn
  BY <1>1, <1>2, <1>4, <1>5, <1>6 DEF ToldOn, Told
<1> QED
  BY <1>6, <1>7, ToldOnKeeps

(* A finding tells nothing.                                                *)
LEMMA RejectTells ==
  ASSUME ParseInv, TellInv, Parsing, NEW kind, NEW offset, Reject(kind, offset)
  PROVE  TellInv'
<1>1. err' # {} /\ UNCHANGED <<lexed, n, phase, pipe, conn, list, script, parsed>> /\ ~parsed
  BY DEF Reject, Parsing, parseVars
<1> QED
  BY <1>1 DEF TellInv, Built, ScriptSaysTheTokens, Parsing

(* A word is told.                                                         *)
LEMMA WordTells == ParseInv /\ TellInv /\ ReadWord => TellInv'
<1>1. SUFFICES ASSUME ParseInv, TellInv, Parsing, phase = "In", ~AtEof, Current.is = "Word", ReadWord
               PROVE  TellInv'
  BY DEF ReadWord
<1>2. \/ \E kind : Reject(kind, lexemes[n].offset)
      \/ TakeWord
  BY <1>1 DEF ReadWord
<1>3. CASE TakeWord
  <2>1. /\ cmd' = [cmd EXCEPT !.words = Append(@, ConvertWord(Current.parts))] /\ n' = n + 1
        /\ UNCHANGED <<lexVars, phase, pipe, conn, list, script, parsed>>
    BY <1>3 DEF TakeWord
  <2>2. /\ LexInv /\ n \in Nat /\ cmd \in Cmds /\ Told /\ Current = Tok(n) /\ Tok(n) \in Token
        /\ Tok(n).is = "Word" /\ n \in DOMAIN lexemes
    BY <1>1, WhileParsing, WhileTelling
  <2>3. IsCmd(n)
    BY <2>2 DEF IsCmd
  <2>4. ConvertWord(Tok(n).parts) \in Word
    <3>1. Tok(n).parts \in Seq(Part)
      BY <2>2, Tokens DEF Parts
    <3> QED
      BY <3>1, Converted
  <2>5. ASSUME NEW r \in RunStarts, Reaches(r, n) PROVE cmd' = CommandOf(r .. n)
    <3>1. r \in Int /\ r <= n /\ cmd = CommandOf(r .. n - 1)
      BY <1>1, <2>2, <2>5, Places DEF Told, Reaches, RunStarts
    <3> QED
      BY <2>1, <2>2, <2>4, <3>1, RunGrows
  <2> QED
    BY <1>1, <2>1, <2>3, <2>5, TakenTells
<1> QED
  BY <1>1, <1>2, <1>3, RejectTells

(* A redirect is told.                                                     *)
LEMMA RedirTells == ParseInv /\ TellInv /\ ReadRedir => TellInv'
<1>1. SUFFICES ASSUME ParseInv, TellInv, Parsing, phase = "In", ~AtEof, Current.is = "Redir", ReadRedir
               PROVE  TellInv'
  BY DEF ReadRedir
<1>2. /\ cmd' = [cmd EXCEPT !.redirs = Append(@, Current.redir)] /\ n' = n + 1
      /\ UNCHANGED <<lexVars, phase, pipe, conn, list, script, parsed>>
  BY <1>1 DEF ReadRedir
<1>3. /\ LexInv /\ n \in Nat /\ cmd \in Cmds /\ Told /\ Current = Tok(n) /\ Tok(n) \in Token
      /\ Tok(n).is = "Redir" /\ n \in DOMAIN lexemes
  BY <1>1, WhileParsing, WhileTelling
<1>4. IsCmd(n)
  BY <1>3 DEF IsCmd
<1>5. Tok(n).redir \in Redirs
  BY <1>3, Tokens
<1>6. ASSUME NEW r \in RunStarts, Reaches(r, n) PROVE cmd' = CommandOf(r .. n)
  <2>1. r \in Int /\ r <= n /\ cmd = CommandOf(r .. n - 1)
    BY <1>1, <1>3, <1>6, Places DEF Told, Reaches, RunStarts
  <2> QED
    BY <1>2, <1>3, <1>5, <2>1, RunGrows
<1> QED
  BY <1>1, <1>2, <1>4, <1>6, TakenTells

(* A command that ends is told with the runs read.                         *)
LEMMA EndsTell == ParseInv /\ TellInv /\ (EndByPipe \/ EndByConnector \/ EndBySeparator) => TellInv'
<1>1. SUFFICES ASSUME ParseInv, TellInv, Parsing, EndByPipe \/ EndByConnector \/ EndBySeparator
               PROVE  TellInv'
  BY DEF EndByPipe, EndByConnector, EndBySeparator, EndCommand
<1>2. /\ phase = "In" /\ cmd.words # <<>> /\ phase' # "In" /\ UNCHANGED <<lexVars, parsed>>
      /\ n' = (IF AtEof THEN n ELSE n + 1)
      /\ AtEof \/ AtOp
  <2>1. EndCommand => phase = "In" /\ cmd.words # <<>> /\ UNCHANGED <<lexVars, parsed>>
    BY DEF EndCommand
  <2> QED
    BY <1>1, <2>1 DEF EndByPipe, EndByConnector, EndBySeparator, AtOp
<1>3. /\ Built /\ Told /\ LexInv /\ n \in Nat /\ cmd \in Cmds /\ conn \in {"First", "AndIf", "OrIf"}
      /\ ~IsCmd(n)
  BY <1>1, <1>2, WhileParsing, WhileTelling DEF IsCmd
<1>4. PICK r \in RunStarts : /\ Reaches(r, n) /\ r \in Int /\ r <= n
                             /\ \A q : Reaches(q, n) => q = r
  BY <1>1, <1>2, InRun
<1>5. RunOf(r) = r .. n - 1 /\ r < n
  BY <1>3, <1>4, RunIs
<1>6. ASSUME NEW q \in RunStarts, q < n, q # r PROVE q < r /\ ~Reaches(q, n)
  <2>1. q \in Int /\ ~IsCmd(q - 1)
    BY <1>3, <1>6, Places DEF RunStarts
  <2>2. \A l \in r .. n - 1 : IsCmd(l)
    BY <1>4 DEF Reaches
  <2>3. ~(r < q)
    BY <1>3, <1>4, <1>6, <2>1, <2>2
  <2> QED
    BY <1>4, <1>6, <2>1, <2>3
<1>7. ReadThen = ReadRuns \cup {r} /\ \A q \in ReadRuns : q < r
  <2>1. \A q \in RunStarts : q \in Int /\ q # n
    BY <1>3, Places DEF RunStarts
  <2>2. \A q \in RunStarts : q < n' <=> q < n
    BY <1>2, <1>3, <2>1
  <2>3. ReadThen = {q \in RunStarts : q < n}
    BY <1>2, <2>2 DEF ReadThen
  <2>4. \A q \in ReadRuns : q \in RunStarts /\ q < n /\ q # r
    BY <1>2, <1>4 DEF ReadRuns
  <2>5. \A q \in ReadThen : q \in ReadRuns \/ q = r
    BY <1>6, <2>3 DEF ReadRuns
  <2> QED
    BY <1>4, <1>5, <1>6, <2>3, <2>4, <2>5
<1>8. /\ conn' \in {"First", "AndIf", "OrIf"}
      /\ \/ pipe' = Piped /\ UNCHANGED <<conn, list, script>>
         \/ pipe' = <<>> /\ list' = Listed /\ UNCHANGED script
         \/ pipe' = <<>> /\ list' = <<>> /\ script' = Append(script, Listed)
  BY <1>1, <1>3 DEF EndByPipe, EndByConnector, EndBySeparator
<1>9. Built' /\ Sofar \in Seq(Join) /\ Sofar' = Append(Sofar, <<NextJoin, cmd>>)
  BY <1>3, <1>8, OneSaid
<1>10. Sofar' = JoinsOf(ReadThen)
  <2> DEFINE said == <<NextJoin, cmd>>
             S == ReadRuns
  <2>1. said \in Join /\ said = <<JoinBefore(r), CommandOf(RunOf(r))>>
    BY <1>2, <1>3, <1>4, <1>5, NextIs DEF Told
  <2>2. S \in SUBSET Int /\ IsFiniteSet(S) /\ \A m \in S : m < r
    BY <1>3, <1>7, ReadRunsAre
  <2>3. JoinsOf(S) = Sofar
    BY <1>3 DEF Told
  <2> HIDE DEF said, S
  <2>4. JoinsOf(S \cup {r}) = Append(JoinsOf(S), said)
    BY <1>4, <1>9, <2>1, <2>2, <2>3, RunAdded
  <2>5. Sofar' = Append(Sofar, said)
    BY <1>9 DEF said
  <2> QED
    BY <1>7, <2>3, <2>4, <2>5, Zenon DEF S
<1>11. ~IsCmd(n' - 1) => NextJoin' = JoinBefore(n')
  <2>1. IsCmd(n - 1) /\ n \in Nat \ {0}
    BY <1>1, <1>2, <1>3, AtEndOfCommand, Places
  <2>2. SUFFICES ASSUME ~AtEof PROVE NextJoin' = JoinBefore(n + 1)
    BY <1>2, <2>1
  <2>3. JoinBefore(n + 1) = JoinedBy(Tok(n).op)
    BY <1>3, <2>1, JoinIs
  <2>4. Current = Tok(n)
    BY DEF Current, Tok
  <2>5. NextJoin' = JoinedBy(Tok(n).op)
    <3>1. CASE EndByPipe
      <4>1. pipe' # <<>> /\ Tok(n).op = "Pipe"
        BY <1>3, <2>4, <3>1 DEF EndByPipe, Piped, Built
      <4> QED
        BY <4>1 DEF NextJoin, JoinedBy
    <3>2. CASE EndByConnector
      BY <2>4, <3>2 DEF EndByConnector, NextJoin, JoinedBy
    <3>3. CASE EndBySeparator
      BY <2>2, <2>4, <3>3 DEF EndBySeparator, NextJoin, JoinedBy
    <3> QED
      BY <1>1, <3>1, <3>2, <3>3
  <2> QED
    BY <2>3, <2>5
<1>12. ToldOn
  BY <1>2, <1>10, <1>11 DEF ToldOn
<1>13. parsed' = parsed /\ UNCHANGED lexVars
  BY <1>2
<1> QED
  BY <1>1, <1>9, <1>12, <1>13, ToldOnKeeps

(* The end of the script has told every run.                               *)
LEMMA ScriptEndTells == ParseInv /\ TellInv /\ EndOfScript => TellInv'
<1>1. SUFFICES ASSUME ParseInv, TellInv, Parsing, EndOfScript PROVE TellInv'
  BY DEF EndOfScript
<1>2. /\ phase = "May" /\ AtEof
      /\ UNCHANGED <<lexVars, n, phase, cmd, pipe, conn, list, script>>
  BY <1>1 DEF EndOfScript
<1>3. /\ Built /\ Told /\ LexInv /\ n = Len(lexemes) + 1 /\ list = <<>> /\ pipe = <<>> /\ conn = "First"
      /\ DOMAIN lexemes = 1 .. Len(lexemes) /\ Len(lexemes) \in Nat
  BY <1>1, <1>2, WhileParsing, WhileTelling
<1>4. ReadRuns = RunStarts
  <2>1. \A r \in RunStarts : r < n
    BY <1>3 DEF RunStarts
  <2> QED
    BY <1>2, <2>1 DEF ReadRuns
<1>5. Sofar = Joins
  <2>1. Joins \in Seq(Join)
    <3>1. Joins = ScriptJoins(script)
      BY DEF Joins, ScriptJoins
    <3> QED
      BY <1>3, <3>1, ScriptJoined DEF Built
  <2>2. ListJoins(list, "Item") = <<>>
    BY <1>3, ListJoined DEF Built
  <2>3. PipeJoins([conn |-> conn, pipe |-> pipe], "Item") = <<>>
    <3>1. [conn |-> conn, pipe |-> pipe] \in Links /\ [conn |-> conn, pipe |-> pipe].pipe = <<>>
      BY <1>3 DEF Built, Links
    <3> QED
      BY <3>1, PipeJoined
  <2>4. Joins \o <<>> = Joins
    BY <2>1, ConcatEmptySeq
  <2> QED
    BY <2>2, <2>3, <2>4, Zenon DEF Sofar
<1>6. Joins = JoinsOf(RunStarts)
  BY <1>3, <1>4, <1>5 DEF Told
<1>7. UNCHANGED <<input, lexemes, err, lexed>>
  BY <1>2 DEF lexVars
<1>8. Joins' = Joins /\ JoinsOf(RunStarts)' = JoinsOf(RunStarts)
  <2>1. RunStarts' = RunStarts
    BY <1>7, TokensStay
  <2> QED
    BY <1>2, <1>7, <2>1, SayingStays DEF Joins
<1>9. ScriptSaysTheTokens'
  BY <1>6, <1>8 DEF ScriptSaysTheTokens
<1>10. Built'
  BY <1>2, <1>3 DEF Built
<1>11. Told'
  <2>1. ReadThen = ReadRuns
    BY <1>2 DEF ReadThen, ReadRuns
  <2>2. Sofar' = Sofar /\ NextJoin' = NextJoin
    BY <1>2, <1>8 DEF Sofar, NextJoin
  <2>3. ToldOn
    BY <1>2, <1>3, <2>1, <2>2 DEF ToldOn, Told
  <2> QED
    BY <1>7, <2>3, ToldOnIs
<1> QED
  BY <1>1, <1>7, <1>9, <1>10, <1>11 DEF TellInv, Parsing

(* The lexer tells nothing.                                                *)
LEMMA LexTells == ParseInv /\ TellInv /\ Lex => TellInv'
<1>1. SUFFICES ASSUME ParseInv, TellInv, Lex PROVE TellInv'
  OBVIOUS
<1>2. ~lexed /\ UNCHANGED parseVars
  BY <1>1, LexOnce DEF Lex
<1>3. NotYet /\ script = <<>> /\ Built /\ UNCHANGED <<n, phase, words, parsed, script, pipe, list>>
  BY <1>1, <1>2 DEF ParseInv, TellInv, parseVars
<1>4. NotYet' /\ script' = <<>> /\ Built' /\ parsed' = FALSE
  BY <1>3 DEF NotYet, Built
<1> QED
  BY <1>4 DEF TellInv, ScriptSaysTheTokens

(* Nothing is told at first.                                               *)
LEMMA TellStarts == Init => TellInv
<1>1. SUFFICES ASSUME Init PROVE TellInv
  OBVIOUS
<1>2. NotYet /\ script = <<>> /\ pipe = <<>> /\ list = <<>> /\ parsed = FALSE
  BY <1>1 DEF Init, NotYet
<1>3. Built
  BY <1>2 DEF Built
<1> QED
  BY <1>2, <1>3 DEF TellInv, ScriptSaysTheTokens

(* Every step goes on telling.                                             *)
LEMMA TellStep == ParseInv /\ TellInv /\ [Next]_vars => TellInv'
<1>1. SUFFICES ASSUME ParseInv, TellInv, [Next]_vars PROVE TellInv'
  OBVIOUS
<1>2. CASE Lex
  BY <1>1, <1>2, LexTells
<1>3. CASE Parse
  <2>1. CASE SkipNewline
    BY <1>1, <2>1, NewlineTells
  <2>2. CASE EndOfScript
    BY <1>1, <2>2, ScriptEndTells
  <2>3. CASE MissingCommand
    <3>1. Parsing /\ \E kind, offset : Reject(kind, offset)
      BY <2>3 DEF MissingCommand
    <3> QED
      BY <1>1, <3>1, RejectTells
  <2>4. CASE StartCommand
    BY <1>1, <2>4, StartTells
  <2>5. CASE ReadWord
    BY <1>1, <2>5, WordTells
  <2>6. CASE ReadRedir
    BY <1>1, <2>6, RedirTells
  <2>7. CASE RedirectOnly
    <3>1. Parsing /\ \E kind, offset : Reject(kind, offset)
      BY <2>7 DEF RedirectOnly
    <3> QED
      BY <1>1, <3>1, RejectTells
  <2>8. CASE EndByPipe \/ EndByConnector \/ EndBySeparator
    BY <1>1, <2>8, EndsTell
  <2> QED
    BY <1>3, <2>1, <2>2, <2>3, <2>4, <2>5, <2>6, <2>7, <2>8 DEF Parse
<1>4. CASE UNCHANGED vars
  <2>1. UNCHANGED <<input, lexemes, err, lexed, n, phase, cmd, pipe, conn, list, script, words, parsed>>
    BY <1>4 DEF vars, lexVars, parseVars
  <2>2. Built' = Built /\ NotYet' = NotYet /\ Joins' = Joins /\ Sofar' = Sofar /\ NextJoin' = NextJoin
    BY <2>1 DEF Built, NotYet, Joins, Sofar, NextJoin
  <2>3. JoinsOf(RunStarts)' = JoinsOf(RunStarts)
    <3>1. RunStarts' = RunStarts
      BY <2>1, TokensStay
    <3> QED
      BY <2>1, <3>1, SayingStays
  <2>4. Told => Told'
    <3>1. ReadThen = ReadRuns
      BY <2>1 DEF ReadThen, ReadRuns
    <3>2. Told => ToldOn
      BY <2>1, <2>2, <3>1 DEF ToldOn, Told
    <3> QED
      BY <2>1, <3>2, ToldOnIs
  <2> QED
    BY <1>1, <2>1, <2>2, <2>3, <2>4 DEF TellInv, ScriptSaysTheTokens
<1> QED
  BY <1>1, <1>2, <1>3, <1>4 DEF Next, Done

(* What is built tells the runs read, always.                              *)
THEOREM TellInvAlways == Spec => []TellInv
<1>1. Init => TellInv
  BY TellStarts
<1>2. ParseInv /\ TellInv /\ [Next]_vars => TellInv'
  BY TellStep
<1> QED
  BY <1>1, <1>2, ParseInvAlways, PTL DEF Spec

(* The script parse returns has every command of the input once, in order, *)
(* with all its words and redirects, joined to the one before by the       *)
(* operator between them.                                                  *)
THEOREM ScriptAlways == Spec => []ScriptSaysTheTokens
<1>1. TellInv => ScriptSaysTheTokens
  BY DEF TellInv
<1> QED
  BY <1>1, TellInvAlways, PTL
=============================================================================

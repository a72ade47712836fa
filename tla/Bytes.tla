------------------------------- MODULE Bytes -------------------------------
(***************************************************************************)
(* Paths as sequences of bytes: the ASCII case fold and, segment by        *)
(* segment, the lexical normal form that rule targets are compared in.     *)
(***************************************************************************)
EXTENDS Integers, SequencesExt

CONSTANTS
  LowerOf,   \* the lower-case byte of every ASCII upper-case byte
  NonAscii   \* the bytes that are not ASCII

ASSUME LowerAssumption ==
  \A c \in DOMAIN LowerOf : c \notin {"/", "."} /\ LowerOf[c] \in STRING \ {"/", "."}

ASSUME AsciiAssumption ==
  /\ "/" \notin NonAscii /\ "." \notin NonAscii
  /\ \A c \in DOMAIN LowerOf : c \notin NonAscii /\ LowerOf[c] \notin NonAscii

FoldByte(c) == IF c \in DOMAIN LowerOf THEN LowerOf[c] ELSE c

FoldAscii(bytes) == [n \in DOMAIN bytes |-> FoldByte(bytes[n])]

(* The segments between slashes: at least one, perhaps empty.              *)
SplitSegs(p) ==
  FoldLeft(LAMBDA segs, c :
             IF c = "/" THEN Append(segs, <<>>)
             ELSE [segs EXCEPT ![Len(segs)] = Append(@, c)],
           <<<<>>>>, p)

KeepSeg(seg) == seg # <<>> /\ seg # <<".">>

FilterSegs(segs) ==
  FoldLeft(LAMBDA kept, seg : IF KeepSeg(seg) THEN Append(kept, seg) ELSE kept, <<>>, segs)

Kept(p) == FilterSegs(SplitSegs(p))

JoinSegs(segs) ==
  FoldLeft(LAMBDA p, seg : IF p = <<>> THEN seg ELSE p \o <<"/">> \o seg, <<>>, segs)

StartsSlash(p) == p # <<>> /\ p[1] = "/"

Lead(p) == IF StartsSlash(p) THEN <<"/">> ELSE <<>>

NormalForm(p) ==
  IF p # <<>> /\ ~StartsSlash(p) /\ Kept(p) = <<>> THEN <<".">>
  ELSE Lead(p) \o JoinSegs(Kept(p))

-----------------------------------------------------------------------------
(* A variant that finds only names in the middle of the path.              *)
HasDotDotInside(p) ==
  \E n \in 2 .. Len(p) - 2 :
    p[n] = "." /\ p[n + 1] = "." /\ p[n - 1] = "/" /\ p[n + 2] = "/"

(* Two dots between slashes or the ends of the path.                       *)
HasDotDot(p) ==
  \E n \in 1 .. Len(p) - 1 :
    /\ p[n] = "." /\ p[n + 1] = "."
    /\ n = 1 \/ p[n - 1] = "/"
    /\ n + 1 = Len(p) \/ p[n + 2] = "/"

HasNonAscii(p) == \E n \in DOMAIN p : p[n] \in NonAscii
=============================================================================

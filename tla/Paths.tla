------------------------------- MODULE Paths -------------------------------
(***************************************************************************)
(* How decide reads a path word and compares it with a rule's target, as   *)
(* the code does it, byte by byte on folded normal forms, and, for         *)
(* reference, what a target covers in terms of directories and names.      *)
(***************************************************************************)
EXTENDS Grammar, Bytes

(* The parts of a word or target: literal bytes, a "~", a variable.        *)
Part == [kind: {"Lit", "Tilde", "Var"}, bytes: Seq(Byte)]

Lit(bytes) == [kind |-> "Lit", bytes |-> bytes]
Tilde == [kind |-> "Tilde", bytes |-> <<>>]
Var == [kind |-> "Var", bytes |-> <<>>]

PatKind == {"Exact", "Prefix", "Under", "Component", "ComponentPrefix"}

-----------------------------------------------------------------------------
(* Views.                                                                  *)

HasOpaque(parts) == \E n \in DOMAIN parts : parts[n].kind # "Lit"

(* The bytes of the literal parts before the first opaque one.             *)
LitPrefix(parts) ==
  FlattenSeq([n \in 1 .. Len(parts) |->
                IF HasOpaque(SubSeq(parts, 1, n)) THEN <<>> ELSE parts[n].bytes])

LitView(parts) == [lit |-> LitPrefix(parts), opaque |-> HasOpaque(parts)]

(* The parts after a leading "~"; empty literals in front play no part.    *)
TildeAt(parts) ==
  {n \in DOMAIN parts :
     parts[n].kind = "Tilde" /\ \A m \in 1 .. n - 1 : parts[m] = Lit(<<>>)}

HasTilde(parts) == TildeAt(parts) # {}

Body(parts) ==
  IF HasTilde(parts) THEN SubSeq(parts, (CHOOSE n \in TildeAt(parts) : TRUE) + 1, Len(parts))
  ELSE parts

PathLead(parts) == LitPrefix(Body(parts))

PathMore(parts) == HasOpaque(Body(parts))

PathNorm(parts) ==
  IF PathMore(parts) THEN FoldAscii(PathLead(parts))
  ELSE NormalForm(FoldAscii(PathLead(parts)))

(* A bare "~" is compared as "~/" is.                                      *)
PathView(parts) ==
  [tilde |-> HasTilde(parts),
   lead  |-> FoldAscii(PathLead(parts)),
   norm  |-> PathNorm(parts),
   key   |-> IF HasTilde(parts) /\ ~PathMore(parts) /\ PathLead(parts) = <<>>
             THEN <<"/">> ELSE PathNorm(parts),
   more  |-> PathMore(parts)]

(* The value given inline in an option word, after its first off bytes; no *)
(* shell expands a "~" there.                                              *)
InlineValueOf(parts, off) == SubSeq(LitPrefix(parts), off + 1, Len(LitPrefix(parts)))

(* The parser gives no option word such a value; if it did, the value      *)
(* would match everything and fail its check.                              *)
InlineBad(parts, off) == HasOpaque(parts) \/ off > Len(LitPrefix(parts))

InlineView(parts, off) ==
  LET v == InlineValueOf(parts, off)
  IN  [tilde |-> FALSE, lead |-> FoldAscii(v), norm |-> NormalForm(FoldAscii(v)),
       key |-> NormalForm(FoldAscii(v)), more |-> FALSE]

-----------------------------------------------------------------------------
(* Matching.                                                               *)

(* A variant without the boundary.                                         *)
UnderAsPrefix(q, path) == IsPrefix(q, path)

(* q is path or a directory above it.                                      *)
Under(q, path) ==
  /\ IsPrefix(q, path)
  /\ \/ Len(q) = Len(path)
     \/ path[Len(q) + 1] = "/"
     \/ q # <<>> /\ q[Len(q)] = "/"

SegHit(key, q, n, whole) ==
  /\ n = 1 \/ key[n - 1] = "/"
  /\ SubSeq(key, n, n + Len(q) - 1) = q
  /\ whole => n + Len(q) - 1 = Len(key) \/ key[n + Len(q)] = "/"

Component(key, q, whole) ==
  \E n \in 1 .. Len(key) - Len(q) + 1 : SegHit(key, q, n, whole)

(* pat matches a word with the view w.                                     *)
PatMatch(pat, w) ==
  LET q == PathView(pat.parts)
  IN  \/ q.more
      \/ pat.kind = "Component" /\ Component(w.key, q.key, TRUE)
      \/ pat.kind = "ComponentPrefix" /\ Component(w.key, q.key, FALSE)
      \/ pat.kind = "Prefix" /\ q.tilde # w.tilde /\ ~q.tilde /\ q.lead = <<>>
      \/ /\ q.tilde = w.tilde
         /\ \/ pat.kind = "Exact" /\ ~w.more /\ (w.norm = q.lead \/ w.key = q.key)
            \/ pat.kind = "Prefix" /\ (IsPrefix(q.lead, w.norm) \/ IsPrefix(q.key, w.key))
            \/ pat.kind = "Under" /\ (Under(q.lead, w.norm) \/ Under(q.key, w.key))

-----------------------------------------------------------------------------
(* The checks of a path word, of which the first that fails is reported.   *)

PathFault(bytes, opaque, anchored, cwd) ==
  IF opaque THEN {"PathOpaque"}
  ELSE IF HasDotDot(bytes) THEN {"PathDotDot"}
  ELSE IF HasNonAscii(bytes) THEN {"PathNonAscii"}
  ELSE IF cwd /\ ~anchored /\ ~StartsSlash(bytes) THEN {"PathAfterCd"}
  ELSE {}

WordPathCheck(parts, cwd) ==
  PathFault(PathLead(parts), PathMore(parts), HasTilde(parts), cwd)

InlinePathCheck(parts, off, cwd) ==
  PathFault(InlineValueOf(parts, off), InlineBad(parts, off), FALSE, cwd)

-----------------------------------------------------------------------------
(* The targets the loader accepts: in normal form, and of each kind only   *)
(* those whose bytes say what the kind means.  A target's text is a "~" or *)
(* not, and literal bytes.                                                 *)
TargetAccepted(tilde, bytes, kind) ==
  /\ tilde \/ bytes # <<>>
  /\ tilde => bytes = <<>> \/ StartsSlash(bytes)
  /\ kind \in {"Component", "ComponentPrefix"} =>
       ~tilde /\ ~StartsSlash(bytes) /\ ~HasDotDot(bytes)
  /\ kind = "Prefix" /\ bytes # <<>> =>
       bytes[Len(bytes)] # "/" \/ (~tilde /\ bytes = <<"/">>)
  /\ NormalForm(bytes) = bytes
  /\ bytes = <<".">> => kind = "Exact"

TargetParts(tilde, bytes) ==
  (IF tilde THEN <<Tilde>> ELSE <<>>) \o (IF bytes = <<>> THEN <<>> ELSE <<Lit(bytes)>>)

-----------------------------------------------------------------------------
(* The reference: where a path word starts, and the names on its way.      *)

Anchor(tilde, bytes) == IF tilde THEN "~" ELSE IF StartsSlash(bytes) THEN "/" ELSE "here"

Names(bytes) == Kept(FoldAscii(bytes))

(* qs is the start of ns, but for the end of its last name.                *)
StartOf(qs, ns) ==
  \/ qs = <<>>
  \/ /\ Len(qs) <= Len(ns)
     /\ IsPrefix(Front(qs), ns)
     /\ IsPrefix(Last(qs), ns[Len(qs)])

(* A target of a kind covers the path: by anchors and names.               *)
CoversPath(kind, pt, pb, wt, wb) ==
  LET ns == Names(wb)
      qs == Names(pb)
      sameAnchor == Anchor(pt, pb) = Anchor(wt, wb)
  IN  \/ kind = "Exact" /\ sameAnchor /\ ns = qs
      \/ kind = "Under" /\ sameAnchor /\ IsPrefix(qs, ns)
      \/ kind = "Prefix" /\ sameAnchor /\ StartOf(qs, ns)
      \/ kind = "Component" /\ \E n \in 0 .. Len(ns) : IsPrefix(qs, SubSeq(ns, n + 1, Len(ns)))
      \/ kind = "ComponentPrefix" /\ \E n \in 0 .. Len(ns) : StartOf(qs, SubSeq(ns, n + 1, Len(ns)))
=============================================================================

----------------------------- MODULE Normalize -----------------------------
(***************************************************************************)
(* normalize_path: one pass over the bytes of a path that copies each      *)
(* segment worth keeping when it ends.                                     *)
(***************************************************************************)
EXTENDS Bytes

CONSTANT Inputs  \* paths

ASSUME InputsAssumption == Inputs \subseteq Seq(STRING)

VARIABLES
  p,       \* the path, fixed
  out,     \* the normal form so far
  first,   \* no segment was copied yet
  s,       \* where the current segment starts
  i,       \* the byte being read
  ended

normalizeVars == <<p, out, first, s, i, ended>>

NormalizeInit ==
  /\ p \in Inputs
  /\ out = Lead(p)
  /\ first = TRUE
  /\ s = 1 /\ i = 1
  /\ ended = FALSE

(* A variant that drops every segment that starts with a dot.              *)
EmitSegDots(e) ==
  IF e = s \/ p[s] = "."
  THEN UNCHANGED <<out, first>>
  ELSE /\ out' = out \o (IF first THEN <<>> ELSE <<"/">>) \o SubSeq(p, s, e - 1)
       /\ first' = FALSE

(* A variant that always puts a slash in front.                            *)
EmitSegSlash(e) ==
  IF e = s \/ (e = s + 1 /\ p[s] = ".")
  THEN UNCHANGED <<out, first>>
  ELSE /\ out' = out \o <<"/">> \o SubSeq(p, s, e - 1)
       /\ first' = FALSE

(* The segment that starts at s ends before e.                             *)
EmitSeg(e) ==
  IF e = s \/ (e = s + 1 /\ p[s] = ".")
  THEN UNCHANGED <<out, first>>
  ELSE /\ out' = out \o (IF first THEN <<>> ELSE <<"/">>) \o SubSeq(p, s, e - 1)
       /\ first' = FALSE

InLoop == ~ended /\ p # <<>> /\ i <= Len(p)

AtByte ==
  /\ InLoop
  /\ p[i] # "/"
  /\ i' = i + 1
  /\ UNCHANGED <<p, out, first, s, ended>>

AtSlash ==
  /\ InLoop
  /\ p[i] = "/"
  /\ EmitSeg(i)
  /\ s' = i + 1
  /\ i' = i + 1
  /\ UNCHANGED <<p, ended>>

AtEnd ==
  /\ ~ended /\ p # <<>> /\ i > Len(p)
  /\ EmitSeg(i)
  /\ s' = i + 1
  /\ ended' = TRUE
  /\ UNCHANGED <<p, i>>

EmptyPath ==
  /\ ~ended /\ p = <<>>
  /\ ended' = TRUE
  /\ UNCHANGED <<p, out, first, s, i>>

NormalizeNext == AtByte \/ AtSlash \/ AtEnd \/ EmptyPath

NormalizeSpec == NormalizeInit /\ [][NormalizeNext]_normalizeVars

(* What is returned: a relative path with nothing left is the directory    *)
(* itself.                                                                 *)
Returned == IF first /\ p # <<>> /\ ~StartsSlash(p) THEN <<".">> ELSE out

-----------------------------------------------------------------------------
(* The loop has copied the kept segments of what it has passed, and what   *)
(* it returns is the normal form.                                          *)
CopiesTheKeptSegments ==
  /\ s <= Len(p) + 2 /\ i <= Len(p) + 1
  /\ out = Lead(p) \o JoinSegs(Kept(SubSeq(p, 1, s - 2)))
  /\ first <=> Kept(SubSeq(p, 1, s - 2)) = <<>>
  /\ ended => Returned = NormalForm(p)

(* The normal form has one spelling per place: normalising it again        *)
(* changes nothing, and it starts at the same directory and passes the     *)
(* same names and "..": no other path is matched in its stead.             *)
OneSpellingPerPlace ==
  ended =>
    /\ NormalForm(Returned) = Returned
    /\ Kept(Returned) = Kept(p)
    /\ StartsSlash(Returned) <=> StartsSlash(p)
    /\ \A n \in 1 .. Len(Returned) - 1 : Returned[n] = "/" => Returned[n + 1] # "/"
    /\ Len(Returned) > 1 => Returned[Len(Returned)] # "/"
=============================================================================

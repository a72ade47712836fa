---------------------------- MODULE MCNormalize ----------------------------
(* All paths of at most MaxLen bytes.                                      *)
EXTENDS Normalize

CONSTANT MaxLen

MCLowerOf == [c \in {} |-> c]

MCNonAscii == {}

MCInputs == UNION {[1 .. n -> {"/", ".", "a"}] : n \in 0 .. MaxLen}
=============================================================================

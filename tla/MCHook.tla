------------------------------- MODULE MCHook -------------------------------
(***************************************************************************)
(* Inputs and configs for the hook.  The names say what the kernel decides *)
(* under the embedded catalog and under the user's.                        *)
(***************************************************************************)
EXTENDS Hook, TLC

Bash(embedded, merged) ==
  [kind |-> "Command", long |-> FALSE, script |-> TRUE,
   decision |-> [c \in {"embedded", "merged"} |->
                   IF c = "embedded" THEN embedded ELSE merged]]

OtherTool == [Empty EXCEPT !.kind = "NotBash"]
Garbage == Empty
Allowed == Bash("Allow", "Allow")
Uncovered == Bash("Ask", "Ask")
Forbidden == Bash("Block", "Block")

\* The user's rules block what the embedded catalog allows, and the user's
\* rows allow what it asks about.
Raised == Bash("Allow", "Block")
Widened == Bash("Ask", "Allow")

\* Outside the parsed subset, and larger than the cap.
Unparsed == [Allowed EXCEPT !.script = FALSE]
Oversized == [Allowed EXCEPT !.long = TRUE]
OversizedOther == [OtherTool EXCEPT !.long = TRUE]

AllInputs ==
  {OtherTool, Garbage, Allowed, Uncovered, Forbidden, Raised, Widened,
   Unparsed, Oversized, OversizedOther}

FewInputs == {OtherTool, Uncovered}

Good(ask_outcome, log) == [held |-> "good", ask_outcome |-> ask_outcome, log |-> log]

Bad == [held: {"absent", "unreadable", "refused"}, ask_outcome: {"Deny"}, log: {FALSE}]

AllConfigs == Bad \cup {Good("Ask", FALSE), Good("Deny", TRUE)}

\* The logging runs compare hooks only by their lines.
HookSymmetry == Permutations(Hook)

LoggingConfig == {Good("Ask", TRUE)}
=============================================================================

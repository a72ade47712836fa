------------------------------- MODULE Respond -------------------------------
(***************************************************************************)
(* The decision flow of hook mode: where the config is looked for, what    *)
(* loading it gives, and the response to one input.  Texts are left out,   *)
(* except for what their parse gives.                                      *)
(***************************************************************************)

(* What the config file can hold: nothing there, something that cannot be  *)
(* read, a text the loader refuses, or a good text, with its ask_outcome   *)
(* and whether it names a decision log.                                    *)
Config ==
  [held: {"absent", "unreadable", "refused", "good"}, ask_outcome: {"Ask", "Deny"},
   log: BOOLEAN]

-----------------------------------------------------------------------------
(* Loading.                                                                *)

Location == {"Nowhere", "Default", "Explicit", "Relative"}

Settings ==
  [ok: BOOLEAN, catalog: {"none", "embedded", "merged"}, ask_outcome: {"Ask", "Deny"},
   log: BOOLEAN]

(* settings(EMBEDDED, None): the embedded catalog, Asks become denies, and *)
(* no decision log.                                                        *)
Defaults == [ok |-> TRUE, catalog |-> "embedded", ask_outcome |-> "Deny", log |-> FALSE]

(* settings(EMBEDDED, Some(text)): the user's file is merged in.           *)
Merged(config) ==
  [ok |-> TRUE, catalog |-> "merged", ask_outcome |-> config.ask_outcome, log |-> config.log]

(* No settings: every Bash call is denied.                                 *)
LoadError == [ok |-> FALSE, catalog |-> "none", ask_outcome |-> "Deny", log |-> FALSE]

(* A variant in which any failure to read an optional config means none.   *)
LoadOptionally(where, config) ==
  IF where = "Nowhere" THEN Defaults
  ELSE IF where = "Relative" THEN LoadError
  ELSE IF config.held = "good" THEN Merged(config)
  ELSE IF config.held # "refused" /\ where = "Default" THEN Defaults
  ELSE LoadError

(* Only a missing file at the default path means "no config".              *)
LoadSettings(where, config) ==
  IF where = "Nowhere" THEN Defaults
  ELSE IF where = "Relative" THEN LoadError
  ELSE IF config.held = "good" THEN Merged(config)
  ELSE IF config.held = "absent" /\ where = "Default" THEN Defaults
  ELSE LoadError

-----------------------------------------------------------------------------
(* Inputs and responses.                                                   *)

(* What stdin holds: a call of another tool, a Bash call with a command,   *)
(* or neither.  "long": more than INPUT_CAP bytes.  "script": the command  *)
(* is not blank and parses; only then does the kernel's decision under the *)
(* embedded and under the merged catalog matter.                           *)
Input ==
  [kind: {"NotBash", "Command", "Malformed"}, long: BOOLEAN, script: BOOLEAN,
   decision: [{"embedded", "merged"} -> {"Allow", "Ask", "Block"}]]

(* An input cut off by a read error is cleared, and nothing is no JSON.    *)
Empty ==
  [kind |-> "Malformed", long |-> FALSE, script |-> FALSE,
   decision |-> [c \in {"embedded", "merged"} |-> "Ask"]]

Response == {"NoDecision", "Allow", "Ask", "Deny"}

Request(input) == IF input.long THEN "Malformed" ELSE input.kind

(* judge: a blank command or one that does not parse is an Ask, otherwise  *)
(* the kernel decides.                                                     *)
Judge(input, catalog) == IF input.script THEN input.decision[catalog] ELSE "Ask"

(* A variant in which ask_outcome = "ask" also softens a Block.            *)
AskOutcomeOfAny(judged, settings) ==
  CASE judged = "Allow" -> "Allow"
    [] judged = "Block" -> settings.ask_outcome
    [] judged = "Ask" -> settings.ask_outcome

(* Every Ask goes through ask_outcome; a Block is always a deny.           *)
Respond(judged, settings) ==
  CASE judged = "Allow" -> "Allow"
    [] judged = "Block" -> "Deny"
    [] judged = "Ask" -> settings.ask_outcome

(* Another tool gets no decision even when nothing loaded; without         *)
(* settings everything else is denied, malformed inputs included.          *)
Answer(input, settings) ==
  IF Request(input) = "NotBash" THEN "NoDecision"
  ELSE IF ~settings.ok THEN "Deny"
  ELSE IF Request(input) = "Malformed" THEN Respond("Ask", settings)
  ELSE Respond(Judge(input, settings.catalog), settings)
=============================================================================

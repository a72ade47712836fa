-------------------------------- MODULE Hook --------------------------------
(***************************************************************************)
(* shguard as a PreToolUse hook: one process per tool call, several at a   *)
(* time.  Each reads its stdin and the config, writes one answer, then     *)
(* lets a helper thread append to the decision log for a bounded time.     *)
(* Claude Code may kill a process at any moment.                           *)
(***************************************************************************)
EXTENDS Respond, DecisionLog

CONSTANTS
  Inputs,       \* what stdin may hold
  Locations,    \* where the environment may say the config is
  Configs,      \* what the config file may hold
  OnFailure,    \* "block" or "run": the hook entry's onFailure
  MaxEdits      \* bound: times the config file is changed

ASSUME HookAssumption ==
  /\ Inputs \subseteq Input /\ Locations \subseteq Location /\ Configs \subseteq Config
  /\ OnFailure \in {"block", "run"}
  /\ MaxEdits \in Nat

VARIABLES
  location,   \* where the environment says the config is, fixed
  config,     \* what the config file holds
  edits,      \* changes of the config file so far
  stdin,      \* [Hook -> what was sent on its stdin], fixed
  pc,         \* [Hook -> the next step of its main thread]
  input,      \* [Hook -> what it read]
  text,       \* [Hook -> what it found in the config file]
  settings,   \* [Hook -> what it loaded]
  response,   \* [Hook -> its response]
  out,        \* [Hook -> the objects it wrote to stdout]
  status,     \* [Hook -> how it ended]
  warned      \* [Hook -> it reported a log failure on stderr]

mainVars ==
  <<location, config, edits, stdin, pc, input, text, settings, response, out, status, warned>>

vars == <<mainVars, logVars>>

Steps ==
  {"start", "read", "load", "answer", "write", "log", "wait", "late", "returned", "ended"}

Ended(h) == pc[h] \in {"returned", "ended"}

Init ==
  /\ LogInit
  /\ location \in Locations
  /\ config \in Configs
  /\ edits = 0
  /\ stdin \in [Hook -> Inputs]
  /\ pc = [h \in Hook |-> "start"]
  /\ input = [h \in Hook |-> Empty]
  /\ text = [h \in Hook |-> config]
  /\ settings = [h \in Hook |-> LoadError]
  /\ response = [h \in Hook |-> "NoDecision"]
  /\ out = [h \in Hook |-> <<>>]
  /\ status = [h \in Hook |-> "none"]
  /\ warned = [h \in Hook |-> FALSE]

-----------------------------------------------------------------------------
(* The main thread.                                                        *)

(* A terminal on stdin is a usage error; anything else starts the hook.    *)
StartHook(h) ==
  /\ pc[h] = "start"
  /\ \/ pc' = [pc EXCEPT ![h] = "read"] /\ UNCHANGED status
     \/ pc' = [pc EXCEPT ![h] = "ended"] /\ status' = [status EXCEPT ![h] = "2"]
  /\ UNCHANGED <<location, config, edits, stdin, input, text, settings, response, out, warned>>
  /\ UNCHANGED logVars

(* After a read error what was read is cleared.                            *)
ReadInput(h) ==
  /\ pc[h] = "read"
  /\ input' \in {[input EXCEPT ![h] = i] : i \in {stdin[h], Empty}}
  /\ pc' = [pc EXCEPT ![h] = "load"]
  /\ UNCHANGED <<location, config, edits, stdin, text, settings, response, out, status, warned>>
  /\ UNCHANGED logVars

(* The file is read once, after the input; the loaded settings are used to *)
(* the end.                                                                *)
Load(h) ==
  /\ pc[h] = "load"
  /\ text' = [text EXCEPT ![h] = config]
  /\ settings' = [settings EXCEPT ![h] = LoadSettings(location, config)]
  /\ pc' = [pc EXCEPT ![h] = "answer"]
  /\ UNCHANGED <<location, config, edits, stdin, input, response, out, status, warned>>
  /\ UNCHANGED logVars

MakeAnswer(h) ==
  /\ pc[h] = "answer"
  /\ response' = [response EXCEPT ![h] = Answer(input[h], settings[h])]
  /\ pc' = [pc EXCEPT ![h] = "write"]
  /\ UNCHANGED <<location, config, edits, stdin, input, text, settings, out, status, warned>>
  /\ UNCHANGED logVars

(* The panic hook: a fixed deny, then exit, 2 if it could not be written.  *)
Panic(h) ==
  /\ pc[h] \in {"load", "answer", "write"}
  /\ \/ /\ out' = [out EXCEPT ![h] = <<"Deny">>]
        /\ status' = [status EXCEPT ![h] = "0"]
     \/ /\ out' \in {[out EXCEPT ![h] = o] : o \in {<<>>, <<"partial">>}}
        /\ status' = [status EXCEPT ![h] = "2"]
  /\ pc' = [pc EXCEPT ![h] = "ended"]
  /\ UNCHANGED <<location, config, edits, stdin, input, text, settings, response, warned>>
  /\ UNCHANGED logVars

(* A variant that exits 0 whether or not the answer was written.           *)
WriteAnswerAnyway(h) ==
  /\ pc[h] = "write"
  /\ out' \in {[out EXCEPT ![h] = o] : o \in {<<response[h]>>, <<"partial">>}}
  /\ pc' = [pc EXCEPT ![h] = "log"]
  /\ UNCHANGED <<location, config, edits, stdin, input, text, settings, response, status, warned>>
  /\ UNCHANGED logVars

(* Written and flushed, or exit 2.                                         *)
WriteAnswer(h) ==
  /\ pc[h] = "write"
  /\ \/ /\ out' = [out EXCEPT ![h] = <<response[h]>>]
        /\ pc' = [pc EXCEPT ![h] = "log"]
        /\ UNCHANGED status
     \/ /\ out' \in {[out EXCEPT ![h] = o] : o \in {<<>>, <<"partial">>}}
        /\ pc' = [pc EXCEPT ![h] = "ended"]
        /\ status' = [status EXCEPT ![h] = "2"]
  /\ UNCHANGED <<location, config, edits, stdin, input, text, settings, response, warned>>
  /\ UNCHANGED logVars

(* hook returns success and the process ends, its helper with it.          *)
ExitSuccess(h) ==
  /\ pc' = [pc EXCEPT ![h] = "returned"]
  /\ status' = [status EXCEPT ![h] = "0"]
  /\ helper' = [helper EXCEPT ![h] = "over"]
  /\ UNCHANGED <<fsVars, opened, seen, result>>
  /\ UNCHANGED <<location, config, edits, stdin, input, text, settings, response, out>>

(* The log is optional; a helper that cannot be spawned is reported.       *)
NoLog(h) ==
  /\ pc[h] = "log"
  /\ ~(settings[h].ok /\ settings[h].log)
  /\ ExitSuccess(h)
  /\ UNCHANGED warned

SpawnFails(h) ==
  /\ pc[h] = "log"
  /\ settings[h].ok /\ settings[h].log
  /\ warned' = [warned EXCEPT ![h] = TRUE]
  /\ ExitSuccess(h)

SpawnHelper(h) ==
  /\ pc[h] = "log"
  /\ settings[h].ok /\ settings[h].log
  /\ pc' = [pc EXCEPT ![h] = "wait"]
  /\ helper' = [helper EXCEPT ![h] = "entry"]
  /\ UNCHANGED <<fsVars, opened, seen, result>>
  /\ UNCHANGED <<location, config, edits, stdin, input, text, settings, response, out, status, warned>>

(* A variant that forgets the helper's error.                              *)
LogReturnedQuietly(h) ==
  /\ pc[h] = "wait"
  /\ result[h] # "none"
  /\ ExitSuccess(h)
  /\ UNCHANGED warned

(* A log failure is only reported.                                         *)
LogReturned(h) ==
  /\ pc[h] = "wait"
  /\ result[h] # "none"
  /\ warned' = [warned EXCEPT ![h] = result[h] = "err"]
  /\ ExitSuccess(h)

(* A variant that waits for the helper as long as it takes.                *)
LogWaitsOn(h) ==
  /\ pc[h] = "wait"
  /\ result[h] # "none"
  /\ warned' = [warned EXCEPT ![h] = TRUE]
  /\ pc' = [pc EXCEPT ![h] = "late"]
  /\ UNCHANGED <<location, config, edits, stdin, input, text, settings, response, out, status>>
  /\ UNCHANGED logVars

(* LOG_WAIT has passed.  The helper still runs until the process ends.     *)
LogTimesOut(h) ==
  /\ pc[h] = "wait"
  /\ result[h] = "none"
  /\ warned' = [warned EXCEPT ![h] = TRUE]
  /\ pc' = [pc EXCEPT ![h] = "late"]
  /\ UNCHANGED <<location, config, edits, stdin, input, text, settings, response, out, status>>
  /\ UNCHANGED logVars

ExitLate(h) ==
  /\ pc[h] = "late"
  /\ ExitSuccess(h)
  /\ UNCHANGED warned

Main(h) ==
  \/ StartHook(h) \/ ReadInput(h) \/ Load(h) \/ MakeAnswer(h) \/ WriteAnswer(h)
  \/ NoLog(h) \/ SpawnFails(h) \/ SpawnHelper(h)
  \/ LogReturned(h) \/ LogTimesOut(h) \/ ExitLate(h)

-----------------------------------------------------------------------------
(* The helper thread, while the process lives; Claude Code's timeout or a  *)
(* crash; an editor at the config; others at the log's path.               *)

Helper(h) == AppendLog(h, response[h]) /\ UNCHANGED mainVars

Killed(h) ==
  /\ ~Ended(h)
  /\ pc' = [pc EXCEPT ![h] = "ended"]
  /\ status' = [status EXCEPT ![h] = "killed"]
  /\ helper' = [helper EXCEPT ![h] = "over"]
  /\ UNCHANGED <<fsVars, opened, seen, result>>
  /\ UNCHANGED <<location, config, edits, stdin, input, text, settings, response, out, warned>>

EditConfig ==
  /\ edits < MaxEdits
  /\ config' \in Configs \ {config}
  /\ edits' = edits + 1
  /\ UNCHANGED <<location, stdin, pc, input, text, settings, response, out, status, warned>>
  /\ UNCHANGED logVars

Next ==
  \/ \E h \in Hook : Main(h) \/ Panic(h) \/ Helper(h) \/ Killed(h)
  \/ EditConfig
  \/ Others /\ UNCHANGED mainVars

(* The main thread keeps running.  Nothing is assumed of the helper, which *)
(* may hang at the log's path, nor of any failure.                         *)
Spec == Init /\ [][Next]_vars /\ \A h \in Hook : WF_vars(Main(h))

-----------------------------------------------------------------------------
TypeOK ==
  /\ LogTypeOK
  /\ location \in Location
  /\ config \in Config
  /\ edits \in 0 .. MaxEdits
  /\ stdin \in [Hook -> Input]
  /\ pc \in [Hook -> Steps]
  /\ input \in [Hook -> Input]
  /\ text \in [Hook -> Config]
  /\ settings \in [Hook -> Settings]
  /\ response \in [Hook -> Response]
  /\ out \in [Hook -> Seq(Response \cup {"partial"})]
  /\ status \in [Hook -> {"none", "0", "2", "killed"}]
  /\ warned \in [Hook -> BOOLEAN]

(* What Claude Code makes of an ended hook: status 2 refuses the call, any *)
(* other failure is up to onFailure, and on status 0 the answer counts.  A *)
(* missing or torn answer leaves the call as if no hook were installed.    *)
Outcome(h) ==
  IF status[h] = "2" THEN "refuse"
  ELSE IF status[h] = "killed" THEN IF OnFailure = "block" THEN "refuse" ELSE "run"
  ELSE CASE out[h] = <<"Allow">> -> "run"
         [] out[h] = <<"Ask">> -> "ask"
         [] out[h] = <<"Deny">> -> "refuse"
         [] OTHER -> "none"

(* The catalog a decision may rest on, given what the config file held.    *)
CatalogOf(where, read) ==
  IF where = "Nowhere" \/ (where = "Default" /\ read.held = "absent") THEN {"embedded"}
  ELSE IF where \in {"Default", "Explicit"} /\ read.held = "good" THEN {"merged"}
  ELSE {}

(* With onFailure = "block" a Bash call runs unasked only if the kernel    *)
(* allows its whole command under a catalog that loaded, whatever failed   *)
(* on the way; and only a call of another tool goes undecided.             *)
FailClosed ==
  OnFailure = "block" =>
    \A h \in Hook : Ended(h) =>
      /\ Outcome(h) = "run" =>
           /\ stdin[h].kind = "Command" /\ ~stdin[h].long /\ stdin[h].script
           /\ \E c \in CatalogOf(location, text[h]) : stdin[h].decision[c] = "Allow"
      /\ Outcome(h) = "none" => stdin[h].kind = "NotBash"

(* A call the kernel blocks is refused, whatever ask_outcome says, unless  *)
(* it never got to see the command whole.                                  *)
BlockIsRefused ==
  \A h \in Hook :
    (/\ Ended(h) /\ OnFailure = "block"
     /\ input[h] = stdin[h] /\ Request(stdin[h]) = "Command" /\ stdin[h].script
     /\ \A c \in CatalogOf(location, text[h]) : stdin[h].decision[c] = "Block")
      => Outcome(h) = "refuse"

(* A log line tells what the hook answered: it is written after the answer *)
(* and says the same, and a hook writes one line at most, none for a call  *)
(* it gave no decision for.                                                *)
LogTellsTheAnswer ==
  /\ \A n \in FileNo : \A i \in DOMAIN file[n].chunks :
       out[file[n].chunks[i].hook] = <<file[n].chunks[i].decision>>
  /\ \A h \in Hook : Cardinality(LinesOf(h)) <= 1

(* A hook that ends without a word on stderr has logged its decision whole,*)
(* however its helper and its wait raced.                                  *)
SilentMeansLogged ==
  \A h \in Hook :
    (pc[h] = "returned" /\ settings[h].log /\ response[h] # "NoDecision" /\ ~warned[h])
      => \E n \in FileNo : \E i \in DOMAIN file[n].chunks :
           file[n].chunks[i].hook = h /\ file[n].chunks[i].part \in {"whole", "tail"}

(* Every hook ends, even with a helper that hangs on the log.              *)
HookEnds == \A h \in Hook : <>Ended(h)
=============================================================================

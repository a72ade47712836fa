----------------------------- MODULE InitConfig -----------------------------
(***************************************************************************)
(* shguard init: several processes write the config file at one path, step *)
(* by step, while the user puts a config there or moves one aside.  Any    *)
(* step may fail and any process may be killed; a hook may read the file   *)
(* at any moment, half-written or not.                                     *)
(***************************************************************************)
EXTENDS Respond, Naturals, Sequences

CONSTANTS
  InitProc,    \* the shguard init processes
  MaxFiles,    \* bound: files ever made
  MaxMoves     \* bound: times the user changes the directory

ASSUME InitConfigAssumption == MaxFiles \in Nat /\ MaxMoves \in Nat

FileNo == 1 .. MaxFiles

VARIABLES
  location,  \* where the environment says the config is, fixed
  dir,       \* the directory is there
  entry,     \* the file at the path, 0 for none
  file,      \* [FileNo -> who made it and how much of its text is there]
  made,      \* files made so far
  moves,     \* changes by the user so far
  pc,        \* [InitProc -> its next step]
  fd,        \* [InitProc -> the file it opened, 0 for none]
  exit       \* [InitProc -> how it ended]

fsVars == <<dir, entry, file, made, moves>>
initConfigVars == <<location, fsVars, pc, fd, exit>>

(* A variant in which the sample rule is live.                             *)
ConfigTextWithRule == <<"comment", "ask", "comment", "rule">>

(* The lines of CONFIG_TEXT, as far as they tell policies apart: comments, *)
(* the one setting, and the samples, which are comments too.               *)
ConfigText == <<"comment", "ask", "comment", "comment">>

(* How much there is of a text: whole lines and the head of one more.      *)
Extent == [lines: 0 .. Len(ConfigText), torn: BOOLEAN]

(* What a hook makes of the first lines of a text: half a setting or half  *)
(* a table is no TOML, half a comment is a comment.                        *)
Lines(extent) == {ConfigText[n] : n \in 1 .. extent.lines}

Holds(extent) ==
  [held |-> IF extent.torn /\ ConfigText[extent.lines + 1] # "comment" THEN "refused" ELSE "good",
   ask_outcome |-> IF "ask" \in Lines(extent) THEN "Ask" ELSE "Deny",
   log |-> FALSE]

NoText == [lines |-> 0, torn |-> FALSE]
WholeText == [lines |-> Len(ConfigText), torn |-> FALSE]

Maker == {"nobody", "init", "user"}

InitConfigInit ==
  /\ location \in Location
  /\ dir \in BOOLEAN
  /\ entry = 0
  /\ file = [n \in FileNo |-> [maker |-> "nobody", text |-> NoText]]
  /\ made = 0 /\ moves = 0
  /\ pc = [p \in InitProc |-> "locate"]
  /\ fd = [p \in InitProc |-> 0]
  /\ exit = [p \in InitProc |-> "none"]

-----------------------------------------------------------------------------
Goto(p, step) == pc' = [pc EXCEPT ![p] = step] /\ UNCHANGED exit

End(p, code) == pc' = [pc EXCEPT ![p] = "ended"] /\ exit' = [exit EXCEPT ![p] = code]

(* The config must have a place, and an absolute path.                     *)
Locate(p) ==
  /\ pc[p] = "locate"
  /\ \/ location \in {"Default", "Explicit"} /\ Goto(p, "check")
     \/ location \in {"Relative", "Nowhere"} /\ End(p, "failure")
  /\ UNCHANGED <<location, fsVars, fd>>

(* A path that cannot be looked at counts as one where nothing is.         *)
CheckNone(p) ==
  /\ pc[p] = "check"
  /\ \/ Goto(p, "dirs")
     \/ entry # 0 /\ End(p, "failure")
  /\ UNCHANGED <<location, fsVars, fd>>

(* Each of the three writing steps may fail, the open also because         *)
(* something is at the path by now.                                        *)
StepFails(p) ==
  /\ pc[p] \in {"dirs", "open", "write"}
  /\ End(p, "failure")
  /\ UNCHANGED <<location, fsVars, fd>>

CreateDirs(p) ==
  /\ pc[p] = "dirs"
  /\ dir' = TRUE
  /\ Goto(p, "open")
  /\ UNCHANGED <<location, entry, file, made, moves, fd>>

NewFile(maker, text) ==
  /\ made < MaxFiles
  /\ made' = made + 1
  /\ entry' = made'
  /\ file' = [file EXCEPT ![made'] = [maker |-> maker, text |-> text]]

(* A variant that opens what is there and truncates it.                    *)
OpenOver(p) ==
  /\ pc[p] = "open" /\ dir
  /\ \/ entry = 0 /\ NewFile("init", NoText)
     \/ entry # 0 /\ file' = [file EXCEPT ![entry].text = NoText] /\ UNCHANGED <<entry, made>>
  /\ fd' = [fd EXCEPT ![p] = entry']
  /\ Goto(p, "write")
  /\ UNCHANGED <<location, dir, moves>>

(* create_new: nothing may be at the path, and its directory must be.      *)
OpenNew(p) ==
  /\ pc[p] = "open" /\ dir /\ entry = 0
  /\ NewFile("init", NoText)
  /\ fd' = [fd EXCEPT ![p] = entry']
  /\ Goto(p, "write")
  /\ UNCHANGED <<location, dir, moves>>

text(p) == file[fd[p]].text

(* write_all goes on until everything is there, in pieces of any length.   *)
WriteSome(p) ==
  /\ pc[p] = "write" /\ text(p).lines < Len(ConfigText)
  /\ \E t \in {[lines |-> text(p).lines, torn |-> TRUE],
               [lines |-> text(p).lines + 1, torn |-> FALSE]} \ {text(p)} :
       file' = [file EXCEPT ![fd[p]].text = t]
  /\ UNCHANGED <<location, dir, entry, made, moves, pc, fd, exit>>

(* All written; the hook entry is printed.                                 *)
Wrote(p) ==
  /\ pc[p] = "write" /\ text(p) = WholeText
  /\ End(p, "success")
  /\ UNCHANGED <<location, fsVars, fd>>

Killed(p) ==
  /\ pc[p] # "ended"
  /\ End(p, "killed")
  /\ UNCHANGED <<location, fsVars, fd>>

InitConfigOf(p) ==
  \/ Locate(p) \/ CheckNone(p) \/ CreateDirs(p) \/ OpenNew(p)
  \/ WriteSome(p) \/ Wrote(p) \/ StepFails(p) \/ Killed(p)

(* The user puts a config at the path, replacing what is there as a whole, *)
(* or moves it aside, with its directory or without.                       *)
PutConfig ==
  /\ moves < MaxMoves /\ dir
  /\ NewFile("user", WholeText)
  /\ moves' = moves + 1
  /\ UNCHANGED <<location, dir, pc, fd, exit>>

MoveAside ==
  /\ moves < MaxMoves /\ dir
  /\ entry' = 0
  /\ dir' \in BOOLEAN
  /\ moves' = moves + 1
  /\ UNCHANGED <<location, file, made, pc, fd, exit>>

User == PutConfig \/ MoveAside

InitConfigNext == (\E p \in InitProc : InitConfigOf(p)) \/ User

InitConfigSpec == InitConfigInit /\ [][InitConfigNext]_initConfigVars

-----------------------------------------------------------------------------
TypeOK ==
  /\ location \in Location /\ dir \in BOOLEAN
  /\ entry \in 0 .. made /\ made \in 0 .. MaxFiles /\ moves \in 0 .. MaxMoves
  /\ file \in [FileNo -> [maker: Maker, text: Extent]]
  /\ pc \in [InitProc -> {"locate", "check", "dirs", "open", "write", "ended"}]
  /\ fd \in [InitProc -> 0 .. made]
  /\ exit \in [InitProc -> {"none", "success", "failure", "killed"}]

(* "never over an existing file": whatever a second init or the user does  *)
(* between the check and the open, init changes no file of the user's and  *)
(* takes nothing away from the path, and an init that says it wrote the    *)
(* config wrote a file of its own, whole.                                  *)
NeverOverAnExistingFile ==
  [][\A p \in InitProc : InitConfigOf(p) =>
       /\ entry # 0 => entry' = entry
       /\ \A n \in FileNo : file[n].maker = "user" => file'[n] = file[n]
       /\ exit'[p] = "success" =>
            /\ file'[fd[p]] = [maker |-> "init", text |-> WholeText]
            /\ \A q \in InitProc \ {p} : fd[q] # fd[p]]_initConfigVars

(* A config that init has half-written, or left so when it was killed, is  *)
(* never a weaker policy than the finished one: a hook that loads it makes *)
(* of an Ask what the finished text does or a deny, and has every rule of  *)
(* the finished text.                                                      *)
HalfWrittenIsNoWeaker ==
  \A n \in FileNo : file[n].maker = "init" =>
    LET found == LoadSettings(location, Holds(file[n].text))
        whole == LoadSettings(location, Holds(WholeText))
    IN found.ok =>
         /\ whole.ok /\ found.catalog = whole.catalog
         /\ found.ask_outcome \in {"Deny", whole.ask_outcome}
         /\ "rule" \in Lines(WholeText) => "rule" \in Lines(file[n].text)
=============================================================================

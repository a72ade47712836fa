----------------------------- MODULE DecisionLog -----------------------------
(***************************************************************************)
(* The decision log: append_log, run by a helper thread of each hook       *)
(* process, and the file system under the log's path, which every process  *)
(* shares.  Each system call is an action, so other processes act between  *)
(* any two of them.  A helper may block at any call for ever.              *)
(***************************************************************************)
EXTENDS Integers, Sequences, FiniteSets

CONSTANTS
  Hook,       \* the hook processes
  MaxFiles,   \* bound: files are numbered 0 .. MaxFiles
  MaxSwaps    \* bound: times the entry at the log's path is changed by others

ASSUME LogAssumption == MaxFiles \in Nat \ {0} /\ MaxSwaps \in Nat

VARIABLES
  path,     \* the directory entry at the log's path
  file,     \* the files
  swaps,    \* changes of the entry by other processes, so far
  helper,   \* [Hook -> the next system call of its helper thread]
  opened,   \* [Hook -> the file its helper opened]
  seen,     \* [Hook -> what fstat told its helper of that file]
  result    \* [Hook -> what append_log returned]

logVars == <<path, file, swaps, helper, opened, seen, result>>

fsVars == <<path, file, swaps>>

Answered == {"Allow", "Ask", "Deny"}

(* What one write call appended: a whole line, or the head or the tail of  *)
(* one that was written short.                                             *)
Chunk == [hook: Hook, part: {"whole", "head", "tail"}, decision: Answered]

FileNo == 0 .. MaxFiles

File ==
  [kind: {"unused", "regular", "fifo", "dir"}, links: 0 .. 2, private: BOOLEAN,
   chunks: Seq(Chunk)]

Entry == [type: {"none", "symlink", "file"}, no: FileNo]

Calls ==
  {"none", "entry", "lstat", "open", "fstat", "recheck", "chmod", "write", "rest", "over"}

(* File 0 is another file of the user: a symlink at the path leads to it,  *)
(* and a hard link at the path is another name of it.                      *)
Unused == [kind |-> "unused", links |-> 0, private |-> FALSE, chunks |-> <<>>]

Other(links) == [kind |-> "regular", links |-> links, private |-> FALSE, chunks |-> <<>>]

LogFile(kind, private) == [kind |-> kind, links |-> 1, private |-> private, chunks |-> <<>>]

Nothing == [type |-> "none", no |-> 0]
Symlink == [type |-> "symlink", no |-> 0]

FilesWith(zero, one) ==
  [n \in FileNo |-> CASE n = 0 -> zero [] n = 1 -> one [] n > 1 -> Unused]

LogInit ==
  /\ \/ path = Nothing /\ file = FilesWith(Other(1), Unused)
     \/ path = Symlink /\ file = FilesWith(Other(1), Unused)
     \/ path = [type |-> "file", no |-> 0] /\ file = FilesWith(Other(2), Unused)
     \/ \E kind \in {"regular", "fifo", "dir"}, private \in BOOLEAN :
          /\ path = [type |-> "file", no |-> 1]
          /\ file = FilesWith(Other(1), LogFile(kind, private))
  /\ swaps = 0
  /\ helper = [h \in Hook |-> "none"]
  /\ opened = [h \in Hook |-> 0]
  /\ seen = [h \in Hook |-> [links |-> 0, private |-> FALSE]]
  /\ result = [h \in Hook |-> "none"]

-----------------------------------------------------------------------------
(* append_log.                                                             *)

Goto(h, call) == helper' = [helper EXCEPT ![h] = call] /\ UNCHANGED result

Return(h, r) ==
  helper' = [helper EXCEPT ![h] = "over"] /\ result' = [result EXCEPT ![h] = r]

(* A variant that also logs the calls it gave no decision for.             *)
MakeEntryAlways(h, response) ==
  /\ helper[h] = "entry"
  /\ Goto(h, "lstat")
  /\ UNCHANGED <<fsVars, opened, seen>>

(* No decision, no line.                                                   *)
MakeEntry(h, response) ==
  /\ helper[h] = "entry"
  /\ IF response = "NoDecision" THEN Return(h, "ok") ELSE Goto(h, "lstat")
  /\ UNCHANGED <<fsVars, opened, seen>>

(* Only a symlink is refused here; a missing entry is created by the open. *)
CheckPath(h) ==
  /\ helper[h] = "lstat"
  /\ IF path.type = "symlink" THEN Return(h, "err") ELSE Goto(h, "open")
  /\ UNCHANGED <<fsVars, opened, seen>>

(* open(O_APPEND | O_CREAT, 0600) follows a symlink; of a FIFO it returns  *)
(* only once something reads it.                                           *)
OpenThere(h) ==
  /\ helper[h] = "open"
  /\ path.type # "none"
  /\ file[path.no].kind # "dir"
  /\ opened' = [opened EXCEPT ![h] = path.no]
  /\ Goto(h, "fstat")
  /\ UNCHANGED <<fsVars, seen>>

OpenCreates(h) ==
  /\ helper[h] = "open"
  /\ path.type = "none"
  /\ \E n \in FileNo :
       /\ file[n].kind = "unused"
       /\ \A m \in FileNo : m < n => file[m].kind # "unused"
       /\ file' = [file EXCEPT ![n] = LogFile("regular", TRUE)]
       /\ path' = [type |-> "file", no |-> n]
       /\ opened' = [opened EXCEPT ![h] = n]
  /\ Goto(h, "fstat")
  /\ UNCHANGED <<swaps, seen>>

(* No permission, no such directory, a directory, no descriptor left.      *)
OpenFails(h) ==
  /\ helper[h] = "open"
  /\ Return(h, "err")
  /\ UNCHANGED <<fsVars, opened, seen>>

(* The link count and the mode are the ones of this moment.                *)
Fstat(h) ==
  /\ helper[h] = "fstat"
  /\ seen' = [seen EXCEPT ![h] = [links |-> file[opened[h]].links,
                                  private |-> file[opened[h]].private]]
  /\ IF file[opened[h]].kind = "regular" THEN Goto(h, "recheck") ELSE Return(h, "err")
  /\ UNCHANGED <<fsVars, opened>>

(* A variant that does not ask for a single name.                          *)
RecheckAnyLinks(h) ==
  /\ helper[h] = "recheck"
  /\ IF path.type = "file" /\ path.no = opened[h]
     THEN Goto(h, IF seen[h].private THEN "write" ELSE "chmod")
     ELSE Return(h, "err")
  /\ UNCHANGED <<fsVars, opened, seen>>

(* The path must still name the opened file, and be its only name.         *)
Recheck(h) ==
  /\ helper[h] = "recheck"
  /\ IF path.type = "file" /\ path.no = opened[h] /\ seen[h].links = 1
     THEN Goto(h, IF seen[h].private THEN "write" ELSE "chmod")
     ELSE Return(h, "err")
  /\ UNCHANGED <<fsVars, opened, seen>>

(* A variant that goes on when the mode could not be set.                  *)
ChmodAnyway(h) ==
  /\ helper[h] = "chmod"
  /\ \/ file' = [file EXCEPT ![opened[h]].private = TRUE]
     \/ UNCHANGED file
  /\ Goto(h, "write")
  /\ UNCHANGED <<path, swaps, opened, seen>>

Chmod(h) ==
  /\ helper[h] = "chmod"
  /\ \/ /\ file' = [file EXCEPT ![opened[h]].private = TRUE]
        /\ Goto(h, "write")
     \/ /\ Return(h, "err")
        /\ UNCHANGED file
  /\ UNCHANGED <<path, swaps, opened, seen>>

Put(h, part, decision) ==
  file' = [file EXCEPT ![opened[h]].chunks =
             Append(@, [hook |-> h, part |-> part, decision |-> decision])]

(* write_all: one write call, or, when it is short, one more for the rest. *)
WriteLine(h, decision) ==
  /\ helper[h] = "write"
  /\ \/ Put(h, "whole", decision) /\ Return(h, "ok")
     \/ Put(h, "head", decision) /\ Goto(h, "rest")
  /\ UNCHANGED <<path, swaps, opened, seen>>

WriteRest(h, decision) ==
  /\ helper[h] = "rest"
  /\ Put(h, "tail", decision)
  /\ Return(h, "ok")
  /\ UNCHANGED <<path, swaps, opened, seen>>

WriteFails(h) ==
  /\ helper[h] \in {"write", "rest"}
  /\ Return(h, "err")
  /\ UNCHANGED <<fsVars, opened, seen>>

AppendLog(h, response) ==
  \/ MakeEntry(h, response)
  \/ CheckPath(h)
  \/ OpenThere(h) \/ OpenCreates(h) \/ OpenFails(h)
  \/ Fstat(h) \/ Recheck(h) \/ Chmod(h)
  \/ WriteLine(h, response) \/ WriteRest(h, response) \/ WriteFails(h)

-----------------------------------------------------------------------------
(* Other processes: a rotation renames the log away, and something puts a  *)
(* symlink at the path.  Nobody gives a file another name while hooks run. *)

Rotate ==
  /\ path.type = "file" /\ swaps < MaxSwaps
  /\ path' = Nothing
  /\ swaps' = swaps + 1
  /\ UNCHANGED <<file, helper, opened, seen, result>>

PutSymlink ==
  /\ path.type # "symlink" /\ swaps < MaxSwaps
  /\ path' = Symlink
  /\ swaps' = swaps + 1
  /\ UNCHANGED <<file, helper, opened, seen, result>>

Others == Rotate \/ PutSymlink

-----------------------------------------------------------------------------
LogTypeOK ==
  /\ path \in Entry
  /\ file \in [FileNo -> File]
  /\ swaps \in 0 .. MaxSwaps
  /\ helper \in [Hook -> Calls]
  /\ opened \in [Hook -> FileNo]
  /\ seen \in [Hook -> [links: 0 .. 2, private: BOOLEAN]]
  /\ result \in [Hook -> {"none", "ok", "err"}]

(* The positions of the lines h has started.                               *)
LinesOf(h) ==
  UNION {{<<n, i>> : i \in {i \in DOMAIN file[n].chunks :
                              /\ file[n].chunks[i].hook = h
                              /\ file[n].chunks[i].part \in {"whole", "head"}}}
          : n \in FileNo}

(* Whatever happens at the path between the checks, the user's other file  *)
(* is neither written nor given another mode ("the log is not written when *)
(* the path is a symlink, a hard link, or anything but a regular file").   *)
OtherFileUntouched ==
  [][file'[0].chunks = file[0].chunks /\ file'[0].private = file[0].private]_logVars

(* A line, which can hold secrets, is only ever in a regular file that     *)
(* nobody else can read.                                                   *)
LinesArePrivate ==
  \A n \in FileNo :
    file[n].chunks # <<>> => file[n].kind = "regular" /\ file[n].private

(* A line is one object: the head of a line is followed by its own tail    *)
(* and by nothing else.                                                    *)
LineIsOneObject ==
  \A n \in FileNo : \A i \in 1 .. Len(file[n].chunks) - 1 :
    file[n].chunks[i].part = "head" =>
      /\ file[n].chunks[i + 1].part = "tail"
      /\ file[n].chunks[i + 1].hook = file[n].chunks[i].hook
=============================================================================

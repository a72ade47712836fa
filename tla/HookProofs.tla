----------------------------- MODULE HookProofs -----------------------------
(***************************************************************************)
(* Proofs about any number of hook processes.  What each answers: it fails *)
(* closed whatever fails.  And the decision log they share, for any number *)
(* of files and changes of the entry at its path: where lines may be       *)
(* written, who can read them, and what they tell of the answers.          *)
(***************************************************************************)
EXTENDS Hook, FiniteSetTheorems, TLAPS

(* What the main thread of h has established at each of its steps.         *)
MainTypeOK ==
  /\ location \in Location
  /\ config \in Config
  /\ stdin \in [Hook -> Input]
  /\ pc \in [Hook -> Steps]
  /\ input \in [Hook -> Input]
  /\ text \in [Hook -> Config]
  /\ settings \in [Hook -> Settings]
  /\ response \in [Hook -> Response]
  /\ out \in [Hook -> Seq(Response \cup {"partial"})]
  /\ status \in [Hook -> {"none", "0", "2", "killed"}]

Loaded(h) == pc[h] \in {"answer", "write", "log", "wait", "late", "returned"}

Responded(h) == pc[h] \in {"write", "log", "wait", "late", "returned"}

Written(h) == pc[h] \in {"log", "wait", "late", "returned"}

Progress(h) ==
  /\ input[h] \in {stdin[h], Empty}
  /\ Loaded(h) => settings[h] = LoadSettings(location, text[h])
  /\ Responded(h) => response[h] = Answer(input[h], settings[h])
  /\ Written(h) => out[h] = <<response[h]>>
  /\ pc[h] = "returned" => status[h] = "0"
  /\ pc[h] = "ended" =>
       status[h] \in {"2", "killed"} \/ (status[h] = "0" /\ out[h] = <<"Deny">>)

MainInv == MainTypeOK /\ \A h \in Hook : Progress(h)

-----------------------------------------------------------------------------
(* Loading gives settings.                                                 *)
LEMMA LoadType ==
  ASSUME NEW where \in Location, NEW c \in Config
  PROVE  LoadSettings(where, c) \in Settings
  BY DEF LoadSettings, Settings, Config, Location, Defaults, Merged, LoadError

(* A cleared input is an input.                                            *)
LEMMA EmptyType == Empty \in Input
  BY DEF Empty, Input

(* What the kernel is asked gives a decision.                              *)
LEMMA JudgeType ==
  ASSUME NEW i \in Input, NEW s \in Settings, s.ok
  PROVE  s.catalog # "none" => Judge(i, s.catalog) \in {"Allow", "Ask", "Block"}
  BY DEF Judge, Input, Settings

(* Settings that loaded have a catalog.                                    *)
LEMMA LoadedCatalog ==
  ASSUME NEW where \in Location, NEW c \in Config, LoadSettings(where, c).ok
  PROVE  /\ LoadSettings(where, c).catalog # "none"
         /\ LoadSettings(where, c).catalog \in CatalogOf(where, c)
  BY DEF LoadSettings, Config, Location, Defaults, Merged, LoadError, CatalogOf

(* A catalog that may be relied on is the one that was loaded.             *)
LEMMA CatalogLoaded ==
  ASSUME NEW where \in Location, NEW c \in Config, LoadSettings(where, c).ok,
         NEW x \in CatalogOf(where, c)
  PROVE  x = LoadSettings(where, c).catalog
  BY DEF LoadSettings, Config, Location, Defaults, Merged, LoadError, CatalogOf

(* An answer of at most one object is a sequence.                          *)
LEMMA OneObject ==
  ASSUME NEW x \in Response \cup {"partial"}
  PROVE  <<>> \in Seq(Response \cup {"partial"}) /\ <<x>> \in Seq(Response \cup {"partial"})
  OBVIOUS

(* Every input has a response.                                             *)
LEMMA AnswerType ==
  ASSUME NEW i \in Input, NEW where \in Location, NEW c \in Config
  PROVE  Answer(i, LoadSettings(where, c)) \in Response
<1>1. LoadSettings(where, c) \in Settings
  BY LoadType
<1>2. LoadSettings(where, c).ask_outcome \in {"Ask", "Deny"}
  BY <1>1 DEF Settings
<1>3. LoadSettings(where, c).ok => Judge(i, LoadSettings(where, c).catalog) \in {"Allow", "Ask", "Block"}
  BY <1>1, JudgeType, LoadedCatalog
<1> QED
  BY <1>2, <1>3 DEF Answer, Respond, Response

(* Only a whole, parsed command the kernel allows is answered with Allow.  *)
LEMMA AllowAnswer ==
  ASSUME NEW i \in Input, NEW where \in Location, NEW c \in Config,
         Answer(i, LoadSettings(where, c)) = "Allow"
  PROVE  /\ i.kind = "Command" /\ ~i.long /\ i.script
         /\ \E x \in CatalogOf(where, c) : i.decision[x] = "Allow"
<1> DEFINE s == LoadSettings(where, c)
<1>1. s \in Settings /\ s.ask_outcome \in {"Ask", "Deny"}
  BY LoadType DEF Settings
<1>2. s.ok /\ Request(i) \notin {"NotBash", "Malformed"} /\ Respond(Judge(i, s.catalog), s) = "Allow"
  BY <1>1 DEF Answer, Respond
<1>3. s.catalog \in CatalogOf(where, c) /\ Judge(i, s.catalog) \in {"Allow", "Ask", "Block"}
  BY <1>1, <1>2, LoadedCatalog, JudgeType
<1>4. Judge(i, s.catalog) = "Allow"
  BY <1>1, <1>2, <1>3 DEF Respond
<1>5. i.kind = "Command" /\ ~i.long
  BY <1>2 DEF Request, Input
<1> QED
  BY <1>3, <1>4, <1>5 DEF Judge

(* A call the kernel blocks, or one nothing could be loaded for, is denied.*)
LEMMA BlockAnswer ==
  ASSUME NEW i \in Input, NEW where \in Location, NEW c \in Config,
         Request(i) = "Command", i.script,
         \A x \in CatalogOf(where, c) : i.decision[x] = "Block"
  PROVE  Answer(i, LoadSettings(where, c)) = "Deny"
<1>1. CASE ~LoadSettings(where, c).ok
  BY <1>1 DEF Answer
<1>2. CASE LoadSettings(where, c).ok
  <2>1. Judge(i, LoadSettings(where, c).catalog) = "Block"
    BY <1>2, LoadedCatalog DEF Judge
  <2> QED
    BY <1>2, <2>1 DEF Answer, Respond
<1> QED
  BY <1>1, <1>2

(* Only another tool's call is left undecided.                             *)
LEMMA NoDecisionAnswer ==
  ASSUME NEW i \in Input, NEW where \in Location, NEW c \in Config,
         Answer(i, LoadSettings(where, c)) = "NoDecision"
  PROVE  i.kind = "NotBash"
<1>1. LoadSettings(where, c).ask_outcome \in {"Ask", "Deny"}
  BY LoadType DEF Settings
<1>2. LoadSettings(where, c).ok => Judge(i, LoadSettings(where, c).catalog) \in {"Allow", "Ask", "Block"}
  BY LoadType, JudgeType, LoadedCatalog
<1>3. Request(i) = "NotBash"
  BY <1>1, <1>2 DEF Answer, Respond
<1> QED
  BY <1>3 DEF Request

-----------------------------------------------------------------------------
(* The processes start with nothing read, answered or written.             *)
LEMMA MainInit == Init => MainInv
<1> SUFFICES ASSUME Init PROVE MainInv
  OBVIOUS
<1>1. MainTypeOK
  BY HookAssumption, EmptyType
     DEF Init, MainTypeOK, Steps, Response, Settings, LoadError
<1>2. ASSUME NEW h \in Hook PROVE Progress(h)
  BY DEF Init, Progress, Loaded, Responded, Written
<1> QED
  BY <1>1, <1>2 DEF MainInv

(* Each step of a main thread keeps its types and what it has established. *)
LEMMA MainStep ==
  ASSUME MainInv, NEW h \in Hook, Main(h) \/ Panic(h) \/ Killed(h)
  PROVE  MainInv'
<1> USE DEF MainInv
<1> DEFINE Same(i) ==
      /\ pc'[i] = pc[i] /\ input'[i] = input[i] /\ text'[i] = text[i]
      /\ settings'[i] = settings[i] /\ response'[i] = response[i]
      /\ out'[i] = out[i] /\ status'[i] = status[i]
<1>1. stdin' = stdin /\ location' = location
  BY DEF Main, StartHook, ReadInput, Load, MakeAnswer, WriteAnswer, NoLog, SpawnFails,
         SpawnHelper, LogReturned, LogTimesOut, ExitLate, ExitSuccess, Panic, Killed
<1>2. ASSUME NEW i \in Hook, Same(i) PROVE Progress(i)'
  BY <1>1, <1>2 DEF Progress, Loaded, Responded, Written
<1>3. CASE StartHook(h)
  <2>1. MainTypeOK'
    BY <1>3 DEF StartHook, MainTypeOK, Steps
  <2>2. Progress(h)'
    BY <1>3 DEF StartHook, MainTypeOK, Progress, Loaded, Responded, Written
  <2>3. \A i \in Hook \ {h} : Same(i)
    BY <1>3 DEF StartHook, MainTypeOK
  <2> QED
    BY <1>2, <2>1, <2>2, <2>3
<1>4. CASE ReadInput(h)
  <2>1. MainTypeOK'
    BY <1>4, EmptyType DEF ReadInput, MainTypeOK, Steps
  <2>2. Progress(h)'
    BY <1>4 DEF ReadInput, MainTypeOK, Progress, Loaded, Responded, Written
  <2>3. \A i \in Hook \ {h} : Same(i)
    BY <1>4 DEF ReadInput, MainTypeOK
  <2> QED
    BY <1>2, <2>1, <2>2, <2>3
<1>5. CASE Load(h)
  <2>1. MainTypeOK'
    BY <1>5, LoadType DEF Load, MainTypeOK, Steps
  <2>2. Progress(h)'
    BY <1>5 DEF Load, MainTypeOK, Progress, Loaded, Responded, Written
  <2>3. \A i \in Hook \ {h} : Same(i)
    BY <1>5 DEF Load, MainTypeOK
  <2> QED
    BY <1>2, <2>1, <2>2, <2>3
<1>6. CASE MakeAnswer(h)
  <2>1. Answer(input[h], settings[h]) \in Response
    BY <1>6, AnswerType DEF MakeAnswer, Progress, Loaded, MainTypeOK
  <2>2. MainTypeOK'
    BY <1>6, <2>1 DEF MakeAnswer, MainTypeOK, Steps
  <2>3. Progress(h)'
    BY <1>6 DEF MakeAnswer, MainTypeOK, Progress, Loaded, Responded, Written
  <2>4. \A i \in Hook \ {h} : Same(i)
    BY <1>6 DEF MakeAnswer, MainTypeOK
  <2> QED
    BY <1>2, <2>2, <2>3, <2>4
<1>7. CASE WriteAnswer(h)
  <2>1. MainTypeOK'
    <3>1. response[h] \in Response
      BY DEF MainTypeOK
    <3>2. PICK o \in Seq(Response \cup {"partial"}) : out' = [out EXCEPT ![h] = o]
      BY <1>7, <3>1, OneObject DEF WriteAnswer
    <3> QED
      BY <1>7, <3>2 DEF WriteAnswer, MainTypeOK, Steps
  <2>2. Progress(h)'
    BY <1>7 DEF WriteAnswer, MainTypeOK, Progress, Loaded, Responded, Written
  <2>3. \A i \in Hook \ {h} : Same(i)
    BY <1>7 DEF WriteAnswer, MainTypeOK
  <2> QED
    BY <1>2, <2>1, <2>2, <2>3
<1>8. CASE NoLog(h) \/ SpawnFails(h) \/ LogReturned(h) \/ ExitLate(h)
  <2>1. ExitSuccess(h) /\ Written(h) /\ stdin' = stdin /\ config' = config
    BY <1>8 DEF NoLog, SpawnFails, LogReturned, ExitLate, ExitSuccess, Written
  <2>2. MainTypeOK'
    BY <2>1 DEF ExitSuccess, MainTypeOK, Steps
  <2>3. Progress(h)'
    BY <2>1 DEF ExitSuccess, MainTypeOK, Progress, Loaded, Responded, Written
  <2>4. \A i \in Hook \ {h} : Same(i)
    BY <2>1 DEF ExitSuccess, MainTypeOK
  <2> QED
    BY <1>2, <2>2, <2>3, <2>4
<1>9. CASE SpawnHelper(h) \/ LogTimesOut(h)
  <2>1. MainTypeOK'
    BY <1>9 DEF SpawnHelper, LogTimesOut, MainTypeOK, Steps
  <2>2. Progress(h)'
    BY <1>9 DEF SpawnHelper, LogTimesOut, MainTypeOK, Progress, Loaded, Responded, Written
  <2>3. \A i \in Hook \ {h} : Same(i)
    BY <1>9 DEF SpawnHelper, LogTimesOut, MainTypeOK
  <2> QED
    BY <1>2, <2>1, <2>2, <2>3
<1>10. CASE Panic(h)
  <2>1. MainTypeOK'
    <3>1. PICK o \in Seq(Response \cup {"partial"}) : out' = [out EXCEPT ![h] = o]
      BY <1>10, OneObject DEF Panic, Response
    <3> QED
      BY <1>10, <3>1 DEF Panic, MainTypeOK, Steps
  <2>2. Progress(h)'
    BY <1>10 DEF Panic, MainTypeOK, Progress, Loaded, Responded, Written
  <2>3. \A i \in Hook \ {h} : Same(i)
    BY <1>10 DEF Panic, MainTypeOK
  <2> QED
    BY <1>2, <2>1, <2>2, <2>3
<1>11. CASE Killed(h)
  <2>1. MainTypeOK'
    BY <1>11 DEF Killed, MainTypeOK, Steps
  <2>2. Progress(h)'
    BY <1>11 DEF Killed, MainTypeOK, Progress, Loaded, Responded, Written
  <2>3. \A i \in Hook \ {h} : Same(i)
    BY <1>11 DEF Killed, MainTypeOK
  <2> QED
    BY <1>2, <2>1, <2>2, <2>3
<1> QED
  BY <1>3, <1>4, <1>5, <1>6, <1>7, <1>8, <1>9, <1>10, <1>11 DEF Main

(* No step of anyone else disturbs a main thread.                          *)
LEMMA MainNext == MainInv /\ [Next]_vars => MainInv'
<1> SUFFICES ASSUME MainInv, [Next]_vars PROVE MainInv'
  OBVIOUS
<1>1. CASE \E h \in Hook : Main(h) \/ Panic(h) \/ Killed(h)
  BY <1>1, MainStep
<1>2. CASE \E h \in Hook : Helper(h)
  BY <1>2 DEF Helper, mainVars, MainInv, MainTypeOK, Progress, Loaded, Responded, Written
<1>3. CASE EditConfig
  BY <1>3, HookAssumption
     DEF EditConfig, MainInv, MainTypeOK, Progress, Loaded, Responded, Written
<1>4. CASE (Others /\ UNCHANGED mainVars) \/ UNCHANGED vars
  BY <1>4 DEF vars, mainVars, MainInv, MainTypeOK, Progress, Loaded, Responded, Written
<1> QED
  BY <1>1, <1>2, <1>3, <1>4 DEF Next

(* In every state of every run, what each main thread has established      *)
(* holds.                                                                  *)
THEOREM MainCorrect == Spec => []MainInv
  BY MainInit, MainNext, PTL DEF Spec

-----------------------------------------------------------------------------
(* A hook that ended with status 0 and did not panic wrote its response,   *)
(* which is the one of what it read and loaded.                            *)
LEMMA AnsweredBy ==
  ASSUME MainInv, NEW h \in Hook, Ended(h), status[h] = "0", out[h] # <<"Deny">>
  PROVE  out[h] = <<Answer(input[h], LoadSettings(location, text[h]))>>
  BY DEF MainInv, Progress, Ended, Loaded, Responded, Written

(* One-element answers are told apart by their element.                    *)
LEMMA OneAnswer ==
  ASSUME NEW x, NEW y, <<x>> = <<y>>
  PROVE  x = y
  OBVIOUS

(* The answers a hook may have written, and what they make of the call.    *)
LEMMA OutcomeOf ==
  ASSUME MainInv, NEW h \in Hook, Ended(h), OnFailure = "block"
  PROVE  /\ Outcome(h) = "run" => status[h] = "0" /\ out[h] = <<"Allow">>
         /\ Outcome(h) = "none" => status[h] = "0" /\ out[h] = <<"NoDecision">>
<1> DEFINE r == Answer(input[h], LoadSettings(location, text[h]))
<1>1. status[h] \in {"0", "2", "killed"}
  BY DEF MainInv, Progress, Ended
<1>2. CASE status[h] # "0"
  BY <1>1, <1>2 DEF Outcome
<1>3. CASE status[h] = "0" /\ out[h] = <<"Deny">>
  <2>1. <<"Deny">> # <<"Allow">> /\ <<"Deny">> # <<"Ask">>
    BY OneAnswer
  <2> QED
    BY <1>3, <2>1 DEF Outcome
<1>4. CASE status[h] = "0" /\ out[h] # <<"Deny">>
  <2>1. r \in Response
    BY AnswerType DEF MainInv, MainTypeOK
  <2>2. out[h] = <<r>>
    BY <1>4, AnsweredBy
  <2>3. r # "Deny"
    BY <1>4, <2>2
  <2>4. /\ <<"Ask">> # <<"Allow">> /\ <<"NoDecision">> # <<"Allow">>
        /\ <<"NoDecision">> # <<"Ask">> /\ <<"NoDecision">> # <<"Deny">>
        /\ <<"Allow">> # <<"Deny">> /\ <<"Ask">> # <<"Deny">>
    BY OneAnswer
  <2>5. CASE r = "Allow"
    BY <1>4, <2>2, <2>4, <2>5 DEF Outcome
  <2>6. CASE r = "Ask"
    BY <1>4, <2>2, <2>4, <2>6 DEF Outcome
  <2>7. CASE r = "NoDecision"
    BY <1>4, <2>2, <2>4, <2>7 DEF Outcome
  <2> QED
    BY <2>1, <2>3, <2>5, <2>6, <2>7 DEF Response
<1> QED
  BY <1>2, <1>3, <1>4

(* The hook fails closed: with onFailure = "block" no failure, in any      *)
(* order and at any step, lets a Bash call run unasked that the kernel     *)
(* does not allow, or leaves it undecided.                                 *)
THEOREM FailsClosed == Spec => []FailClosed
<1>1. MainInv => FailClosed
  <2> SUFFICES ASSUME MainInv, OnFailure = "block", NEW h \in Hook, Ended(h)
               PROVE  /\ Outcome(h) = "run" =>
                           /\ stdin[h].kind = "Command" /\ ~stdin[h].long /\ stdin[h].script
                           /\ \E c \in CatalogOf(location, text[h]) : stdin[h].decision[c] = "Allow"
                      /\ Outcome(h) = "none" => stdin[h].kind = "NotBash"
    BY DEF FailClosed
  <2> DEFINE r == Answer(input[h], LoadSettings(location, text[h]))
  <2>1. input[h] \in Input /\ text[h] \in Config /\ location \in Location
    BY DEF MainInv, MainTypeOK
  <2>2. input[h] = stdin[h] \/ input[h] = Empty
    BY DEF MainInv, Progress
  <2>3. Empty.kind = "Malformed"
    BY DEF Empty
  <2>4. ASSUME Outcome(h) = "run"
        PROVE  /\ stdin[h].kind = "Command" /\ ~stdin[h].long /\ stdin[h].script
               /\ \E c \in CatalogOf(location, text[h]) : stdin[h].decision[c] = "Allow"
    <3>1. status[h] = "0" /\ out[h] = <<"Allow">>
      BY <2>4, OutcomeOf
    <3>2. out[h] # <<"Deny">>
      BY <3>1, OneAnswer
    <3>3. r = "Allow"
      BY <3>1, <3>2, AnsweredBy, OneAnswer
    <3>4. /\ input[h].kind = "Command" /\ ~input[h].long /\ input[h].script
          /\ \E x \in CatalogOf(location, text[h]) : input[h].decision[x] = "Allow"
      BY <2>1, <3>3, AllowAnswer
    <3> QED
      BY <2>2, <2>3, <3>4
  <2>5. ASSUME Outcome(h) = "none" PROVE stdin[h].kind = "NotBash"
    <3>1. status[h] = "0" /\ out[h] = <<"NoDecision">>
      BY <2>5, OutcomeOf
    <3>2. out[h] # <<"Deny">>
      BY <3>1, OneAnswer
    <3>3. r = "NoDecision"
      BY <3>1, <3>2, AnsweredBy, OneAnswer
    <3>4. input[h].kind = "NotBash"
      BY <2>1, <3>3, NoDecisionAnswer
    <3> QED
      BY <2>2, <2>3, <3>4
  <2> QED
    BY <2>4, <2>5
<1> QED
  BY <1>1, MainCorrect, PTL

(* A call the kernel blocks, read whole, is refused.                       *)
THEOREM BlocksAreRefused == Spec => []BlockIsRefused
<1>1. MainInv => BlockIsRefused
  <2> SUFFICES ASSUME MainInv, NEW h \in Hook, Ended(h), OnFailure = "block",
                      input[h] = stdin[h], Request(stdin[h]) = "Command", stdin[h].script,
                      \A c \in CatalogOf(location, text[h]) : stdin[h].decision[c] = "Block"
               PROVE  Outcome(h) = "refuse"
    BY DEF BlockIsRefused
  <2>1. Answer(input[h], LoadSettings(location, text[h])) = "Deny"
    BY BlockAnswer, ZenonT(60) DEF MainInv, MainTypeOK
  <2>2. status[h] \in {"0", "2", "killed"}
    BY DEF MainInv, Progress, Ended
  <2>3. status[h] = "0" => out[h] = <<"Deny">>
    BY <2>1, AnsweredBy
  <2>4. <<"Deny">> # <<"Allow">> /\ <<"Deny">> # <<"Ask">>
    BY OneAnswer
  <2> QED
    BY <2>2, <2>3, <2>4 DEF Outcome
<1> QED
  BY <1>1, MainCorrect, PTL

-----------------------------------------------------------------------------
(* The files.  The checks append_log makes are separated by other steps;   *)
(* what they found still holds when it is used, because no step takes a    *)
(* file's kind, links or privacy back.                                     *)

(* The user's other file has no line, and a name at the path is its second.*)
FileZero ==
  /\ file[0].kind = "regular" /\ file[0].chunks = <<>>
  /\ path.type = "symlink" => path.no = 0
  /\ path.type = "file" => file[path.no].kind # "unused" /\ (path.no = 0 => file[0].links = 2)

(* What the helper of h knows of the file it opened.                       *)
Knows(h) ==
  /\ helper[h] = "fstat" => file[opened[h]].kind # "unused"
  /\ helper[h] \in {"recheck", "chmod", "write", "rest"} =>
       /\ file[opened[h]].kind = "regular"
       /\ seen[h].links = file[opened[h]].links
       /\ seen[h].private => file[opened[h]].private
  /\ helper[h] \in {"chmod", "write", "rest"} => opened[h] # 0
  /\ helper[h] \in {"write", "rest"} => file[opened[h]].private

FilesInv == LogTypeOK /\ FileZero /\ (\A h \in Hook : Knows(h)) /\ LinesArePrivate

(* One file changes at most, and a file in use keeps what was checked.     *)
FilesGrow ==
  \A n \in FileNo :
    file[n].kind # "unused" =>
      /\ file'[n].kind = file[n].kind /\ file'[n].links = file[n].links
      /\ file[n].private => file'[n].private

-----------------------------------------------------------------------------
(* The parts of the state that helpers do not share.                       *)
LEMMA LogInitOK == LogInit => FilesInv /\ \A n \in FileNo : file[n].chunks = <<>>
<1> SUFFICES ASSUME LogInit PROVE FilesInv /\ \A n \in FileNo : file[n].chunks = <<>>
  OBVIOUS
<1>1. 0 \in FileNo /\ 1 \in FileNo /\ 0 # 1 /\ \A n \in FileNo : n = 0 \/ n = 1 \/ n > 1
  BY LogAssumption DEF FileNo
<1>2. /\ Unused \in File /\ Other(1) \in File /\ Other(2) \in File
      /\ \A kind \in {"regular", "fifo", "dir"}, private \in BOOLEAN : LogFile(kind, private) \in File
  BY DEF Unused, Other, LogFile, File
<1>3. \A zero, one \in File : FilesWith(zero, one) \in [FileNo -> File]
  BY <1>1, <1>2 DEF FilesWith
<1>4. \A zero, one : FilesWith(zero, one)[0] = zero /\ FilesWith(zero, one)[1] = one
  BY <1>1 DEF FilesWith
<1>5. \A zero, one : \A n \in FileNo : n # 0 /\ n # 1 => FilesWith(zero, one)[n] = Unused
  BY <1>1 DEF FilesWith
<1>6. PICK zero \in {Other(1), Other(2)},
           one \in {Unused} \cup {LogFile(kind, private) : kind \in {"regular", "fifo", "dir"}, private \in BOOLEAN} :
        file = FilesWith(zero, one)
  BY DEF LogInit
<1>7. zero \in File /\ one \in File /\ zero.kind = "regular" /\ zero.chunks = <<>> /\ one.chunks = <<>>
  <2>1. zero \in File /\ one \in File
    BY <1>2, <1>6
  <2>2. zero.kind = "regular" /\ zero.chunks = <<>>
    BY <1>6 DEF Other
  <2>3. \A kind, private : LogFile(kind, private).chunks = <<>>
    BY DEF LogFile
  <2>4. Unused.chunks = <<>>
    BY DEF Unused
  <2> QED
    BY <1>6, <2>1, <2>2, <2>3, <2>4
<1>8. file \in [FileNo -> File] /\ file[0] = zero /\ file[1] = one
  BY <1>3, <1>4, <1>6, <1>7
<1>9. \A n \in FileNo : file[n].chunks = <<>>
  BY <1>1, <1>5, <1>6, <1>7, <1>8 DEF Unused
<1>10. path \in Entry
  BY <1>1 DEF LogInit, Entry, Nothing, Symlink
<1>11. FileZero
  <2>1. CASE path = Nothing
    BY <1>7, <1>8, <2>1 DEF FileZero, Nothing
  <2>2. CASE path = Symlink
    BY <1>7, <1>8, <2>2 DEF FileZero, Symlink
  <2>3. CASE path = [type |-> "file", no |-> 0] /\ file = FilesWith(Other(2), Unused)
    <3>1. file[0].links = 2 /\ file[0].kind = "regular"
      BY <1>4, <2>3 DEF Other
    <3> QED
      BY <1>7, <1>8, <2>3, <3>1 DEF FileZero
  <2>4. CASE path = [type |-> "file", no |-> 1]
             /\ \E kind \in {"regular", "fifo", "dir"}, private \in BOOLEAN :
                  file = FilesWith(Other(1), LogFile(kind, private))
    <3>1. file[1].kind # "unused"
      BY <1>4, <2>4 DEF LogFile
    <3> QED
      BY <1>1, <1>7, <1>8, <2>4, <3>1 DEF FileZero
  <2> QED
    BY <2>1, <2>2, <2>3, <2>4 DEF LogInit
<1>12. LogTypeOK
  BY <1>1, <1>8, <1>10, LogAssumption DEF LogInit, LogTypeOK, Calls
<1>13. \A h \in Hook : Knows(h)
  BY DEF LogInit, Knows
<1> QED
  BY <1>9, <1>11, <1>12, <1>13 DEF FilesInv, LinesArePrivate

(* What is known of files that only grow stays known.                      *)
LEMMA KeepsKnowing ==
  ASSUME FilesInv, FilesGrow, NEW h \in Hook, helper'[h] = helper[h], opened'[h] = opened[h],
         seen'[h] = seen[h], Knows(h)
  PROVE  Knows(h)'
<1>1. opened[h] \in FileNo
  BY DEF FilesInv, LogTypeOK
<1> QED
  BY <1>1 DEF FilesGrow, Knows

(* A step that only changes where its helper is.                           *)
LEMMA QuietFiles ==
  ASSUME FilesInv, NEW h \in Hook, UNCHANGED fsVars,
         helper' \in [Hook -> Calls], opened' \in [Hook -> FileNo],
         seen' \in [Hook -> [links: 0 .. 2, private: BOOLEAN]], result' \in [Hook -> {"none", "ok", "err"}],
         \A i \in Hook \ {h} : helper'[i] = helper[i] /\ opened'[i] = opened[i] /\ seen'[i] = seen[i],
         Knows(h)'
  PROVE  FilesInv' /\ FilesGrow
<1>1. path' = path /\ file' = file /\ swaps' = swaps
  BY DEF fsVars
<1>2. FilesGrow
  BY <1>1 DEF FilesGrow
<1>3. \A i \in Hook \ {h} : Knows(i)'
  BY <1>2, KeepsKnowing DEF FilesInv
<1>4. LogTypeOK'
  BY <1>1 DEF FilesInv, LogTypeOK
<1>5. FileZero' /\ LinesArePrivate'
  BY <1>1 DEF FilesInv, FileZero, LinesArePrivate
<1> QED
  BY <1>2, <1>3, <1>4, <1>5 DEF FilesInv

-----------------------------------------------------------------------------
(* The steps of append_log.                                                *)

(* The calls that only look: where they lead, with what they saw.          *)
LEMMA LookStep ==
  ASSUME FilesInv, NEW h \in Hook, NEW d,
         \/ MakeEntry(h, d) \/ CheckPath(h) \/ OpenThere(h) \/ OpenFails(h)
         \/ Fstat(h) \/ Recheck(h) \/ WriteFails(h)
  PROVE  FilesInv' /\ FilesGrow
<1>1. /\ helper \in [Hook -> Calls] /\ opened \in [Hook -> FileNo] /\ opened[h] \in FileNo
      /\ seen \in [Hook -> [links: 0 .. 2, private: BOOLEAN]] /\ result \in [Hook -> {"none", "ok", "err"}]
      /\ file \in [FileNo -> File] /\ path \in Entry
  BY DEF FilesInv, LogTypeOK
<1>2. UNCHANGED fsVars
  BY DEF MakeEntry, CheckPath, OpenThere, OpenFails, Fstat, Recheck, WriteFails
<1>3. Knows(h) /\ FileZero
  BY DEF FilesInv
<1>4. /\ helper' \in [Hook -> Calls] /\ result' \in [Hook -> {"none", "ok", "err"}]
      /\ \A i \in Hook \ {h} : helper'[i] = helper[i]
  BY <1>1 DEF MakeEntry, CheckPath, OpenThere, OpenFails, Fstat, Recheck, WriteFails, Goto, Return, Calls
<1>5. path' = path /\ file' = file
  BY <1>2 DEF fsVars
<1>6. CASE MakeEntry(h, d) \/ CheckPath(h) \/ OpenFails(h) \/ WriteFails(h)
  <2>1. opened' = opened /\ seen' = seen /\ helper'[h] \in {"lstat", "open", "over"}
    BY <1>1, <1>6 DEF MakeEntry, CheckPath, OpenFails, WriteFails, Goto, Return
  <2>2. Knows(h)'
    BY <2>1 DEF Knows
  <2> QED
    BY <1>1, <1>2, <1>4, <2>1, <2>2, QuietFiles
<1>7. CASE OpenThere(h)
  <2>1. /\ opened' \in [Hook -> FileNo] /\ opened'[h] = path.no /\ seen' = seen /\ helper'[h] = "fstat"
        /\ \A i \in Hook \ {h} : opened'[i] = opened[i]
    BY <1>1, <1>7 DEF OpenThere, Goto, Entry
  <2>2. path.type \in {"symlink", "file"}
    BY <1>1, <1>7 DEF OpenThere, Entry
  <2>3. file[path.no].kind # "unused"
    BY <1>3, <2>2 DEF FileZero
  <2>4. Knows(h)'
    BY <1>5, <2>1, <2>3 DEF Knows
  <2> QED
    BY <1>1, <1>2, <1>4, <2>1, <2>4, QuietFiles
<1>8. CASE Fstat(h)
  <2>1. /\ opened' = opened
        /\ seen' = [seen EXCEPT ![h] = [links |-> file[opened[h]].links, private |-> file[opened[h]].private]]
    BY <1>8 DEF Fstat
  <2>2. file[opened[h]] \in File
    BY <1>1
  <2>3. file[opened[h]].links \in 0 .. 2 /\ file[opened[h]].private \in BOOLEAN
    BY <2>2 DEF File
  <2>4. /\ seen' \in [Hook -> [links: 0 .. 2, private: BOOLEAN]] /\ \A i \in Hook \ {h} : seen'[i] = seen[i]
        /\ seen'[h].links = file[opened[h]].links /\ seen'[h].private = file[opened[h]].private
    BY <1>1, <2>1, <2>3
  <2>5. helper'[h] = "over" \/ (helper'[h] = "recheck" /\ file[opened[h]].kind = "regular")
    BY <1>1, <1>8 DEF Fstat, Goto, Return
  <2>6. Knows(h)'
    BY <1>5, <2>1, <2>4, <2>5 DEF Knows
  <2> QED
    BY <1>1, <1>2, <1>4, <2>1, <2>4, <2>6, QuietFiles
<1>9. CASE Recheck(h)
  <2>1. opened' = opened /\ seen' = seen /\ helper[h] = "recheck"
    BY <1>9 DEF Recheck
  <2>2. \/ helper'[h] = "over"
        \/ /\ path.type = "file" /\ path.no = opened[h] /\ seen[h].links = 1
           /\ helper'[h] = IF seen[h].private THEN "write" ELSE "chmod"
    BY <1>1, <1>9 DEF Recheck, Goto, Return
  <2>3. helper'[h] # "over" => opened[h] # 0
    BY <1>3, <2>1, <2>2 DEF Knows, FileZero
  <2>4. Knows(h)'
    BY <1>3, <1>5, <2>1, <2>2, <2>3 DEF Knows
  <2> QED
    BY <1>1, <1>2, <1>4, <2>1, <2>4, QuietFiles
<1> QED
  BY <1>6, <1>7, <1>8, <1>9

(* The open that creates the log takes a file that nobody has opened.      *)
LEMMA CreateStep ==
  ASSUME FilesInv, NEW h \in Hook, OpenCreates(h)
  PROVE  FilesInv' /\ FilesGrow /\ file'[0] = file[0] /\ \A n \in FileNo : file'[n].chunks = file[n].chunks
<1>1. /\ helper \in [Hook -> Calls] /\ opened \in [Hook -> FileNo]
      /\ seen \in [Hook -> [links: 0 .. 2, private: BOOLEAN]] /\ result \in [Hook -> {"none", "ok", "err"}]
      /\ file \in [FileNo -> File] /\ path \in Entry /\ swaps \in 0 .. MaxSwaps /\ 0 \in FileNo
  BY LogAssumption DEF FilesInv, LogTypeOK, FileNo
<1>2. PICK m \in FileNo :
        /\ file[m].kind = "unused" /\ file' = [file EXCEPT ![m] = LogFile("regular", TRUE)]
        /\ path' = [type |-> "file", no |-> m] /\ opened' = [opened EXCEPT ![h] = m]
  BY DEF OpenCreates
<1>3. helper' = [helper EXCEPT ![h] = "fstat"] /\ result' = result /\ swaps' = swaps /\ seen' = seen
  BY DEF OpenCreates, Goto
<1>4. PICK new \in File : new = LogFile("regular", TRUE) /\ new.kind = "regular" /\ new.chunks = <<>> /\ new.private
  <2>1. LogFile("regular", TRUE) \in File
    BY DEF LogFile, File
  <2>2. LogFile("regular", TRUE).kind = "regular" /\ LogFile("regular", TRUE).chunks = <<>>
        /\ LogFile("regular", TRUE).private
    BY DEF LogFile
  <2> QED
    BY <2>1, <2>2
<1>5. /\ file' \in [FileNo -> File] /\ file'[m] = new
      /\ \A n \in FileNo : n # m => file'[n] = file[n]
  BY <1>1, <1>2, <1>4
<1>6. m # 0 /\ file[m].chunks = <<>>
  BY <1>2 DEF FilesInv, FileZero, LinesArePrivate
<1>7. FilesGrow
  BY <1>2, <1>5 DEF FilesGrow
<1>8. \A n \in FileNo : file'[n].chunks = file[n].chunks
  BY <1>4, <1>5, <1>6
<1>9. LogTypeOK'
  <2>1. path' \in Entry
    BY <1>2 DEF Entry
  <2>2. helper' \in [Hook -> Calls] /\ opened' \in [Hook -> FileNo]
    BY <1>1, <1>2, <1>3 DEF Calls
  <2> QED
    BY <1>1, <1>3, <1>5, <2>1, <2>2 DEF LogTypeOK
<1>10. FileZero'
  <2>1. path'.type = "file" /\ path'.no = m
    BY <1>2
  <2> QED
    BY <1>1, <1>4, <1>5, <1>6, <2>1 DEF FilesInv, FileZero
<1>11. LinesArePrivate'
  BY <1>4, <1>5 DEF FilesInv, LinesArePrivate
<1>12. Knows(h)'
  BY <1>1, <1>2, <1>3, <1>4, <1>5 DEF Knows
<1>13. \A i \in Hook \ {h} : Knows(i)'
  BY <1>1, <1>2, <1>3, <1>7, KeepsKnowing DEF FilesInv
<1> QED
  BY <1>1, <1>5, <1>6, <1>7, <1>8, <1>9, <1>10, <1>11, <1>12, <1>13 DEF FilesInv

(* The mode is set on the opened file, which is not file 0.                *)
LEMMA ChmodStep ==
  ASSUME FilesInv, NEW h \in Hook, Chmod(h)
  PROVE  /\ FilesInv' /\ FilesGrow /\ file'[0] = file[0]
         /\ \A n \in FileNo : file'[n].chunks = file[n].chunks
<1>1. /\ helper \in [Hook -> Calls] /\ opened \in [Hook -> FileNo] /\ opened[h] \in FileNo
      /\ seen \in [Hook -> [links: 0 .. 2, private: BOOLEAN]] /\ result \in [Hook -> {"none", "ok", "err"}]
      /\ file \in [FileNo -> File] /\ file[opened[h]] \in File /\ 0 \in FileNo
  BY LogAssumption DEF FilesInv, LogTypeOK, FileNo
<1>2. /\ opened[h] # 0 /\ file[opened[h]].kind = "regular"
      /\ seen[h].links = file[opened[h]].links
      /\ opened' = opened /\ seen' = seen /\ path' = path /\ swaps' = swaps
  BY DEF FilesInv, Knows, Chmod
<1>3. CASE file' = file
  <2>1. UNCHANGED fsVars
    BY <1>2, <1>3 DEF fsVars
  <2>2. /\ helper' \in [Hook -> Calls] /\ result' \in [Hook -> {"none", "ok", "err"}]
        /\ \A i \in Hook \ {h} : helper'[i] = helper[i]
        /\ helper'[h] = "over" \/ (helper'[h] = "write" /\ file' = [file EXCEPT ![opened[h]].private = TRUE])
    BY <1>1 DEF Chmod, Goto, Return, Calls
  <2>3. helper'[h] = "write" => file[opened[h]].private
    BY <1>1, <1>3, <2>2 DEF File
  <2>4. Knows(h)'
    BY <1>2, <1>3, <2>2, <2>3 DEF Knows
  <2> QED
    BY <1>1, <1>2, <1>3, <2>1, <2>2, <2>4, QuietFiles
<1>4. CASE file' = [file EXCEPT ![opened[h]].private = TRUE] /\ Goto(h, "write")
  <2>1. helper' = [helper EXCEPT ![h] = "write"] /\ result' = result
    BY <1>4 DEF Goto
  <2>2. PICK new \in File :
          /\ file' = [file EXCEPT ![opened[h]] = new]
          /\ new.kind = file[opened[h]].kind /\ new.links = file[opened[h]].links
          /\ new.chunks = file[opened[h]].chunks /\ new.private
    <3>1. [file[opened[h]] EXCEPT !.private = TRUE] \in File
      BY <1>1 DEF File
    <3>2. file' = [file EXCEPT ![opened[h]] = [file[opened[h]] EXCEPT !.private = TRUE]]
      BY <1>4
    <3>3. \A f \in File :
            /\ [f EXCEPT !.private = TRUE].kind = f.kind /\ [f EXCEPT !.private = TRUE].links = f.links
            /\ [f EXCEPT !.private = TRUE].chunks = f.chunks /\ [f EXCEPT !.private = TRUE].private
      BY DEF File
    <3> QED
      BY <1>1, <3>1, <3>2, <3>3
  <2>3. /\ file' \in [FileNo -> File] /\ file'[opened[h]] = new
        /\ \A n \in FileNo : n # opened[h] => file'[n] = file[n]
    BY <1>1, <2>2
  <2>4. FilesGrow
    BY <2>2, <2>3 DEF FilesGrow
  <2>5. \A n \in FileNo : file'[n].chunks = file[n].chunks
    BY <2>2, <2>3
  <2>6. LogTypeOK'
    BY <1>1, <1>2, <2>1, <2>3 DEF FilesInv, LogTypeOK, Calls
  <2>7. FileZero'
    <3>1. path.type = "file" => path.no \in FileNo
      BY DEF FilesInv, LogTypeOK, Entry
    <3> QED
      BY <1>1, <1>2, <2>2, <2>3, <3>1 DEF FilesInv, FileZero
  <2>8. LinesArePrivate'
    BY <1>2, <2>2, <2>3 DEF FilesInv, LinesArePrivate
  <2>9. Knows(h)'
    BY <1>1, <1>2, <2>1, <2>2, <2>3 DEF Knows
  <2>10. \A i \in Hook \ {h} : Knows(i)'
    BY <1>1, <1>2, <2>1, <2>4, KeepsKnowing DEF FilesInv
  <2> QED
    BY <1>1, <1>2, <2>3, <2>4, <2>5, <2>6, <2>7, <2>8, <2>9, <2>10 DEF FilesInv
<1> QED
  BY <1>3, <1>4 DEF Chmod

(* What one write call appends.                                            *)
Line(h, part, decision) == [hook |-> h, part |-> part, decision |-> decision]

(* A write appends to the opened file, which is private and not file 0.    *)
LEMMA PutStep ==
  ASSUME FilesInv, NEW h \in Hook, helper[h] \in {"write", "rest"},
         NEW part \in {"whole", "head", "tail"}, NEW d \in Answered, Put(h, part, d),
         NEW call \in {"rest", "over"}, helper' = [helper EXCEPT ![h] = call],
         result' \in [Hook -> {"none", "ok", "err"}], UNCHANGED <<path, swaps, opened, seen>>
  PROVE  /\ FilesInv' /\ FilesGrow /\ file'[0] = file[0]
         /\ opened[h] \in FileNo /\ file[opened[h]].chunks \in Seq(Chunk)
         /\ file'[opened[h]].chunks = Append(file[opened[h]].chunks, Line(h, part, d))
         /\ \A n \in FileNo : n # opened[h] => file'[n].chunks = file[n].chunks
<1>1. /\ helper \in [Hook -> Calls] /\ opened \in [Hook -> FileNo] /\ opened[h] \in FileNo
      /\ seen \in [Hook -> [links: 0 .. 2, private: BOOLEAN]]
      /\ file \in [FileNo -> File] /\ file[opened[h]] \in File /\ 0 \in FileNo
  BY LogAssumption DEF FilesInv, LogTypeOK, FileNo
<1>2. /\ opened[h] # 0 /\ file[opened[h]].kind = "regular" /\ file[opened[h]].private
      /\ seen[h].links = file[opened[h]].links
  BY DEF FilesInv, Knows
<1>3. file[opened[h]].chunks \in Seq(Chunk)
  BY <1>1 DEF File
<1>4. Line(h, part, d) \in Chunk
  BY DEF Line, Chunk
<1>5. PICK new \in File :
        /\ file' = [file EXCEPT ![opened[h]] = new]
        /\ new.kind = file[opened[h]].kind /\ new.links = file[opened[h]].links
        /\ new.private = file[opened[h]].private
        /\ new.chunks = Append(file[opened[h]].chunks, Line(h, part, d))
  <2>1. PICK chunks \in Seq(Chunk) : chunks = Append(file[opened[h]].chunks, Line(h, part, d))
    <3>1. Append(file[opened[h]].chunks, Line(h, part, d)) \in Seq(Chunk)
      BY <1>3, <1>4
    <3> QED
      BY <3>1
  <2>2. file' = [file EXCEPT ![opened[h]] = [file[opened[h]] EXCEPT !.chunks = chunks]]
    BY <1>1, <2>1 DEF Put, Line
  <2>3. \A f \in File :
          /\ [f EXCEPT !.chunks = chunks] \in File
          /\ [f EXCEPT !.chunks = chunks].kind = f.kind /\ [f EXCEPT !.chunks = chunks].links = f.links
          /\ [f EXCEPT !.chunks = chunks].private = f.private /\ [f EXCEPT !.chunks = chunks].chunks = chunks
    BY DEF File
  <2> QED
    BY <1>1, <2>1, <2>2, <2>3
<1>6. /\ file' \in [FileNo -> File] /\ file'[opened[h]] = new
      /\ \A n \in FileNo : n # opened[h] => file'[n] = file[n]
  BY <1>1, <1>5
<1>7. FilesGrow
  BY <1>5, <1>6 DEF FilesGrow
<1>8. LogTypeOK'
  BY <1>1, <1>6 DEF FilesInv, LogTypeOK, Calls
<1>9. FileZero'
  <2>1. path.type = "file" => path.no \in FileNo
    BY DEF FilesInv, LogTypeOK, Entry
  <2> QED
    BY <1>1, <1>2, <1>5, <1>6, <2>1 DEF FilesInv, FileZero
<1>10. LinesArePrivate'
  BY <1>2, <1>5, <1>6 DEF FilesInv, LinesArePrivate
<1>11. Knows(h)'
  BY <1>1, <1>2, <1>5, <1>6 DEF Knows
<1>12. \A i \in Hook \ {h} : Knows(i)'
  BY <1>1, <1>7, KeepsKnowing DEF FilesInv
<1> QED
  BY <1>1, <1>2, <1>3, <1>5, <1>6, <1>7, <1>8, <1>9, <1>10, <1>11, <1>12 DEF FilesInv

(* Every step of append_log: what it may be told is the answer, once it    *)
(* writes.                                                                 *)
LEMMA AppendFiles ==
  ASSUME FilesInv, NEW h \in Hook, NEW d, AppendLog(h, d), helper[h] \in {"write", "rest"} => d \in Answered
  PROVE  FilesInv' /\ file'[0].chunks = file[0].chunks /\ file'[0].private = file[0].private
<1>1. CASE \/ MakeEntry(h, d) \/ CheckPath(h) \/ OpenThere(h) \/ OpenFails(h)
           \/ Fstat(h) \/ Recheck(h) \/ WriteFails(h)
  <2>1. file' = file
    BY <1>1 DEF MakeEntry, CheckPath, OpenThere, OpenFails, Fstat, Recheck, WriteFails, fsVars
  <2> QED
    BY <1>1, <2>1, LookStep
<1>2. CASE OpenCreates(h)
  BY <1>2, CreateStep
<1>3. CASE Chmod(h)
  BY <1>3, ChmodStep
<1>4. result \in [Hook -> {"none", "ok", "err"}]
  BY DEF FilesInv, LogTypeOK
<1>5. CASE WriteLine(h, d)
  <2>1. helper[h] = "write" /\ d \in Answered /\ UNCHANGED <<path, swaps, opened, seen>>
    BY <1>5 DEF WriteLine
  <2>2. \/ /\ Put(h, "whole", d) /\ helper' = [helper EXCEPT ![h] = "over"]
           /\ result' = [result EXCEPT ![h] = "ok"]
        \/ Put(h, "head", d) /\ helper' = [helper EXCEPT ![h] = "rest"] /\ result' = result
    BY <1>5 DEF WriteLine, Return, Goto
  <2>3. result' \in [Hook -> {"none", "ok", "err"}]
    BY <1>4, <2>2
  <2> QED
    BY <2>1, <2>2, <2>3, PutStep
<1>6. CASE WriteRest(h, d)
  <2>1. helper[h] = "rest" /\ d \in Answered /\ UNCHANGED <<path, swaps, opened, seen>>
    BY <1>6 DEF WriteRest
  <2>2. /\ Put(h, "tail", d) /\ helper' = [helper EXCEPT ![h] = "over"]
        /\ result' = [result EXCEPT ![h] = "ok"]
    BY <1>6 DEF WriteRest, Return
  <2>3. result' \in [Hook -> {"none", "ok", "err"}]
    BY <1>4, <2>2
  <2> QED
    BY <2>1, <2>2, <2>3, PutStep
<1> QED
  BY <1>1, <1>2, <1>3, <1>5, <1>6 DEF AppendLog

-----------------------------------------------------------------------------
(* The lines of each hook.                                                 *)

(* The end of a line of h is in a file.                                    *)
Logged(h) ==
  \E n \in FileNo : \E i \in DOMAIN file[n].chunks :
    file[n].chunks[i].hook = h /\ file[n].chunks[i].part \in {"whole", "tail"}

(* Where there are the same lines, each hook has the same.                 *)
LEMMA SameLines ==
  ASSUME \A n \in FileNo : file'[n].chunks = file[n].chunks
  PROVE  \A h : LinesOf(h)' = LinesOf(h) /\ (Logged(h)' <=> Logged(h))
<1>1. ASSUME NEW h
      PROVE  LinesOf(h)' = LinesOf(h)
  <2>1. \A n \in FileNo :
          {<<n, i>> : i \in {i \in DOMAIN file'[n].chunks :
                              file'[n].chunks[i].hook = h /\ file'[n].chunks[i].part \in {"whole", "head"}}}
          = {<<n, i>> : i \in {i \in DOMAIN file[n].chunks :
                              file[n].chunks[i].hook = h /\ file[n].chunks[i].part \in {"whole", "head"}}}
    OBVIOUS
  <2> QED
    BY <2>1 DEF LinesOf
<1>2. \A h : Logged(h)' <=> Logged(h)
  BY DEF Logged
<1> QED
  BY <1>1, <1>2

(* A line is where its chunk is.                                           *)
LEMMA LinePlace ==
  ASSUME NEW h, NEW p
  PROVE  p \in LinesOf(h) <=>
           \E n \in FileNo : \E i \in DOMAIN file[n].chunks :
             /\ p = <<n, i>> /\ file[n].chunks[i].hook = h
             /\ file[n].chunks[i].part \in {"whole", "head"}
  BY DEF LinesOf

(* The lines after a write.                                                *)
LEMMA PutLines ==
  ASSUME NEW h, NEW part \in {"whole", "head", "tail"}, NEW d, NEW f \in FileNo,
         file[f].chunks \in Seq(Chunk), file'[f].chunks = Append(file[f].chunks, Line(h, part, d)),
         \A n \in FileNo : n # f => file'[n].chunks = file[n].chunks
  PROVE  /\ \A i : i # h => LinesOf(i)' = LinesOf(i)
         /\ LinesOf(h)' = LinesOf(h) \cup (IF part = "tail" THEN {} ELSE {<<f, Len(file[f].chunks) + 1>>})
         /\ \A i : Logged(i) => Logged(i)'
         /\ part # "head" => Logged(h)'
<1>1. PICK old \in Seq(Chunk) : old = file[f].chunks
  OBVIOUS
<1>2. PICK new, line, m : new = Append(old, line) /\ line = Line(h, part, d) /\ m = Len(old) + 1
  OBVIOUS
<1>3. /\ DOMAIN new = DOMAIN old \cup {m} /\ m \notin DOMAIN old /\ new[m] = line
      /\ \A i \in DOMAIN old : new[i] = old[i]
  <2>1. Len(old) \in Nat /\ DOMAIN old = 1 .. Len(old)
    BY <1>1
  <2>2. DOMAIN new = 1 .. Len(old) + 1 /\ \A i \in 1 .. Len(old) : new[i] = old[i]
    BY <1>1, <1>2
  <2>3. new[m] = line
    BY <1>1, <1>2
  <2> QED
    BY <1>2, <2>1, <2>2, <2>3
<1>4. line.hook = h /\ line.part = part
  BY <1>2 DEF Line
<1>5. file'[f].chunks = new /\ file[f].chunks = old
  BY <1>1, <1>2
<1> DEFINE At(i, n, j) == file[n].chunks[j].hook = i /\ file[n].chunks[j].part \in {"whole", "head"}
<1>6. ASSUME NEW i, NEW p
      PROVE  p \in LinesOf(i)' <=>
               p \in LinesOf(i) \/ (i = h /\ part # "tail" /\ p = <<f, m>>)
  <2>1. p \in LinesOf(i) <=> \E n \in FileNo : \E j \in DOMAIN file[n].chunks : p = <<n, j>> /\ At(i, n, j)
    BY LinePlace
  <2>2. p \in LinesOf(i)' <=>
          \E n \in FileNo : \E j \in DOMAIN file'[n].chunks :
            p = <<n, j>> /\ file'[n].chunks[j].hook = i /\ file'[n].chunks[j].part \in {"whole", "head"}
    BY DEF LinesOf
  <2>3. p \in LinesOf(i) => p \in LinesOf(i)'
    <3>1. SUFFICES ASSUME NEW n \in FileNo, NEW j \in DOMAIN file[n].chunks, p = <<n, j>>, At(i, n, j)
                   PROVE  p \in LinesOf(i)'
      BY <2>1
    <3>2. j \in DOMAIN file'[n].chunks /\ file'[n].chunks[j] = file[n].chunks[j]
      BY <1>3, <1>5
    <3> QED
      BY <2>2, <3>1, <3>2
  <2>4. i = h /\ part # "tail" /\ p = <<f, m>> => p \in LinesOf(i)'
    <3>1. m \in DOMAIN file'[f].chunks /\ file'[f].chunks[m] = line
      BY <1>3, <1>5
    <3> QED
      BY <1>4, <2>2, <3>1
  <2>5. p \in LinesOf(i)' => p \in LinesOf(i) \/ (i = h /\ part # "tail" /\ p = <<f, m>>)
    <3>1. SUFFICES ASSUME NEW n \in FileNo, NEW j \in DOMAIN file'[n].chunks, p = <<n, j>>,
                          file'[n].chunks[j].hook = i, file'[n].chunks[j].part \in {"whole", "head"}
                   PROVE  p \in LinesOf(i) \/ (i = h /\ part # "tail" /\ p = <<f, m>>)
      BY <2>2
    <3>2. CASE n = f /\ j = m
      BY <1>3, <1>4, <1>5, <3>1, <3>2
    <3>3. CASE ~(n = f /\ j = m)
      <4>1. j \in DOMAIN file[n].chunks /\ file'[n].chunks[j] = file[n].chunks[j]
        BY <1>3, <1>5, <3>3
      <4> QED
        BY <2>1, <3>1, <4>1
    <3> QED
      BY <3>2, <3>3
  <2> QED
    BY <2>3, <2>4, <2>5
<1>7. ASSUME NEW i, i # h
      PROVE  LinesOf(i)' = LinesOf(i)
  <2>1. LinesOf(i)' \subseteq LinesOf(i)
    BY <1>6, <1>7
  <2>2. LinesOf(i) \subseteq LinesOf(i)'
    BY <1>6
  <2> QED
    BY <2>1, <2>2
<1>8. LinesOf(h)' = LinesOf(h) \cup (IF part = "tail" THEN {} ELSE {<<f, Len(file[f].chunks) + 1>>})
  <2>1. PICK one : one = IF part = "tail" THEN {} ELSE {<<f, m>>}
    OBVIOUS
  <2>2. LinesOf(h)' \subseteq LinesOf(h) \cup one
    BY <1>6, <2>1
  <2>3. LinesOf(h) \cup one \subseteq LinesOf(h)'
    BY <1>6, <2>1
  <2>4. LinesOf(h)' = LinesOf(h) \cup one
    BY <2>2, <2>3
  <2>5. m = Len(file[f].chunks) + 1
    BY <1>1, <1>2
  <2> QED
    BY <2>1, <2>4, <2>5
<1>9. ASSUME NEW i, Logged(i) PROVE Logged(i)'
  <2>1. PICK n \in FileNo : \E j \in DOMAIN file[n].chunks :
          file[n].chunks[j].hook = i /\ file[n].chunks[j].part \in {"whole", "tail"}
    BY <1>9 DEF Logged
  <2>3. PICK j \in DOMAIN file[n].chunks :
          file[n].chunks[j].hook = i /\ file[n].chunks[j].part \in {"whole", "tail"}
    BY <2>1
  <2>2. j \in DOMAIN file'[n].chunks /\ file'[n].chunks[j] = file[n].chunks[j]
    BY <1>3, <1>5
  <2> QED
    BY <2>3, <2>2 DEF Logged
<1>10. part # "head" => Logged(h)'
  <2>1. m \in DOMAIN file'[f].chunks /\ file'[f].chunks[m] = line
    BY <1>3, <1>5
  <2> QED
    BY <1>4, <2>1 DEF Logged
<1> QED
  BY <1>7, <1>8, <1>9, <1>10

-----------------------------------------------------------------------------
(* The helper and the main thread.                                         *)

(* A helper lives while its main thread waits; it writes one line, which   *)
(* it finishes before it reports success; a main thread that gave up the   *)
(* wait, or heard of a failure, has said so.                               *)
Telling(h) ==
  /\ pc[h] \in {"start", "read", "load", "answer", "write", "log"} => helper[h] = "none" /\ result[h] = "none"
  /\ pc[h] \in {"wait", "late"} => helper[h] # "none"
  /\ Ended(h) => helper[h] \in {"none", "over"}
  /\ helper[h] \notin {"none", "entry", "over"} => response[h] \in Answered
  /\ helper[h] \notin {"rest", "over"} => LinesOf(h) = {}
  /\ \E p : LinesOf(h) \subseteq {p}
  /\ result[h] = "ok" => response[h] = "NoDecision" \/ Logged(h)
  /\ pc[h] = "late" => warned[h]
  /\ pc[h] = "returned" => warned[h] \/ ~(settings[h].ok /\ settings[h].log) \/ result[h] = "ok"

(* A chunk is of a hook that has a helper, and says what that hook wrote.  *)
ChunksTell ==
  \A n \in FileNo : \A i \in DOMAIN file[n].chunks :
    /\ helper[file[n].chunks[i].hook] # "none"
    /\ out[file[n].chunks[i].hook] = <<file[n].chunks[i].decision>>

Counters == edits \in 0 .. MaxEdits /\ warned \in [Hook -> BOOLEAN]

LogInv ==
  MainInv /\ FilesInv /\ Counters /\ ChunksTell /\ \A h \in Hook : Telling(h)

(* A hook whose part of the state is left alone.                           *)
LEMMA StillTelling ==
  ASSUME NEW i, Telling(i), LinesOf(i)' = LinesOf(i), Logged(i) => Logged(i)',
         pc'[i] = pc[i], helper'[i] = helper[i], result'[i] = result[i], response'[i] = response[i],
         settings'[i] = settings[i], warned'[i] = warned[i]
  PROVE  Telling(i)'
  BY DEF Telling, Ended

(* A step of a main thread leaves the files alone.                         *)
LEMMA MainTells ==
  ASSUME LogInv, NEW h \in Hook, Main(h) \/ Panic(h) \/ Killed(h)
  PROVE  LogInv'
<1>1. /\ UNCHANGED <<path, file, swaps, opened, seen, result, edits>>
      /\ helper' = helper \/ helper' = [helper EXCEPT ![h] = "entry"] \/ helper' = [helper EXCEPT ![h] = "over"]
  BY DEF Main, StartHook, ReadInput, Load, MakeAnswer, WriteAnswer, NoLog, SpawnFails,
         SpawnHelper, LogReturned, LogTimesOut, ExitLate, ExitSuccess, Panic, Killed, logVars, fsVars
<1>2. /\ helper \in [Hook -> Calls] /\ opened \in [Hook -> FileNo]
      /\ seen \in [Hook -> [links: 0 .. 2, private: BOOLEAN]] /\ result \in [Hook -> {"none", "ok", "err"}]
      /\ file \in [FileNo -> File]
  BY DEF LogInv, FilesInv, LogTypeOK
<1>3. /\ pc \in [Hook -> Steps] /\ response \in [Hook -> Response] /\ settings \in [Hook -> Settings]
      /\ out \in [Hook -> Seq(Response \cup {"partial"})] /\ warned \in [Hook -> BOOLEAN]
      /\ input \in [Hook -> Input] /\ text \in [Hook -> Config] /\ status \in [Hook -> {"none", "0", "2", "killed"}]
  BY DEF LogInv, MainInv, MainTypeOK, Counters
<1>4. MainInv'
  BY MainStep DEF LogInv
<1>5. FilesInv'
  <2>1. helper' \in [Hook -> Calls] /\ \A i \in Hook \ {h} : helper'[i] = helper[i]
    BY <1>1, <1>2 DEF Calls
  <2>2. helper'[h] \in {helper[h], "entry", "over"}
    BY <1>1, <1>2
  <2>3. Knows(h)'
    BY <1>1, <2>2 DEF LogInv, FilesInv, Knows
  <2>4. UNCHANGED fsVars
    BY <1>1 DEF fsVars
  <2> QED
    BY <1>1, <1>2, <2>1, <2>3, <2>4, QuietFiles DEF LogInv
<1>6. \A i : LinesOf(i)' = LinesOf(i) /\ (Logged(i)' <=> Logged(i))
  BY <1>1, SameLines
<1>7. \A i \in Hook \ {h} :
        /\ pc'[i] = pc[i] /\ helper'[i] = helper[i] /\ result'[i] = result[i] /\ response'[i] = response[i]
        /\ settings'[i] = settings[i] /\ warned'[i] = warned[i] /\ out'[i] = out[i]
  BY <1>1, <1>2, <1>3 DEF Main, StartHook, ReadInput, Load, MakeAnswer, WriteAnswer, NoLog, SpawnFails,
         SpawnHelper, LogReturned, LogTimesOut, ExitLate, ExitSuccess, Panic, Killed
<1>8. \A i \in Hook \ {h} : Telling(i)'
  BY <1>6, <1>7, StillTelling DEF LogInv
<1>9. Counters'
  BY <1>1, <1>3 DEF LogInv, Counters, Main, StartHook, ReadInput, Load, MakeAnswer, WriteAnswer, NoLog,
         SpawnFails, SpawnHelper, LogReturned, LogTimesOut, ExitLate, ExitSuccess, Panic, Killed
<1>10. Telling(h)
  BY DEF LogInv
<1>11. /\ helper[h] = "none" => LinesOf(h) = {}
       /\ result'[h] = result[h]
  BY <1>1, <1>10 DEF Telling
<1>12. ASSUME StartHook(h) \/ ReadInput(h) \/ Load(h) \/ MakeAnswer(h) \/ WriteAnswer(h) \/ Panic(h)
       PROVE  Telling(h)'
  <2>1. /\ pc[h] \in {"start", "read", "load", "answer", "write"} /\ helper' = helper
        /\ pc'[h] \in {"read", "load", "answer", "write", "log", "ended"}
    BY <1>2, <1>3, <1>12 DEF StartHook, ReadInput, Load, MakeAnswer, WriteAnswer, Panic, logVars
  <2>2. helper[h] = "none" /\ result[h] = "none" /\ helper'[h] = "none" /\ result'[h] = "none"
    BY <1>10, <1>11, <2>1 DEF Telling
  <2> QED
    BY <1>6, <1>10, <2>1, <2>2 DEF Telling, Ended
<1>13. ASSUME NoLog(h) \/ SpawnFails(h) \/ LogReturned(h) \/ ExitLate(h)
       PROVE  Telling(h)'
  <2>1. /\ pc[h] \in {"log", "wait", "late"} /\ pc'[h] = "returned" /\ helper'[h] = "over"
        /\ response'[h] = response[h] /\ settings'[h] = settings[h]
    BY <1>2, <1>3, <1>13 DEF NoLog, SpawnFails, LogReturned, ExitLate, ExitSuccess
  <2>2. warned'[h] \/ ~(settings[h].ok /\ settings[h].log) \/ result[h] = "ok"
    <3>1. CASE NoLog(h)
      BY <3>1 DEF NoLog
    <3>2. CASE SpawnFails(h)
      BY <1>3, <3>2 DEF SpawnFails
    <3>3. CASE LogReturned(h)
      BY <1>2, <1>3, <3>3 DEF LogReturned
    <3>4. CASE ExitLate(h)
      BY <1>10, <3>4 DEF ExitLate, Telling
    <3> QED
      BY <1>13, <3>1, <3>2, <3>3, <3>4
  <2> QED
    BY <1>6, <1>10, <1>11, <2>1, <2>2 DEF Telling, Ended
<1>14. ASSUME SpawnHelper(h)
       PROVE  Telling(h)'
  <2>1. /\ pc[h] = "log" /\ pc'[h] = "wait" /\ helper'[h] = "entry"
        /\ response'[h] = response[h] /\ settings'[h] = settings[h]
    BY <1>2, <1>3, <1>14 DEF SpawnHelper
  <2> QED
    BY <1>6, <1>10, <1>11, <2>1 DEF Telling, Ended
<1>15. ASSUME LogTimesOut(h)
       PROVE  Telling(h)'
  <2>1. /\ pc[h] = "wait" /\ pc'[h] = "late" /\ helper' = helper /\ warned'[h]
        /\ response'[h] = response[h] /\ settings'[h] = settings[h]
    BY <1>2, <1>3, <1>15 DEF LogTimesOut, logVars
  <2> QED
    BY <1>6, <1>10, <1>11, <2>1 DEF Telling, Ended
<1>16. ASSUME Killed(h)
       PROVE  Telling(h)'
  <2>1. /\ pc'[h] = "ended" /\ helper'[h] = "over" /\ response'[h] = response[h]
    BY <1>2, <1>3, <1>16 DEF Killed
  <2> QED
    BY <1>6, <1>10, <1>11, <2>1 DEF Telling, Ended
<1>17. Telling(h)'
  BY <1>12, <1>13, <1>14, <1>15, <1>16 DEF Main
<1>18. ChunksTell'
  <2>1. out'[h] = out[h] \/ helper[h] = "none"
    BY <1>3, <1>10 DEF Telling, Main, StartHook, ReadInput, Load, MakeAnswer, WriteAnswer, NoLog, SpawnFails,
         SpawnHelper, LogReturned, LogTimesOut, ExitLate, ExitSuccess, Panic, Killed
  <2>2. \A i \in Hook : helper[i] # "none" => helper'[i] # "none" /\ out'[i] = out[i]
    BY <1>1, <1>2, <1>7, <2>1
  <2>3. ASSUME NEW n \in FileNo, NEW j \in DOMAIN file[n].chunks
        PROVE  file[n].chunks[j].hook \in Hook
    <3>1. file[n].chunks \in Seq(Chunk)
      BY <1>2 DEF File
    <3>2. file[n].chunks[j] \in Chunk
      BY <3>1
    <3> QED
      BY <3>2 DEF Chunk
  <2> QED
    BY <1>1, <2>2, <2>3 DEF LogInv, ChunksTell
<1> QED
  BY <1>4, <1>5, <1>8, <1>9, <1>17, <1>18 DEF LogInv

(* A step of a helper: its hook has answered, and waits for it.            *)
LEMMA HelperTells ==
  ASSUME LogInv, NEW h \in Hook, Helper(h)
  PROVE  LogInv'
<1>1. /\ helper \in [Hook -> Calls] /\ result \in [Hook -> {"none", "ok", "err"}]
      /\ pc \in [Hook -> Steps] /\ response \in [Hook -> Response]
  BY DEF LogInv, FilesInv, LogTypeOK, MainInv, MainTypeOK
<1>2. /\ Telling(h) /\ AppendLog(h, response[h]) /\ FilesInv
      /\ UNCHANGED <<edits, pc, response, settings, out, warned>>
  BY DEF LogInv, Helper, mainVars
<1>3. helper[h] \notin {"none", "over"}
  BY <1>2 DEF AppendLog, MakeEntry, CheckPath, OpenThere, OpenCreates, OpenFails, Fstat, Recheck, Chmod,
              WriteLine, WriteRest, WriteFails
<1>4. pc[h] \in {"wait", "late"}
  BY <1>1, <1>2, <1>3 DEF Telling, Ended, Steps
<1>5. out[h] = <<response[h]>>
  BY <1>4 DEF LogInv, MainInv, Progress, Written
<1>6. helper[h] # "entry" => response[h] \in Answered
  BY <1>2, <1>3 DEF Telling
<1>7. MainInv' /\ Counters'
  <2>1. Next
    BY DEF Next
  <2> QED
    BY <1>2, <2>1, MainNext DEF LogInv, Counters
<1>8. FilesInv'
  BY <1>2, <1>6, AppendFiles
<1>9. /\ \A i \in Hook \ {h} : helper'[i] = helper[i] /\ result'[i] = result[i]
      /\ helper'[h] # "none"
  BY <1>1, <1>2 DEF AppendLog, MakeEntry, CheckPath, OpenThere, OpenCreates, OpenFails, Fstat, Recheck, Chmod,
              WriteLine, WriteRest, WriteFails, Goto, Return
<1>10. CASE ~WriteLine(h, response[h]) /\ ~WriteRest(h, response[h])
  <2>1. \A n \in FileNo : file'[n].chunks = file[n].chunks
    <3>1. CASE OpenCreates(h)
      BY <1>2, <3>1, CreateStep
    <3>2. CASE Chmod(h)
      BY <1>2, <3>2, ChmodStep
    <3>3. CASE ~OpenCreates(h) /\ ~Chmod(h)
      BY <1>2, <1>10, <3>3 DEF AppendLog, MakeEntry, CheckPath, OpenThere, OpenFails, Fstat, Recheck, WriteFails, fsVars
    <3> QED
      BY <3>1, <3>2, <3>3
  <2>2. \A i : LinesOf(i)' = LinesOf(i) /\ (Logged(i)' <=> Logged(i))
    BY <2>1, SameLines
  <2>3. \A i \in Hook \ {h} : Telling(i)'
    BY <1>2, <1>9, <2>2, StillTelling DEF LogInv
  <2>4. /\ helper'[h] \notin {"over", "entry"} => response[h] \in Answered
        /\ result'[h] = "ok" => result[h] = "ok" \/ response[h] = "NoDecision"
        /\ helper'[h] # "over" => helper[h] # "rest"
    BY <1>1, <1>2, <1>6, <1>10
       DEF AppendLog, MakeEntry, CheckPath, OpenThere, OpenCreates, OpenFails, Fstat, Recheck, Chmod,
           WriteFails, Goto, Return, Response, Answered
  <2>5. Telling(h)'
    BY <1>2, <1>3, <1>4, <1>9, <2>2, <2>4 DEF Telling, Ended
  <2>6. ChunksTell'
    <3>1. \A i \in Hook : helper[i] # "none" => helper'[i] # "none"
      BY <1>9
    <3>2. ASSUME NEW n \in FileNo, NEW j \in DOMAIN file[n].chunks
          PROVE  file[n].chunks[j].hook \in Hook
      <4>1. file[n].chunks \in Seq(Chunk)
        BY DEF LogInv, FilesInv, LogTypeOK, File
      <4>2. file[n].chunks[j] \in Chunk
        BY <4>1
      <4> QED
        BY <4>2 DEF Chunk
    <3> QED
      BY <1>2, <2>1, <3>1, <3>2 DEF LogInv, ChunksTell
  <2> QED
    BY <1>7, <1>8, <2>3, <2>5, <2>6 DEF LogInv
<1>11. CASE WriteLine(h, response[h]) \/ WriteRest(h, response[h])
  <2>1. /\ helper[h] \in {"write", "rest"} /\ response[h] \in Answered
        /\ UNCHANGED <<path, swaps, opened, seen>>
    BY <1>6, <1>11 DEF WriteLine, WriteRest
  <2>2. PICK part \in {"whole", "head", "tail"}, call \in {"rest", "over"} :
          /\ Put(h, part, response[h]) /\ helper' = [helper EXCEPT ![h] = call]
          /\ part = "tail" <=> helper[h] = "rest"
          /\ call = "rest" <=> part = "head"
          /\ result' = result \/ (part # "head" /\ result' = [result EXCEPT ![h] = "ok"])
    BY <1>11 DEF WriteLine, WriteRest, Goto, Return
  <2>3. result' \in [Hook -> {"none", "ok", "err"}]
    BY <1>1, <2>2
  <2>4. PICK f \in FileNo :
          /\ file[f].chunks \in Seq(Chunk)
          /\ file'[f].chunks = Append(file[f].chunks, Line(h, part, response[h]))
          /\ \A n \in FileNo : n # f => file'[n].chunks = file[n].chunks
    BY <1>2, <2>1, <2>2, <2>3, PutStep, ZenonT(60)
  <2>5. /\ \A i : i # h => LinesOf(i)' = LinesOf(i)
        /\ LinesOf(h)' = LinesOf(h) \cup (IF part = "tail" THEN {} ELSE {<<f, Len(file[f].chunks) + 1>>})
        /\ \A i : Logged(i) => Logged(i)'
        /\ part # "head" => Logged(h)'
    BY <2>4, PutLines, ZenonT(60)
  <2>6. \A i \in Hook \ {h} : Telling(i)'
    BY <1>2, <1>9, <2>5, StillTelling DEF LogInv
  <2>7. \E p : LinesOf(h)' \subseteq {p}
    <3>1. CASE part = "tail"
      BY <1>2, <2>5, <3>1 DEF Telling
    <3>2. CASE part # "tail"
      BY <1>2, <1>3, <2>1, <2>2, <2>5, <3>2 DEF Telling
    <3> QED
      BY <3>1, <3>2
  <2>8. helper'[h] \in {"rest", "over"}
    BY <1>1, <2>2
  <2>9. result'[h] = "ok" => response[h] = "NoDecision" \/ Logged(h)'
    BY <1>1, <1>2, <2>2, <2>5 DEF Telling
  <2>10. Telling(h)'
    BY <1>1, <1>2, <1>4, <2>1, <2>2, <2>7, <2>8, <2>9 DEF Telling, Ended
  <2>11. ChunksTell'
    <3>1. SUFFICES ASSUME NEW n \in FileNo, NEW j \in DOMAIN file'[n].chunks
                   PROVE  /\ helper'[file'[n].chunks[j].hook] # "none"
                          /\ out[file'[n].chunks[j].hook] = <<file'[n].chunks[j].decision>>
      BY <1>2 DEF ChunksTell
    <3>2. PICK old \in Seq(Chunk) : old = file[f].chunks
      BY <2>4
    <3>3. PICK new, line, m : new = Append(old, line) /\ line = Line(h, part, response[h]) /\ m = Len(old) + 1
      OBVIOUS
    <3>4. file'[f].chunks = new /\ file[f].chunks = old
      BY <2>4, <3>2, <3>3
    <3>5. DOMAIN new = DOMAIN old \cup {m} /\ new[m] = line /\ \A i \in DOMAIN old : new[i] = old[i]
      <4>1. Len(old) \in Nat /\ DOMAIN old = 1 .. Len(old)
        BY <3>2
      <4>2. DOMAIN new = 1 .. Len(old) + 1 /\ \A i \in 1 .. Len(old) : new[i] = old[i]
        BY <3>2, <3>3
      <4>3. new[m] = line
        BY <3>2, <3>3
      <4> QED
        BY <3>3, <4>1, <4>2, <4>3
    <3>6. line.hook = h /\ line.decision = response[h]
      BY <3>3 DEF Line
    <3>7. CASE n = f /\ j = m
      <4>1. file'[n].chunks[j] = line
        BY <3>4, <3>5, <3>7
      <4> QED
        BY <1>5, <1>9, <3>6, <4>1
    <3>8. CASE ~(n = f /\ j = m)
      <4>1. j \in DOMAIN file[n].chunks /\ file'[n].chunks[j] = file[n].chunks[j]
        BY <2>4, <3>1, <3>4, <3>5, <3>8
      <4>2. file[n].chunks[j].hook \in Hook
        <5>1. file[n].chunks \in Seq(Chunk)
          BY DEF LogInv, FilesInv, LogTypeOK, File
        <5>2. file[n].chunks[j] \in Chunk
          BY <4>1, <5>1
        <5> QED
          BY <5>2 DEF Chunk
      <4>3. helper[file[n].chunks[j].hook] # "none" /\ out[file[n].chunks[j].hook] = <<file[n].chunks[j].decision>>
        BY <4>1 DEF LogInv, ChunksTell
      <4> QED
        BY <1>9, <4>1, <4>2, <4>3
    <3> QED
      BY <3>7, <3>8
  <2> QED
    BY <1>7, <1>8, <2>6, <2>10, <2>11 DEF LogInv
<1> QED
  BY <1>10, <1>11

-----------------------------------------------------------------------------
(* The start, and the steps of other processes.                            *)

(* Nothing has been logged yet.                                            *)
LEMMA LogStarts == Init => LogInv
<1> SUFFICES ASSUME Init PROVE LogInv
  OBVIOUS
<1>1. MainInv /\ FilesInv /\ \A n \in FileNo : file[n].chunks = <<>>
  BY MainInit, LogInitOK DEF Init
<1>2. Counters
  BY HookAssumption DEF Init, Counters
<1>3. \A n \in FileNo : DOMAIN file[n].chunks = {}
  BY <1>1
<1>4. ChunksTell
  BY <1>3 DEF ChunksTell
<1>5. ASSUME NEW h \in Hook PROVE Telling(h)
  <2>1. LinesOf(h) = {}
    BY <1>3, LinePlace
  <2>2. pc[h] = "start" /\ helper[h] = "none" /\ result[h] = "none" /\ ~Ended(h)
    BY DEF Init, LogInit, Ended
  <2> QED
    BY <2>1, <2>2 DEF Telling
<1> QED
  BY <1>1, <1>2, <1>4, <1>5 DEF LogInv

(* Editing the config, changing the entry at the path, or nothing at all.  *)
LEMMA OthersTell ==
  ASSUME LogInv, EditConfig \/ (Others /\ UNCHANGED mainVars) \/ UNCHANGED vars
  PROVE  LogInv'
<1>1. UNCHANGED <<file, helper, opened, seen, result, pc, response, settings, out, warned>>
  BY DEF EditConfig, Others, Rotate, PutSymlink, vars, mainVars, logVars
<1>2. MainInv'
  BY MainNext DEF LogInv, Next
<1>3. /\ swaps \in 0 .. MaxSwaps /\ edits \in 0 .. MaxEdits /\ path \in Entry /\ 0 \in FileNo
      /\ MaxSwaps \in Nat /\ MaxEdits \in Nat
  BY LogAssumption, HookAssumption DEF LogInv, FilesInv, LogTypeOK, Counters, FileNo
<1>4. edits' \in 0 .. MaxEdits
  <2>1. edits' = edits \/ (edits < MaxEdits /\ edits' = edits + 1)
    BY DEF EditConfig, vars, mainVars
  <2> QED
    BY <1>3, <2>1
<1>5. swaps' \in 0 .. MaxSwaps
  <2>1. swaps' = swaps \/ (swaps < MaxSwaps /\ swaps' = swaps + 1)
    BY DEF EditConfig, Others, Rotate, PutSymlink, vars, logVars
  <2> QED
    BY <1>3, <2>1
<1>6. path' = path \/ path' = Nothing \/ path' = Symlink
  BY DEF EditConfig, Others, Rotate, PutSymlink, vars, logVars
<1>7. FilesInv'
  <2>1. LogTypeOK'
    BY <1>1, <1>3, <1>5, <1>6 DEF LogInv, FilesInv, LogTypeOK, Entry, Nothing, Symlink
  <2>2. FileZero'
    BY <1>1, <1>6 DEF LogInv, FilesInv, FileZero, Nothing, Symlink
  <2>3. \A h \in Hook : Knows(h)'
    BY <1>1 DEF LogInv, FilesInv, Knows
  <2>4. LinesArePrivate'
    BY <1>1 DEF LogInv, FilesInv, LinesArePrivate
  <2> QED
    BY <2>1, <2>2, <2>3, <2>4 DEF FilesInv
<1>8. \A h \in Hook : Telling(h)'
  BY <1>1, SameLines, StillTelling DEF LogInv
<1>9. ChunksTell' /\ Counters'
  BY <1>1, <1>4 DEF LogInv, ChunksTell, Counters
<1> QED
  BY <1>2, <1>7, <1>8, <1>9 DEF LogInv

(* No step of anyone disturbs the log.                                     *)
LEMMA LogNext == LogInv /\ [Next]_vars => LogInv'
<1> SUFFICES ASSUME LogInv, [Next]_vars PROVE LogInv'
  OBVIOUS
<1>1. CASE \E h \in Hook : Main(h) \/ Panic(h) \/ Killed(h)
  BY <1>1, MainTells
<1>2. CASE \E h \in Hook : Helper(h)
  BY <1>2, HelperTells
<1>3. CASE EditConfig \/ (Others /\ UNCHANGED mainVars) \/ UNCHANGED vars
  BY <1>3, OthersTell
<1> QED
  BY <1>1, <1>2, <1>3 DEF Next

(* Whatever the hooks, the rotations, the symlinks and the failures, what  *)
(* each helper knows of its file, and each main thread of its helper,      *)
(* holds in every state.                                                   *)
THEOREM LogCorrect == Spec => []LogInv
  BY LogStarts, LogNext, PTL DEF Spec

(* Every variable of the hooks and of the file system keeps its type.      *)
THEOREM HookTypeCorrect == Spec => []TypeOK
<1>1. LogInv => TypeOK
  BY DEF LogInv, MainInv, MainTypeOK, FilesInv, Counters, TypeOK
<1> QED
  BY <1>1, LogCorrect, PTL

(* A set that fits in a singleton has one element at most.                 *)
LEMMA OneAtMost ==
  ASSUME NEW S, NEW p, S \subseteq {p}
  PROVE  Cardinality(S) <= 1
<1>1. S = {} \/ S = {p}
  OBVIOUS
<1>2. Cardinality({}) = 0
  BY FS_EmptySet
<1>3. Cardinality({p}) = 1
  BY FS_Singleton
<1>4. Cardinality(S) = 0 \/ Cardinality(S) = 1
  BY <1>1, <1>2, <1>3
<1> QED
  BY <1>4

(* A line of the log says what its hook answered before it was written,    *)
(* and a hook starts one line at most, however its writes are cut short.   *)
THEOREM LogTellsTheAnswerAlways == Spec => []LogTellsTheAnswer
<1>1. LogInv => LogTellsTheAnswer
  <2> SUFFICES ASSUME LogInv PROVE LogTellsTheAnswer
    OBVIOUS
  <2>1. \A h \in Hook : Cardinality(LinesOf(h)) <= 1
    BY OneAtMost DEF LogInv, Telling
  <2> QED
    BY <2>1 DEF LogInv, ChunksTell, LogTellsTheAnswer
<1> QED
  BY <1>1, LogCorrect, PTL

(* A config that asks for a log is one that loaded.                        *)
LEMMA LogIsLoaded ==
  ASSUME NEW where, NEW c, LoadSettings(where, c).log
  PROVE  LoadSettings(where, c).ok
  BY DEF LoadSettings, Defaults, Merged, LoadError

(* A hook that returns without a word on stderr has its decision in the    *)
(* log, to the end of its line, however helper and wait raced.             *)
THEOREM SilentMeansLoggedAlways == Spec => []SilentMeansLogged
<1>1. LogInv => SilentMeansLogged
  <2> SUFFICES ASSUME LogInv, NEW h \in Hook, pc[h] = "returned", settings[h].log,
                      response[h] # "NoDecision", ~warned[h]
               PROVE  Logged(h)
    BY DEF SilentMeansLogged, Logged
  <2>1. settings[h].ok
    BY LogIsLoaded DEF LogInv, MainInv, Progress, Loaded
  <2> QED
    BY <2>1 DEF LogInv, Telling
<1> QED
  BY <1>1, LogCorrect, PTL

(* A line is only ever in a regular file nobody else can read: the mode    *)
(* seen or set before the write is still the file's when it is written.    *)
THEOREM LinesArePrivateAlways == Spec => []LinesArePrivate
<1>1. LogInv => LinesArePrivate
  BY DEF LogInv, FilesInv
<1> QED
  BY <1>1, LogCorrect, PTL

(* No step of any hook writes to the user's other file or changes its      *)
(* mode, whatever is put at the log's path between two of its calls.       *)
THEOREM OtherFileUntouchedAlways == Spec => OtherFileUntouched
<1> DEFINE Untouched == file'[0].chunks = file[0].chunks /\ file'[0].private = file[0].private
<1>1. LogInv /\ [Next]_vars => [Untouched]_logVars
  <2> SUFFICES ASSUME LogInv, [Next]_vars PROVE Untouched
    OBVIOUS
  <2>1. CASE \E h \in Hook : Main(h) \/ Panic(h) \/ Killed(h)
    <3>1. file' = file
      BY <2>1 DEF Main, StartHook, ReadInput, Load, MakeAnswer, WriteAnswer, NoLog, SpawnFails,
             SpawnHelper, LogReturned, LogTimesOut, ExitLate, ExitSuccess, Panic, Killed, logVars, fsVars
    <3> QED
      BY <3>1
  <2>2. ASSUME NEW h \in Hook, Helper(h) PROVE Untouched
    <3>1. AppendLog(h, response[h]) /\ FilesInv
      BY <2>2 DEF Helper, LogInv
    <3>2. helper[h] \in {"write", "rest"} => response[h] \in Answered
      BY DEF LogInv, Telling
    <3> QED
      BY <3>1, <3>2, AppendFiles
  <2>3. CASE EditConfig \/ (Others /\ UNCHANGED mainVars) \/ UNCHANGED vars
    <3>1. file' = file
      BY <2>3 DEF EditConfig, Others, Rotate, PutSymlink, vars, logVars
    <3> QED
      BY <3>1
  <2> QED
    BY <2>1, <2>2, <2>3 DEF Next
<1> QED
  BY <1>1, LogCorrect, PTL DEF Spec, OtherFileUntouched
=============================================================================

------------------------------ MODULE MCDecide ------------------------------
(***************************************************************************)
(* Six commands that between them reach every check of decide, four rules, *)
(* and every script of at most MaxCommands of the commands, joined in      *)
(* every way by "|", "&&" and ";".                                         *)
(***************************************************************************)
EXTENDS Decide

CONSTANT MaxCommands

MCCmd == {"cd /x", "git apply", "rm /etc", "rm /$X", "cp a ../b", "awk"}

Word == [path |-> TRUE, opaque |-> FALSE, dotdot |-> FALSE, nonascii |-> FALSE,
         rooted |-> FALSE]

Covered ==
  [covered |-> TRUE, kind |-> "NoRow", word |-> 1, start |-> 1, slots |-> <<>>,
   changes_cwd |-> FALSE, cwd_sensitive |-> FALSE]

MCReading ==
  [c \in MCCmd |->
     CASE c = "cd /x" ->
            [Covered EXCEPT !.slots = <<[Word EXCEPT !.rooted = TRUE]>>, !.changes_cwd = TRUE]
       [] c = "git apply" -> [Covered EXCEPT !.start = 2, !.cwd_sensitive = TRUE]
       [] c = "rm /etc" ->
            [Covered EXCEPT !.slots = <<[Word EXCEPT !.path = FALSE],
                                        [Word EXCEPT !.rooted = TRUE]>>]
       [] c = "rm /$X" ->
            [Covered EXCEPT !.slots = <<[Word EXCEPT !.opaque = TRUE, !.rooted = TRUE]>>]
       [] c = "cp a ../b" ->
            [Covered EXCEPT !.slots = <<Word, [Word EXCEPT !.dotdot = TRUE, !.nonascii = TRUE]>>]
       [] c = "awk" -> [Covered EXCEPT !.covered = FALSE, !.kind = "RunsCode"]]

BlockEtc == [id |-> 1, scope |-> "Simple", outcome |-> "Block",
             reads |-> {"rm /etc", "rm /$X"}, targets |-> {"rm /etc", "rm /$X"}]
AskRm == [id |-> 2, scope |-> "Simple", outcome |-> "Ask",
          reads |-> {"rm /etc", "git apply", "awk"}, targets |-> MCCmd]
BlockPipe == [id |-> 3, scope |-> "PipeInto", outcome |-> "Block",
              reads |-> {"git apply", "awk"}, targets |-> MCCmd]
AskCd == [id |-> 4, scope |-> "Simple", outcome |-> "Ask",
          reads |-> {"cd /x", "cp a ../b"}, targets |-> {"cd /x"}]

MCRuleLists ==
  {<<>>, <<AskRm>>, <<BlockPipe, AskCd>>,
   <<AskCd, BlockEtc, AskRm, BlockPipe>>}

(* A script from its commands and what precedes each.                      *)
RECURSIVE Build(_, _, _)
Build(cmds, seps, n) ==
  IF n = 0 THEN <<>>
  ELSE LET s == Build(cmds, seps, n - 1)
           item == s[Len(s)]
       IN  CASE n = 1 \/ seps[n] = ";" -> Append(s, <<(<<cmds[n]>>)>>)
             [] n > 1 /\ seps[n] = "&&" -> [s EXCEPT ![Len(s)] = Append(@, <<cmds[n]>>)]
             [] n > 1 /\ seps[n] = "|" ->
                  [s EXCEPT ![Len(s)] = [@ EXCEPT ![Len(@)] = Append(@, cmds[n])]]

MCScripts ==
  UNION {{Build(cmds, seps, n) : cmds \in [1 .. n -> MCCmd],
                                 seps \in {f \in [1 .. n -> {";", "&&", "|"}] :
                                             n = 0 \/ f[1] = ";"}}
         : n \in 0 .. MaxCommands}
=============================================================================

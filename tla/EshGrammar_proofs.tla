-------------------------- MODULE EshGrammar_proofs --------------------------
(***************************************************************************)
(* Proofs about EshGrammar, for lines of any length.                       *)
(***************************************************************************)
EXTENDS EshGrammar, NaturalsInduction, SequenceTheorems, WellFoundedInduction, TLAPS

-----------------------------------------------------------------------------
(***************************************************************************)
(* Types.                                                                  *)
(***************************************************************************)

LEMMA LineFacts ==
  ASSUME TypeOK
  PROVE  /\ line \in Seq(Token) /\ Len(line) \in Nat /\ Len(line) <= MaxTokens
         /\ pos \in Nat /\ pos <= Len(line) /\ MaxTokens \in Nat
         /\ DOMAIN line = 1..Len(line)
         /\ lookahead # "end" => pos < Len(line) /\ lookahead = line[pos + 1]
         /\ lookahead = "end" => pos = Len(line)
<1>1. PICK m \in 0..MaxTokens : line \in [1..m -> Token]
  BY GrammarAssumption DEF TypeOK, BoundedSeq, SeqOf
<1>2. line \in Seq(Token) /\ Len(line) = m /\ m \in Nat /\ m <= MaxTokens /\ DOMAIN line = 1..m
  BY <1>1, GrammarAssumption
<1>3. pos \in Nat /\ pos <= m
  <2>1. pos \in 0..Len(line)
    BY DEF TypeOK
  <2> QED  BY <2>1, <1>2
<1>4. pos < m => line[pos + 1] \in Token
  BY <1>1, <1>3
<1>5. "end" \notin Token
  BY DEF Token, RedirOp
<1> QED  BY <1>2, <1>3, <1>4, <1>5, GrammarAssumption DEF lookahead

LEMMA ShiftType ==
  ASSUME TypeOK, lookahead # "end", shift
  PROVE  /\ line' \in BoundedSeq(Token, MaxTokens) /\ pos' \in 0..Len(line')
         /\ pos' = pos + 1 /\ line' = line /\ pos' \in Position /\ pos' # NULL
<1>1. pos' = pos + 1 /\ line' = line
  BY DEF shift
<1>2. pos' \in Nat /\ pos' <= Len(line) /\ pos' <= MaxTokens /\ pos' # 0
  BY <1>1, LineFacts
<1>3. line \in BoundedSeq(Token, MaxTokens)
  BY DEF TypeOK
<1> QED  BY <1>1, <1>2, <1>3, LineFacts DEF Position, NULL

LEMMA Appended ==
  ASSUME NEW S, NEW s \in Seq(S), NEW e \in S
  PROVE  /\ Append(s, e) \in Seq(S) /\ Append(s, e) # <<>>
         /\ Len(s) \in Nat /\ Len(Append(s, e)) = Len(s) + 1
         /\ DOMAIN s = 1..Len(s) /\ DOMAIN Append(s, e) = 1..(Len(s) + 1)
         /\ \A i \in DOMAIN s : Append(s, e)[i] = s[i]
         /\ Append(s, e)[Len(s) + 1] = e
<1>1. /\ Append(s, e) \in Seq(S) /\ Len(Append(s, e)) = Len(s) + 1
      /\ \A i \in 1..Len(s) : Append(s, e)[i] = s[i]
      /\ Append(s, e)[Len(s) + 1] = e
  BY AppendProperties
<1>2. Len(s) \in Nat /\ DOMAIN s = 1..Len(s)
  OBVIOUS
<1>3. Append(s, e) # <<>>
  BY <1>1, <1>2, EmptySeq
<1>4. DOMAIN Append(s, e) = 1..(Len(s) + 1)
  BY <1>1, LenProperties
<1> QED  BY <1>1, <1>2, <1>3, <1>4

LEMMA Collected ==
  ASSUME TypeOK
  PROVE  /\ commands \in Seq(Command) /\ command \in Command
         /\ Append(commands, command) \in Seq(Command) /\ Append(commands, command) # <<>>
<1>1. commands \in Seq(Command) /\ command \in Command
  BY DEF TypeOK
<1> QED  BY <1>1, Appended

LEMMA InitCommand == init_cmd \in Command /\ NULL \in Position
BY GrammarAssumption DEF init_cmd, Command, Position, NULL

LEMMA FinishType ==
  ASSUME NEW cs \in Seq(Command), cs # <<>>
  PROVE  /\ esh_pipeline_finish(cs) \in Pipeline /\ esh_pipeline_finish(cs).commands = cs
         /\ esh_pipeline_finish(cs).iored_input = cs[1].iored_input
         /\ esh_pipeline_finish(cs).iored_output = cs[Len(cs)].iored_output
<1>1. cs[1] \in Command /\ cs[Len(cs)] \in Command /\ Head(cs) = cs[1] /\ Last(cs) = cs[Len(cs)]
  BY DEF Last
<1> QED  BY <1>1 DEF esh_pipeline_finish, Pipeline, Command

\* The mark changes nothing but bg_job.
LEMMA MarkLast ==
  ASSUME TypeOK, ~no_last
  PROVE  /\ mark_last(pipes) \in Seq(Pipeline) /\ Len(mark_last(pipes)) = Len(pipes)
         /\ \A k \in DOMAIN pipes :
              /\ mark_last(pipes)[k].commands = pipes[k].commands
              /\ mark_last(pipes)[k].iored_input = pipes[k].iored_input
              /\ mark_last(pipes)[k].iored_output = pipes[k].iored_output
<1>1. pipes \in Seq(Pipeline)
  BY DEF TypeOK
<1>2. CASE sep # "&"
  BY <1>1, <1>2 DEF mark_last
<1>3. CASE sep = "&"
  <2> DEFINE ps == [pipes EXCEPT ![Len(pipes)].bg_job = TRUE]
  <2>1. mark_last(pipes) = ps /\ pipes # <<>>
    BY <1>3 DEF mark_last, no_last
  <2>2. Len(pipes) \in Nat \ {0} /\ DOMAIN pipes = 1..Len(pipes)
    BY <1>1, <2>1, EmptySeq
  <2>3. \A k \in 1..Len(pipes) : pipes[k] \in Pipeline
    BY <1>1
  <2>4. \A k \in 1..Len(pipes) :
          ps[k] = IF k = Len(pipes) THEN [pipes[k] EXCEPT !.bg_job = TRUE] ELSE pipes[k]
    BY <2>2
  <2>5. DOMAIN ps = 1..Len(pipes)
    BY <2>2
  <2>6. ps = [k \in 1..Len(pipes) |-> ps[k]]
    BY <2>2
  <2> HIDE DEF ps
  <2>7. ASSUME NEW k \in 1..Len(pipes)
        PROVE  /\ ps[k] \in Pipeline
               /\ ps[k].commands = pipes[k].commands
               /\ ps[k].iored_input = pipes[k].iored_input
               /\ ps[k].iored_output = pipes[k].iored_output
    <3>1. pipes[k] \in Pipeline
      BY <2>3
    <3>2. ps[k] = pipes[k] \/ ps[k] = [pipes[k] EXCEPT !.bg_job = TRUE]
      BY <2>4
    <3> QED  BY <3>1, <3>2 DEF Pipeline
  <2>8. ps \in Seq(Pipeline) /\ Len(ps) = Len(pipes)
    BY <2>2, <2>5, <2>6, <2>7, IsASeq, LenProperties
  <2> QED  BY <2>1, <2>2, <2>7, <2>8
<1> QED  BY <1>2, <1>3

LEMMA AppendWord ==
  ASSUME NEW c \in Command, NEW w \in Position
  PROVE  [c EXCEPT !.argv = Append(@, w)] \in Command
<1>1. Append(c.argv, w) \in Seq(Position)
  BY AppendProperties DEF Command
<1> QED  BY <1>1 DEF Command

LEMMA TypeStep == TypeOK /\ [Next]_vars => TypeOK'
<1> SUFFICES ASSUME TypeOK, [Next]_vars PROVE TypeOK'
  OBVIOUS
<1> USE DEF TypeOK
<1>1. CASE command_WORD
  <2>1. shift /\ lookahead # "end" /\ command' = [command EXCEPT !.argv = Append(@, pos')]
    BY <1>1 DEF command_WORD
  <2>2. command' \in Command
    BY <2>1, ShiftType, AppendWord
  <2> QED  BY <1>1, <2>1, <2>2, ShiftType DEF command_WORD
<1>2. CASE redirection
  <2>1. shift /\ lookahead # "end" /\ lookahead \in RedirOp
    BY <1>2 DEF redirection, RedirOp
  <2> QED  BY <1>2, <2>1, ShiftType DEF redirection
<1>3. CASE redirection_WORD
  <2>1. shift /\ lookahead # "end"
    BY <1>3 DEF redirection_WORD
  <2>2. command' \in Command
    BY <1>3, <2>1, ShiftType DEF redirection_WORD, Command
  <2> QED  BY <1>3, <2>1, <2>2, ShiftType DEF redirection_WORD
<1>4. CASE redirection_Error \/ command_Error \/ bar_Error \/ cmd_list_Abort
  <2>1. UNCHANGED <<line, pos, st, op, sep, pipes, commands, command>> /\ result' \in {"error", "aborted"}
    BY <1>4 DEF redirection_Error, command_Error, bar_Error, cmd_list_Abort, Stop
  <2> QED  BY <2>1
<1>5. CASE pipeline_bar
  <2>1. shift /\ lookahead # "end"
    BY <1>5 DEF pipeline_bar
  <2>2. commands' \in Seq(Command)
    BY <1>5, AppendProperties DEF pipeline_bar
  <2> QED  BY <1>5, <2>1, <2>2, ShiftType, InitCommand DEF pipeline_bar
<1>6. ASSUME separator
      PROVE  /\ line' \in BoundedSeq(Token, MaxTokens) /\ pos' \in 0..Len(line')
             /\ sep' \in {"none", ";", "&"} /\ result' \in {"parsing", "parsed", "error", "aborted"}
  <2>1. CASE lookahead = "end"
    BY <1>6, <2>1 DEF separator
  <2>2. CASE lookahead # "end"
    <3>1. shift /\ sep' \in {";", "&"} /\ result' = result
      BY <1>6, <2>2 DEF separator
    <3> QED  BY <2>2, <3>1, ShiftType
  <2> QED  BY <2>1, <2>2
<1>7. CASE pipeline_complete
  <2> DEFINE cs == Append(commands, command)
  <2>1. cs \in Seq(Command) /\ cs # <<>>
    BY Collected
  <2>2. pipes' = Append(mark_last(pipes), esh_pipeline_finish(cs)) /\ ~no_last /\ separator
    BY <1>7 DEF pipeline_complete, cmd_list_pipeline
  <2>3. pipes' \in Seq(Pipeline)
    <3>1. mark_last(pipes) \in Seq(Pipeline)
      BY <2>2, MarkLast
    <3>2. esh_pipeline_finish(cs) \in Pipeline
      BY <2>1, FinishType
    <3> QED  BY <2>2, <3>1, <3>2, AppendProperties
  <2>4. st' = "list" /\ commands' = <<>> /\ command' = init_cmd /\ op' = op
    BY <1>7 DEF pipeline_complete
  <2>5. commands' \in Seq(Command)
    BY <2>4, EmptySeq
  <2> QED  BY <1>6, <2>2, <2>3, <2>4, <2>5, InitCommand
<1>8. CASE cmd_list_separator
  <2>1. pipes' \in Seq(Pipeline)
    BY <1>8, MarkLast DEF cmd_list_separator
  <2> QED  BY <1>6, <1>8, <2>1 DEF cmd_list_separator
<1>9. CASE UNCHANGED vars
  BY <1>9 DEF vars
<1> QED
  BY <1>1, <1>2, <1>3, <1>4, <1>5, <1>7, <1>8, <1>9 DEF Next, Done

LEMMA InitType == Init => TypeOK
<1> SUFFICES ASSUME Init PROVE TypeOK
  OBVIOUS
<1>1. PICK m \in 0..MaxTokens : line \in [1..m -> Token]
  BY GrammarAssumption DEF Init, BoundedSeq, SeqOf
<1>2. Len(line) \in Nat
  BY <1>1, GrammarAssumption
<1> QED  BY <1>2, InitCommand DEF Init, TypeOK, RedirOp

\* Every variable of the parser keeps its type.
THEOREM TypeCorrect == Spec => []TypeOK
BY InitType, TypeStep, PTL DEF Spec

-----------------------------------------------------------------------------
(***************************************************************************)
(* What a command adds to the commands in front of it, and a pipeline to   *)
(* the pipelines.                                                          *)
(***************************************************************************)

LEMMA NoWords == CommandWords(init_cmd) = {} /\ Words(<<>>) = {} /\ CommandInOrder(init_cmd)
<1>1. Range(<<>>) = {}
  BY DEF Range
<1>2. Redirections(init_cmd) = {} /\ init_cmd.argv = <<>>
  BY DEF Redirections, init_cmd
<1>3. CommandInOrder(init_cmd)
  BY <1>1, <1>2 DEF CommandInOrder, init_cmd
<1> QED  BY <1>1, <1>2, <1>3 DEF CommandWords, Words

LEMMA WordsOfCommand ==
  ASSUME NEW cs \in Seq(Command), NEW c \in Command
  PROVE  Words(Append(cs, c)) = Words(cs) \cup CommandWords(c)
<1> DEFINE cs2 == Append(cs, c)
<1>1. /\ DOMAIN cs = 1..Len(cs) /\ DOMAIN cs2 = DOMAIN cs \cup {Len(cs) + 1}
      /\ cs2[Len(cs) + 1] = c /\ \A i \in DOMAIN cs : cs2[i] = cs[i]
  BY Appended
<1> HIDE DEF cs2
<1>2. UNION {CommandWords(cs2[i]) : i \in DOMAIN cs2}
        = (UNION {CommandWords(cs[i]) : i \in DOMAIN cs}) \cup CommandWords(c)
  BY <1>1
<1> QED  BY <1>2 DEF cs2, Words

LEMMA WordsOfPipeline ==
  ASSUME NEW ps \in Seq(Pipeline), NEW p \in Pipeline
  PROVE  AllWords(Append(ps, p)) = AllWords(ps) \cup Words(p.commands)
<1> DEFINE ps2 == Append(ps, p)
<1>1. /\ DOMAIN ps = 1..Len(ps) /\ DOMAIN ps2 = DOMAIN ps \cup {Len(ps) + 1}
      /\ ps2[Len(ps) + 1] = p /\ \A i \in DOMAIN ps : ps2[i] = ps[i]
  BY Appended
<1> HIDE DEF ps2
<1>2. UNION {Words(ps2[i].commands) : i \in DOMAIN ps2}
        = (UNION {Words(ps[i].commands) : i \in DOMAIN ps}) \cup Words(p.commands)
  BY <1>1
<1> QED  BY <1>2 DEF ps2, AllWords

LEMMA OneMoreCommand ==
  ASSUME NEW cs \in Seq(Command), NEW c \in Command,
         InOrderOfLine(cs), CommandInOrder(c), AllBefore(Words(cs), CommandWords(c))
  PROVE  InOrderOfLine(Append(cs, c))
<1> DEFINE cs2 == Append(cs, c)
<1>1. /\ Len(cs) \in Nat /\ DOMAIN cs = 1..Len(cs) /\ DOMAIN cs2 = 1..(Len(cs) + 1)
      /\ cs2[Len(cs) + 1] = c /\ \A i \in DOMAIN cs : cs2[i] = cs[i]
  BY Appended
<1> HIDE DEF cs2
<1>2. \A i \in DOMAIN cs2 : CommandInOrder(cs2[i])
  BY <1>1 DEF InOrderOfLine
<1>3. ASSUME NEW i \in DOMAIN cs2, NEW k \in DOMAIN cs2, i < k
      PROVE  AllBefore(CommandWords(cs2[i]), CommandWords(cs2[k]))
  <2>1. i \in DOMAIN cs
    BY <1>1, <1>3
  <2>2. CASE k \in DOMAIN cs
    BY <1>1, <1>3, <2>1, <2>2 DEF InOrderOfLine
  <2>3. CASE k = Len(cs) + 1
    <3>1. CommandWords(cs[i]) \subseteq Words(cs)
      BY <2>1 DEF Words
    <3> QED  BY <1>1, <2>1, <2>3, <3>1 DEF AllBefore
  <2> QED  BY <1>1, <2>2, <2>3
<1> QED  BY <1>2, <1>3 DEF InOrderOfLine, cs2

LEMMA OneMorePipeline ==
  ASSUME NEW ps \in Seq(Pipeline), NEW p \in Pipeline,
         PipesInOrder(ps), InOrderOfLine(p.commands), AllBefore(AllWords(ps), Words(p.commands))
  PROVE  PipesInOrder(Append(ps, p))
<1> DEFINE ps2 == Append(ps, p)
<1>1. /\ Len(ps) \in Nat /\ DOMAIN ps = 1..Len(ps) /\ DOMAIN ps2 = 1..(Len(ps) + 1)
      /\ ps2[Len(ps) + 1] = p /\ \A i \in DOMAIN ps : ps2[i] = ps[i]
  BY Appended
<1> HIDE DEF ps2
<1>2. \A i \in DOMAIN ps2 : InOrderOfLine(ps2[i].commands)
  BY <1>1 DEF PipesInOrder
<1>3. ASSUME NEW i \in DOMAIN ps2, NEW k \in DOMAIN ps2, i < k
      PROVE  AllBefore(Words(ps2[i].commands), Words(ps2[k].commands))
  <2>1. i \in DOMAIN ps
    BY <1>1, <1>3
  <2>2. CASE k \in DOMAIN ps
    BY <1>1, <1>3, <2>1, <2>2 DEF PipesInOrder
  <2>3. CASE k = Len(ps) + 1
    <3>1. Words(ps[i].commands) \subseteq AllWords(ps)
      BY <2>1 DEF AllWords
    <3> QED  BY <1>1, <2>1, <2>3, <3>1 DEF AllBefore
  <2> QED  BY <1>1, <2>2, <2>3
<1> QED  BY <1>2, <1>3 DEF PipesInOrder, ps2

\* command_wrong lets only such a command through.
LEMMA OneMoreFits ==
  ASSUME NEW cs \in Seq(Command), NEW c \in Command, Fit(cs), c.argv # <<>>,
         cs = <<>> \/ (cs[Len(cs)].iored_output = NULL /\ c.iored_input = NULL)
  PROVE  Fit(Append(cs, c))
<1> DEFINE cs2 == Append(cs, c)
<1>1. /\ Len(cs) \in Nat /\ DOMAIN cs = 1..Len(cs) /\ DOMAIN cs2 = 1..(Len(cs) + 1)
      /\ cs2[Len(cs) + 1] = c /\ \A i \in DOMAIN cs : cs2[i] = cs[i]
      /\ Len(cs2) = Len(cs) + 1
  BY Appended
<1> HIDE DEF cs2
<1>2. cs = <<>> => Len(cs) = 0
  OBVIOUS
<1>3. ASSUME NEW i \in DOMAIN cs2
      PROVE  /\ cs2[i].argv # <<>>
             /\ cs2[i].iored_input # NULL => i = 1
             /\ cs2[i].iored_output # NULL => i = Len(cs2)
  <2>1. CASE i \in DOMAIN cs
    BY <1>1, <1>2, <2>1 DEF Fit
  <2>2. CASE i = Len(cs) + 1
    BY <1>1, <1>2, <2>2
  <2> QED  BY <1>1, <2>1, <2>2
<1> QED  BY <1>3 DEF Fit, cs2

\* Of commands that are fit, only the first and the last have redirections.
LEMMA FinishKeeps ==
  ASSUME NEW cs \in Seq(Command), cs # <<>>, Fit(cs)
  PROVE  RedirectionsKept(esh_pipeline_finish(cs))
<1> DEFINE p == esh_pipeline_finish(cs)
<1>1. /\ p.commands = cs /\ p.iored_input = cs[1].iored_input
      /\ p.iored_output = cs[Len(cs)].iored_output
  BY FinishType
<1>2. 1 \in DOMAIN cs /\ Len(cs) \in DOMAIN cs
  OBVIOUS
<1> HIDE DEF p
<1>3. Redirections(p) = {cs[1].iored_input, cs[Len(cs)].iored_output} \ {NULL}
  BY <1>1 DEF Redirections
<1>4. \A i \in DOMAIN cs : Redirections(cs[i]) \subseteq Redirections(p)
  BY <1>3 DEF Redirections, Fit
<1>5. ASSUME NEW x \in Redirections(p)
      PROVE  \E i \in DOMAIN cs : x \in Redirections(cs[i])
  <2>1. x \in Redirections(cs[1]) \/ x \in Redirections(cs[Len(cs)])
    BY <1>3 DEF Redirections
  <2> QED  BY <1>2, <2>1
<1>6. Redirections(p) = UNION {Redirections(cs[i]) : i \in DOMAIN cs}
  BY <1>4, <1>5
<1> QED  BY <1>1, <1>6 DEF RedirectionsKept, p

\* What the invariant says of pipelines does not depend on bg_job.
LEMMA MarkKeeps ==
  ASSUME TypeOK, ~no_last
  PROVE  /\ AllWords(mark_last(pipes)) = AllWords(pipes)
         /\ PipesInOrder(pipes) => PipesInOrder(mark_last(pipes))
         /\ \A k \in DOMAIN pipes :
              RedirectionsKept(pipes[k]) => RedirectionsKept(mark_last(pipes)[k])
<1> DEFINE ps == mark_last(pipes)
<1>1. /\ DOMAIN ps = DOMAIN pipes
      /\ \A k \in DOMAIN pipes :
           /\ ps[k].commands = pipes[k].commands
           /\ ps[k].iored_input = pipes[k].iored_input
           /\ ps[k].iored_output = pipes[k].iored_output
  <2>1. ps \in Seq(Pipeline) /\ pipes \in Seq(Pipeline) /\ Len(ps) = Len(pipes)
    BY MarkLast DEF TypeOK
  <2>2. DOMAIN ps = 1..Len(ps) /\ DOMAIN pipes = 1..Len(pipes)
    BY <2>1, LenProperties
  <2> QED  BY <2>1, <2>2, MarkLast
<1> HIDE DEF ps
<1>2. AllWords(ps) = AllWords(pipes)
  BY <1>1 DEF AllWords
<1>3. PipesInOrder(pipes) => PipesInOrder(ps)
  BY <1>1 DEF PipesInOrder
<1>4. ASSUME NEW k \in DOMAIN pipes, RedirectionsKept(pipes[k])
      PROVE  RedirectionsKept(ps[k])
  <2>1. Redirections(ps[k]) = Redirections(pipes[k])
    BY <1>1 DEF Redirections
  <2> QED  BY <1>1, <1>4, <2>1 DEF RedirectionsKept
<1> QED  BY <1>2, <1>3, <1>4 DEF ps

-----------------------------------------------------------------------------
(***************************************************************************)
(* The invariant, action by action.                                        *)
(***************************************************************************)

LEMMA NextToken ==
  ASSUME TypeOK, lookahead # "end", shift
  PROVE  /\ {i \in 1..pos' : line'[i] = "WORD"}
              = {i \in 1..pos : line[i] = "WORD"} \cup (IF lookahead = "WORD" THEN {pos'} ELSE {})
         /\ \A i \in 1..pos : i \in Nat /\ i < pos'
<1>1. /\ pos \in Nat /\ pos' = pos + 1 /\ line' = line /\ lookahead = line[pos + 1]
  BY ShiftType, LineFacts
<1>2. 1..pos' = (1..pos) \cup {pos + 1}
  BY <1>1
<1> QED  BY <1>1, <1>2

\* The next token is a word and goes to the command in progress.
LEMMA WordTaken ==
  ASSUME ParserInv, shift, lookahead = "WORD", UNCHANGED <<pipes, commands>>,
         CommandWords(command') = CommandWords(command) \cup {pos'}, CommandInOrder(command')
  PROVE  (FitInv /\ OrderInv /\ WordsInv)'
<1> DEFINE seen == {i \in 1..pos : line[i] = "WORD"}
<1>1. /\ {i \in 1..pos' : line'[i] = "WORD"} = seen \cup {pos'}
      /\ \A i \in seen : i < pos'
  BY NextToken DEF ParserInv
<1> DEFINE A == AllWords(pipes)
           B == Words(commands)
           C == CommandWords(command)
<1>2. A \cup B \cup C = seen
  BY DEF ParserInv, WordsInv
<1>3. AllBefore(A, B \cup C) /\ AllBefore(B, C)
  BY DEF ParserInv, OrderInv
<1>4. AllWords(pipes)' = A /\ Words(commands)' = B /\ CommandWords(command)' = C \cup {pos'}
  OBVIOUS
<1>5. FitInv'
  BY DEF ParserInv, FitInv
<1>6. PipesInOrder(pipes)' /\ InOrderOfLine(commands)' /\ CommandInOrder(command)'
  BY DEF ParserInv, OrderInv
<1> HIDE DEF A, B, C, seen
<1>7. AllBefore(A, B \cup (C \cup {pos'})) /\ AllBefore(B, C \cup {pos'})
  BY <1>1, <1>2, <1>3 DEF AllBefore
<1>8. OrderInv'
  BY <1>4, <1>6, <1>7 DEF OrderInv
<1>9. A \cup B \cup (C \cup {pos'}) = seen \cup {pos'}
  BY <1>2
<1>10. WordsInv'
  BY <1>1, <1>4, <1>9 DEF WordsInv
<1> QED  BY <1>5, <1>8, <1>10

LEMMA CommandWord ==
  ASSUME ParserInv, command_WORD
  PROVE  (FitInv /\ OrderInv /\ WordsInv)'
<1>1. /\ shift /\ lookahead = "WORD" /\ command' = [command EXCEPT !.argv = Append(@, pos')]
      /\ UNCHANGED <<pipes, commands>>
  BY DEF command_WORD
<1>2. command \in Command /\ command.argv \in Seq(Position) /\ TypeOK /\ CommandInOrder(command)
  BY Collected DEF ParserInv, Command, OrderInv
<1>3. pos' \in Position /\ pos' = pos + 1
  BY <1>1, <1>2, ShiftType
<1> DEFINE av == Append(command.argv, pos')
<1>4. /\ DOMAIN command.argv = 1..Len(command.argv) /\ Len(command.argv) \in Nat
      /\ DOMAIN av = 1..(Len(command.argv) + 1)
      /\ av[Len(command.argv) + 1] = pos'
      /\ \A i \in DOMAIN command.argv : av[i] = command.argv[i]
  BY <1>2, <1>3, Appended
<1>5. command'.argv = av /\ Redirections(command') = Redirections(command)
      /\ command'.iored_input = command.iored_input /\ command'.iored_output = command.iored_output
  BY <1>1, <1>2 DEF Command, Redirections
<1> HIDE DEF av
<1>6. Range(av) = Range(command.argv) \cup {pos'}
  BY <1>4 DEF Range
<1>7. CommandWords(command') = CommandWords(command) \cup {pos'}
  BY <1>5, <1>6 DEF CommandWords
<1>8. \A w \in CommandWords(command) : w \in Nat /\ w < pos'
  <2>1. CommandWords(command) \subseteq 1..pos
    BY DEF ParserInv, WordsInv
  <2> QED  BY <1>1, <1>2, <2>1, NextToken
<1>9. CommandInOrder(command')
  <2>1. \A a \in DOMAIN command.argv : command.argv[a] < pos'
    BY <1>8 DEF CommandWords, Range
  <2>2. pos' \notin Redirections(command)
    BY <1>3, <1>8 DEF CommandWords, Position
  <2>3. \A a, b \in DOMAIN av : a < b => av[a] < av[b]
    BY <1>2, <1>4, <2>1 DEF CommandInOrder
  <2> QED  BY <1>2, <1>5, <1>6, <2>2, <2>3 DEF CommandInOrder
<1> QED  BY <1>1, <1>7, <1>9, WordTaken

LEMMA RedirectionWord ==
  ASSUME ParserInv, redirection_WORD
  PROVE  (FitInv /\ OrderInv /\ WordsInv)'
<1>1. /\ shift /\ lookahead = "WORD" /\ ~ambiguous
      /\ command' = IF op = "<" THEN [command EXCEPT !.iored_input = pos']
                    ELSE [command EXCEPT !.iored_output = pos', !.append_to_output = (op = ">>")]
      /\ UNCHANGED <<pipes, commands>>
  BY DEF redirection_WORD
<1>2. command \in Command /\ TypeOK /\ CommandInOrder(command)
  BY Collected DEF ParserInv, OrderInv
<1>3. pos' \in Position /\ pos' # NULL /\ pos' = pos + 1
  BY <1>1, <1>2, ShiftType
<1>4. /\ command'.argv = command.argv
      /\ \/ /\ command.iored_input = NULL /\ command'.iored_input = pos'
            /\ command'.iored_output = command.iored_output
         \/ /\ command.iored_output = NULL /\ command'.iored_output = pos'
            /\ command'.iored_input = command.iored_input
  BY <1>1, <1>2 DEF Command, ambiguous
<1>5. Redirections(command') = Redirections(command) \cup {pos'}
  BY <1>3, <1>4 DEF Redirections
<1>6. CommandWords(command') = CommandWords(command) \cup {pos'}
  BY <1>4, <1>5 DEF CommandWords
<1>7. pos' \notin CommandWords(command)
  <2>1. CommandWords(command) \subseteq 1..pos
    BY DEF ParserInv, WordsInv
  <2> QED  BY <1>1, <1>2, <2>1, NextToken
<1>8. CommandInOrder(command')
  BY <1>2, <1>3, <1>4, <1>5, <1>7 DEF CommandInOrder, CommandWords, Redirections
<1> QED  BY <1>1, <1>6, <1>8, WordTaken

\* The next token is no word.
LEMMA NoWordTaken ==
  ASSUME ParserInv, shift, lookahead \notin {"end", "WORD"}
  PROVE  {i \in 1..pos' : line'[i] = "WORD"} = {i \in 1..pos : line[i] = "WORD"}
BY NextToken DEF ParserInv

\* The command in progress is complete.
LEMMA CommandComplete ==
  ASSUME ParserInv, ~command_wrong
  PROVE  LET cs == Append(commands, command) IN
         /\ cs \in Seq(Command) /\ cs # <<>> /\ Fit(cs) /\ InOrderOfLine(cs)
         /\ Words(cs) = Words(commands) \cup CommandWords(command)
<1>1. commands \in Seq(Command) /\ command \in Command
  BY Collected DEF ParserInv
<1>2. command.argv # <<>>
  BY DEF command_wrong
<1>3. commands = <<>> \/ (commands[Len(commands)].iored_output = NULL /\ command.iored_input = NULL)
  BY DEF command_wrong, Last
<1>4. Fit(commands) /\ InOrderOfLine(commands) /\ CommandInOrder(command)
      /\ AllBefore(Words(commands), CommandWords(command))
  BY DEF ParserInv, FitInv, OrderInv
<1> QED
  BY <1>1, <1>2, <1>3, <1>4, Collected, OneMoreFits, OneMoreCommand, WordsOfCommand DEF ParserInv

LEMMA PipelineBar ==
  ASSUME ParserInv, pipeline_bar
  PROVE  (FitInv /\ OrderInv /\ WordsInv)'
<1>1. /\ shift /\ lookahead = "|" /\ ~command_wrong
      /\ commands' = Append(commands, command) /\ command' = init_cmd /\ pipes' = pipes
  BY DEF pipeline_bar
<1>2. Fit(commands') /\ InOrderOfLine(commands')
      /\ Words(commands') = Words(commands) \cup CommandWords(command)
  BY <1>1, CommandComplete
<1>3. CommandWords(command') = {} /\ CommandInOrder(command')
  BY <1>1, NoWords
<1>4. FitInv'
  BY <1>1, <1>2 DEF ParserInv, FitInv
<1>5. OrderInv'
  BY <1>1, <1>2, <1>3 DEF ParserInv, OrderInv, AllBefore
<1>6. WordsInv'
  BY <1>1, <1>2, <1>3, NoWordTaken DEF ParserInv, WordsInv
<1> QED  BY <1>4, <1>5, <1>6

\* A separator, or the end, takes no word.
LEMMA Separator ==
  ASSUME ParserInv, separator
  PROVE  {i \in 1..pos' : line'[i] = "WORD"} = {i \in 1..pos : line[i] = "WORD"}
<1>1. CASE lookahead = "end"
  BY <1>1 DEF separator
<1>2. CASE lookahead # "end"
  BY <1>2, NoWordTaken DEF separator
<1> QED  BY <1>1, <1>2

LEMMA PipelineComplete ==
  ASSUME ParserInv, pipeline_complete
  PROVE  (FitInv /\ OrderInv /\ WordsInv)'
<1> DEFINE cs == Append(commands, command)
           ps == mark_last(pipes)
           p  == esh_pipeline_finish(cs)
<1>1. /\ ~command_wrong /\ ~no_last /\ separator /\ pipes' = Append(ps, p)
      /\ commands' = <<>> /\ command' = init_cmd
  BY DEF pipeline_complete, cmd_list_pipeline
<1>2. /\ cs \in Seq(Command) /\ cs # <<>> /\ Fit(cs) /\ InOrderOfLine(cs)
      /\ Words(cs) = Words(commands) \cup CommandWords(command)
  BY <1>1, CommandComplete
<1>3. p \in Pipeline /\ p.commands = cs /\ RedirectionsKept(p)
  BY <1>2, FinishType, FinishKeeps
<1>4. /\ pipes \in Seq(Pipeline) /\ ps \in Seq(Pipeline) /\ Len(ps) = Len(pipes)
      /\ DOMAIN pipes = 1..Len(pipes)
      /\ \A k \in DOMAIN pipes : ps[k].commands = pipes[k].commands
  <2>1. TypeOK /\ pipes \in Seq(Pipeline)
    BY DEF ParserInv, TypeOK
  <2>2. DOMAIN pipes = 1..Len(pipes)
    BY <2>1, LenProperties
  <2> QED  BY <1>1, <2>1, <2>2, MarkLast
<1>5. /\ AllWords(ps) = AllWords(pipes) /\ PipesInOrder(ps)
      /\ \A k \in DOMAIN pipes : RedirectionsKept(ps[k])
  BY <1>1, MarkKeeps DEF ParserInv, OrderInv, FitInv
<1> HIDE DEF cs, ps, p
<1>6. AllBefore(AllWords(pipes), Words(commands) \cup CommandWords(command))
  BY DEF ParserInv, OrderInv
<1>7. AllWords(pipes') = AllWords(pipes) \cup Words(commands) \cup CommandWords(command)
  BY <1>1, <1>2, <1>3, <1>4, <1>5, WordsOfPipeline
<1>8. PipesInOrder(pipes')
  BY <1>1, <1>2, <1>3, <1>4, <1>5, <1>6, OneMorePipeline
<1>9. Words(commands') = {} /\ CommandWords(command') = {} /\ CommandInOrder(command')
  BY <1>1, NoWords
<1>10. Fit(commands') /\ InOrderOfLine(commands')
  BY <1>1 DEF Fit, InOrderOfLine
<1>11. ASSUME NEW k \in DOMAIN pipes'
       PROVE  /\ pipes'[k].commands # <<>> /\ Fit(pipes'[k].commands)
              /\ RedirectionsKept(pipes'[k])
  <2>1. /\ DOMAIN pipes' = 1..(Len(pipes) + 1) /\ pipes'[Len(pipes) + 1] = p
        /\ \A i \in DOMAIN pipes : pipes'[i] = ps[i]
    <3>1. DOMAIN ps = 1..Len(ps) /\ Len(ps) \in Nat
      BY <1>4, LenProperties
    <3> QED  BY <1>1, <1>3, <1>4, <3>1, Appended
  <2>2. CASE k \in DOMAIN pipes
    BY <1>4, <1>5, <2>1, <2>2 DEF ParserInv, FitInv
  <2>3. CASE k = Len(pipes) + 1
    BY <1>2, <1>3, <2>1, <2>3
  <2>4. Len(pipes) \in Nat
    BY <1>4
  <2> QED  BY <1>4, <2>1, <2>2, <2>3, <2>4
<1>12. FitInv'
  BY <1>10, <1>11 DEF FitInv
<1>13. OrderInv'
  BY <1>8, <1>9, <1>10 DEF OrderInv, AllBefore
<1>14. WordsInv'
  BY <1>1, <1>7, <1>9, Separator DEF ParserInv, WordsInv
<1> QED  BY <1>12, <1>13, <1>14

LEMMA ListSeparator ==
  ASSUME ParserInv, cmd_list_separator
  PROVE  (FitInv /\ OrderInv /\ WordsInv)'
<1> DEFINE ps == mark_last(pipes)
<1>1. /\ ~no_last /\ separator /\ pipes' = ps /\ UNCHANGED <<commands, command>>
  BY DEF cmd_list_separator
<1>2. /\ DOMAIN ps = DOMAIN pipes
      /\ \A k \in DOMAIN pipes : ps[k].commands = pipes[k].commands
  <2>1. ps \in Seq(Pipeline) /\ pipes \in Seq(Pipeline) /\ Len(ps) = Len(pipes)
    BY <1>1, MarkLast DEF ParserInv, TypeOK
  <2>2. DOMAIN ps = 1..Len(ps) /\ DOMAIN pipes = 1..Len(pipes)
    BY <2>1, LenProperties
  <2> QED  BY <1>1, <2>1, <2>2, MarkLast DEF ParserInv
<1>3. /\ AllWords(ps) = AllWords(pipes) /\ PipesInOrder(ps)
      /\ \A k \in DOMAIN pipes : RedirectionsKept(ps[k])
  BY <1>1, MarkKeeps DEF ParserInv, OrderInv, FitInv
<1> HIDE DEF ps
<1>4. FitInv'
  BY <1>1, <1>2, <1>3 DEF ParserInv, FitInv
<1>5. OrderInv'
  BY <1>1, <1>3 DEF ParserInv, OrderInv
<1>6. WordsInv'
  BY <1>1, <1>3, Separator DEF ParserInv, WordsInv
<1> QED  BY <1>4, <1>5, <1>6

LEMMA ListStep == ParserInv /\ [Next]_vars => ListInv'
<1> SUFFICES ASSUME ParserInv, [Next]_vars PROVE ListInv'
  OBVIOUS
<1> USE DEF ListInv
<1>1. ListInv /\ TypeOK
  BY DEF ParserInv
<1>2. CASE command_WORD \/ redirection \/ redirection_WORD \/ pipeline_bar
  BY <1>2 DEF command_WORD, redirection, redirection_WORD, pipeline_bar, In
<1>3. CASE redirection_Error \/ command_Error \/ bar_Error \/ cmd_list_Abort
  BY <1>1, <1>3 DEF redirection_Error, command_Error, bar_Error, cmd_list_Abort, Stop
<1>4. CASE pipeline_complete \/ cmd_list_separator
  <2>1. st' = "list" /\ commands' = <<>> /\ command' = init_cmd /\ separator /\ result = "parsing"
    BY <1>1, <1>4 DEF pipeline_complete, cmd_list_separator, In
  <2>2. result' = "parsed" => lookahead = "end" /\ UNCHANGED <<line, pos>>
    BY <2>1 DEF separator
  <2> QED  BY <1>1, <2>1, <2>2, LineFacts
<1>5. CASE UNCHANGED vars
  BY <1>1, <1>5 DEF vars
<1> QED  BY <1>2, <1>3, <1>4, <1>5 DEF Next, Done

LEMMA ParserStep == ParserInv /\ [Next]_vars => ParserInv'
<1> SUFFICES ASSUME ParserInv, [Next]_vars PROVE ParserInv'
  OBVIOUS
<1>1. TypeOK'
  BY TypeStep DEF ParserInv
<1>2. ListInv'
  BY ListStep
<1>3. CASE redirection
  <2>1. shift /\ lookahead \notin {"end", "WORD"} /\ UNCHANGED <<pipes, commands, command>>
    BY <1>3 DEF redirection, RedirOp
  <2> QED  BY <1>1, <1>2, <2>1, NoWordTaken DEF ParserInv, FitInv, OrderInv, WordsInv
<1>4. CASE redirection_Error \/ command_Error \/ bar_Error \/ cmd_list_Abort \/ UNCHANGED vars
  <2>1. UNCHANGED <<line, pos, pipes, commands, command>>
    BY <1>4 DEF redirection_Error, command_Error, bar_Error, cmd_list_Abort, Stop, vars
  <2> QED  BY <1>1, <1>2, <2>1 DEF ParserInv, FitInv, OrderInv, WordsInv
<1>5. CASE (FitInv /\ OrderInv /\ WordsInv)'
  BY <1>1, <1>2, <1>5 DEF ParserInv
<1> QED
  BY <1>3, <1>4, <1>5, CommandWord, RedirectionWord, PipelineBar, PipelineComplete, ListSeparator
  DEF Next, Done

LEMMA ParserInit == Init => ParserInv
<1> SUFFICES ASSUME Init PROVE ParserInv
  OBVIOUS
<1>1. TypeOK
  BY InitType
<1>2. CommandWords(command) = {} /\ Words(commands) = {} /\ CommandInOrder(command)
  BY NoWords DEF Init
<1>3. pipes = <<>> /\ commands = <<>> /\ AllWords(pipes) = {}
  BY DEF Init, AllWords
<1>4. FitInv
  BY <1>3 DEF FitInv, Fit
<1>5. OrderInv
  BY <1>2, <1>3 DEF OrderInv, PipesInOrder, InOrderOfLine, AllBefore
<1>6. WordsInv
  BY <1>2, <1>3 DEF Init, WordsInv
<1>7. ListInv
  BY DEF Init, ListInv
<1> QED  BY <1>1, <1>4, <1>5, <1>6, <1>7 DEF ParserInv

\* Between any two tokens the words read so far are in the command, the commands and the
\* pipelines collected, each once and in order, and those can be executed.
THEOREM ParserInvariance == Spec => []ParserInv
BY ParserInit, ParserStep, PTL DEF Spec

\* What the parser accepts can be executed: every command has an argument, and only the
\* first and the last one of a pipeline have redirections, so that none is put under a pipe.
THEOREM Executable == Spec => []FitForExecution
<1>1. ParserInv => FitForExecution
  BY DEF ParserInv, FitInv, FitForExecution
<1> QED  BY <1>1, ParserInvariance, PTL

\* Every word of a line that is accepted is in one place, and in the order of the line.
THEOREM WordsKept == Spec => []NoWordLost
<1>1. ASSUME ParserInv, result = "parsed"
      PROVE  AllWords(pipes) = {i \in DOMAIN line : line[i] = "WORD"}
  <2>1. commands = <<>> /\ command = init_cmd /\ pos = Len(line) /\ DOMAIN line = 1..Len(line)
    BY <1>1, LineFacts DEF ParserInv, ListInv
  <2> QED  BY <1>1, <2>1, NoWords DEF ParserInv, WordsInv
<1>2. ParserInv => NoWordLost
  BY <1>1 DEF ParserInv, OrderInv, FitInv, NoWordLost
<1> QED  BY <1>2, ParserInvariance, PTL
-----------------------------------------------------------------------------
(***************************************************************************)
(* The reference definition.                                               *)
(***************************************************************************)

\* It is about the line, which no step changes.
LEMMA SameLine ==
  ASSUME line' = line
  PROVE  /\ Parts' = Parts
         /\ \A i : IsSep(i)' <=> IsSep(i)
         /\ \A ops, s, e : Targets(ops, s, e)' = Targets(ops, s, e)
         /\ \A s, e : Argv(s, e)' = Argv(s, e)
         /\ \A c, s, e : SaysCommand(c, s, e)' <=> SaysCommand(c, s, e)
         /\ \A p, a, b : SaysPipeline(p, a, b)' <=> SaysPipeline(p, a, b)
         /\ \A s, e : Worded(s, e)' <=> Worded(s, e)
         /\ \A b : Background(b)' <=> Background(b)
         /\ \A a, b : MalformedPart(a, b)' <=> MalformedPart(a, b)
<1>1. \A i : IsSep(i)' <=> IsSep(i)
  BY DEF IsSep
<1>2. \A a, b : IsPart(a, b)' <=> IsPart(a, b)
  BY <1>1 DEF IsPart
<1>3. Parts' = Parts
  BY <1>2 DEF Parts
<1>4. \A ops, s, e : Targets(ops, s, e)' = Targets(ops, s, e)
  BY DEF Targets
<1>5. \A s, e : Argv(s, e)' = Argv(s, e)
  BY <1>4 DEF Argv
<1>6. \A x, s, e : Redirected(x, s, e)' <=> Redirected(x, s, e)
  BY <1>4 DEF Redirected
<1>7. \A c, s, e : SaysCommand(c, s, e)' <=> SaysCommand(c, s, e)
  BY <1>5, <1>6 DEF SaysCommand
<1>8. \A a, b : Spans(a, b)' = Spans(a, b)
  BY DEF Spans, IsSpan
<1>9. \A p, a, b : SaysPipeline(p, a, b)' <=> SaysPipeline(p, a, b)
  BY <1>6, <1>7, <1>8 DEF SaysPipeline
<1>10. \A s, e : Worded(s, e)' <=> Worded(s, e)
  BY DEF Worded
<1>11. \A b : Background(b)' <=> Background(b)
  BY <1>1 DEF Background
<1>12. \A s, e, f, l : Malformed(s, e, f, l)' <=> Malformed(s, e, f, l)
  BY <1>4, <1>5 DEF Malformed
<1>13. \A a, b : MalformedPart(a, b)' <=> MalformedPart(a, b)
  BY <1>8, <1>12 DEF MalformedPart
<1> QED  BY <1>1, <1>3, <1>4, <1>5, <1>7, <1>9, <1>10, <1>11, <1>13

LEMMA SameVerdict ==
  ASSUME line' = line
  PROVE  Verdict' = Verdict
BY SameLine DEF Verdict, AmpFirst, IsSep

LEMMA SameMeaning ==
  ASSUME line' = line
  PROVE  \A ps : Meant(ps)' <=> Meant(ps)
BY SameLine DEF Meant

\* One token more.
LEMMA TargetsNext ==
  ASSUME NEW ops, NEW s \in Int, NEW e \in Int, s <= e + 1
  PROVE  Targets(ops, s, e + 1)
           = Targets(ops, s, e)
               \cup (IF s <= e /\ line[e + 1] = "WORD" /\ line[e] \in ops THEN {e + 1} ELSE {})
<1>1. CASE s = e + 1
  BY <1>1 DEF Targets
<1>2. CASE s <= e
  <2>1. (s + 1)..(e + 1) = ((s + 1)..e) \cup {e + 1} /\ (e + 1) - 1 = e
    BY <1>2
  <2>2. Targets(ops, s, e + 1)
          = Targets(ops, s, e) \cup {i \in {e + 1} : line[i] = "WORD" /\ line[i - 1] \in ops}
    BY <2>1 DEF Targets
  <2> QED  BY <1>2, <2>1, <2>2
<1> QED  BY <1>1, <1>2

LEMMA ArgvNext ==
  ASSUME NEW s \in Int, NEW e \in Int, s <= e + 1
  PROVE  Argv(s, e + 1)
           = Argv(s, e)
               \cup (IF line[e + 1] = "WORD" /\ ~(s <= e /\ line[e] \in RedirOp) THEN {e + 1} ELSE {})
<1>1. s..(e + 1) = (s..e) \cup {e + 1}
  OBVIOUS
<1>2. e + 1 \notin Targets(RedirOp, s, e)
  BY DEF Targets
<1> QED  BY <1>1, <1>2, TargetsNext DEF Argv

LEMMA NothingSaid ==
  ASSUME NEW s \in Int, NEW e \in Int, s = e + 1
  PROVE  /\ \A ops : Targets(ops, s, e) = {}
         /\ Argv(s, e) = {} /\ SaysCommand(init_cmd, s, e) /\ Worded(s, e)
<1>1. \A ops : Targets(ops, s, e) = {}
  BY DEF Targets
<1>2. Argv(s, e) = {}
  BY DEF Argv
<1>3. Range(init_cmd.argv) = {}
  BY DEF Range, init_cmd
<1>4. Redirected(init_cmd, s, e)
  BY <1>1 DEF Redirected, init_cmd
<1> QED  BY <1>1, <1>2, <1>3, <1>4 DEF SaysCommand, Worded

LEMMA InputsOf ==
  ASSUME NEW cs \in Seq(Command), NEW c \in Command
  PROVE  /\ Inputs(Append(cs, c)) = Inputs(cs) \cup ({c.iored_input} \ {NULL})
         /\ Outputs(Append(cs, c)) = Outputs(cs) \cup ({c.iored_output} \ {NULL})
<1> DEFINE cs2 == Append(cs, c)
<1>1. /\ DOMAIN cs = 1..Len(cs) /\ Len(cs) \in Nat /\ DOMAIN cs2 = DOMAIN cs \cup {Len(cs) + 1}
      /\ cs2[Len(cs) + 1] = c /\ \A i \in DOMAIN cs : cs2[i] = cs[i]
  BY Appended
<1> HIDE DEF cs2
<1>2. {cs2[k].iored_input : k \in DOMAIN cs2} = {cs[k].iored_input : k \in DOMAIN cs} \cup {c.iored_input}
  BY <1>1
<1>3. {cs2[k].iored_output : k \in DOMAIN cs2} = {cs[k].iored_output : k \in DOMAIN cs} \cup {c.iored_output}
  BY <1>1
<1> QED  BY <1>2, <1>3 DEF Inputs, Outputs, cs2

\* A set of numbers that is not empty has a least element.
LEMMA LeastOf ==
  ASSUME NEW S \in SUBSET Nat, S # {}
  PROVE  \E x \in S : \A y \in S : x <= y
<1>1. PICK x \in S : \A y \in S : <<y, x>> \notin OpToRel(<, Nat)
  BY NatLessThanWellFounded, WFMin
<1>2. \A y \in S : ~(y < x)
  BY <1>1 DEF OpToRel
<1> QED  BY <1>2

-----------------------------------------------------------------------------
(***************************************************************************)
(* The part in progress.                                                   *)
(***************************************************************************)

\* Where a pipeline and a command have been begun, both will have an end.
LEMMA PartHasEnd ==
  ASSUME TypeOK, NEW a \in 1..(pos + 1), NEW s \in 1..(pos + 1), Reached(a, s),
         a \in DOMAIN line, ~IsSep(a)
  PROVE  \E b \in DOMAIN line : IsPart(a, b) /\ pos <= b
<1> DEFINE L == Len(line)
           m == IF a <= pos THEN pos ELSE a
           S == {b \in m..L : b = L \/ IsSep(b + 1)}
<1>1. DOMAIN line = 1..L
  BY LineFacts
<1>2. pos \in Nat /\ L \in Nat /\ pos <= L /\ a \in Nat /\ 1 <= a /\ a <= L
  BY LineFacts
<1> HIDE DEF L
<1>3. m \in Nat /\ m <= L /\ a <= m /\ pos <= m /\ \A i \in a..m : ~IsSep(i)
  BY <1>2 DEF Reached
<1> HIDE DEF m
<1>4. S \in SUBSET Nat /\ L \in S
  BY <1>2, <1>3
<1>5. PICK b \in S : \A y \in S : b <= y
  BY <1>4, LeastOf
<1>6. b \in Nat /\ m <= b /\ b <= L /\ (b = L \/ IsSep(b + 1))
  BY <1>2, <1>3, <1>5
<1>7. ASSUME NEW i \in Nat, m < i, i <= b  PROVE ~IsSep(i)
  <2> DEFINE h == i - 1
  <2>1. h \in m..L /\ ~(b <= h) /\ h + 1 = i
    BY <1>2, <1>3, <1>6, <1>7
  <2> HIDE DEF h
  <2>2. h \notin S
    BY <1>5, <2>1
  <2> QED  BY <2>1, <2>2
<1> HIDE DEF S
<1>8. \A i \in a..b : ~IsSep(i)
  <2> SUFFICES ASSUME NEW i \in a..b  PROVE ~IsSep(i)
    OBVIOUS
  <2>1. i \in Nat /\ (i \in a..m \/ (m < i /\ i <= b))
    BY <1>2, <1>3, <1>6
  <2> QED  BY <2>1, <1>3, <1>7
<1>9. a <= b /\ pos <= b /\ b \in DOMAIN line
  BY <1>1, <1>2, <1>3, <1>6
<1> QED  BY <1>6, <1>8, <1>9 DEF Reached, IsPart, L

LEMMA SpanHasEnd ==
  ASSUME TypeOK, NEW a \in 1..(pos + 1), NEW s \in 1..(pos + 1), Reached(a, s),
         NEW b \in DOMAIN line, IsPart(a, b), pos <= b
  PROVE  \E e \in pos..b : IsSpan(a, b, s, e) /\ (e = pos => pos = b \/ line[pos + 1] = "|")
<1>1. /\ pos \in Nat /\ a \in Nat /\ s \in Nat /\ b \in Nat /\ a <= s /\ s <= pos + 1
  BY LineFacts DEF Reached
<1> DEFINE S == {e \in pos..b : e = b \/ line[e + 1] = "|"}
<1>2. S \in SUBSET Nat /\ b \in S
  BY <1>1
<1>3. PICK e \in S : \A y \in S : e <= y
  BY <1>2, LeastOf
<1>4. e \in pos..b /\ (e = b \/ line[e + 1] = "|")
  BY <1>3
<1>5. ASSUME NEW i \in (pos + 1)..e  PROVE line[i] # "|"
  <2>1. i - 1 \in pos..b /\ ~(e <= i - 1) /\ (i - 1) + 1 = i
    BY <1>1, <1>4
  <2>2. i - 1 \notin S
    BY <1>3, <2>1
  <2> QED  BY <2>1, <2>2
<1>6. \A i \in s..e : line[i] # "|"
  <2>1. \A i \in s..e : i \in s..pos \/ i \in (pos + 1)..e
    BY <1>1, <1>4
  <2> QED  BY <2>1, <1>5 DEF Reached
<1> QED  BY <1>1, <1>4, <1>6 DEF Reached, IsSpan

\* A part that is in sight is behind the part in progress, or is that part.
LEMMA PartsBehind ==
  ASSUME TypeOK, NEW a \in 1..(pos + 1), NEW s \in 1..(pos + 1), Reached(a, s),
         NEW q \in Parts, q[2] <= pos
  PROVE  q[2] + 2 <= a \/ (q[1] = a /\ q[2] = pos)
<1> DEFINE x == q[1]
           y == q[2]
           L == Len(line)
<1>1. pos \in Nat /\ a \in Nat /\ L \in Nat /\ pos <= L
  BY LineFacts
<1>2. x \in 1..L /\ y \in 1..L /\ IsPart(x, y)
  BY LineFacts DEF Parts
<1>3. y <= pos
  OBVIOUS
<1> HIDE DEF x, y, L
<1>4. /\ x \in Nat /\ y \in Nat /\ x <= y /\ y <= L /\ 1 <= x
      /\ \A i \in x..y : ~IsSep(i)
      /\ x = 1 \/ IsSep(x - 1)
      /\ y = L \/ IsSep(y + 1)
  BY <1>1, <1>2 DEF IsPart, L
<1>5. /\ a = 1 \/ IsSep(a - 1)
      /\ \A i \in a..pos : ~IsSep(i)
  BY DEF Reached
<1>6. CASE y >= a
  <2>1. y = pos
    <3>1. y < pos => y + 1 \in a..pos /\ y # L
      BY <1>1, <1>4, <1>6
    <3>2. ~(y < pos)
      BY <1>4, <1>5, <3>1
    <3> QED  BY <1>1, <1>3, <1>4, <3>2
  <2>2. ~(x < a)
    <3>1. x < a => a # 1 /\ a - 1 \in x..y
      BY <1>1, <1>4, <1>6
    <3> QED  BY <1>4, <1>5, <3>1
  <2>3. ~(x > a)
    <3>1. x > a => x # 1 /\ x - 1 \in a..pos
      BY <1>1, <1>3, <1>4
    <3> QED  BY <1>4, <1>5, <3>1
  <2>4. x = a
    BY <1>1, <1>4, <2>2, <2>3
  <2> QED  BY <2>1, <2>4 DEF x, y
<1>7. CASE y < a
  <2>1. a # 1 /\ y \in x..y
    BY <1>1, <1>4, <1>7
  <2>2. y # a - 1
    BY <1>4, <1>5, <2>1
  <2>3. y + 2 <= a
    BY <1>1, <1>4, <1>7, <2>2
  <2> QED  BY <2>3 DEF y
<1> QED  BY <1>1, <1>4, <1>6, <1>7

\* Likewise the commands of that part.
LEMMA SpansBehind ==
  ASSUME TypeOK, NEW a \in 1..(pos + 1), NEW s \in 1..(pos + 1), Reached(a, s),
         NEW t \in Int, NEW e \in Int, a <= t, t <= e + 1, e <= pos,
         \A i \in t..e : line[i] # "|", t = a \/ line[t - 1] = "|",
         e = pos \/ line[e + 1] = "|"
  PROVE  Complete(a, s, t, e) \/ (t = s /\ e = pos)
<1>1. pos \in Nat /\ a \in Nat /\ s \in Nat /\ a <= s /\ s <= pos + 1
  BY LineFacts DEF Reached
<1>2. CASE e + 2 <= s
  <2>1. line[e + 1] = "|"
    <3>1. e # pos
      BY <1>1, <1>2
    <3> QED  BY <3>1
  <2> QED  BY <1>2, <2>1 DEF Complete
<1>3. CASE e + 2 > s
  <2>1. e = pos
    <3>1. e < pos => e + 1 \in s..pos
      BY <1>1, <1>3
    <3> QED  BY <1>1, <3>1 DEF Reached
  <2>2. ~(t < s)
    <3>1. t < s => s # a /\ s - 1 \in t..e
      BY <1>1, <2>1
    <3> QED  BY <3>1 DEF Reached
  <2>3. ~(t > s)
    <3>1. t > s => t # a /\ t - 1 \in s..pos
      BY <1>1, <2>1
    <3> QED  BY <3>1 DEF Reached
  <2> QED  BY <1>1, <2>1, <2>2, <2>3
<1> QED  BY <1>1, <1>2, <1>3
-----------------------------------------------------------------------------
(***************************************************************************)
(* The step of each action.                                                *)
(***************************************************************************)

LEMMA SameCommands ==
  ASSUME line' = line, commands' = commands, NEW a, NEW s, CommandsRead(a, s)
  PROVE  CommandsRead(a, s)'
<1>1. \A t, e : Complete(a, s, t, e)' <=> Complete(a, s, t, e)
  BY DEF Complete
<1>2. \A k, t, e : IsCommand(k, a, s, t, e)' <=> IsCommand(k, a, s, t, e)
  BY SameLine DEF IsCommand
<1> QED  BY <1>1, <1>2 DEF CommandsRead

LEMMA SamePipes ==
  ASSUME line' = line, pipes' = pipes, sep' = sep, NEW a, PipesRead(a)
  PROVE  PipesRead(a)'
<1>1. \A k, b : Marked(k, b, a)' <=> Marked(k, b, a)
  BY SameLine DEF Marked
<1>2. \A k, x, y : IsPipeline(k, x, y, a)' <=> IsPipeline(k, x, y, a)
  BY <1>1, SameLine DEF IsPipeline
<1> QED  BY <1>2, SameLine DEF PipesRead

\* The command in progress has its redirections, unless an operator is the last token.
LEMMA NotBehind ==
  ASSUME TypeOK, NEW a \in 1..(pos + 1), NEW s \in 1..(pos + 1), Reached(a, s),
         st # "redirection"
  PROVE  ~(s <= pos /\ line[pos] \in RedirOp) /\ ~(a <= pos /\ line[pos] \in RedirOp)
<1>1. pos \in Nat /\ a \in Nat /\ s \in Nat /\ st \in {"list", "bar", "command"}
  <2>1. pos \in Nat
    BY LineFacts
  <2>2. st \in {"list", "bar", "command"}
    BY DEF TypeOK
  <2> QED  BY <2>1, <2>2
<1>2. CASE st = "list"
  BY <1>1, <1>2 DEF Reached
<1>3. CASE st = "bar"
  <2>1. s = pos + 1 /\ s # a /\ s - 1 = pos
    BY <1>1, <1>3 DEF Reached
  <2> QED  BY <1>1, <2>1 DEF Reached, RedirOp
<1>4. CASE st = "command"
  BY <1>4 DEF Reached, RedirOp
<1> QED  BY <1>1, <1>2, <1>3, <1>4

\* A token that ends neither the part nor the command in progress.
LEMMA ReachedOn ==
  ASSUME TypeOK, NEW a \in 1..(pos + 1), NEW s \in 1..(pos + 1), Reached(a, s),
         shift, lookahead \in {"WORD"} \cup RedirOp,
         \/ st' = "command" /\ lookahead = "WORD"
         \/ st' = "redirection" /\ op' = lookahead
  PROVE  Reached(a, s)' /\ a \in 1..(pos' + 1) /\ s \in 1..(pos' + 1)
<1>1. /\ pos \in Nat /\ pos' = pos + 1 /\ line' = line /\ lookahead = line[pos + 1]
      /\ a \in Nat /\ s \in Nat /\ a <= s /\ s <= pos + 1 /\ 1 <= a /\ 1 <= s
  BY LineFacts DEF shift, RedirOp, Reached
<1>2. ~IsSep(pos + 1) /\ line[pos + 1] # "|"
  BY <1>1 DEF IsSep, RedirOp
<1>3. \A i \in a..(pos + 1) : ~IsSep(i)
  <2>1. \A i \in a..(pos + 1) : i \in a..pos \/ i = pos + 1
    BY <1>1
  <2> QED  BY <1>2, <2>1 DEF Reached
<1>4. \A i \in s..(pos + 1) : line[i] # "|"
  <2>1. \A i \in s..(pos + 1) : i \in s..pos \/ i = pos + 1
    BY <1>1
  <2> QED  BY <1>2, <2>1 DEF Reached
<1>5. a = 1 \/ IsSep(a - 1)
  BY DEF Reached
<1>6. s = a \/ line[s - 1] = "|"
  BY DEF Reached
<1>7. a # pos' + 1 /\ s # pos' + 1 /\ s <= pos' + 1
  BY <1>1
<1>8. /\ st' \notin {"list", "bar"}
      /\ st' = "command" => line'[pos'] = "WORD"
      /\ st' = "redirection" => line'[pos'] = op'
  BY <1>1
<1>9. \A i : IsSep(i)' <=> IsSep(i)
  BY <1>1 DEF IsSep
<1>10. Reached(a, s)'
  BY <1>1, <1>3, <1>4, <1>5, <1>6, <1>7, <1>8, <1>9 DEF Reached
<1> QED  BY <1>1, <1>10

LEMMA ReadWord ==
  ASSUME TypeOK, TypeOK', command_WORD,
         NEW a \in 1..(pos + 1), NEW s \in 1..(pos + 1), Reading(a, s)
  PROVE  Reading(a, s)' /\ a \in 1..(pos' + 1) /\ s \in 1..(pos' + 1)
<1>1. /\ shift /\ lookahead = "WORD" /\ st' = "command" /\ st # "redirection"
      /\ command' = [command EXCEPT !.argv = Append(@, pos')]
      /\ UNCHANGED <<sep, pipes, commands>> /\ line' = line
  BY DEF command_WORD, In, shift
<1>2. /\ Reached(a, s) /\ CommandRead(s) /\ CommandsRead(a, s) /\ RedirectionsRead(a)
      /\ PipesRead(a)
  BY DEF Reading
<1>3. Reached(a, s)' /\ a \in 1..(pos' + 1) /\ s \in 1..(pos' + 1)
  BY <1>1, <1>2, ReachedOn
<1>4. CommandsRead(a, s)' /\ PipesRead(a)'
  BY <1>1, <1>2, SameCommands, SamePipes
<1>5. /\ pos \in Nat /\ pos' = pos + 1 /\ line[pos + 1] = "WORD" /\ pos' \in Position
      /\ a \in Int /\ s \in Int /\ s <= pos + 1 /\ a <= pos + 1
  BY <1>1, LineFacts, ShiftType
<1>6. ~(s <= pos /\ line[pos] \in RedirOp) /\ ~(a <= pos /\ line[pos] \in RedirOp)
  BY <1>1, <1>2, NotBehind
<1>7. \A ops \in SUBSET RedirOp : /\ Targets(ops, s, pos + 1) = Targets(ops, s, pos)
                                  /\ Targets(ops, a, pos + 1) = Targets(ops, a, pos)
  <2> TAKE ops \in SUBSET RedirOp
  <2>1. ~(s <= pos /\ line[pos] \in ops) /\ ~(a <= pos /\ line[pos] \in ops)
    BY <1>6
  <2>2. \A x \in Int : x <= pos + 1 =>
          Targets(ops, x, pos + 1) = Targets(ops, x, pos)
            \cup (IF x <= pos /\ line[pos + 1] = "WORD" /\ line[pos] \in ops THEN {pos + 1} ELSE {})
    BY <1>5, TargetsNext
  <2> QED  BY <1>5, <2>1, <2>2
<1>8. Argv(s, pos + 1) = Argv(s, pos) \cup {pos + 1}
  BY <1>5, <1>6, ArgvNext
<1>9. /\ command \in Command /\ command' \in Command /\ commands \in Seq(Command)
      /\ command'.iored_input = command.iored_input
      /\ command'.iored_output = command.iored_output
      /\ command'.append_to_output = command.append_to_output
      /\ Range(command'.argv) = Range(command.argv) \cup {pos + 1}
  <2>1. command \in Command /\ command.argv \in Seq(Position) /\ commands \in Seq(Command)
    BY Collected DEF Command
  <2>2. command' = [command EXCEPT !.argv = Append(command.argv, pos')]
    BY <1>1
  <2>3. /\ command'.argv = Append(command.argv, pos') /\ command'.iored_input = command.iored_input
        /\ command'.iored_output = command.iored_output
        /\ command'.append_to_output = command.append_to_output
    BY <2>1, <2>2 DEF Command
  <2>4. /\ DOMAIN command'.argv = DOMAIN command.argv \cup {Len(command.argv) + 1}
        /\ command'.argv[Len(command.argv) + 1] = pos'
        /\ \A i \in DOMAIN command.argv : command'.argv[i] = command.argv[i]
    <3> DEFINE av == Append(command.argv, pos')
    <3>1. /\ Len(command.argv) \in Nat
          /\ DOMAIN command.argv = 1..Len(command.argv) /\ DOMAIN av = 1..(Len(command.argv) + 1)
          /\ \A i \in DOMAIN command.argv : av[i] = command.argv[i]
          /\ av[Len(command.argv) + 1] = pos'
      BY <1>5, <2>1, Appended
    <3> QED  BY <2>3, <3>1
  <2>5. command' \in Command
    BY <1>1, <1>5, <2>1, AppendWord
  <2>6. Range(command'.argv) = Range(command.argv) \cup {pos + 1}
    BY <1>5, <2>4 DEF Range
  <2> QED  BY <2>1, <2>3, <2>5, <2>6
<1>10. CommandRead(s)'
  <2>1. SaysCommand(command, s, pos) /\ Worded(s, pos)
    BY <1>1, <1>2 DEF CommandRead
  <2>2. SaysCommand(command', s, pos + 1)
    BY <1>7, <1>8, <1>9, <2>1 DEF SaysCommand, Redirected, RedirOp
  <2>3. Worded(s, pos + 1)
    <3>1. \A i \in s..(pos + 1) : line[i] \in RedirOp => i \in s..pos /\ i < pos + 1
      BY <1>5 DEF RedirOp
    <3> QED  BY <2>1, <3>1 DEF Worded
  <2> QED  BY <1>1, <1>5, <2>2, <2>3, SameLine DEF CommandRead
<1>11. RedirectionsRead(a)'
  <2>1. /\ Inputs(Append(commands, command')) = Inputs(Append(commands, command))
        /\ Outputs(Append(commands, command')) = Outputs(Append(commands, command))
    <3>1. /\ Inputs(Append(commands, command)) = Inputs(commands) \cup ({command.iored_input} \ {NULL})
          /\ Outputs(Append(commands, command)) = Outputs(commands) \cup ({command.iored_output} \ {NULL})
      BY <1>9, InputsOf
    <3>2. \A c \in Command :
            /\ Inputs(Append(commands, c)) = Inputs(commands) \cup ({c.iored_input} \ {NULL})
            /\ Outputs(Append(commands, c)) = Outputs(commands) \cup ({c.iored_output} \ {NULL})
      BY <1>9, InputsOf
    <3> QED  BY <1>9, <3>1, <3>2
  <2>2. /\ Targets({"<"}, a, pos + 1) = Inputs(Append(commands, command'))
        /\ Targets({">", ">>"}, a, pos + 1) = Outputs(Append(commands, command'))
    BY <1>2, <1>7, <2>1 DEF RedirectionsRead, RedirOp
  <2> QED  BY <1>1, <1>5, <2>2, SameLine DEF RedirectionsRead
<1> QED  BY <1>3, <1>4, <1>10, <1>11 DEF Reading

LEMMA ReadRedirection ==
  ASSUME TypeOK, redirection,
         NEW a \in 1..(pos + 1), NEW s \in 1..(pos + 1), Reading(a, s)
  PROVE  Reading(a, s)' /\ a \in 1..(pos' + 1) /\ s \in 1..(pos' + 1)
<1>1. /\ shift /\ lookahead \in RedirOp /\ st' = "redirection" /\ op' = lookahead
      /\ st # "redirection"
      /\ UNCHANGED <<sep, pipes, commands, command>> /\ line' = line
  BY DEF redirection, In, shift
<1>2. /\ Reached(a, s) /\ CommandRead(s) /\ CommandsRead(a, s) /\ RedirectionsRead(a)
      /\ PipesRead(a)
  BY DEF Reading
<1>3. Reached(a, s)' /\ a \in 1..(pos' + 1) /\ s \in 1..(pos' + 1)
  BY <1>1, <1>2, ReachedOn
<1>4. CommandsRead(a, s)' /\ PipesRead(a)'
  BY <1>1, <1>2, SameCommands, SamePipes
<1>5. /\ pos \in Nat /\ pos' = pos + 1 /\ line[pos + 1] # "WORD"
      /\ a \in Int /\ s \in Int /\ s <= pos + 1 /\ a <= pos + 1
  BY <1>1, LineFacts, ShiftType DEF RedirOp
<1>6. \A ops : \A x \in Int : x <= pos + 1 => Targets(ops, x, pos + 1) = Targets(ops, x, pos)
  <2>1. \A ops : \A x \in Int : x <= pos + 1 =>
          Targets(ops, x, pos + 1) = Targets(ops, x, pos)
            \cup (IF x <= pos /\ line[pos + 1] = "WORD" /\ line[pos] \in ops THEN {pos + 1} ELSE {})
    BY <1>5, TargetsNext
  <2> QED  BY <1>5, <2>1
<1>7. Argv(s, pos + 1) = Argv(s, pos)
  <2>1. Argv(s, pos + 1) = Argv(s, pos)
          \cup (IF line[pos + 1] = "WORD" /\ ~(s <= pos /\ line[pos] \in RedirOp) THEN {pos + 1} ELSE {})
    BY <1>5, ArgvNext
  <2> QED  BY <1>5, <2>1
<1>8. CommandRead(s)'
  <2>1. SaysCommand(command, s, pos) /\ Worded(s, pos)
    BY <1>1, <1>2 DEF CommandRead
  <2>2. SaysCommand(command, s, pos + 1)
    BY <1>5, <1>6, <1>7, <2>1 DEF SaysCommand, Redirected
  <2> QED  BY <1>1, <1>5, <2>1, <2>2, SameLine DEF CommandRead
<1>9. RedirectionsRead(a)'
  BY <1>1, <1>2, <1>5, <1>6, SameLine DEF RedirectionsRead
<1> QED  BY <1>3, <1>4, <1>8, <1>9 DEF Reading

LEMMA ReadTarget ==
  ASSUME TypeOK, TypeOK', redirection_WORD,
         NEW a \in 1..(pos + 1), NEW s \in 1..(pos + 1), Reading(a, s)
  PROVE  Reading(a, s)' /\ a \in 1..(pos' + 1) /\ s \in 1..(pos' + 1)
<1>1. /\ shift /\ lookahead = "WORD" /\ st' = "command" /\ st = "redirection" /\ ~ambiguous
      /\ command' = IF op = "<" THEN [command EXCEPT !.iored_input = pos']
                    ELSE [command EXCEPT !.iored_output = pos', !.append_to_output = (op = ">>")]
      /\ UNCHANGED <<sep, pipes, commands>> /\ line' = line
  BY DEF redirection_WORD, In, shift
<1>2. /\ Reached(a, s) /\ CommandRead(s) /\ CommandsRead(a, s) /\ RedirectionsRead(a)
      /\ PipesRead(a)
  BY DEF Reading
<1>3. Reached(a, s)' /\ a \in 1..(pos' + 1) /\ s \in 1..(pos' + 1)
  BY <1>1, <1>2, ReachedOn
<1>4. CommandsRead(a, s)' /\ PipesRead(a)'
  BY <1>1, <1>2, SameCommands, SamePipes
<1>5. /\ pos \in Nat /\ pos' = pos + 1 /\ line[pos + 1] = "WORD" /\ pos' \in Position /\ pos' # NULL
      /\ a \in Int /\ s \in Int /\ s <= pos + 1 /\ a <= pos + 1
  BY <1>1, LineFacts, ShiftType
<1>6. s <= pos /\ a <= pos /\ line[pos] = op /\ op \in RedirOp
  <2>1. op \in RedirOp
    BY DEF TypeOK
  <2>2. st # "list" /\ st # "bar"
    BY <1>1
  <2> QED  BY <1>1, <1>2, <1>5, <2>1, <2>2 DEF Reached
<1>7. \A ops : \A x \in Int : x <= pos =>
        Targets(ops, x, pos + 1) = Targets(ops, x, pos) \cup (IF op \in ops THEN {pos + 1} ELSE {})
  <2>1. \A ops : \A x \in Int : x <= pos + 1 =>
          Targets(ops, x, pos + 1) = Targets(ops, x, pos)
            \cup (IF x <= pos /\ line[pos + 1] = "WORD" /\ line[pos] \in ops THEN {pos + 1} ELSE {})
    BY <1>5, TargetsNext
  <2> QED  BY <1>5, <1>6, <2>1
<1>8. Argv(s, pos + 1) = Argv(s, pos)
  <2>1. Argv(s, pos + 1) = Argv(s, pos)
          \cup (IF line[pos + 1] = "WORD" /\ ~(s <= pos /\ line[pos] \in RedirOp) THEN {pos + 1} ELSE {})
    BY <1>5, ArgvNext
  <2> QED  BY <1>5, <1>6, <2>1
<1>9. /\ command \in Command /\ command' \in Command /\ commands \in Seq(Command)
      /\ command'.argv = command.argv
      /\ op = "<" => /\ command.iored_input = NULL /\ command'.iored_input = pos + 1
                     /\ command'.iored_output = command.iored_output
                     /\ command'.append_to_output = command.append_to_output
      /\ op # "<" => /\ command.iored_output = NULL /\ command'.iored_output = pos + 1
                     /\ command'.iored_input = command.iored_input
                     /\ command'.append_to_output = (op = ">>")
  <2>1. command \in Command /\ commands \in Seq(Command)
    BY Collected
  <2>2. command' \in Command
    BY DEF TypeOK
  <2> QED  BY <1>1, <1>5, <2>1, <2>2 DEF Command, ambiguous
<1>10. CommandRead(s)'
  <2>1. SaysCommand(command, s, pos) /\ Worded(s, pos - 1)
    BY <1>1, <1>2 DEF CommandRead
  <2> DEFINE T0 == Targets({"<"}, s, pos)
             T1 == Targets({">", ">>"}, s, pos)
             T2 == Targets({">>"}, s, pos)
  <2>2. /\ Targets({"<"}, s, pos + 1) = T0 \cup (IF op = "<" THEN {pos + 1} ELSE {})
        /\ Targets({">", ">>"}, s, pos + 1) = T1 \cup (IF op # "<" THEN {pos + 1} ELSE {})
        /\ Targets({">>"}, s, pos + 1) = T2 \cup (IF op = ">>" THEN {pos + 1} ELSE {})
    BY <1>5, <1>6, <1>7 DEF RedirOp
  <2>3. T2 \subseteq T1
    BY DEF Targets
  <2>4. /\ {command.iored_input} \ {NULL} = T0 /\ {command.iored_output} \ {NULL} = T1
        /\ command.append_to_output <=> T2 # {}
    BY <2>1 DEF SaysCommand, Redirected
  <2> HIDE DEF T0, T1, T2
  <2>5. pos + 1 # NULL
    BY <1>5
  <2>6. ASSUME op = "<"  PROVE SaysCommand(command', s, pos + 1)
    <3>1. /\ {command'.iored_input} \ {NULL} = Targets({"<"}, s, pos + 1)
          /\ {command'.iored_output} \ {NULL} = Targets({">", ">>"}, s, pos + 1)
      BY <1>9, <2>2, <2>4, <2>5, <2>6
    <3>2. Targets({">>"}, s, pos + 1) = T2 /\ command'.append_to_output = command.append_to_output
      BY <1>9, <2>2, <2>6
    <3>3. Redirected(command', s, pos + 1)
      BY <2>4, <3>1, <3>2, Zenon DEF Redirected
    <3> QED  BY <1>8, <1>9, <2>1, <3>3 DEF SaysCommand
  <2>7. ASSUME op # "<"  PROVE SaysCommand(command', s, pos + 1)
    <3>1. T1 = {} /\ T2 = {}
      BY <1>9, <2>3, <2>4, <2>7
    <3>2. /\ {command'.iored_input} \ {NULL} = Targets({"<"}, s, pos + 1)
          /\ {command'.iored_output} \ {NULL} = Targets({">", ">>"}, s, pos + 1)
      BY <1>9, <2>2, <2>4, <2>5, <2>7, <3>1
    <3>3. /\ Targets({">>"}, s, pos + 1) # {} <=> op = ">>"
          /\ command'.append_to_output <=> op = ">>"
      BY <1>9, <2>2, <2>7, <3>1
    <3>4. Redirected(command', s, pos + 1)
      BY <3>2, <3>3, Zenon DEF Redirected
    <3> QED  BY <1>8, <1>9, <2>1, <3>4 DEF SaysCommand
  <2>8. SaysCommand(command', s, pos + 1)
    BY <2>6, <2>7
  <2>9. Worded(s, pos + 1)
    <3> SUFFICES ASSUME NEW i \in s..(pos + 1), line[i] \in RedirOp
                 PROVE  i < pos + 1 /\ line[i + 1] = "WORD"
      BY DEF Worded
    <3>1. i # pos + 1
      BY <1>5 DEF RedirOp
    <3>2. i \in s..(pos - 1) \/ i = pos
      BY <1>5, <3>1
    <3>3. CASE i = pos
      BY <1>5, <3>3
    <3>4. CASE i \in s..(pos - 1)
      BY <1>5, <2>1, <3>4 DEF Worded
    <3> QED  BY <3>2, <3>3, <3>4
  <2> QED  BY <1>1, <1>5, <2>8, <2>9, SameLine DEF CommandRead
<1>11. RedirectionsRead(a)'
  <2>1. \A c \in Command :
          /\ Inputs(Append(commands, c)) = Inputs(commands) \cup ({c.iored_input} \ {NULL})
          /\ Outputs(Append(commands, c)) = Outputs(commands) \cup ({c.iored_output} \ {NULL})
    BY <1>9, InputsOf
  <2>2. /\ Targets({"<"}, a, pos) = Inputs(commands) \cup ({command.iored_input} \ {NULL})
        /\ Targets({">", ">>"}, a, pos) = Outputs(commands) \cup ({command.iored_output} \ {NULL})
    BY <1>2, <1>9, <2>1 DEF RedirectionsRead
  <2>3. /\ Targets({"<"}, a, pos + 1) = Targets({"<"}, a, pos) \cup (IF op = "<" THEN {pos + 1} ELSE {})
        /\ Targets({">", ">>"}, a, pos + 1)
             = Targets({">", ">>"}, a, pos) \cup (IF op # "<" THEN {pos + 1} ELSE {})
    BY <1>5, <1>6, <1>7 DEF RedirOp
  <2>4. pos + 1 # NULL
    BY <1>5
  <2>5. /\ Targets({"<"}, a, pos + 1) = Inputs(commands) \cup ({command'.iored_input} \ {NULL})
        /\ Targets({">", ">>"}, a, pos + 1) = Outputs(commands) \cup ({command'.iored_output} \ {NULL})
    BY <1>9, <2>2, <2>3, <2>4
  <2>6. /\ Targets({"<"}, a, pos + 1) = Inputs(Append(commands, command'))
        /\ Targets({">", ">>"}, a, pos + 1) = Outputs(Append(commands, command'))
    BY <1>9, <2>1, <2>5
  <2> QED  BY <1>1, <1>5, <2>6, SameLine DEF RedirectionsRead
<1> QED  BY <1>3, <1>4, <1>10, <1>11 DEF Reading

\* The command in progress becomes the last one of the pipeline, the next one begins.
LEMMA ReadBar ==
  ASSUME TypeOK, pipeline_bar,
         NEW a \in 1..(pos + 1), NEW s \in 1..(pos + 1), Reading(a, s)
  PROVE  \E z \in 1..(pos' + 1) : Reading(a, z)' /\ a \in 1..(pos' + 1)
<1> DEFINE n == Len(commands)
<1>1. /\ shift /\ lookahead = "|" /\ st' = "bar" /\ st = "command"
      /\ commands' = Append(commands, command) /\ command' = init_cmd
      /\ UNCHANGED <<sep, pipes>> /\ line' = line
  BY DEF pipeline_bar, In, shift
<1>2. /\ Reached(a, s) /\ CommandRead(s) /\ CommandsRead(a, s) /\ RedirectionsRead(a)
      /\ PipesRead(a)
  BY DEF Reading
<1>3. /\ pos \in Nat /\ pos' = pos + 1 /\ line[pos + 1] = "|"
      /\ a \in Nat /\ s \in Nat /\ 1 <= a /\ a <= s /\ s <= pos + 1
  BY <1>1, <1>2, LineFacts, ShiftType DEF Reached
<1>4. PICK z \in Nat : z = pos + 2
  BY <1>3
<1>5. PipesRead(a)'
  BY <1>1, <1>2, SamePipes
<1>6. Reached(a, z)'
  <2>1. \A i \in a..(pos + 1) : ~IsSep(i)
    <3>1. \A i \in a..(pos + 1) : i \in a..pos \/ i = pos + 1
      BY <1>3
    <3> QED  BY <1>2, <1>3, <3>1 DEF Reached, IsSep
  <2>2. a = 1 \/ IsSep(a - 1)
    BY <1>2 DEF Reached
  <2>3. /\ a <= z /\ z <= pos' + 1 /\ line[z - 1] = "|" /\ z..(pos + 1) = {}
        /\ a # pos' + 1 /\ z = pos' + 1 /\ a < z
    BY <1>3, <1>4
  <2>4. \A i : IsSep(i)' <=> IsSep(i)
    BY <1>1 DEF IsSep
  <2> QED  BY <1>1, <1>3, <2>1, <2>2, <2>3, <2>4 DEF Reached
<1>7. CommandRead(z)'
  <2>1. SaysCommand(init_cmd, z, pos + 1) /\ Worded(z, pos + 1)
    BY <1>3, <1>4, NothingSaid
  <2> QED  BY <1>1, <1>3, <2>1, SameLine DEF CommandRead
<1>8. /\ commands \in Seq(Command) /\ command \in Command /\ commands' \in Seq(Command)
  BY <1>1, Collected
<1>9. RedirectionsRead(a)'
  <2>1. \A ops : Targets(ops, a, pos + 1) = Targets(ops, a, pos)
    <3>1. \A ops : Targets(ops, a, pos + 1) = Targets(ops, a, pos)
            \cup (IF a <= pos /\ line[pos + 1] = "WORD" /\ line[pos] \in ops THEN {pos + 1} ELSE {})
      BY <1>3, TargetsNext
    <3> QED  BY <1>3, <3>1
  <2>2. /\ Inputs(Append(commands', init_cmd)) = Inputs(commands') \cup ({init_cmd.iored_input} \ {NULL})
        /\ Outputs(Append(commands', init_cmd)) = Outputs(commands') \cup ({init_cmd.iored_output} \ {NULL})
    BY <1>8, InitCommand, InputsOf
  <2>3. init_cmd.iored_input = NULL /\ init_cmd.iored_output = NULL
    BY DEF init_cmd
  <2>4. /\ Targets({"<"}, a, pos + 1) = Inputs(Append(commands', init_cmd))
        /\ Targets({">", ">>"}, a, pos + 1) = Outputs(Append(commands', init_cmd))
    BY <1>1, <1>2, <2>1, <2>2, <2>3 DEF RedirectionsRead
  <2> QED  BY <1>1, <1>3, <2>4, SameLine DEF RedirectionsRead
<1>10. CommandsRead(a, z)'
  <2> DEFINE cs == Append(commands, command)
             Is(k, t, e) == /\ SaysCommand(cs[k], t, e) /\ Worded(t, e)
                            /\ k = 1 <=> t = a
                            /\ k = n + 1 <=> e + 2 = z
  <2>1. /\ n \in Nat /\ DOMAIN commands = 1..n /\ DOMAIN cs = 1..(n + 1) /\ cs # <<>>
        /\ cs[n + 1] = command /\ \A i \in DOMAIN commands : cs[i] = commands[i]
        /\ Len(cs) = n + 1
    BY <1>8, Appended
  <2>2. n = 0 <=> commands = <<>>
    BY <1>8, EmptySeq
  <2> HIDE DEF n, cs
  <2>3. SaysCommand(command, s, pos) /\ Worded(s, pos)
    BY <1>1, <1>2 DEF CommandRead
  <2>4. Complete(a, z, s, pos) /\ s \in a..z /\ pos \in 0..z
    BY <1>2, <1>3, <1>4 DEF Complete, Reached
  <2>5. Is(n + 1, s, pos)
    <3>1. n + 1 = 1 <=> s = a
      BY <1>2, <2>1, <2>2 DEF CommandsRead
    <3> QED  BY <1>3, <1>4, <2>1, <2>3, <3>1
  <2>6. ASSUME NEW k \in DOMAIN commands, NEW t, NEW e \in Int, e + 2 <= s, IsCommand(k, a, s, t, e)
        PROVE  Is(k, t, e)
    <3>1. /\ SaysCommand(cs[k], t, e) /\ Worded(t, e)
          /\ k = 1 <=> t = a
      BY <2>1, <2>6 DEF IsCommand
    <3>2. k # n + 1 /\ e + 2 # z
      BY <1>3, <1>4, <2>1, <2>6
    <3> QED  BY <3>1, <3>2
  <2>7. \A k \in 1..(n + 1) : \E t \in a..z, e \in 0..z : Complete(a, z, t, e) /\ Is(k, t, e)
    <3> TAKE k \in 1..(n + 1)
    <3>1. CASE k = n + 1
      BY <2>4, <2>5, <3>1
    <3>2. CASE k \in DOMAIN commands
      <4>1. PICK t \in a..s, e \in 0..s : Complete(a, s, t, e) /\ IsCommand(k, a, s, t, e)
        BY <1>2, <3>2 DEF CommandsRead
      <4>2. e \in Int /\ e + 2 <= s
        BY <4>1 DEF Complete
      <4>3. Is(k, t, e)
        BY <2>6, <3>2, <4>1, <4>2
      <4>4. Complete(a, z, t, e) /\ t \in a..z /\ e \in 0..z
        BY <1>3, <1>4, <4>1 DEF Complete
      <4> QED  BY <4>3, <4>4
    <3>3. k = n + 1 \/ k \in DOMAIN commands
      BY <2>1
    <3> QED  BY <3>1, <3>2, <3>3
  <2>8. \A t \in a..z, e \in 0..z : Complete(a, z, t, e) => \E k \in 1..(n + 1) : Is(k, t, e)
    <3> SUFFICES ASSUME NEW t \in a..z, NEW e \in 0..z, Complete(a, z, t, e)
                 PROVE  \E k \in 1..(n + 1) : Is(k, t, e)
      OBVIOUS
    <3>1. /\ t \in Int /\ e \in Int /\ a <= t /\ t <= e + 1 /\ e <= pos
          /\ \A i \in t..e : line[i] # "|"
          /\ t = a \/ line[t - 1] = "|"
          /\ e = pos \/ line[e + 1] = "|"
      BY <1>3, <1>4 DEF Complete
    <3>2. Complete(a, s, t, e) \/ (t = s /\ e = pos)
      BY <1>2, <3>1, SpansBehind
    <3>3. CASE t = s /\ e = pos
      BY <2>1, <2>5, <3>3
    <3>4. CASE Complete(a, s, t, e)
      <4>1. t \in a..s /\ e \in 0..s /\ e + 2 <= s
        BY <1>3, <3>1, <3>4 DEF Complete
      <4>2. PICK k \in DOMAIN commands : IsCommand(k, a, s, t, e)
        BY <1>2, <3>4, <4>1 DEF CommandsRead
      <4>3. Is(k, t, e)
        BY <2>6, <3>1, <4>1, <4>2
      <4> QED  BY <2>1, <4>2, <4>3
    <3> QED  BY <3>2, <3>3, <3>4
  <2>9. commands' = cs /\ DOMAIN cs = 1..(n + 1) /\ z # a /\ cs # <<>>
    BY <1>1, <1>3, <1>4, <2>1 DEF cs
  <2>10. \A t, e : Complete(a, z, t, e)' <=> Complete(a, z, t, e)
    BY <1>1 DEF Complete
  <2>11. \A k, t, e : IsCommand(k, a, z, t, e)' <=> Is(k, t, e)
    BY <1>1, <2>1, <2>9, SameLine DEF IsCommand
  <2> HIDE DEF Is
  <2> QED  BY <2>7, <2>8, <2>9, <2>10, <2>11 DEF CommandsRead
<1>11. z \in 1..(pos' + 1) /\ a \in 1..(pos' + 1)
  BY <1>3, <1>4
<1> QED  BY <1>5, <1>6, <1>7, <1>9, <1>10, <1>11 DEF Reading
-----------------------------------------------------------------------------
(***************************************************************************)
(* A pipeline, and the list of them, are complete.                         *)
(***************************************************************************)

\* What a pipeline says does not depend on its mark, which the last one gets from "&".
LEMMA MarkSays ==
  ASSUME TypeOK, ~no_last
  PROVE  /\ DOMAIN mark_last(pipes) = DOMAIN pipes /\ DOMAIN pipes = 1..Len(pipes)
         /\ \A k \in DOMAIN pipes :
              /\ \A x, y : SaysPipeline(mark_last(pipes)[k], x, y) <=> SaysPipeline(pipes[k], x, y)
              /\ mark_last(pipes)[k].bg_job <=>
                   (pipes[k].bg_job \/ (sep = "&" /\ k = Len(pipes)))
<1> DEFINE ps == mark_last(pipes)
<1>1. pipes \in Seq(Pipeline) /\ ps \in Seq(Pipeline) /\ Len(ps) = Len(pipes)
  BY MarkLast DEF TypeOK
<1>2. DOMAIN ps = DOMAIN pipes /\ DOMAIN pipes = 1..Len(pipes)
  BY <1>1, LenProperties
<1>3. ASSUME NEW k \in DOMAIN pipes
      PROVE  /\ ps[k].commands = pipes[k].commands
             /\ ps[k].iored_input = pipes[k].iored_input
             /\ ps[k].iored_output = pipes[k].iored_output
             /\ ps[k].append_to_output = pipes[k].append_to_output
             /\ ps[k].bg_job <=> (pipes[k].bg_job \/ (sep = "&" /\ k = Len(pipes)))
  <2>1. pipes[k] \in Pipeline
    BY <1>1, <1>2
  <2>2. sep # "&" => ps[k] = pipes[k]
    BY DEF mark_last
  <2>3. sep = "&" =>
          ps[k] = IF k = Len(pipes) THEN [pipes[k] EXCEPT !.bg_job = TRUE] ELSE pipes[k]
    BY <1>1, <1>2 DEF mark_last
  <2> HIDE DEF ps
  <2>4. CASE sep = "&" /\ k = Len(pipes)
    <3>1. ps[k] = [pipes[k] EXCEPT !.bg_job = TRUE]
      BY <2>3, <2>4
    <3> QED  BY <2>1, <2>4, <3>1 DEF Pipeline
  <2>5. CASE ~(sep = "&" /\ k = Len(pipes))
    <3>1. ps[k] = pipes[k]
      BY <2>2, <2>3, <2>5
    <3> QED  BY <2>5, <3>1
  <2> QED  BY <2>4, <2>5
<1> HIDE DEF ps
<1>4. \A k \in DOMAIN pipes : \A x, y : SaysPipeline(ps[k], x, y) <=> SaysPipeline(pipes[k], x, y)
  BY <1>3 DEF SaysPipeline, Redirected
<1> QED  BY <1>2, <1>3, <1>4 DEF ps

\* The mark of a pipeline is then what the gap behind it says.
LEMMA MarkIsBackground ==
  ASSUME TypeOK, ~no_last, NEW a \in 1..(Len(line) + 1), PipesRead(a),
         a = Len(line) + 1 \/ ~IsSep(a),
         NEW k \in DOMAIN pipes, NEW q \in Parts, q[2] + 2 <= a, IsPipeline(k, q[1], q[2], a)
  PROVE  /\ SaysPipeline(mark_last(pipes)[k], q[1], q[2])
         /\ mark_last(pipes)[k].bg_job <=> Background(q[2])
<1> DEFINE y == q[2]
           L == Len(line)
<1>1. L \in Nat /\ y \in Nat /\ a \in Nat /\ y + 2 <= a /\ a <= L + 1 /\ (a = L + 1 \/ ~IsSep(a))
  BY LineFacts DEF Parts
<1>2. Marked(k, y, a) /\ SaysPipeline(pipes[k], q[1], y)
  BY DEF IsPipeline
<1>3. SaysPipeline(mark_last(pipes)[k], q[1], y)
  BY <1>2, MarkSays
<1>4. mark_last(pipes)[k].bg_job <=> (pipes[k].bg_job \/ (sep = "&" /\ k = Len(pipes)))
  BY MarkSays
<1>5. k \in Nat /\ Len(pipes) \in Nat /\ k <= Len(pipes)
  <2>1. pipes \in Seq(Pipeline)
    BY DEF TypeOK
  <2>2. k \in 1..Len(pipes) /\ Len(pipes) \in Nat
    BY <2>1, MarkSays
  <2> QED  BY <2>2
<1>6. sep = line[a - 1]
  BY <1>1 DEF PipesRead
<1>7. Background(y) <=> \E i \in (y + 1)..L : line[i] = "&" /\ \A j \in (y + 1)..i : IsSep(j)
  BY DEF Background
<1> HIDE DEF y, L
<1>8. CASE k < Len(pipes)
  BY <1>2, <1>3, <1>4, <1>5, <1>8 DEF Marked, y
<1>9. CASE k = Len(pipes)
  <2>1. /\ \A i \in (y + 1)..(a - 1) : IsSep(i)
        /\ pipes[k].bg_job <=> \E i \in (y + 1)..(a - 2) : line[i] = "&"
    BY <1>2, <1>5, <1>9 DEF Marked
  <2>2. (pipes[k].bg_job \/ sep = "&") <=> \E i \in (y + 1)..(a - 1) : line[i] = "&"
    <3>1. \A i \in (y + 1)..(a - 1) : i \in (y + 1)..(a - 2) \/ i = a - 1
      BY <1>1
    <3>2. a - 1 \in (y + 1)..(a - 1) /\ \A i \in (y + 1)..(a - 2) : i \in (y + 1)..(a - 1)
      BY <1>1
    <3> QED  BY <1>6, <2>1, <3>1, <3>2
  <2>3. ASSUME NEW i \in (y + 1)..(a - 1), line[i] = "&"
        PROVE  i \in (y + 1)..L /\ \A j \in (y + 1)..i : IsSep(j)
    BY <1>1, <2>1
  <2>4. ASSUME NEW i \in (y + 1)..L, line[i] = "&", \A j \in (y + 1)..i : IsSep(j)
        PROVE  i \in (y + 1)..(a - 1)
    <3>1. i >= a => a \in (y + 1)..i /\ a # L + 1
      BY <1>1
    <3>2. ~(i >= a)
      BY <1>1, <2>4, <3>1
    <3> QED  BY <1>1, <3>2
  <2> QED  BY <1>3, <1>4, <1>7, <1>9, <2>2, <2>3, <2>4 DEF y
<1> QED  BY <1>5, <1>8, <1>9

\* The commands of the part in progress, when one has just been completed.
LEMMA SpansOfPart ==
  ASSUME TypeOK, st = "command",
         NEW a \in 1..(pos + 1), NEW s \in 1..(pos + 1), Reading(a, s)
  PROVE  LET cs == Append(commands, command)
             Is(k, r) == /\ SaysCommand(cs[k], r[1], r[2]) /\ Worded(r[1], r[2])
                         /\ k = 1 <=> r[1] = a
                         /\ k = Len(cs) <=> r[2] = pos
         IN  /\ \A k \in DOMAIN cs : \E r \in Spans(a, pos) : Is(k, r)
             /\ \A r \in Spans(a, pos) : \E k \in DOMAIN cs : Is(k, r)
<1> DEFINE n == Len(commands)
           cs == Append(commands, command)
           Is(k, t, e) == /\ SaysCommand(cs[k], t, e) /\ Worded(t, e)
                          /\ k = 1 <=> t = a
                          /\ k = Len(cs) <=> e = pos
<1>1. /\ Reached(a, s) /\ CommandRead(s) /\ CommandsRead(a, s)
  BY DEF Reading
<1>2. /\ pos \in Nat /\ a \in Nat /\ s \in Nat /\ 1 <= a /\ a <= s /\ s <= pos + 1
  BY <1>1, LineFacts DEF Reached
<1>3. /\ n \in Nat /\ DOMAIN commands = 1..n /\ DOMAIN cs = 1..(n + 1)
      /\ cs[n + 1] = command /\ \A i \in DOMAIN commands : cs[i] = commands[i]
      /\ Len(cs) = n + 1
  BY Collected, Appended
<1>4. n = 0 <=> commands = <<>>
  BY Collected, EmptySeq
<1> HIDE DEF n, cs
<1>5. Is(n + 1, s, pos)
  <2>1. SaysCommand(command, s, pos) /\ Worded(s, pos)
    BY <1>1 DEF CommandRead
  <2>2. n + 1 = 1 <=> s = a
    BY <1>1, <1>3, <1>4 DEF CommandsRead
  <2> QED  BY <1>3, <2>1, <2>2
<1>6. ASSUME NEW k \in DOMAIN commands, NEW t, NEW e \in Int, e + 2 <= s, IsCommand(k, a, s, t, e)
      PROVE  Is(k, t, e)
  <2>1. /\ SaysCommand(cs[k], t, e) /\ Worded(t, e)
        /\ k = 1 <=> t = a
    BY <1>3, <1>6 DEF IsCommand
  <2>2. k # Len(cs) /\ e # pos
    BY <1>2, <1>3, <1>6
  <2> QED  BY <2>1, <2>2
<1>7. \A k \in 1..(n + 1) : \E r \in Spans(a, pos) : Is(k, r[1], r[2])
  <2> TAKE k \in 1..(n + 1)
  <2>1. CASE k = n + 1
    <3>1. <<s, pos>> \in Spans(a, pos)
      BY <1>1, <1>2 DEF Spans, IsSpan, Reached
    <3> QED  BY <1>5, <2>1, <3>1
  <2>2. CASE k \in DOMAIN commands
    <3>1. PICK t \in a..s, e \in 0..s : Complete(a, s, t, e) /\ IsCommand(k, a, s, t, e)
      BY <1>1, <2>2 DEF CommandsRead
    <3>2. e \in Int /\ e + 2 <= s
      BY <3>1 DEF Complete
    <3>3. Is(k, t, e)
      BY <1>6, <2>2, <3>1, <3>2
    <3>4. <<t, e>> \in Spans(a, pos)
      BY <1>2, <3>1 DEF Spans, IsSpan, Complete
    <3> QED  BY <3>3, <3>4
  <2>3. k = n + 1 \/ k \in DOMAIN commands
    BY <1>3
  <2> QED  BY <2>1, <2>2, <2>3
<1>8. \A r \in Spans(a, pos) : \E k \in 1..(n + 1) : Is(k, r[1], r[2])
  <2> TAKE r \in Spans(a, pos)
  <2>1. PICK t \in Int, e \in Int : t = r[1] /\ e = r[2]
    BY <1>2 DEF Spans
  <2>2. IsSpan(a, pos, t, e)
    BY <2>1 DEF Spans
  <2>3. Complete(a, s, t, e) \/ (t = s /\ e = pos)
    BY <1>1, <2>2, SpansBehind DEF IsSpan
  <2>4. CASE t = s /\ e = pos
    BY <1>3, <1>5, <2>1, <2>4
  <2>5. CASE Complete(a, s, t, e)
    <3>1. t \in a..s /\ e \in 0..s /\ e + 2 <= s
      BY <1>2, <2>1, <2>5 DEF Complete
    <3>2. PICK k \in DOMAIN commands : IsCommand(k, a, s, t, e)
      BY <1>1, <2>5, <3>1 DEF CommandsRead
    <3>3. Is(k, t, e)
      BY <1>6, <2>1, <3>1, <3>2
    <3> QED  BY <1>3, <2>1, <3>2, <3>3
  <2> QED  BY <2>3, <2>4, <2>5
<1> QED  BY <1>3, <1>7, <1>8 DEF cs

\* A part that ends here is behind the next separator, or the last one.
LEMMA PartEnds ==
  ASSUME TypeOK, st = "command", pos = Len(line) \/ (pos < Len(line) /\ IsSep(pos + 1)),
         NEW a \in 1..(pos + 1), NEW s \in 1..(pos + 1), Reached(a, s)
  PROVE  /\ <<a, pos>> \in Parts
         /\ \A q \in Parts : q[1] = a => q[2] = pos
<1> DEFINE L == Len(line)
<1>1. /\ pos \in Nat /\ L \in Nat /\ pos <= L
      /\ a \in Nat /\ 1 <= a /\ a <= pos + 1
  BY LineFacts
<1>2. DOMAIN line = 1..L
  BY LineFacts
<1>3. (pos < L /\ IsSep(pos + 1)) \/ pos = L
  OBVIOUS
<1> HIDE DEF L
<1>4. a \in Nat /\ 1 <= a /\ a <= pos /\ 1 <= pos
  <2>1. a # pos + 1
    BY DEF Reached
  <2> QED  BY <1>1, <2>1
<1>5. a \in DOMAIN line /\ pos \in DOMAIN line
  BY <1>1, <1>2, <1>4
<1>6. IsPart(a, pos)
  BY <1>3, <1>4 DEF Reached, IsPart, L
<1>7. ASSUME NEW q \in Parts, q[1] = a  PROVE q[2] = pos
  <2>1. PICK y \in 1..L : y = q[2]
    BY <1>2 DEF Parts
  <2>2. y \in Nat /\ y <= L
    BY <1>1
  <2>3. IsPart(a, y)
    BY <1>7, <2>1 DEF Parts
  <2>4. a <= y /\ (\A i \in a..y : ~IsSep(i)) /\ (y = L \/ IsSep(y + 1))
    BY <2>3 DEF IsPart, L
  <2>5. ~(y > pos)
    <3>1. y > pos => pos + 1 \in a..y /\ pos # L
      BY <1>1, <1>4, <2>2
    <3> QED  BY <1>3, <2>4, <3>1
  <2>6. ~(y < pos)
    <3>1. y < pos => y + 1 \in a..pos /\ y # L
      BY <1>1, <1>4, <2>2, <2>4
    <3> QED  BY <2>4, <3>1 DEF Reached
  <2> QED  BY <1>1, <2>1, <2>2, <2>5, <2>6
<1> QED  BY <1>5, <1>6, <1>7 DEF Parts

\* What comes next ends the part in progress.
LEMMA EndsPart ==
  ASSUME TypeOK, lookahead \in {";", "&", "end"}
  PROVE  pos = Len(line) \/ (pos < Len(line) /\ IsSep(pos + 1))
BY LineFacts DEF IsSep

\* The pipeline made of them says what the part says, and nothing is wrong with it.
LEMMA PartRead ==
  ASSUME ParserInv, st = "command", ~command_wrong,
         NEW a \in 1..(pos + 1), NEW s \in 1..(pos + 1), Reading(a, s)
  PROVE  /\ SaysPipeline(esh_pipeline_finish(Append(commands, command)), a, pos)
         /\ ~MalformedPart(a, pos)
<1> DEFINE cs == Append(commands, command)
           p == esh_pipeline_finish(cs)
<1>1. TypeOK /\ Reached(a, s) /\ CommandRead(s) /\ RedirectionsRead(a)
  BY DEF ParserInv, Reading
<1>2. /\ pos \in Nat /\ a \in Nat /\ s \in Nat /\ a <= s
  BY <1>1, LineFacts DEF Reached
<1>3. cs \in Seq(Command) /\ cs # <<>> /\ Fit(cs)
  BY CommandComplete
<1>4. 1 \in DOMAIN cs /\ Len(cs) \in DOMAIN cs /\ cs[Len(cs)] = command
  BY <1>1, Collected, Appended
<1>5. /\ p.commands = cs /\ p.iored_input = cs[1].iored_input
      /\ p.iored_output = command.iored_output
      /\ p.append_to_output = command.append_to_output
  <2>1. cs[Len(cs)] = Last(cs)
    BY DEF Last
  <2>2. p.append_to_output = Last(cs).append_to_output
    BY DEF esh_pipeline_finish
  <2> QED  BY <1>3, <1>4, <2>1, <2>2, FinishType
<1>6. /\ \A k \in DOMAIN cs : \E r \in Spans(a, pos) :
            /\ SaysCommand(cs[k], r[1], r[2]) /\ Worded(r[1], r[2])
            /\ k = 1 <=> r[1] = a
            /\ k = Len(cs) <=> r[2] = pos
      /\ \A r \in Spans(a, pos) : \E k \in DOMAIN cs :
            /\ SaysCommand(cs[k], r[1], r[2]) /\ Worded(r[1], r[2])
            /\ k = 1 <=> r[1] = a
            /\ k = Len(cs) <=> r[2] = pos
  BY <1>1, SpansOfPart
<1>7. /\ Targets({"<"}, a, pos) = Inputs(cs)
      /\ Targets({">", ">>"}, a, pos) = Outputs(cs)
  BY <1>1 DEF RedirectionsRead
<1> HIDE DEF cs, p
<1>8. Redirected(p, a, pos)
  <2>1. Inputs(cs) = {cs[1].iored_input} \ {NULL}
    BY <1>3, <1>4 DEF Inputs, Fit
  <2>2. Outputs(cs) = {command.iored_output} \ {NULL}
    BY <1>3, <1>4 DEF Outputs, Fit
  <2>3. /\ {command.iored_output} \ {NULL} = Targets({">", ">>"}, s, pos)
        /\ command.append_to_output <=> Targets({">>"}, s, pos) # {}
    BY <1>1 DEF CommandRead, SaysCommand, Redirected
  <2>4. Targets({">>"}, s, pos) \subseteq Targets({">>"}, a, pos)
    BY <1>2 DEF Targets
  <2>5. Targets({">>"}, a, pos) \subseteq Targets({">>"}, s, pos)
    <3> SUFFICES ASSUME NEW i \in Targets({">>"}, a, pos)  PROVE i \in Targets({">>"}, s, pos)
      OBVIOUS
    <3>1. i \in Targets({">", ">>"}, s, pos)
      <4>1. i \in Targets({">", ">>"}, a, pos)
        BY DEF Targets
      <4> QED  BY <1>7, <2>2, <2>3, <4>1
    <3>2. line[i - 1] = ">>"
      BY DEF Targets
    <3> QED  BY <3>1, <3>2 DEF Targets
  <2>6. /\ {p.iored_input} \ {NULL} = Targets({"<"}, a, pos)
        /\ {p.iored_output} \ {NULL} = Targets({">", ">>"}, a, pos)
    BY <1>5, <1>7, <2>1, <2>2
  <2>7. p.append_to_output <=> Targets({">>"}, a, pos) # {}
    BY <1>5, <2>3, <2>4, <2>5
  <2> QED  BY <2>6, <2>7 DEF Redirected
<1>9. SaysPipeline(p, a, pos)
  BY <1>5, <1>6, <1>8 DEF SaysPipeline
<1>10. ASSUME NEW r \in Spans(a, pos)  PROVE ~Malformed(r[1], r[2], r[1] = a, r[2] = pos)
  <2>1. PICK k \in DOMAIN cs : /\ SaysCommand(cs[k], r[1], r[2]) /\ Worded(r[1], r[2])
                               /\ k = 1 <=> r[1] = a
                               /\ k = Len(cs) <=> r[2] = pos
    BY <1>6
  <2>2. /\ cs[k].argv # <<>> /\ cs[k].argv \in Seq(Position)
        /\ cs[k].iored_input # NULL => k = 1
        /\ cs[k].iored_output # NULL => k = Len(cs)
    <3>1. cs[k] \in Command
      BY <1>3
    <3>2. cs[k].argv \in Seq(Position)
      BY <3>1 DEF Command
    <3> QED  BY <1>3, <3>2 DEF Fit
  <2>3. Argv(r[1], r[2]) # {}
    <3>1. 1 \in DOMAIN cs[k].argv
      BY <2>2
    <3> QED  BY <2>1, <3>1 DEF SaysCommand, Range
  <2>4. /\ {cs[k].iored_input} \ {NULL} = Targets({"<"}, r[1], r[2])
        /\ {cs[k].iored_output} \ {NULL} = Targets({">", ">>"}, r[1], r[2])
    BY <2>1 DEF SaysCommand, Redirected
  <2>5. ~\E i, j \in Targets({"<"}, r[1], r[2]) : i # j \/ r[1] # a
    BY <2>1, <2>2, <2>4
  <2>6. ~\E i, j \in Targets({">", ">>"}, r[1], r[2]) : i # j \/ r[2] # pos
    BY <2>1, <2>2, <2>4
  <2>7. ~\E i \in r[1]..r[2] : line[i] \in RedirOp /\ (i = r[2] \/ line[i + 1] # "WORD")
    <3>1. \A i \in r[1]..r[2] : line[i] \in RedirOp => i < r[2] /\ line[i + 1] = "WORD"
      BY <2>1 DEF Worded
    <3>2. r[2] \in Int
      BY <1>2 DEF Spans
    <3> QED  BY <3>1, <3>2
  <2> QED  BY <2>3, <2>5, <2>6, <2>7 DEF Malformed
<1> QED  BY <1>9, <1>10 DEF MalformedPart, p, cs

\* The separator, or the end of the line.
LEMMA SeparatorRead ==
  ASSUME TypeOK, separator
  PROVE  /\ line' = line
         /\ lookahead = "end" => /\ pos = Len(line) /\ pos' = pos /\ sep' = sep /\ result' = "parsed"
         /\ lookahead # "end" => /\ pos < Len(line) /\ pos' = pos + 1 /\ IsSep(pos + 1)
                                 /\ sep' = line[pos + 1] /\ result' = result
BY LineFacts DEF separator, shift, IsSep

\* Behind a separator a new part begins.
LEMMA NewPart ==
  ASSUME pos \in Nat, pos' = pos + 1, line' = line, IsSep(pos + 1),
         st' = "list", commands' = <<>>, command' = init_cmd,
         NEW z \in Nat, z = pos + 2, PipesRead(z)'
  PROVE  Reading(z, z)' /\ z \in 1..(pos' + 1)
<1>1. Reached(z, z)'
  <2>1. \A i : IsSep(i)' <=> IsSep(i)
    BY DEF IsSep
  <2>2. IsSep(z - 1) /\ z..(pos + 1) = {} /\ z = pos' + 1
    OBVIOUS
  <2> QED  BY <2>1, <2>2 DEF Reached
<1>2. /\ \A ops : Targets(ops, z, pos + 1) = {}
      /\ SaysCommand(init_cmd, z, pos + 1) /\ Worded(z, pos + 1)
  BY NothingSaid
<1>3. CommandRead(z)'
  BY <1>2, SameLine DEF CommandRead
<1>4. CommandsRead(z, z)'
  <2>1. \A t \in z..z, e \in 0..z : ~Complete(z, z, t, e)
    BY DEF Complete
  <2>2. \A t, e : Complete(z, z, t, e)' <=> Complete(z, z, t, e)
    BY DEF Complete
  <2> QED  BY <2>1, <2>2 DEF CommandsRead
<1>5. RedirectionsRead(z)'
  <2>1. Inputs(Append(<<>>, init_cmd)) = {} /\ Outputs(Append(<<>>, init_cmd)) = {}
    <3>1. <<>> \in Seq(Command) /\ Inputs(<<>>) = {} /\ Outputs(<<>>) = {}
      BY DEF Inputs, Outputs
    <3>2. init_cmd.iored_input = NULL /\ init_cmd.iored_output = NULL
      BY DEF init_cmd
    <3>3. \A cs \in Seq(Command) :
            /\ Inputs(Append(cs, init_cmd)) = Inputs(cs) \cup ({init_cmd.iored_input} \ {NULL})
            /\ Outputs(Append(cs, init_cmd)) = Outputs(cs) \cup ({init_cmd.iored_output} \ {NULL})
      BY InitCommand, InputsOf
    <3> HIDE DEF NULL
    <3> QED  BY <3>1, <3>2, <3>3
  <2>2. Targets({"<"}, z, pos)' = {} /\ Targets({">", ">>"}, z, pos)' = {}
    BY <1>2, SameLine
  <2>3. Inputs(Append(commands, command))' = {} /\ Outputs(Append(commands, command))' = {}
    BY <2>1, Zenon
  <2> QED  BY <2>2, <2>3, Zenon DEF RedirectionsRead
<1>6. z \in 1..(pos' + 1)
  OBVIOUS
<1> QED  BY <1>1, <1>3, <1>4, <1>5, <1>6 DEF Reading

\* Where an "&" would be without a pipeline, none is.
LEMMA NoAmpersand ==
  ASSUME TypeOK, ~no_last, NEW a \in 1..(pos + 1), PipesRead(a), pipes = <<>>
  PROVE  \A i \in 1..(a - 1) : IsSep(i) /\ line[i] # "&"
<1>1. a \in Nat /\ sep # "&" /\ (a # 1 => sep = line[a - 1])
  BY LineFacts DEF PipesRead, no_last
<1>2. \A i \in 1..(a - 1) : IsSep(i) /\ (i = a - 1 \/ line[i] # "&")
  BY DEF PipesRead
<1> QED  BY <1>1, <1>2

\* A separator without a pipeline before it.
LEMMA GapRead ==
  ASSUME TypeOK, TypeOK', cmd_list_separator, lookahead # "end",
         NEW a \in 1..(pos + 1), NEW s \in 1..(pos + 1), Reading(a, s),
         NEW z \in Nat, z = pos + 2
  PROVE  PipesRead(z)'
<1> DEFINE ps == mark_last(pipes)
           Is(k, x, y) == /\ SaysPipeline(ps[k], x, y)
                          /\ IF k < Len(pipes) THEN ps[k].bg_job <=> Background(y)
                             ELSE /\ \A i \in (y + 1)..(z - 1) : IsSep(i)
                                  /\ ps[k].bg_job <=> \E i \in (y + 1)..(z - 2) : line[i] = "&"
<1>1. st = "list" /\ ~no_last /\ separator /\ pipes' = ps
  BY DEF cmd_list_separator, In
<1>2. /\ line' = line /\ pos < Len(line) /\ pos' = pos + 1 /\ IsSep(pos + 1) /\ sep' = line[pos + 1]
  BY <1>1, SeparatorRead
<1>3. Reached(a, s) /\ PipesRead(a)
  BY DEF Reading
<1>4. pos \in Nat /\ a \in Nat /\ a = pos + 1 /\ z = a + 1
  BY <1>1, <1>3, LineFacts DEF Reached
<1>5. /\ DOMAIN ps = DOMAIN pipes /\ DOMAIN pipes = 1..Len(pipes)
      /\ \A k \in DOMAIN pipes :
           /\ \A x, y : SaysPipeline(ps[k], x, y) <=> SaysPipeline(pipes[k], x, y)
           /\ ps[k].bg_job <=> (pipes[k].bg_job \/ (sep = "&" /\ k = Len(pipes)))
  BY <1>1, MarkSays
<1>6. Len(ps) = Len(pipes) /\ Len(pipes) \in Nat /\ (ps = <<>> <=> pipes = <<>>)
  <2>1. pipes \in Seq(Pipeline) /\ ps \in Seq(Pipeline) /\ Len(ps) = Len(pipes)
    BY <1>1, MarkLast DEF TypeOK
  <2> QED  BY <2>1, EmptySeq
<1> HIDE DEF ps
<1>7. ASSUME NEW q \in Parts, q[2] + 2 <= z  PROVE q[2] + 2 <= a
  <2>1. q[1] <= q[2] /\ q[1] \in Nat /\ q[2] \in Nat
    BY LineFacts DEF Parts, IsPart
  <2>2. q[2] <= pos
    BY <1>4, <1>7, <2>1
  <2>3. q[2] + 2 <= a \/ (q[1] = a /\ q[2] = pos)
    BY <1>3, <2>2, PartsBehind
  <2> QED  BY <1>4, <2>1, <2>3
<1>8. ASSUME NEW k \in DOMAIN pipes, NEW q \in Parts, q[2] + 2 <= a, IsPipeline(k, q[1], q[2], a)
      PROVE  Is(k, q[1], q[2])
  <2>1. PICK y \in Nat : y = q[2]
    BY LineFacts DEF Parts
  <2>2. SaysPipeline(ps[k], q[1], y) /\ Marked(k, y, a) /\ y + 2 <= a
    BY <1>5, <1>8, <2>1 DEF IsPipeline
  <2>3. CASE k < Len(pipes)
    <3>1. ps[k].bg_job <=> Background(y)
      BY <1>5, <2>2, <2>3 DEF Marked
    <3> QED  BY <2>1, <2>2, <2>3, <3>1
  <2>4. CASE ~(k < Len(pipes))
    <3>1. /\ \A i \in (y + 1)..(a - 1) : IsSep(i)
          /\ pipes[k].bg_job <=> \E i \in (y + 1)..(a - 2) : line[i] = "&"
      BY <2>2, <2>4 DEF Marked
    <3>2. ps[k].bg_job <=> (pipes[k].bg_job \/ sep = "&")
      <4>1. k = Len(pipes)
        BY <1>5, <1>6, <2>4
      <4> QED  BY <1>5, <4>1
    <3>3. sep = line[a - 1]
      BY <1>3, <1>4, <2>1, <2>2 DEF PipesRead
    <3>4. \A i \in (y + 1)..(z - 1) : IsSep(i)
      <4>1. \A i \in (y + 1)..(z - 1) : i \in (y + 1)..(a - 1) \/ i = pos + 1
        BY <1>4, <2>1
      <4> QED  BY <1>2, <3>1, <4>1
    <3>5. (pipes[k].bg_job \/ sep = "&") <=> \E i \in (y + 1)..(z - 2) : line[i] = "&"
      <4>1. \A i \in (y + 1)..(z - 2) : i \in (y + 1)..(a - 2) \/ i = a - 1
        BY <1>4, <2>1
      <4>2. a - 1 \in (y + 1)..(z - 2) /\ \A i \in (y + 1)..(a - 2) : i \in (y + 1)..(z - 2)
        BY <1>4, <2>1, <2>2
      <4> QED  BY <3>1, <3>3, <4>1, <4>2
    <3>6. ps[k].bg_job <=> \E i \in (y + 1)..(z - 2) : line[i] = "&"
      BY <3>2, <3>5
    <3> QED  BY <2>1, <2>2, <2>4, <3>4, <3>6
  <2> QED  BY <2>3, <2>4
<1>9. \A k, x, y : IsPipeline(k, x, y, z)' <=> Is(k, x, y)
  BY <1>1, <1>2, <1>6, SameLine DEF IsPipeline, Marked
<1> HIDE DEF Is
<1>10. \A k \in DOMAIN ps : \E q \in Parts : q[2] + 2 <= z /\ Is(k, q[1], q[2])
  <2> TAKE k \in DOMAIN ps
  <2>1. PICK q \in Parts : q[2] + 2 <= a /\ IsPipeline(k, q[1], q[2], a)
    BY <1>3, <1>5 DEF PipesRead
  <2>2. q[2] \in Nat
    BY LineFacts DEF Parts
  <2>3. q[2] + 2 <= z
    BY <1>4, <2>1, <2>2
  <2> QED  BY <1>5, <1>8, <2>1, <2>3
<1>11. \A q \in Parts : q[2] + 2 <= z =>
         ~MalformedPart(q[1], q[2]) /\ \E k \in DOMAIN ps : Is(k, q[1], q[2])
  <2> SUFFICES ASSUME NEW q \in Parts, q[2] + 2 <= z
               PROVE  ~MalformedPart(q[1], q[2]) /\ \E k \in DOMAIN ps : Is(k, q[1], q[2])
    OBVIOUS
  <2>1. q[2] + 2 <= a
    BY <1>7
  <2>2. /\ ~MalformedPart(q[1], q[2])
        /\ \E k \in DOMAIN pipes : IsPipeline(k, q[1], q[2], a)
    BY <1>3, <2>1 DEF PipesRead
  <2> QED  BY <1>5, <1>8, <2>1, <2>2
<1>12. ps = <<>> => \A i \in 1..(z - 1) : IsSep(i) /\ (i = z - 1 \/ line[i] # "&")
  <2>1. ps = <<>> => \A i \in 1..(a - 1) : IsSep(i) /\ line[i] # "&"
    BY <1>1, <1>3, <1>6, NoAmpersand
  <2>2. \A i \in 1..(z - 1) : i \in 1..(a - 1) \/ (i = z - 1 /\ i = pos + 1)
    BY <1>4
  <2> QED  BY <1>2, <2>1, <2>2
<1>13. ps # <<>> => \E i \in 1..(z - 1) : ~IsSep(i) /\ \A j \in 1..(i - 1) : line[j] # "&"
  <2>1. ps # <<>> => \E i \in 1..(a - 1) : ~IsSep(i) /\ \A j \in 1..(i - 1) : line[j] # "&"
    BY <1>3, <1>6 DEF PipesRead
  <2>2. \A i \in 1..(a - 1) : i \in 1..(z - 1)
    BY <1>4
  <2> QED  BY <2>1, <2>2
<1>14. z # 1 /\ sep' = line[z - 1]
  BY <1>2, <1>4
<1>15. \A i : IsSep(i)' <=> IsSep(i)
  BY <1>2 DEF IsSep
<1>16. Parts' = Parts /\ \A x, y : MalformedPart(x, y)' <=> MalformedPart(x, y)
  BY <1>2, SameLine
<1> QED  BY <1>1, <1>2, <1>9, <1>10, <1>11, <1>12, <1>13, <1>14, <1>15, <1>16 DEF PipesRead

\* The part that is complete has no separator; an "&" in front of it belongs to a pipeline.
LEMMA FirstToken ==
  ASSUME TypeOK, ~no_last, NEW a \in 1..(pos + 1), NEW s \in 1..(pos + 1), Reached(a, s), a <= pos,
         PipesRead(a)
  PROVE  \E i \in 1..pos : ~IsSep(i) /\ \A j \in 1..(i - 1) : line[j] # "&"
<1>1. pos \in Nat /\ a \in Nat /\ 1 <= a
  BY LineFacts
<1>2. CASE pipes = <<>>
  <2>1. ~IsSep(a) /\ a \in 1..pos
    BY <1>1 DEF Reached
  <2>2. \A j \in 1..(a - 1) : line[j] # "&"
    BY <1>2, NoAmpersand
  <2> QED  BY <2>1, <2>2
<1>3. CASE pipes # <<>>
  <2>1. PICK i \in 1..(a - 1) : ~IsSep(i) /\ \A j \in 1..(i - 1) : line[j] # "&"
    BY <1>3 DEF PipesRead
  <2>2. i \in 1..pos
    BY <1>1
  <2> QED  BY <2>1, <2>2
<1> QED  BY <1>2, <1>3

\* A pipeline and the separator behind it.
LEMMA PipeRead ==
  ASSUME ParserInv, TypeOK', pipeline_complete, lookahead # "end",
         NEW a \in 1..(pos + 1), NEW s \in 1..(pos + 1), Reading(a, s),
         NEW z \in Nat, z = pos + 2
  PROVE  PipesRead(z)'
<1> DEFINE n == Len(pipes)
           p == esh_pipeline_finish(Append(commands, command))
           ps == mark_last(pipes)
           ps2 == Append(ps, p)
           Is(k, x, y) == /\ SaysPipeline(ps2[k], x, y)
                          /\ IF k < n + 1 THEN ps2[k].bg_job <=> Background(y)
                             ELSE /\ \A i \in (y + 1)..(z - 1) : IsSep(i)
                                  /\ ps2[k].bg_job <=> \E i \in (y + 1)..(z - 2) : line[i] = "&"
<1>1. st = "command" /\ ~no_last /\ ~command_wrong /\ separator /\ pipes' = ps2
  BY DEF pipeline_complete, cmd_list_pipeline, In
<1>2. /\ line' = line /\ pos < Len(line) /\ pos' = pos + 1 /\ IsSep(pos + 1) /\ sep' = line[pos + 1]
  BY <1>1, SeparatorRead DEF ParserInv
<1>3. TypeOK /\ Reached(a, s) /\ PipesRead(a)
  BY DEF ParserInv, Reading
<1>4. pos \in Nat /\ a \in Nat /\ 1 <= a /\ a <= pos /\ z = pos + 2
  BY <1>1, <1>3, LineFacts DEF Reached
<1>5. <<a, pos>> \in Parts
  BY <1>1, <1>2, <1>3, PartEnds
<1>6. SaysPipeline(p, a, pos) /\ ~MalformedPart(a, pos) /\ ~p.bg_job
  <2>1. ~p.bg_job
    BY DEF esh_pipeline_finish
  <2> QED  BY <1>1, <2>1, PartRead
<1>7. n \in Nat /\ Len(ps2) = n + 1 /\ DOMAIN pipes = 1..n /\ DOMAIN ps2 = 1..(n + 1) /\ ps2 # <<>>
      /\ ps2[n + 1] = p /\ \A k \in DOMAIN pipes : ps2[k] = ps[k]
  <2>1. pipes \in Seq(Pipeline) /\ ps \in Seq(Pipeline) /\ Len(ps) = Len(pipes)
    BY <1>1, <1>3, MarkLast DEF TypeOK
  <2>2. p \in Pipeline
    BY <1>3, Collected, FinishType
  <2> HIDE DEF ps, p
  <2>3. Len(pipes) \in Nat /\ DOMAIN pipes = 1..n /\ DOMAIN ps = 1..n
    BY <2>1, LenProperties
  <2> QED  BY <2>1, <2>2, <2>3, Appended
<1> HIDE DEF ps, p, n, ps2
<1>8. ASSUME NEW q \in Parts, q[2] + 2 <= z  PROVE q[2] + 2 <= a \/ q = <<a, pos>>
  <2>1. q[2] \in Nat /\ q = <<q[1], q[2]>>
    BY LineFacts, <1>3 DEF Parts
  <2>2. q[2] <= pos
    BY <1>4, <1>8, <2>1
  <2> QED  BY <1>3, <2>1, <2>2, PartsBehind
<1>9. ASSUME NEW k \in DOMAIN pipes, NEW q \in Parts, q[2] + 2 <= a, IsPipeline(k, q[1], q[2], a)
      PROVE  Is(k, q[1], q[2])
  <2>1. k \in Nat /\ k < n + 1
    BY <1>7
  <2>2. a \in 1..(Len(line) + 1) /\ ~IsSep(a)
    <3>1. Len(line) \in Nat
      BY <1>3, LineFacts
    <3> QED  BY <1>2, <1>3, <1>4, <3>1 DEF Reached
  <2>3. SaysPipeline(ps[k], q[1], q[2]) /\ (ps[k].bg_job <=> Background(q[2]))
    BY <1>1, <1>3, <1>9, <2>2, MarkIsBackground DEF ps
  <2> QED  BY <1>7, <2>1, <2>3
<1>10. Is(n + 1, a, pos)
  <2>1. \A i \in (pos + 1)..(z - 1) : IsSep(i)
    BY <1>2, <1>4
  <2>2. (pos + 1)..(z - 2) = {}
    BY <1>4
  <2>3. ~(n + 1 < n + 1)
    BY <1>7
  <2> QED  BY <1>6, <1>7, <2>1, <2>2, <2>3
<1>11. \A k, x, y : IsPipeline(k, x, y, z)' <=> Is(k, x, y)
  BY <1>1, <1>2, <1>7, SameLine DEF IsPipeline, Marked
<1> HIDE DEF Is
<1>12. \A k \in DOMAIN ps2 : \E q \in Parts : q[2] + 2 <= z /\ Is(k, q[1], q[2])
  <2> TAKE k \in DOMAIN ps2
  <2>1. CASE k \in DOMAIN pipes
    <3>1. PICK q \in Parts : q[2] + 2 <= a /\ IsPipeline(k, q[1], q[2], a)
      BY <1>3, <2>1 DEF PipesRead
    <3>2. q[2] \in Nat
      BY <1>3, LineFacts DEF Parts
    <3>3. q[2] + 2 <= z
      BY <1>4, <3>1, <3>2
    <3> QED  BY <1>9, <2>1, <3>1, <3>3
  <2>2. CASE k = n + 1
    <3> DEFINE q == <<a, pos>>
    <3>1. q \in Parts /\ q[2] + 2 <= z /\ Is(k, q[1], q[2])
      BY <1>4, <1>5, <1>10, <2>2
    <3> QED  BY <3>1
  <2>3. k \in DOMAIN pipes \/ k = n + 1
    BY <1>7
  <2> QED  BY <2>1, <2>2, <2>3
<1>13. \A q \in Parts : q[2] + 2 <= z =>
         ~MalformedPart(q[1], q[2]) /\ \E k \in DOMAIN ps2 : Is(k, q[1], q[2])
  <2> SUFFICES ASSUME NEW q \in Parts, q[2] + 2 <= z
               PROVE  ~MalformedPart(q[1], q[2]) /\ \E k \in DOMAIN ps2 : Is(k, q[1], q[2])
    OBVIOUS
  <2>1. CASE q[2] + 2 <= a
    <3>1. ~MalformedPart(q[1], q[2])
      BY <1>3, <2>1 DEF PipesRead
    <3>2. PICK k \in DOMAIN pipes : IsPipeline(k, q[1], q[2], a)
      BY <1>3, <2>1 DEF PipesRead
    <3>3. k \in DOMAIN ps2 /\ Is(k, q[1], q[2])
      BY <1>7, <1>9, <2>1, <3>2
    <3> QED  BY <3>1, <3>3
  <2>2. CASE q = <<a, pos>>
    <3>1. q[1] = a /\ q[2] = pos /\ n + 1 \in DOMAIN ps2
      BY <1>7, <2>2
    <3> QED  BY <1>6, <1>10, <3>1
  <2> QED  BY <1>8, <2>1, <2>2
<1>14. \E i \in 1..(z - 1) : ~IsSep(i) /\ \A j \in 1..(i - 1) : line[j] # "&"
  <2>1. \A i \in 1..pos : i \in 1..(z - 1)
    BY <1>4
  <2> QED  BY <1>1, <1>3, <1>4, <2>1, FirstToken
<1>15. z # 1 /\ sep' = line[z - 1]
  BY <1>2, <1>4
<1>16. \A i : IsSep(i)' <=> IsSep(i)
  BY <1>2 DEF IsSep
<1>17. Parts' = Parts /\ \A x, y : MalformedPart(x, y)' <=> MalformedPart(x, y)
  BY <1>2, SameLine
<1> QED
  BY <1>1, <1>2, <1>7, <1>11, <1>12, <1>13, <1>14, <1>15, <1>16, <1>17 DEF PipesRead
-----------------------------------------------------------------------------
(***************************************************************************)
(* The verdict.                                                            *)
(***************************************************************************)

\* An "&" before any pipeline is the separator in front of the part in progress.
LEMMA AmpersandFirst ==
  ASSUME TypeOK, NEW a \in 1..(pos + 1), PipesRead(a), a = Len(line) + 1 \/ ~IsSep(a), AmpFirst
  PROVE  no_last /\ \A q \in Parts : q[1] = a => ~MalformedPart(q[1], q[2])
<1>1. PICK i \in DOMAIN line :
         /\ line[i] = "&" /\ \A k \in 1..i : IsSep(k)
         /\ \A q \in Parts : q[1] = i + 1 => ~MalformedPart(q[1], q[2])
  BY DEF AmpFirst
<1>2. DOMAIN line = 1..Len(line) /\ Len(line) \in Nat /\ pos \in Nat
  BY LineFacts
<1>3. i \in Nat /\ 1 <= i /\ i <= Len(line) /\ a \in Nat
  BY <1>2
<1>4. i < a
  <2>1. i >= a => a \in 1..i /\ a # Len(line) + 1
    BY <1>2, <1>3
  <2> QED  BY <1>1, <1>3, <2>1
<1>5. pipes = <<>>
  <2>1. ASSUME pipes # <<>>  PROVE FALSE
    <3>1. PICK j \in 1..(a - 1) : ~IsSep(j) /\ \A k \in 1..(j - 1) : line[k] # "&"
      BY <2>1 DEF PipesRead
    <3>2. j \notin 1..i
      BY <1>1, <3>1
    <3>3. i \in 1..(j - 1)
      BY <1>3, <3>2
    <3> QED  BY <1>1, <3>1, <3>3
  <2> QED  BY <2>1
<1>6. i = a - 1
  <2>1. i \in 1..(a - 1)
    BY <1>3, <1>4
  <2> QED  BY <1>1, <1>5, <2>1 DEF PipesRead
<1>7. sep = "&"
  BY <1>1, <1>3, <1>6 DEF PipesRead
<1> QED  BY <1>1, <1>3, <1>5, <1>6, <1>7 DEF no_last

\* Something wrong in the part in progress is what the line is rejected for.
LEMMA ErrorIs ==
  ASSUME TypeOK, NEW a \in 1..(pos + 1), PipesRead(a),
         NEW b \in DOMAIN line, a \in DOMAIN line, IsPart(a, b), MalformedPart(a, b)
  PROVE  Verdict = "error"
<1> DEFINE q == <<a, b>>
<1>1. q \in Parts /\ q[1] = a /\ q[2] = b
  BY DEF Parts
<1>2. ~IsSep(a)
  <2>1. a \in a..b
    BY LineFacts DEF IsPart
  <2> QED  BY <2>1 DEF IsPart
<1>3. ~AmpFirst
  BY <1>1, <1>2, AmpersandFirst
<1>4. \E q2 \in Parts : MalformedPart(q2[1], q2[2])
  BY <1>1
<1> QED  BY <1>3, <1>4 DEF Verdict

\* The pipelines of a list that is complete, but for the one in progress.
LEMMA ListMeant ==
  ASSUME TypeOK, ~no_last, NEW a \in 1..(Len(line) + 1), PipesRead(a),
         a = Len(line) + 1 \/ ~IsSep(a)
  PROVE  /\ \A k \in DOMAIN pipes : \E q \in Parts :
              /\ SaysPipeline(mark_last(pipes)[k], q[1], q[2])
              /\ mark_last(pipes)[k].bg_job <=> Background(q[2])
         /\ \A q \in Parts : q[2] + 2 <= a =>
              /\ ~MalformedPart(q[1], q[2])
              /\ \E k \in DOMAIN pipes :
                   /\ SaysPipeline(mark_last(pipes)[k], q[1], q[2])
                   /\ mark_last(pipes)[k].bg_job <=> Background(q[2])
<1>1. ASSUME NEW k \in DOMAIN pipes
      PROVE  \E q \in Parts : /\ SaysPipeline(mark_last(pipes)[k], q[1], q[2])
                              /\ mark_last(pipes)[k].bg_job <=> Background(q[2])
  <2>1. PICK q \in Parts : q[2] + 2 <= a /\ IsPipeline(k, q[1], q[2], a)
    BY DEF PipesRead
  <2> QED  BY <2>1, MarkIsBackground
<1>2. ASSUME NEW q \in Parts, q[2] + 2 <= a
      PROVE  /\ ~MalformedPart(q[1], q[2])
             /\ \E k \in DOMAIN pipes : /\ SaysPipeline(mark_last(pipes)[k], q[1], q[2])
                                        /\ mark_last(pipes)[k].bg_job <=> Background(q[2])
  <2>1. ~MalformedPart(q[1], q[2])
    BY <1>2 DEF PipesRead
  <2>2. PICK k \in DOMAIN pipes : IsPipeline(k, q[1], q[2], a)
    BY <1>2 DEF PipesRead
  <2> QED  BY <1>2, <2>1, <2>2, MarkIsBackground
<1> QED  BY <1>1, <1>2

\* The line ends in a separator, or is empty.
LEMMA ListAccepted ==
  ASSUME TypeOK, cmd_list_separator, lookahead = "end",
         NEW a \in 1..(pos + 1), NEW s \in 1..(pos + 1), Reading(a, s)
  PROVE  Verdict = "parsed" /\ Meant(pipes')
<1>1. st = "list" /\ ~no_last /\ pipes' = mark_last(pipes)
  BY DEF cmd_list_separator, In
<1>2. Reached(a, s) /\ PipesRead(a)
  BY DEF Reading
<1>3. pos = Len(line) /\ pos \in Nat /\ a \in Nat
  BY LineFacts
<1>4. a = Len(line) + 1 /\ a \in 1..(Len(line) + 1)
  BY <1>1, <1>2, <1>3 DEF Reached
<1>5. ASSUME NEW q \in Parts  PROVE q[2] + 2 <= a
  <2>1. q[1] <= q[2] /\ q[1] \in Nat /\ q[2] \in Nat /\ q[2] <= Len(line)
    BY LineFacts DEF Parts, IsPart
  <2>2. q[2] <= pos
    BY <1>3, <2>1
  <2>3. q[2] + 2 <= a \/ (q[1] = a /\ q[2] = pos)
    BY <1>2, <2>2, PartsBehind
  <2> QED  BY <1>3, <1>4, <2>1, <2>3
<1>6. DOMAIN mark_last(pipes) = DOMAIN pipes
  BY <1>1, MarkSays
<1>7. Meant(mark_last(pipes))
  BY <1>1, <1>2, <1>4, <1>5, <1>6, ListMeant DEF Meant
<1>8. ~AmpFirst
  BY <1>1, <1>2, <1>4, AmpersandFirst
<1>9. \A q \in Parts : ~MalformedPart(q[1], q[2])
  BY <1>1, <1>2, <1>4, <1>5, ListMeant
<1> QED  BY <1>1, <1>7, <1>8, <1>9 DEF Verdict

\* The line ends in a pipeline.
LEMMA PipeAccepted ==
  ASSUME ParserInv, pipeline_complete, lookahead = "end",
         NEW a \in 1..(pos + 1), NEW s \in 1..(pos + 1), Reading(a, s)
  PROVE  Verdict = "parsed" /\ Meant(pipes')
<1> DEFINE n == Len(pipes)
           p == esh_pipeline_finish(Append(commands, command))
           ps == mark_last(pipes)
           ps2 == Append(ps, p)
           Is(k, x, y) == SaysPipeline(ps2[k], x, y) /\ (ps2[k].bg_job <=> Background(y))
<1>1. st = "command" /\ ~no_last /\ ~command_wrong /\ pipes' = ps2
  BY DEF pipeline_complete, cmd_list_pipeline, In
<1>2. TypeOK /\ Reached(a, s) /\ PipesRead(a)
  BY DEF ParserInv, Reading
<1>3. pos = Len(line) /\ pos \in Nat /\ a \in Nat /\ 1 <= a
  BY <1>2, LineFacts
<1>4. a <= pos /\ a \in 1..(Len(line) + 1) /\ ~IsSep(a)
  BY <1>1, <1>2, <1>3 DEF Reached
<1>5. <<a, pos>> \in Parts
  BY <1>1, <1>2, <1>3, PartEnds
<1>6. SaysPipeline(p, a, pos) /\ ~MalformedPart(a, pos) /\ (p.bg_job <=> Background(pos))
  <2>1. ~p.bg_job
    BY DEF esh_pipeline_finish
  <2>2. (pos + 1)..Len(line) = {}
    BY <1>3
  <2>3. ~Background(pos)
    BY <2>2 DEF Background
  <2> QED  BY <1>1, <2>1, <2>3, PartRead
<1>7. n \in Nat /\ DOMAIN pipes = 1..n /\ DOMAIN ps2 = 1..(n + 1)
      /\ ps2[n + 1] = p /\ \A k \in DOMAIN pipes : ps2[k] = ps[k]
  <2>1. pipes \in Seq(Pipeline) /\ ps \in Seq(Pipeline) /\ Len(ps) = Len(pipes)
    BY <1>1, <1>2, MarkLast DEF TypeOK
  <2>2. p \in Pipeline
    BY <1>2, Collected, FinishType
  <2> HIDE DEF ps, p
  <2>3. Len(pipes) \in Nat /\ DOMAIN pipes = 1..n /\ DOMAIN ps = 1..n
    BY <2>1, LenProperties
  <2> QED  BY <2>1, <2>2, <2>3, Appended
<1>8. /\ \A k \in DOMAIN pipes : \E q \in Parts :
           SaysPipeline(ps[k], q[1], q[2]) /\ (ps[k].bg_job <=> Background(q[2]))
      /\ \A q \in Parts : q[2] + 2 <= a =>
           /\ ~MalformedPart(q[1], q[2])
           /\ \E k \in DOMAIN pipes :
                SaysPipeline(ps[k], q[1], q[2]) /\ (ps[k].bg_job <=> Background(q[2]))
  BY <1>1, <1>2, <1>4, ListMeant
<1> HIDE DEF ps, p, n, ps2
<1>9. ASSUME NEW q \in Parts  PROVE q[2] + 2 <= a \/ q = <<a, pos>>
  <2>1. q[2] \in Nat /\ q = <<q[1], q[2]>> /\ q[2] <= Len(line)
    BY LineFacts, <1>2 DEF Parts
  <2>2. q[2] <= pos
    BY <1>3, <2>1
  <2> QED  BY <1>2, <2>1, <2>2, PartsBehind
<1>10. \A k \in DOMAIN pipes : \E q \in Parts : Is(k, q[1], q[2])
  BY <1>7, <1>8
<1>11. Is(n + 1, a, pos)
  BY <1>6, <1>7
<1>12. \A q \in Parts : q[2] + 2 <= a => \E k \in DOMAIN pipes : Is(k, q[1], q[2])
  BY <1>7, <1>8
<1>13. \A k \in DOMAIN ps2 : k \in DOMAIN pipes \/ k = n + 1
  BY <1>7
<1>14. n + 1 \in DOMAIN ps2 /\ \A k \in DOMAIN pipes : k \in DOMAIN ps2
  BY <1>7
<1> DEFINE r == <<a, pos>>
<1>15. r \in Parts /\ r[1] = a /\ r[2] = pos
  BY <1>5
<1> HIDE DEF Is
<1>16. \A k \in DOMAIN ps2 : \E q \in Parts : Is(k, q[1], q[2])
  BY <1>10, <1>11, <1>13, <1>15
<1>17. \A q \in Parts : \E k \in DOMAIN ps2 : Is(k, q[1], q[2])
  BY <1>9, <1>11, <1>12, <1>14
<1>18. Meant(ps2)
  BY <1>16, <1>17 DEF Meant, Is
<1>19. ~AmpFirst
  BY <1>1, <1>2, <1>4, AmpersandFirst
<1>20. \A q \in Parts : ~MalformedPart(q[1], q[2])
  BY <1>6, <1>8, <1>9
<1> QED  BY <1>1, <1>18, <1>19, <1>20 DEF Verdict

\* What the parser stops at, in the part that it is in.
LEMMA StopsInPart ==
  ASSUME TypeOK, NEW a \in 1..(pos + 1), NEW s \in 1..(pos + 1), Reading(a, s),
         a \in DOMAIN line, ~IsSep(a),
         \A b \in DOMAIN line : IsPart(a, b) /\ pos <= b => MalformedPart(a, b)
  PROVE  Verdict = "error"
<1>1. Reached(a, s) /\ PipesRead(a)
  BY DEF Reading
<1>2. PICK b \in DOMAIN line : IsPart(a, b) /\ pos <= b
  BY <1>1, PartHasEnd
<1> QED  BY <1>1, <1>2, ErrorIs

\* A command of it, and what makes it wrong.
LEMMA WrongSpan ==
  ASSUME NEW a \in Int, NEW b \in Int, NEW s \in Int, NEW e \in Int, IsSpan(a, b, s, e),
         \/ Argv(s, e) = {}
         \/ \E i \in s..e : line[i] \in RedirOp /\ (i = e \/ line[i + 1] # "WORD")
         \/ \E i, j \in Targets({"<"}, s, e) : i # j \/ s # a
         \/ \E i, j \in Targets({">", ">>"}, s, e) : i # j \/ e # b
  PROVE  MalformedPart(a, b)
<1> DEFINE r == <<s, e>>
<1>1. r \in Spans(a, b) /\ r[1] = s /\ r[2] = e
  BY DEF Spans, IsSpan
<1>2. Malformed(r[1], r[2], r[1] = a, r[2] = b)
  BY <1>1 DEF Malformed
<1> QED  BY <1>1, <1>2 DEF MalformedPart

LEMMA MisplacedBar ==
  ASSUME TypeOK, bar_Error, NEW a \in 1..(pos + 1), NEW s \in 1..(pos + 1), Reading(a, s)
  PROVE  Verdict = "error"
<1>1. \/ st = "list" /\ lookahead = "|"
      \/ st = "bar" /\ lookahead \in {"|", ";", "&", "end"}
  BY DEF bar_Error, In
<1>2. Reached(a, s)
  BY DEF Reading
<1>3. /\ pos \in Nat /\ pos <= Len(line) /\ a \in Nat /\ s \in Nat /\ 1 <= a /\ a <= s /\ s <= pos + 1
  BY <1>2, LineFacts DEF Reached
<1>4. s = pos + 1
  <2>1. st = "list" \/ st = "bar"
    BY <1>1
  <2> QED  BY <1>2, <1>3, <2>1 DEF Reached
<1>5. pos = Len(line) \/ (pos < Len(line) /\ (IsSep(pos + 1) \/ line[pos + 1] = "|"))
  BY <1>1, LineFacts DEF IsSep
<1>6. a \in DOMAIN line /\ ~IsSep(a)
  <2>1. CASE st = "list"
    <3>1. a = pos + 1
      BY <1>2, <2>1 DEF Reached
    <3>2. lookahead = "|" /\ lookahead # "end"
      BY <1>1, <2>1
    <3>3. pos < Len(line) /\ line[pos + 1] = "|" /\ DOMAIN line = 1..Len(line)
      BY <3>2, LineFacts
    <3> QED  BY <1>3, <3>1, <3>3 DEF IsSep
  <2>2. CASE st = "bar"
    <3>1. a <= pos
      BY <1>2, <1>3, <2>2 DEF Reached
    <3>2. ~IsSep(a)
      BY <1>2, <1>3, <3>1 DEF Reached
    <3>3. DOMAIN line = 1..Len(line) /\ Len(line) \in Nat
      BY LineFacts
    <3> DEFINE L == Len(line)
    <3>4. L \in Nat /\ pos <= L
      BY <1>3, <3>3
    <3> HIDE DEF L
    <3>5. a \in 1..L
      BY <1>3, <3>1, <3>4
    <3> QED  BY <3>2, <3>3, <3>5 DEF L
  <2> QED  BY <1>1, <2>1, <2>2
<1>7. st = "list" => line[pos + 1] = "|"
  BY <1>1, LineFacts
<1>8. ASSUME NEW b \in DOMAIN line, IsPart(a, b), pos <= b  PROVE MalformedPart(a, b)
  <2>1. b \in Nat /\ a <= b /\ b <= Len(line)
    <3>1. b \in 1..Len(line) /\ Len(line) \in Nat
      BY LineFacts
    <3>2. a <= b
      BY <1>8 DEF IsPart
    <3> QED  BY <3>1, <3>2
  <2>2. pos = b \/ line[pos + 1] = "|"
    <3>1. pos < b => ~IsSep(pos + 1)
      BY <1>3, <1>8, <2>1 DEF IsPart, Reached
    <3> QED  BY <1>3, <1>5, <1>8, <2>1, <3>1
  <2>3. IsSpan(a, b, s, pos)
    <3>1. s..pos = {}
      BY <1>3, <1>4
    <3>2. s = a \/ line[s - 1] = "|"
      BY <1>2 DEF Reached
    <3> QED  BY <1>3, <1>4, <1>8, <2>2, <3>1, <3>2 DEF IsSpan
  <2>4. Argv(s, pos) = {}
    BY <1>3, <1>4, NothingSaid
  <2> QED  BY <1>3, <2>1, <2>3, <2>4, WrongSpan
<1> QED  BY <1>6, <1>8, StopsInPart

LEMMA MissingWord ==
  ASSUME TypeOK, redirection_Error, NEW a \in 1..(pos + 1), NEW s \in 1..(pos + 1), Reading(a, s)
  PROVE  Verdict = "error"
<1>1. st = "redirection" /\ (lookahead # "WORD" \/ ambiguous)
  BY DEF redirection_Error, In
<1>2. Reached(a, s) /\ CommandRead(s)
  BY DEF Reading
<1>3. /\ pos \in Nat /\ a \in Nat /\ s \in Nat /\ 1 <= a /\ a <= s /\ s <= pos + 1
  BY <1>2, LineFacts DEF Reached
<1>4. Len(line) \in Nat /\ pos <= Len(line)
  BY LineFacts
<1>5. s <= pos /\ a <= pos /\ line[pos] = op /\ op \in RedirOp
  <2>1. op \in RedirOp
    BY DEF TypeOK
  <2>2. st # "list" /\ st # "bar"
    BY <1>1
  <2> QED  BY <1>1, <1>2, <1>3, <2>1, <2>2 DEF Reached
<1>6. a \in DOMAIN line /\ ~IsSep(a)
  <2>1. ~IsSep(a)
    BY <1>2, <1>3, <1>5 DEF Reached
  <2>2. DOMAIN line = 1..Len(line)
    BY LineFacts
  <2>3. a \in 1..Len(line)
    BY <1>3, <1>4, <1>5
  <2> QED  BY <2>1, <2>2, <2>3
<1>7. pos = Len(line) \/ (pos < Len(line) /\ lookahead = line[pos + 1])
  BY LineFacts
<1>8. ASSUME NEW b \in DOMAIN line, IsPart(a, b), pos <= b  PROVE MalformedPart(a, b)
  <2>1. b \in Nat /\ b <= Len(line)
    BY <1>4, LineFacts
  <2>2. PICK e \in pos..b : IsSpan(a, b, s, e) /\ (e = pos => pos = b \/ line[pos + 1] = "|")
    BY <1>2, <1>8, SpanHasEnd
  <2>3. e \in Nat /\ pos <= e /\ e <= b
    BY <1>3, <2>1
  <2>4. CASE pos = Len(line) \/ line[pos + 1] # "WORD"
    <3>1. pos = e \/ line[pos + 1] # "WORD"
      BY <1>4, <2>1, <2>3, <2>4
    <3>2. pos \in s..e
      BY <1>3, <1>5, <2>3
    <3> QED  BY <1>3, <1>5, <2>1, <2>2, <2>3, <3>1, <3>2, WrongSpan
  <2>5. CASE pos < Len(line) /\ line[pos + 1] = "WORD" /\ ambiguous
    <3>1. e # pos
      <4>1. b = Len(line) \/ IsSep(b + 1)
        BY <1>8 DEF IsPart
      <4>2. ~IsSep(pos + 1) /\ line[pos + 1] # "|"
        BY <2>5 DEF IsSep
      <4>3. pos # b
        BY <2>5, <4>1, <4>2
      <4> QED  BY <2>2, <4>2, <4>3
    <3>2. \A ops : op \in ops => pos + 1 \in Targets(ops, s, e)
      <4>1. pos + 1 \in (s + 1)..e /\ (pos + 1) - 1 = pos
        BY <1>3, <1>5, <2>3, <3>1
      <4> QED  BY <1>5, <2>5, <4>1 DEF Targets
    <3>3. \A ops : \A i \in Targets(ops, s, pos) : i \in Targets(ops, s, e) /\ i # pos + 1
      BY <1>3, <2>3 DEF Targets
    <3>4. /\ {command.iored_input} \ {NULL} = Targets({"<"}, s, pos)
          /\ {command.iored_output} \ {NULL} = Targets({">", ">>"}, s, pos)
      BY <1>2 DEF CommandRead, SaysCommand, Redirected
    <3>5. CASE op = "<"
      <4>1. command.iored_input \in Targets({"<"}, s, pos)
        BY <2>5, <3>4, <3>5 DEF ambiguous
      <4>2. \E i, j \in Targets({"<"}, s, e) : i # j
        BY <3>2, <3>3, <3>5, <4>1
      <4> QED  BY <1>3, <2>1, <2>2, <2>3, <4>2, WrongSpan
    <3>6. CASE op # "<"
      <4>1. command.iored_output \in Targets({">", ">>"}, s, pos)
        BY <2>5, <3>4, <3>6 DEF ambiguous
      <4>2. op \in {">", ">>"}
        BY <1>5, <3>6 DEF RedirOp
      <4>3. \E i, j \in Targets({">", ">>"}, s, e) : i # j
        BY <3>2, <3>3, <4>1, <4>2
      <4> QED  BY <1>3, <2>1, <2>2, <2>3, <4>3, WrongSpan
    <3> QED  BY <3>5, <3>6
  <2> QED  BY <1>1, <1>4, <1>7, <2>4, <2>5
<1> QED  BY <1>6, <1>8, StopsInPart

LEMMA WrongCommand ==
  ASSUME TypeOK, command_Error, NEW a \in 1..(pos + 1), NEW s \in 1..(pos + 1), Reading(a, s)
  PROVE  Verdict = "error"
<1>1. st = "command" /\ command_wrong /\ lookahead \in {"|", ";", "&", "end"}
  BY DEF command_Error, In
<1>2. st = "command" /\ Reached(a, s) /\ CommandRead(s) /\ CommandsRead(a, s)
  BY <1>1 DEF Reading
<1>3. /\ pos \in Nat /\ a \in Nat /\ s \in Nat /\ 1 <= a /\ a <= s /\ s <= pos + 1
  BY <1>2, LineFacts DEF Reached
<1>4. Len(line) \in Nat /\ pos <= Len(line)
  BY LineFacts
<1>5. pos = Len(line) \/ (pos < Len(line) /\ (IsSep(pos + 1) \/ line[pos + 1] = "|"))
  BY <1>1, LineFacts DEF IsSep
<1>6. a <= pos /\ a \in DOMAIN line /\ ~IsSep(a)
  <2>1. a <= pos
    BY <1>2, <1>3 DEF Reached
  <2>2. ~IsSep(a)
    BY <1>2, <1>3, <2>1 DEF Reached
  <2>3. DOMAIN line = 1..Len(line)
    BY LineFacts
  <2>4. a \in 1..Len(line)
    BY <1>3, <1>4, <2>1
  <2> QED  BY <2>1, <2>2, <2>3, <2>4
<1>7. ASSUME NEW b \in DOMAIN line, IsPart(a, b), pos <= b  PROVE MalformedPart(a, b)
  <2>1. b \in Nat /\ b <= Len(line)
    BY <1>4, LineFacts
  <2>2. IsSpan(a, b, s, pos)
    <3>1. pos < b => ~IsSep(pos + 1)
      BY <1>3, <1>7, <2>1 DEF IsPart, Reached
    <3>2. pos = b \/ line[pos + 1] = "|"
      BY <1>3, <1>5, <1>7, <2>1, <3>1
    <3> QED  BY <1>2, <1>3, <1>7, <3>2 DEF IsSpan, Reached
  <2>3. SaysCommand(command, s, pos)
    BY <1>2 DEF CommandRead
  <2>4. CASE command.argv = <<>>
    <3>1. Argv(s, pos) = {}
      BY <2>3, <2>4 DEF SaysCommand, Range
    <3> QED  BY <1>3, <2>1, <2>2, <3>1, WrongSpan
  <2>5. CASE commands # <<>> /\ command.iored_input # NULL
    <3>1. s # a
      BY <1>2, <2>5 DEF CommandsRead
    <3>2. command.iored_input \in Targets({"<"}, s, pos)
      BY <2>3, <2>5 DEF SaysCommand, Redirected
    <3> QED  BY <1>3, <2>1, <2>2, <3>1, <3>2, WrongSpan
  <2>6. CASE commands # <<>> /\ Last(commands).iored_output # NULL
    <3> DEFINE k == Len(commands)
    <3>1. k \in DOMAIN commands /\ commands[k] = Last(commands)
      BY <2>6, Collected DEF Last
    <3>2. PICK t \in a..s, e \in 0..s : Complete(a, s, t, e) /\ IsCommand(k, a, s, t, e)
      BY <1>2, <3>1 DEF CommandsRead
    <3>3. t \in Int /\ e \in Int /\ e + 2 = s /\ SaysCommand(commands[k], t, e)
      BY <1>3, <3>2 DEF IsCommand
    <3>4. IsSpan(a, b, t, e) /\ e # b
      BY <1>3, <1>7, <2>1, <3>2, <3>3 DEF Complete, IsSpan
    <3>5. commands[k].iored_output \in Targets({">", ">>"}, t, e)
      BY <2>6, <3>1, <3>3 DEF SaysCommand, Redirected
    <3> QED  BY <1>3, <2>1, <3>3, <3>4, <3>5, WrongSpan
  <2> QED  BY <1>1, <2>4, <2>5, <2>6 DEF command_wrong
<1> QED  BY <1>6, <1>7, StopsInPart

\* The assertion of list_back fails for an "&" before any pipeline.
LEMMA Aborts ==
  ASSUME ParserInv, cmd_list_Abort, NEW a \in 1..(pos + 1), NEW s \in 1..(pos + 1), Reading(a, s)
  PROVE  Verdict = "aborted"
<1>1. /\ st = "list" \/ (st = "command" /\ ~command_wrong)
      /\ lookahead \in {";", "&", "end"} /\ sep = "&" /\ pipes = <<>>
  BY DEF cmd_list_Abort, In, no_last
<1>2. TypeOK /\ Reached(a, s) /\ PipesRead(a)
  BY DEF ParserInv, Reading
<1>3. /\ pos \in Nat /\ a \in Nat /\ 1 <= a /\ a <= pos + 1 /\ Len(line) \in Nat /\ pos <= Len(line)
  BY <1>2, LineFacts
<1>4. pos = Len(line) \/ (pos < Len(line) /\ IsSep(pos + 1))
  BY <1>1, <1>2, EndsPart
<1>5. a # 1 /\ line[a - 1] = "&"
  BY <1>1, <1>2 DEF PipesRead
<1>6. \A k \in 1..(a - 1) : IsSep(k)
  BY <1>1, <1>2 DEF PipesRead
<1>7. ASSUME NEW q \in Parts, q[1] = a  PROVE ~MalformedPart(q[1], q[2])
  <2>1. CASE st = "list"
    <3>1. a = pos + 1
      BY <1>2, <2>1 DEF Reached
    <3>2. a \in a..q[2] /\ a \in 1..Len(line) /\ \A i \in a..q[2] : ~IsSep(i)
      <4>1. a \in 1..Len(line) /\ q[2] \in 1..Len(line) /\ IsPart(a, q[2])
        BY <1>2, <1>7, LineFacts DEF Parts
      <4> QED  BY <4>1 DEF IsPart
    <3> QED  BY <1>3, <1>4, <3>1, <3>2
  <2>2. CASE st = "command" /\ ~command_wrong
    <3>1. q[2] = pos
      BY <1>2, <1>4, <1>7, <2>2, PartEnds
    <3> QED  BY <1>7, <2>2, <3>1, PartRead
  <2> QED  BY <1>1, <2>1, <2>2
<1> DEFINE i == a - 1
<1>8. i \in DOMAIN line /\ i + 1 = a
  <2>1. i \in 1..Len(line)
    BY <1>3, <1>5
  <2>2. DOMAIN line = 1..Len(line)
    BY <1>2, LineFacts
  <2> QED  BY <1>3, <2>1, <2>2
<1>9. line[i] = "&" /\ (\A k \in 1..i : IsSep(k))
      /\ \A q \in Parts : q[1] = i + 1 => ~MalformedPart(q[1], q[2])
  BY <1>5, <1>6, <1>7, <1>8
<1> HIDE DEF i
<1>10. AmpFirst
  BY <1>8, <1>9 DEF AmpFirst
<1> QED  BY <1>10 DEF Verdict

-----------------------------------------------------------------------------
(***************************************************************************)
(* The invariant, and the theorem.                                         *)
(***************************************************************************)

LEMMA MeaningInit == Init => MeaningInv
<1> SUFFICES ASSUME Init PROVE MeaningInv
  OBVIOUS
<1>1. /\ pos = 0 /\ st = "list" /\ sep = "none" /\ pipes = <<>> /\ commands = <<>>
      /\ command = init_cmd /\ result = "parsing"
  BY DEF Init
<1>2. Reached(1, 1)
  BY <1>1 DEF Reached
<1>3. /\ \A ops : Targets(ops, 1, 0) = {}
      /\ SaysCommand(init_cmd, 1, 0) /\ Worded(1, 0)
  BY NothingSaid
<1>4. CommandRead(1)
  BY <1>1, <1>3 DEF CommandRead
<1>5. CommandsRead(1, 1)
  BY <1>1 DEF CommandsRead, Complete
<1>6. RedirectionsRead(1)
  <2>1. <<>> \in Seq(Command) /\ Inputs(<<>>) = {} /\ Outputs(<<>>) = {}
    BY DEF Inputs, Outputs
  <2>2. init_cmd.iored_input = NULL /\ init_cmd.iored_output = NULL
    BY DEF init_cmd
  <2>3. \A cs \in Seq(Command) :
          /\ Inputs(Append(cs, init_cmd)) = Inputs(cs) \cup ({init_cmd.iored_input} \ {NULL})
          /\ Outputs(Append(cs, init_cmd)) = Outputs(cs) \cup ({init_cmd.iored_output} \ {NULL})
    BY InitCommand, InputsOf
  <2> HIDE DEF NULL
  <2>4. Inputs(Append(<<>>, init_cmd)) = {} /\ Outputs(Append(<<>>, init_cmd)) = {}
    BY <2>1, <2>2, <2>3
  <2> QED  BY <1>1, <1>3, <2>4, Zenon DEF RedirectionsRead
<1>7. PipesRead(1)
  <2>1. \A q \in Parts : ~(q[2] + 2 <= 1)
    <3> SUFFICES ASSUME NEW q \in Parts  PROVE ~(q[2] + 2 <= 1)
      OBVIOUS
    <3>1. q[2] \in Nat
      BY InitType, LineFacts DEF Parts
    <3> QED  BY <3>1
  <2>2. DOMAIN pipes = {} /\ 1..(1 - 1) = {}
    BY <1>1
  <2> QED  BY <1>1, <2>1, <2>2 DEF PipesRead
<1>8. Reading(1, 1) /\ 1 \in 1..(pos + 1)
  BY <1>1, <1>2, <1>4, <1>5, <1>6, <1>7 DEF Reading
<1> QED  BY <1>1, <1>8, ParserInit DEF MeaningInv, ReadInv, ParsesAsWritten

LEMMA MeaningStep == MeaningInv /\ [Next]_vars => MeaningInv'
<1> SUFFICES ASSUME MeaningInv, [Next]_vars PROVE MeaningInv'
  OBVIOUS
<1>1. ParserInv /\ TypeOK /\ ParserInv' /\ TypeOK'
  BY ParserStep DEF MeaningInv, ParserInv
<1>2. CASE UNCHANGED vars
  <2>1. line' = line
    BY <1>2 DEF vars
  <2>2. /\ \A a : IsSep(a)' <=> IsSep(a)
        /\ UNCHANGED <<pos, st, op, sep, pipes, commands, command, result>>
    BY <1>2 DEF IsSep, vars
  <2>3. \A a, s : Reading(a, s) => Reading(a, s)'
    <3> SUFFICES ASSUME NEW a, NEW s, Reading(a, s)  PROVE Reading(a, s)'
      OBVIOUS
    <3>1. CommandsRead(a, s)' /\ PipesRead(a)'
      BY <2>1, <2>2, SameCommands, SamePipes DEF Reading
    <3>2. Reached(a, s)'
      BY <2>1, <2>2 DEF Reading, Reached
    <3>3. CommandRead(s)' /\ RedirectionsRead(a)'
      BY <2>1, <2>2, SameLine DEF Reading, CommandRead, RedirectionsRead
    <3> QED  BY <3>1, <3>2, <3>3 DEF Reading
  <2>4. ReadInv'
    BY <2>2, <2>3 DEF MeaningInv, ReadInv
  <2>5. ParsesAsWritten'
    BY <1>1, <2>1, <2>2, SameVerdict, SameMeaning
    DEF MeaningInv, ParsesAsWritten, ParserInv, OrderInv
  <2> QED  BY <1>1, <2>4, <2>5 DEF MeaningInv
<1>3. ASSUME result = "parsing", Next  PROVE MeaningInv'
  <2>1. PICK a \in 1..(pos + 1), s \in 1..(pos + 1) : Reading(a, s)
    BY <1>3 DEF MeaningInv, ReadInv
  <2>2. ASSUME result' = "parsing", NEW x \in 1..(pos' + 1), NEW y \in 1..(pos' + 1), Reading(x, y)'
        PROVE  MeaningInv'
    <3>1. ReadInv'
      BY <2>2 DEF ReadInv
    <3>2. ParsesAsWritten'
      BY <2>2 DEF ParsesAsWritten
    <3> QED  BY <1>1, <3>1, <3>2 DEF MeaningInv
  <2>3. ASSUME line' = line, result' = Verdict, result' # "parsing",
               result' = "parsed" => Meant(pipes')
        PROVE  MeaningInv'
    <3>1. ReadInv'
      BY <2>3 DEF ReadInv
    <3>2. (result = Verdict)' /\ (result = "parsed" => Meant(pipes) /\ PipesInOrder(pipes))'
      BY <1>1, <2>3, SameVerdict, SameMeaning DEF ParserInv, OrderInv
    <3>3. ParsesAsWritten'
      BY <3>2 DEF ParsesAsWritten
    <3> QED  BY <1>1, <3>1, <3>3 DEF MeaningInv
  <2>4. CASE command_WORD
    <3>1. result' = "parsing"
      BY <1>3, <2>4 DEF command_WORD
    <3> QED  BY <1>1, <2>1, <2>2, <2>4, <3>1, ReadWord
  <2>5. CASE redirection
    <3>1. result' = "parsing"
      BY <1>3, <2>5 DEF redirection
    <3> QED  BY <1>1, <2>1, <2>2, <2>5, <3>1, ReadRedirection
  <2>6. CASE redirection_WORD
    <3>1. result' = "parsing"
      BY <1>3, <2>6 DEF redirection_WORD
    <3> QED  BY <1>1, <2>1, <2>2, <2>6, <3>1, ReadTarget
  <2>7. CASE pipeline_bar
    <3>1. result' = "parsing"
      BY <1>3, <2>7 DEF pipeline_bar
    <3>2. PICK z \in 1..(pos' + 1) : Reading(a, z)' /\ a \in 1..(pos' + 1)
      BY <1>1, <2>1, <2>7, ReadBar
    <3> QED  BY <2>2, <3>1, <3>2
  <2>8. CASE redirection_Error \/ command_Error \/ bar_Error
    <3>1. line' = line /\ result' = "error"
      BY <2>8 DEF redirection_Error, command_Error, bar_Error, Stop
    <3>2. Verdict = "error"
      BY <1>1, <2>1, <2>8, MissingWord, WrongCommand, MisplacedBar
    <3> QED  BY <2>3, <3>1, <3>2
  <2>9. CASE cmd_list_Abort
    <3>1. line' = line /\ result' = "aborted"
      BY <2>9 DEF cmd_list_Abort, Stop
    <3>2. Verdict = "aborted"
      BY <1>1, <2>1, <2>9, Aborts
    <3> QED  BY <2>3, <3>1, <3>2
  <2>10. CASE pipeline_complete \/ cmd_list_separator
    <3>1. separator /\ st' = "list" /\ commands' = <<>> /\ command' = init_cmd
      <4>1. cmd_list_separator => st' = "list" /\ commands' = <<>> /\ command' = init_cmd
        BY <1>1 DEF cmd_list_separator, In, ParserInv, ListInv
      <4> QED  BY <2>10, <4>1 DEF pipeline_complete, cmd_list_separator
    <3>2. pos \in Nat
      BY <1>1, LineFacts
    <3>3. CASE lookahead = "end"
      <4>1. line' = line /\ result' = "parsed"
        BY <1>1, <3>1, <3>3, SeparatorRead
      <4>2. Verdict = "parsed" /\ Meant(pipes')
        BY <1>1, <2>1, <2>10, <3>3, ListAccepted, PipeAccepted
      <4> QED  BY <2>3, <4>1, <4>2
    <3>4. CASE lookahead # "end"
      <4>1. line' = line /\ pos' = pos + 1 /\ IsSep(pos + 1) /\ result' = "parsing"
        BY <1>1, <1>3, <3>1, <3>4, SeparatorRead
      <4>2. PICK z \in Nat : z = pos + 2
        BY <3>2
      <4>3. PipesRead(z)'
        BY <1>1, <2>1, <2>10, <3>4, <4>2, GapRead, PipeRead
      <4>4. Reading(z, z)' /\ z \in 1..(pos' + 1)
        BY <3>1, <3>2, <4>1, <4>2, <4>3, NewPart
      <4> QED  BY <2>2, <4>1, <4>4
    <3> QED  BY <3>3, <3>4
  <2>11. CASE Done
    BY <1>3, <2>11 DEF Done
  <2> QED
    BY <1>3, <2>4, <2>5, <2>6, <2>7, <2>8, <2>9, <2>10, <2>11 DEF Next
<1>4. ASSUME result # "parsing", Next  PROVE UNCHANGED vars
  <2>1. ~In("list") /\ ~In("bar") /\ ~In("command") /\ ~In("redirection")
    BY <1>4 DEF In
  <2> QED
    BY <1>4, <2>1
    DEF Next, command_WORD, redirection, redirection_WORD, redirection_Error, pipeline_bar,
        command_Error, bar_Error, pipeline_complete, cmd_list_separator, cmd_list_Abort, Done
<1> QED  BY <1>2, <1>3, <1>4

\* Between any two tokens, the pipelines are the parts behind the last separator, the
\* commands are those between the bars of the part in progress, and nothing is wrong with
\* them; when the parser stops, it has done what the line as a whole asks for.
THEOREM MeaningInvariance == Spec => []MeaningInv
BY MeaningInit, MeaningStep, PTL DEF Spec

\* The parser accepts the lines that are well formed and no others, and of an accepted line
\* each pipeline is one part between two separators, with the commands, the arguments, the
\* redirections and the mark that are written there; it aborts for a leading "&".
THEOREM AsWritten == Spec => []ParsesAsWritten
<1>1. MeaningInv => ParsesAsWritten
  BY DEF MeaningInv
<1> QED  BY <1>1, MeaningInvariance, PTL
=============================================================================

----------------------------- MODULE EshGrammar -----------------------------
(***************************************************************************)
(* The command line parser of esh (src/esh-grammar.y, and the constructors *)
(* in src/esh-utils.c that its rules call), one step for each token, as    *)
(* the LALR parser takes its rules once it has seen the next token. A word *)
(* is the position it has in the line; NULL is position 0.                 *)
(***************************************************************************)
EXTENDS SequencesExt

CONSTANT MaxTokens   \* BOUND: the tokens of a line

ASSUME GrammarAssumption == MaxTokens \in Nat

RedirOp == {"<", ">", ">>"}
Token   == {"WORD", "|", ";", "&"} \cup RedirOp
NULL    == 0

VARIABLES
  line,     \* the tokens of the line
  pos,      \* how many of them the parser has shifted
  st,       \* what it is in: the list, behind a "|", in a command, behind a redirection
  op,       \* the redirection operator it is behind
  sep,      \* the separator behind cmd_list, or "none"
  pipes,    \* cmd_list: the pipelines of the command line
  commands, \* the commands of the pipeline in progress
  command,  \* the cmd_helper of the command in progress
  result    \* "parsing", "parsed", "error" (YYABORT: the parser returns NULL), "aborted"

vars == <<line, pos, st, op, sep, pipes, commands, command, result>>

Position == 0..MaxTokens
Command  == [argv : Seq(Position), iored_input : Position, iored_output : Position,
             append_to_output : BOOLEAN]
Pipeline == [commands : Seq(Command), bg_job : BOOLEAN, iored_input : Position,
             iored_output : Position, append_to_output : BOOLEAN]

TypeOK ==
  /\ line \in BoundedSeq(Token, MaxTokens)
  /\ pos \in 0..Len(line)
  /\ st \in {"list", "bar", "command", "redirection"} /\ op \in RedirOp
  /\ sep \in {"none", ";", "&"}
  /\ pipes \in Seq(Pipeline) /\ commands \in Seq(Command) /\ command \in Command
  /\ result \in {"parsing", "parsed", "error", "aborted"}

init_cmd == [argv |-> <<>>, iored_input |-> NULL, iored_output |-> NULL, append_to_output |-> FALSE]

Init ==
  /\ line \in BoundedSeq(Token, MaxTokens) /\ pos = 0
  /\ st = "list" /\ op = "<" /\ sep = "none"
  /\ pipes = <<>> /\ commands = <<>> /\ command = init_cmd
  /\ result = "parsing"

\* The next token, or "end".
lookahead == IF pos < Len(line) THEN line[pos + 1] ELSE "end"

In(s) == st = s /\ result = "parsing"

shift == pos' = pos + 1 /\ UNCHANGED line

\* p_error and YYABORT, or an assertion of list_back.
Stop(r) == result' = r /\ UNCHANGED <<line, pos, st, op, sep, pipes, commands, command>>

-----------------------------------------------------------------------------
(***************************************************************************)
(* command, input, output                                                  *)
(***************************************************************************)

\* command: WORD, command: command WORD
command_WORD ==
  /\ \/ In("list") \/ In("bar") \/ In("command")
  /\ lookahead = "WORD"
  /\ shift
  /\ st' = "command"
  /\ command' = [command EXCEPT !.argv = Append(@, pos')]
  /\ UNCHANGED <<op, sep, pipes, commands, result>>

\* "<", ">" or ">>": the word comes next.
redirection ==
  /\ \/ In("list") \/ In("bar") \/ In("command")
  /\ lookahead \in RedirOp
  /\ shift
  /\ st' = "redirection" /\ op' = lookahead
  /\ UNCHANGED <<sep, pipes, commands, command, result>>

\* A second output redirection takes the place of the first.
ambiguous_InputOnly == op = "<" /\ command.iored_input # NULL
\* Errors: MISRED for what is no word, AMBINP and AMBOUT for a second one of its kind.
ambiguous == IF op = "<" THEN command.iored_input # NULL ELSE command.iored_output # NULL

redirection_WORD ==
  /\ In("redirection") /\ lookahead = "WORD" /\ ~ambiguous
  /\ shift
  /\ st' = "command"
  /\ command' = IF op = "<" THEN [command EXCEPT !.iored_input = pos']
                ELSE [command EXCEPT !.iored_output = pos', !.append_to_output = (op = ">>")]
  /\ UNCHANGED <<op, sep, pipes, commands, result>>

redirection_Error ==
  /\ In("redirection") /\ (lookahead # "WORD" \/ ambiguous)
  /\ Stop("error")

-----------------------------------------------------------------------------
(***************************************************************************)
(* pipeline                                                                *)
(***************************************************************************)

\* A command without a word is let through.
command_wrong_NoArgv ==
  commands # <<>> /\ (Last(commands).iored_output # NULL \/ command.iored_input # NULL)
\* The second command of a pipeline may have an input redirection.
command_wrong_NoAmbinp ==
  command.argv = <<>> \/ (commands # <<>> /\ Last(commands).iored_output # NULL)
\* The command is complete. Errors: AMBOUT, AMBINP, INVNUL.
command_wrong ==
  \/ commands # <<>> /\ (Last(commands).iored_output # NULL \/ command.iored_input # NULL)
  \/ command.argv = <<>>

\* pipeline: command, pipeline: pipeline '|' command, and '|' behind it
pipeline_bar ==
  /\ In("command") /\ lookahead = "|" /\ ~command_wrong
  /\ shift
  /\ st' = "bar"
  /\ commands' = Append(commands, command) /\ command' = init_cmd
  /\ UNCHANGED <<op, sep, pipes, result>>

command_Error ==
  /\ In("command") /\ lookahead \in {"|", ";", "&", "end"} /\ command_wrong
  /\ Stop("error")

\* pipeline: '|' error, pipeline: pipeline '|' error
bar_Error ==
  /\ \/ In("list") /\ lookahead = "|"
     \/ In("bar") /\ lookahead \in {"|", ";", "&", "end"}
  /\ Stop("error")

-----------------------------------------------------------------------------
(***************************************************************************)
(* cmd_list, cmd_line                                                      *)
(***************************************************************************)

\* The redirections of the pipeline are those of its first and its last command.
esh_pipeline_finish(c) ==
  [commands |-> c, bg_job |-> FALSE, iored_input |-> Head(c).iored_input,
   iored_output |-> Last(c).iored_output, append_to_output |-> Last(c).append_to_output]

\* cmd_list is reduced: a "&" in front of a pipeline marks the one before it.
mark_last(ps) == IF sep = "&" THEN [ps EXCEPT ![Len(ps)].bg_job = TRUE] ELSE ps
no_last == sep = "&" /\ pipes = <<>>   \* list_back on the empty list

\* The separator is shifted, or the line is complete.
separator ==
  /\ lookahead \in {";", "&", "end"}
  /\ IF lookahead = "end" THEN result' = "parsed" /\ UNCHANGED <<line, pos, sep>>
     ELSE shift /\ sep' = lookahead /\ UNCHANGED result

\* The mark is set when the list is complete with the new pipeline.
cmd_list_pipeline_Late(p) == mark_last(Append(pipes, p))
cmd_list_pipeline(p) == Append(mark_last(pipes), p)

\* cmd_list: pipeline, cmd_list: cmd_list ';' pipeline, cmd_list: cmd_list '&' pipeline
pipeline_complete ==
  /\ In("command") /\ ~command_wrong /\ ~no_last
  /\ separator
  /\ pipes' = cmd_list_pipeline(esh_pipeline_finish(Append(commands, command)))
  /\ st' = "list" /\ commands' = <<>> /\ command' = init_cmd
  /\ UNCHANGED op

\* cmd_list: /* Null Command */, cmd_list: cmd_list ';', cmd_list: cmd_list '&'
cmd_list_separator ==
  /\ In("list") /\ ~no_last
  /\ separator
  /\ pipes' = mark_last(pipes)
  /\ UNCHANGED <<st, op, commands, command>>

cmd_list_Abort ==
  /\ \/ In("list")
     \/ In("command") /\ ~command_wrong
  /\ lookahead \in {";", "&", "end"} /\ no_last
  /\ Stop("aborted")

Done == result # "parsing" /\ UNCHANGED vars

Next ==
  \/ command_WORD \/ redirection \/ redirection_WORD \/ redirection_Error
  \/ pipeline_bar \/ command_Error \/ bar_Error
  \/ pipeline_complete \/ cmd_list_separator \/ cmd_list_Abort \/ Done

Spec == Init /\ [][Next]_vars

-----------------------------------------------------------------------------
(***************************************************************************)
(* The reference: what a line means, by where its separators are.          *)
(***************************************************************************)

IsSep(i) == line[i] \in {";", "&"}

\* The tokens a..b between two separators.
IsPart(a, b) ==
  /\ a <= b /\ \A i \in a..b : ~IsSep(i)
  /\ a = 1 \/ IsSep(a - 1)
  /\ b = Len(line) \/ IsSep(b + 1)
Parts == {q \in (DOMAIN line) \X (DOMAIN line) : IsPart(q[1], q[2])}

\* In them the tokens s..e, perhaps none, between two bars.
IsSpan(a, b, s, e) ==
  /\ a <= s /\ s <= e + 1 /\ e <= b /\ \A i \in s..e : line[i] # "|"
  /\ s = a \/ line[s - 1] = "|"
  /\ e = b \/ line[e + 1] = "|"
Spans(a, b) == {r \in (a..(b + 1)) \X ((a - 1)..b) : IsSpan(a, b, r[1], r[2])}

Targets(ops, s, e) == {i \in (s + 1)..e : line[i] = "WORD" /\ line[i - 1] \in ops}
Argv(s, e) == {i \in s..e : line[i] = "WORD"} \ Targets(RedirOp, s, e)

\* What they say: the arguments of a command, the redirections of a command or a pipeline.
Redirected(x, s, e) ==
  /\ {x.iored_input} \ {NULL} = Targets({"<"}, s, e)
  /\ {x.iored_output} \ {NULL} = Targets({">", ">>"}, s, e)
  /\ x.append_to_output <=> Targets({">>"}, s, e) # {}
SaysCommand(c, s, e) == Range(c.argv) = Argv(s, e) /\ Redirected(c, s, e)
SaysPipeline(p, a, b) ==
  /\ \A k \in DOMAIN p.commands : \E r \in Spans(a, b) : SaysCommand(p.commands[k], r[1], r[2])
  /\ \A r \in Spans(a, b) : \E k \in DOMAIN p.commands : SaysCommand(p.commands[k], r[1], r[2])
  /\ Redirected(p, a, b)

\* An "&" in the gap behind the pipeline, empty commands included.
Background(b) ==
  \E i \in (b + 1)..Len(line) : line[i] = "&" /\ \A k \in (b + 1)..i : IsSep(k)

\* No argument, an operator without a word, a redirection too many or in the wrong place.
Malformed(s, e, first, last) ==
  \/ Argv(s, e) = {}
  \/ \E i \in s..e : line[i] \in RedirOp /\ (i = e \/ line[i + 1] # "WORD")
  \/ \E i, j \in Targets({"<"}, s, e) : i # j \/ ~first
  \/ \E i, j \in Targets({">", ">>"}, s, e) : i # j \/ ~last
MalformedPart(a, b) == \E r \in Spans(a, b) : Malformed(r[1], r[2], r[1] = a, r[2] = b)

\* An "&" before any pipeline, with nothing wrong in the one behind it.
AmpFirst ==
  \E i \in DOMAIN line :
    /\ line[i] = "&" /\ \A k \in 1..i : IsSep(k)
    /\ \A q \in Parts : q[1] = i + 1 => ~MalformedPart(q[1], q[2])

Verdict == IF AmpFirst THEN "aborted"
           ELSE IF \E q \in Parts : MalformedPart(q[1], q[2]) THEN "error" ELSE "parsed"

\* One pipeline for each part.
Meant(ps) ==
  /\ \A k \in DOMAIN ps : \E q \in Parts :
       SaysPipeline(ps[k], q[1], q[2]) /\ (ps[k].bg_job <=> Background(q[2]))
  /\ \A q \in Parts : \E k \in DOMAIN ps :
       SaysPipeline(ps[k], q[1], q[2]) /\ (ps[k].bg_job <=> Background(q[2]))

-----------------------------------------------------------------------------
(***************************************************************************)
(* Properties.                                                             *)
(***************************************************************************)

\* The words of a command, of a pipeline's commands and of pipelines, and their order.
Redirections(x) == {x.iored_input, x.iored_output} \ {NULL}
CommandWords(c) == Range(c.argv) \cup Redirections(c)
Words(cs) == UNION {CommandWords(cs[i]) : i \in DOMAIN cs}
AllWords(ps) == UNION {Words(ps[k].commands) : k \in DOMAIN ps}

AllBefore(S, T) == \A i \in S, j \in T : i < j
CommandInOrder(c) ==
  /\ \A a, b \in DOMAIN c.argv : a < b => c.argv[a] < c.argv[b]
  /\ Range(c.argv) \cap Redirections(c) = {}
  /\ c.iored_input = c.iored_output => c.iored_input = NULL
InOrderOfLine(cs) ==
  /\ \A i \in DOMAIN cs : CommandInOrder(cs[i])
  /\ \A i, k \in DOMAIN cs : i < k => AllBefore(CommandWords(cs[i]), CommandWords(cs[k]))
PipesInOrder(ps) ==
  /\ \A k \in DOMAIN ps : InOrderOfLine(ps[k].commands)
  /\ \A j, k \in DOMAIN ps : j < k => AllBefore(Words(ps[j].commands), Words(ps[k].commands))

\* The parser accepts the lines that are well formed, makes of them the pipelines that were
\* written, each in the background if an "&" follows it, rejects the others, and fails
\* the assertion of list_back for an "&" without a pipeline and for no other line. (Since
\* no word is in two commands and each command has one, the order leaves a single choice.)
ParsesAsWritten ==
  result # "parsing" =>
    /\ result = Verdict
    /\ result = "parsed" => Meant(pipes) /\ PipesInOrder(pipes)

\* What the rest of esh takes for granted: a pipeline has a command, a command a
\* word (argv[0] is compared and executed), and only the first command reads a file and
\* only the last writes one, because the redirection is made before the pipe is put over it.
Fit(cs) ==
  \A i \in DOMAIN cs :
    /\ cs[i].argv # <<>>
    /\ cs[i].iored_input # NULL => i = 1
    /\ cs[i].iored_output # NULL => i = Len(cs)

FitForExecution ==
  result = "parsed" => \A k \in DOMAIN pipes : pipes[k].commands # <<>> /\ Fit(pipes[k].commands)

\* The redirections of a pipeline (esh.h:34) are those of its commands. io_redirection opens what
\* the commands say; the pipeline's own are for others to read.
RedirectionsKept(p) ==
  Redirections(p) = UNION {Redirections(p.commands[i]) : i \in DOMAIN p.commands}

\* Of a line that is accepted no word gets lost, is used twice or changes places: each is an
\* argument of one command or one of its redirections, and commands and arguments come in the
\* order of the line.
NoWordLost ==
  result = "parsed" =>
    /\ AllWords(pipes) = {i \in DOMAIN line : line[i] = "WORD"}
    /\ PipesInOrder(pipes)
    /\ \A k \in DOMAIN pipes : RedirectionsKept(pipes[k])

-----------------------------------------------------------------------------
(***************************************************************************)
(* The inductive invariant behind FitForExecution and NoWordLost: what     *)
(* they say holds of the pipelines, the commands and the command collected *)
(* so far, and these follow one another on the line.                       *)
(***************************************************************************)

FitInv ==
  /\ Fit(commands)
  /\ \A k \in DOMAIN pipes : /\ pipes[k].commands # <<>> /\ Fit(pipes[k].commands)
                             /\ RedirectionsKept(pipes[k])

OrderInv ==
  /\ PipesInOrder(pipes) /\ InOrderOfLine(commands) /\ CommandInOrder(command)
  /\ AllBefore(AllWords(pipes), Words(commands) \cup CommandWords(command))
  /\ AllBefore(Words(commands), CommandWords(command))

WordsInv ==
  AllWords(pipes) \cup Words(commands) \cup CommandWords(command)
    = {i \in 1..pos : line[i] = "WORD"}

\* Between pipelines nothing is in progress.
ListInv ==
  /\ st = "list" => commands = <<>> /\ command = init_cmd
  /\ result = "parsed" => st = "list" /\ pos = Len(line)

ParserInv == TypeOK /\ FitInv /\ OrderInv /\ WordsInv /\ ListInv

-----------------------------------------------------------------------------
(***************************************************************************)
(* The inductive invariant behind ParsesAsWritten: what it says, of the    *)
(* part of the line that has been read.                                    *)
(***************************************************************************)

\* The part in progress begins at a, the command in it at s.
Reached(a, s) ==
  /\ a <= s /\ s <= pos + 1
  /\ a = 1 \/ IsSep(a - 1)
  /\ s = a \/ line[s - 1] = "|"
  /\ \A i \in a..pos : ~IsSep(i)
  /\ \A i \in s..pos : line[i] # "|"
  /\ st = "list" <=> a = pos + 1
  /\ st = "bar"  <=> s = pos + 1 /\ a < s
  /\ st = "command" => line[pos] = "WORD"
  /\ st = "redirection" => line[pos] = op

\* The operator before i has its word.
Worded(s, e) == \A i \in s..e : line[i] \in RedirOp => i < e /\ line[i + 1] = "WORD"

CommandRead(s) ==
  /\ SaysCommand(command, s, pos)
  /\ \A e \in {IF st = "redirection" THEN pos - 1 ELSE pos} : Worded(s, e)

\* A command of the part in progress, complete with the bar behind it.
Complete(a, s, t, e) ==
  /\ a <= t /\ t <= e + 1 /\ e + 2 <= s /\ \A i \in t..e : line[i] # "|"
  /\ t = a \/ line[t - 1] = "|"
  /\ line[e + 1] = "|"
IsCommand(k, a, s, t, e) ==
  /\ SaysCommand(commands[k], t, e) /\ Worded(t, e)
  /\ k = 1 <=> t = a
  /\ k = Len(commands) <=> e + 2 = s

CommandsRead(a, s) ==
  /\ commands = <<>> <=> s = a
  /\ \A k \in DOMAIN commands : \E t \in a..s, e \in 0..s :
       Complete(a, s, t, e) /\ IsCommand(k, a, s, t, e)
  /\ \A t \in a..s, e \in 0..s : Complete(a, s, t, e) =>
       \E k \in DOMAIN commands : IsCommand(k, a, s, t, e)

Inputs(cs)  == {cs[k].iored_input : k \in DOMAIN cs} \ {NULL}
Outputs(cs) == {cs[k].iored_output : k \in DOMAIN cs} \ {NULL}
RedirectionsRead(a) ==
  /\ Targets({"<"}, a, pos) = Inputs(Append(commands, command))
  /\ Targets({">", ">>"}, a, pos) = Outputs(Append(commands, command))

\* The last pipeline gets its mark late, when sep has been acted upon.
Marked(k, b, a) ==
  IF k < Len(pipes) THEN pipes[k].bg_job <=> Background(b)
  ELSE /\ \A i \in (b + 1)..(a - 1) : IsSep(i)
       /\ pipes[k].bg_job <=> \E i \in (b + 1)..(a - 2) : line[i] = "&"
IsPipeline(k, x, y, a) == SaysPipeline(pipes[k], x, y) /\ Marked(k, y, a)

PipesRead(a) ==
  /\ sep = IF a = 1 THEN "none" ELSE line[a - 1]
  /\ \A k \in DOMAIN pipes : \E q \in Parts : q[2] + 2 <= a /\ IsPipeline(k, q[1], q[2], a)
  /\ \A q \in Parts : q[2] + 2 <= a =>
       ~MalformedPart(q[1], q[2]) /\ \E k \in DOMAIN pipes : IsPipeline(k, q[1], q[2], a)
  /\ pipes = <<>> => \A i \in 1..(a - 1) : IsSep(i) /\ (i = a - 1 \/ line[i] # "&")
  /\ pipes # <<>> => \E i \in 1..(a - 1) : ~IsSep(i) /\ \A j \in 1..(i - 1) : line[j] # "&"

Reading(a, s) ==
  /\ Reached(a, s)
  /\ CommandRead(s) /\ CommandsRead(a, s) /\ RedirectionsRead(a)
  /\ PipesRead(a)

ReadInv == result = "parsing" => \E a, s \in 1..(pos + 1) : Reading(a, s)

MeaningInv == ParserInv /\ ReadInv /\ ParsesAsWritten
=============================================================================

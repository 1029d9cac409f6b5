------------------------------ MODULE EshList ------------------------------
(***************************************************************************)
(* The job list of esh with its pointers. main inserts a pipeline in       *)
(* job_list by the four stores of list_insert, and traverses job_list in   *)
(* jobs, fg, bg, kill and stop; the SIGCHLD handler removes elements       *)
(* between any two of those steps unless SIGCHLD is blocked. The element   *)
(* of a pipeline is the one by which it hung in cline->pipes before.       *)
(*                                                                         *)
(* The handler runs on main's stack: it is one step, and so is what main   *)
(* does while SIGCHLD is blocked and nobody else could look.               *)
(***************************************************************************)
EXTENDS List

CONSTANTS
  Job,       \* the pipelines, all of programs
  job_head, job_tail,     \* job_list
  pipes_head, pipes_tail, \* cline->pipes
  MaxLine    \* BOUND: a command line has at most MaxLine pipelines

ASSUME ListAssumption ==
  /\ Elem = Job
  /\ Sentinel = {job_head, job_tail, pipes_head, pipes_tail}
  /\ IsInjective(<<job_head, job_tail, pipes_head, pipes_tail>>)
  /\ MaxLine \in Nat

VARIABLES
  l,        \* the links of the elements and of the heads and tails
  pc,       \* what main does next
  e,        \* main's p in the launch, e in a traversal
  blocked,  \* SIGCHLD is blocked
  state,    \* state[j]: what has become of the first process of j
  visited,  \* the elements that the traversal has come across
  present   \* the jobs in the list when it began

vars == <<l, pc, e, blocked, state, visited, present>>

job_list == Order(l, job_head)
pipes    == Order(l, pipes_head)
Inserting == pc \in {"prev", "next", "link", "back"}
Walking   == pc \in {"test", "advance"}

TypeOK ==
  /\ l \in Links
  /\ pc \in {"prompt", "parse", "loop", "pop", "prev", "next", "link", "back", "post", "wait",
             "test", "advance", "aborted"}
  /\ e \in Node
  /\ blocked \in BOOLEAN
  /\ state \in [Job -> {"new", "running", "exited", "killed", "gone"}]
  /\ visited \in Seq(Job) /\ present \in Seq(Job)

Init ==
  /\ l = list_init(list_init(Unlinked, job_head, job_tail), pipes_head, pipes_tail)
  /\ pc = "prompt" /\ e = job_tail
  /\ blocked = FALSE
  /\ state = [j \in Job |-> "new"]
  /\ visited = <<>> /\ present = <<>>

Goto(from, to) == pc = from /\ pc' = to
Shell  == UNCHANGED <<blocked, state>>
Ghosts == UNCHANGED <<visited, present>>

-----------------------------------------------------------------------------
(***************************************************************************)
(* The read/eval loop and the launch.                                      *)
(***************************************************************************)

ReadLine ==
  /\ Goto("prompt", "parse")
  /\ UNCHANGED <<l, e>> /\ Shell /\ Ghosts

\* The parser hangs a pipeline of the line in cline->pipes.
cmd_list_pipeline(j) ==
  /\ pc = "parse" /\ state[j] = "new" /\ ~Contains(pipes, j)
  /\ Len(pipes) < MaxLine
  /\ l' = list_push_back(l, pipes_tail, j)
  /\ UNCHANGED <<pc, e>> /\ Shell /\ Ghosts

esh_parse_command_line ==
  /\ Goto("parse", "loop")
  /\ UNCHANGED <<l, e>> /\ Shell /\ Ghosts

EndOfLine ==
  /\ Goto("loop", "prompt")
  /\ list_empty(l, pipes_head, pipes_tail)
  /\ UNCHANGED <<l, e>> /\ Shell /\ Ghosts

\* The pipeline would stay in cline->pipes (the loop that main has in a comment).
pop_pipeline_Keep ==
  /\ e' = list_begin(l, pipes_head)
  /\ UNCHANGED l
pop_pipeline ==
  /\ e' = list_begin(l, pipes_head)
  /\ l' = list_remove(l, e')

NextPipeline ==
  /\ Goto("loop", "pop")
  /\ ~list_empty(l, pipes_head, pipes_tail)
  /\ pop_pipeline
  /\ Shell /\ Ghosts

\* esh_signal_block(SIGCHLD) left out.
no_block == UNCHANGED blocked
esh_signal_block == blocked' = TRUE

pipeline_process ==
  /\ Goto("pop", "prev")
  /\ esh_signal_block
  /\ state' = [state EXCEPT ![e] = "running"]
  /\ UNCHANGED <<l, e>> /\ Ghosts

\* list_push_back(&job_list, p)
Store(from, to, l2) ==
  /\ Goto(from, to)
  /\ l' = l2
  /\ UNCHANGED e /\ Shell /\ Ghosts
insert_prev == Store("prev", "next", store_prev(l, job_tail, e))
insert_next == Store("next", "link", store_next(l, job_tail, e))
insert_link == Store("link", "back", store_link(l, job_tail, e))
insert_back == Store("back", "post", store_back(l, job_tail, e))

\* In the background SIGCHLD is unblocked at once.
pipeline_post_process ==
  /\ \/ Goto("post", "loop") /\ blocked' = FALSE
     \/ Goto("post", "wait") /\ UNCHANGED blocked
  /\ UNCHANGED <<l, e, state>> /\ Ghosts

\* The job of a process that has ended: after SIGKILL the element is removed twice.
child_status_change(j) ==
  /\ state[j] \in {"exited", "killed"}
  /\ state' = [state EXCEPT ![j] = "gone"]
  /\ LET once == list_remove(l, j) IN
     l' = CASE ~Contains(job_list, j)  -> l
            [] state[j] = "exited"     -> once
            [] state[j] = "killed"     -> list_remove(once, j)

\* list_remove asserts that its element is in the middle of a list, both times.
removable(j) ==
  Contains(job_list, j) => /\ is_interior(l, j)
                           /\ state[j] = "killed" => is_interior(list_remove(l, j), j)

wait_for_job ==
  /\ pc = "wait"
  /\ \E j \in Job : /\ child_status_change(j)
                    /\ pc' = IF removable(j) THEN "loop" ELSE "aborted"
  /\ blocked' = FALSE
  /\ UNCHANGED e /\ Ghosts

\* The status of a process that was stopped, or that is not the first of its job.
wait_for_job_Other ==
  /\ Goto("wait", "loop")
  /\ blocked' = FALSE
  /\ UNCHANGED <<l, e, state>> /\ Ghosts

-----------------------------------------------------------------------------
(***************************************************************************)
(* for (e = list_begin(&job_list); e != list_end(&job_list);               *)
(*      e = list_next(e)) ...                                              *)
(***************************************************************************)

jobs_execute ==
  /\ Goto("loop", "test")
  /\ e' = list_begin(l, job_head)
  /\ visited' = <<>> /\ present' = job_list
  /\ UNCHANGED l /\ Shell

walk_end ==
  /\ Goto("test", "loop")
  /\ e = job_tail
  /\ UNCHANGED <<l, e>> /\ Shell /\ Ghosts

\* visited is cut off (BOUND) behind the first repetition there must be.
walk_visit ==
  /\ Goto("test", "advance")
  /\ e # job_tail
  /\ visited' = IF Len(visited) > Cardinality(Job) THEN visited ELSE Append(visited, e)
  /\ UNCHANGED <<l, e, present>> /\ Shell

\* The wrong way round.
advance_Backwards == e' = l.prev[e]
advance == e' = l.next[e]

list_next ==
  /\ pc = "advance"
  /\ pc' = IF is_head(l, e) \/ is_interior(l, e) THEN "test" ELSE "aborted"
  /\ advance
  /\ UNCHANGED l /\ Shell /\ Ghosts

-----------------------------------------------------------------------------
\* A first process ends.
End(j) ==
  /\ pc # "aborted"
  /\ state[j] = "running"
  /\ \E how \in {"exited", "killed"} : state' = [state EXCEPT ![j] = how]
  /\ UNCHANGED <<l, pc, e, blocked>> /\ Ghosts

sigchld_handler ==
  /\ ~blocked /\ pc # "aborted"
  /\ \E j \in Job : /\ child_status_change(j)
                    /\ pc' = IF removable(j) THEN pc ELSE "aborted"
  /\ UNCHANGED <<e, blocked>> /\ Ghosts

MainStep ==
  \/ esh_parse_command_line \/ EndOfLine \/ NextPipeline \/ pipeline_process
  \/ insert_prev \/ insert_next \/ insert_link \/ insert_back
  \/ pipeline_post_process \/ wait_for_job
  \/ walk_end \/ walk_visit \/ list_next

\* The user types nothing, or the shell is gone.
Idle == pc \in {"prompt", "aborted"} /\ UNCHANGED vars

Next ==
  \/ ReadLine \/ \E j \in Job : cmd_list_pipeline(j)
  \/ MainStep \/ jobs_execute \/ wait_for_job_Other
  \/ sigchld_handler
  \/ \E j \in Job : End(j)
  \/ Idle

\* main goes on, and a SIGCHLD that is pending is delivered when it is unblocked.
\* What the user types, and what children do, is up to them.
Fairness == WF_vars(MainStep) /\ SF_vars(sigchld_handler)
Spec == Init /\ [][Next]_vars /\ Fairness

-----------------------------------------------------------------------------
(***************************************************************************)
(* Properties.                                                             *)
(***************************************************************************)

\* Both lists are sound, in both directions, whenever no insertion is under way,
\* and nothing hangs in two lists (list_insert, list_remove, list_pop_front and the
\* handler among them).
RingIntact ==
  /\ ~Inserting => IsList(l, job_head, job_tail)
  /\ IsList(l, pipes_head, pipes_tail)
  /\ ToSet(job_list) \cap ToSet(pipes) = {}

\* A traversal, whatever the handler removes under its hands, comes across every
\* job that is still there when it ends, once and in order, comes across none that
\* was not there when it began, and no assertion of list_next or list_remove fails.
WalkVisitsJobs ==
  /\ pc # "aborted"
  /\ Walking => \A a, b \in DOMAIN visited : a < b =>
       \E i, k \in DOMAIN present : i < k /\ visited[a] = present[i] /\ visited[b] = present[k]
  /\ Walking => ToSet(visited) \subseteq ToSet(present)
  /\ pc = "test" /\ e = job_tail => \A j \in ToSet(job_list) : Contains(visited, j)

\* A traversal ends, as removed elements lead back into the list.
WalkEnds == Walking ~> ~Walking

\* The pointers implement the list that JobTable promises.
Table == INSTANCE JobTable WITH
  state  <- [j \in Job |-> IF state[j] \in {"exited", "killed"} THEN "ended" ELSE state[j]],
  listed <- job_list,
  open   <- pc # "aborted"
ImplementsJobTable == Table!Spec

\* Its safety part: no step of an insertion or a removal does what JobTable forbids.
KeepsJobTable == Table!Safety

-----------------------------------------------------------------------------
(***************************************************************************)
(* The inductive invariant behind RingIntact, WalkVisitsJobs and           *)
(* KeepsJobTable.                                                          *)
(***************************************************************************)

Listed(j)  == Contains(job_list, j)
Hanging(j) == Contains(pipes, j)

\* Behind the third store the new element is in the list, but for its way back.
RingInv ==
  /\ job_list \in Seq(Job) /\ pipes \in Seq(Job)
  /\ pc # "back" => IsList(l, job_head, job_tail)
  /\ pc = "back" => Linked(store_back(l, job_tail, e), <<job_head>> \o job_list \o <<job_tail>>)
  /\ IsList(l, pipes_head, pipes_tail)
  /\ \A j \in Job : ~(Listed(j) /\ Hanging(j))

\* What the stores have written so far into e, which is in no list before the third.
StoreInv ==
  /\ pc \in {"pop", "prev", "next", "link"} => e \in Job /\ ~Listed(e) /\ ~Hanging(e)
  /\ pc = "back" => e \in Job
  /\ pc \in {"next", "link"} => l.prev[e] = l.prev[job_tail]
  /\ pc = "link" => l.next[e] = job_tail

\* A job is listed from its launch on, until the handler or the wait takes it out, and the
\* handler does not run in a launch.
StateInv ==
  /\ \A j \in Job :
       /\ Hanging(j) => state[j] = "new"
       /\ Listed(j) => state[j] \notin {"new", "gone"}
       /\ state[j] \notin {"new", "gone"} => Listed(j) \/ (pc \in {"prev", "next", "link"} /\ j = e)
  /\ pc = "pop" => state[e] = "new"
  /\ pc \in {"prev", "next", "link"} => state[e] \notin {"new", "gone"}
  /\ Inserting \/ pc \in {"post", "wait"} => blocked
  /\ pc # "aborted"

\* The traversal is on the way from present[1] to job_tail. Who was removed meanwhile still
\* points forward, past nobody who is in the list.
Way == Append(present, job_tail)
Leads(k, m) ==
  k < m /\ l.next[Way[k]] = Way[m] /\ \A i \in DOMAIN present : k < i /\ i < m => ~Listed(present[i])
WayInv ==
  Walking =>
    /\ present \in Seq(Job) /\ IsInjective(present)
    /\ \A j \in Job : Listed(j) => Contains(present, j)
    /\ \A k \in DOMAIN present : l.prev[present[k]] # NULL /\ \E m \in DOMAIN Way : Leads(k, m)

\* What lies behind: before the n-th element of Way, or up to it.
Behind(i, n) == IF pc = "test" THEN i < n ELSE i <= n
WalkInv ==
  Walking =>
    /\ \E n \in DOMAIN Way :
         /\ e = Way[n] /\ (pc = "advance" => n \in DOMAIN present)
         /\ \A i \in DOMAIN present : Behind(i, n) /\ Listed(present[i]) => Contains(visited, present[i])
         /\ \A a \in DOMAIN visited : \E i \in DOMAIN present : Behind(i, n) /\ visited[a] = present[i]
    /\ \A a, b \in DOMAIN visited : a < b =>
         \E i, k \in DOMAIN present : i < k /\ visited[a] = present[i] /\ visited[b] = present[k]

ListInv == TypeOK /\ RingInv /\ StoreInv /\ StateInv /\ WayInv /\ WalkInv
=============================================================================

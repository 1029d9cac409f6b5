----------------------------- MODULE EshPlugins -----------------------------
(***************************************************************************)
(* The plug-ins of esh: main's option loop, which for each -p loads the    *)
(* plug-ins of a directory and then sorts and initialises all of them      *)
(* (src/esh-utils.c), the merge sort that orders them in place             *)
(* (src/list.c), and the dispatch of commands to them (src/esh.c).         *)
(***************************************************************************)
EXTENDS List

CONSTANTS
  Plugin,      \* the plug-ins of all directories, each in one of them
  head, tail,  \* esh_plugin_list
  MaxRank,     \* BOUND: ranks are in 0..MaxRank
  HookSets     \* BOUND: a plug-in implements one of these sets of functions

ASSUME PluginAssumption ==
  /\ Elem = Plugin
  /\ Sentinel = {head, tail} /\ head # tail
  /\ MaxRank \in Nat
  /\ HookSets \subseteq SUBSET {"init", "make_prompt", "process_builtin"}

VARIABLES
  rank, hooks,      \* of each plug-in: its rank, and which of its functions are there
  l,                \* the links of esh_plugin_list
  pc,
  e,                \* the iterator of a loop over the list
  a0, a1b0, b1,     \* the runs list_sort is at
  output_run_cnt,
  isPlugin,         \* a plug-in has taken the command
  inits,            \* inits[p]: how often p was initialised
  notified,         \* the plug-ins called in the current walk, for a prompt or a command
  before,           \* the list as it was when list_sort was called, or loading began
  runs              \* the runs there were when the current pass began

sort   == <<a0, a1b0, b1, output_run_cnt>>
walk   == <<isPlugin, notified>>
ghosts == <<before, runs>>
vars   == <<rank, hooks, l, pc, e, sort, walk, inits, ghosts>>

TypeOK ==
  /\ rank \in [Plugin -> 0..MaxRank] /\ hooks \in [Plugin -> HookSets]
  /\ l \in Links
  /\ pc \in {"options", "load", "pass", "runs", "merge", "pass_end", "sorted", "init", "prompt",
             "fragments", "offer", "aborted", "crashed"}
  /\ {e, a0, a1b0, b1} \subseteq Node
  /\ output_run_cnt \in 0..Cardinality(Plugin)
  /\ isPlugin \in BOOLEAN
  /\ inits \in [Plugin -> Nat]
  /\ notified \in Seq(Plugin)
  /\ before \in Seq(Plugin) /\ runs \in Nat

Init ==
  /\ rank \in [Plugin -> 0..MaxRank]
  /\ hooks \in [Plugin -> HookSets]
  /\ l = list_init(Unlinked, head, tail)
  /\ pc = "options"
  /\ e = tail /\ a0 = tail /\ a1b0 = tail /\ b1 = tail
  /\ output_run_cnt = 0
  /\ inits = [p \in Plugin |-> 0]
  /\ isPlugin = FALSE /\ notified = <<>>
  /\ before = <<>> /\ runs = 0

Goto(from, to) == pc = from /\ pc' = to
esh_plugin_list == Order(l, head)
Constant == UNCHANGED <<rank, hooks>>

-----------------------------------------------------------------------------
(***************************************************************************)
(* -p directory                                                            *)
(***************************************************************************)

\* A directory is loaded once: the second list_push_back of an element would tear
\* the list. One without plug-ins comes first or not at all (BOUND).
opendir ==
  /\ Goto("options", "load")
  /\ esh_plugin_list = <<>> \/ \E p \in Plugin : ~Contains(esh_plugin_list, p)
  /\ before' = esh_plugin_list
  /\ Constant /\ UNCHANGED <<walk, l, e, sort, inits, runs>>

\* The next plug-in of the directory that can be loaded, as readdir has them.
load_plugin(p) ==
  /\ pc = "load" /\ ~Contains(esh_plugin_list, p)
  /\ l' = list_push_back(l, tail, p)
  /\ Constant /\ UNCHANGED <<walk, pc, e, sort, inits, ghosts>>

closedir ==
  /\ Goto("load", "pass")
  /\ esh_plugin_list = <<>> \/ Len(before) < Len(esh_plugin_list)
  /\ before' = esh_plugin_list
  /\ Constant /\ UNCHANGED <<walk, l, e, sort, inits, runs>>

\* The second e = list_begin(&esh_plugin_list) of the code as an e = list_next(e).
first_to_init_Skip ==
  e' = IF list_empty(l, head, tail) THEN tail ELSE l.next[list_begin(l, head)]
first_to_init == e' = list_begin(l, head)

esh_plugin_initialize ==
  /\ Goto("sorted", "init")
  /\ first_to_init
  /\ Constant /\ UNCHANGED <<walk, l, sort, inits, ghosts>>

init_plugin ==
  /\ pc = "init" /\ e # tail
  /\ inits' = [inits EXCEPT ![e] = IF "init" \in hooks[e] THEN @ + 1 ELSE @]
  /\ e' = l.next[e]
  /\ Constant /\ UNCHANGED <<walk, pc, l, sort, ghosts>>

NextOption ==
  /\ Goto("init", "options") /\ e = tail
  /\ Constant /\ UNCHANGED <<walk, l, e, sort, inits, ghosts>>

EndOfOptions ==
  /\ Goto("options", "prompt")
  /\ Constant /\ UNCHANGED <<walk, l, e, sort, inits, ghosts>>

-----------------------------------------------------------------------------
(***************************************************************************)
(* list_sort                                                               *)
(***************************************************************************)

\* sort_by_rank
less(p, q) == rank[p] < rank[q]

\* Elements from a to b, exclusive.
Between(a, b) ==
  LET s == esh_plugin_list
      at(x) == IF x = tail THEN Len(s) + 1 ELSE CHOOSE k \in DOMAIN s : s[k] = x
  IN  SubSeq(s, at(a), at(b) - 1)

InOrder(s) == \A k \in 1..(Len(s) - 1) : ~less(s[k + 1], s[k])
is_sorted(a, b) == InOrder(Between(a, b))

\* An element may not be followed by one of its own rank.
find_end_of_run_Strict(a, b) ==
  LET s == Between(a, b)
      ends == {k \in 2..Len(s) : ~less(s[k - 1], s[k])}
  IN  IF ends = {} THEN b ELSE s[CHOOSE k \in ends : \A i \in ends : k <= i]
find_end_of_run(a, b) ==
  LET s == Between(a, b)
      ends == {k \in 2..Len(s) : less(s[k], s[k - 1])}
  IN  IF ends = {} THEN b ELSE s[CHOOSE k \in ends : \A i \in ends : k <= i]

\* Runs of nondecreasing rank in s.
Runs(s) == IF s = <<>> THEN 0 ELSE 1 + Cardinality({k \in 2..Len(s) : less(s[k], s[k - 1])})

\* The count is set to 0 once, before the first pass.
no_reset == UNCHANGED output_run_cnt
reset_output_run_cnt == output_run_cnt' = 0

begin_pass ==
  /\ Goto("pass", "runs")
  /\ reset_output_run_cnt
  /\ a0' = list_begin(l, head)
  /\ runs' = Runs(esh_plugin_list)
  /\ Constant /\ UNCHANGED <<walk, l, e, a1b0, b1, inits, before>>

\* Two runs are found, and inplace_merge asserts that they are sorted.
find_runs ==
  /\ pc = "runs" /\ a0 # tail
  /\ output_run_cnt' = output_run_cnt + 1
  /\ a1b0' = find_end_of_run(a0, tail)
  /\ IF a1b0' = tail THEN pc' = "pass_end" /\ b1' = b1
     ELSE /\ b1' = find_end_of_run(a1b0', tail)
          /\ pc' = IF is_sorted(a0, a1b0') /\ is_sorted(a1b0', b1') THEN "merge" ELSE "aborted"
  /\ Constant /\ UNCHANGED <<walk, l, e, a0, inits, ghosts>>

\* The element of the second run is taken even if it is of the same rank.
takes_first_Unstable == less(a0, a1b0)
takes_first == ~less(a1b0, a0)

merge_first ==
  /\ pc = "merge" /\ a0 # a1b0 /\ a1b0 # b1
  /\ takes_first
  /\ a0' = l.next[a0]
  /\ Constant /\ UNCHANGED <<walk, pc, l, e, a1b0, b1, output_run_cnt, inits, ghosts>>

merge_second ==
  /\ pc = "merge" /\ a0 # a1b0 /\ a1b0 # b1
  /\ ~takes_first
  /\ a1b0' = l.next[a1b0]
  /\ l' = list_splice(l, a0, l.prev[a1b0'], a1b0')
  /\ pc' = IF is_interior(l, a1b0) /\ is_interior(l, a0) THEN "merge" ELSE "aborted"
  /\ Constant /\ UNCHANGED <<walk, e, a0, b1, output_run_cnt, inits, ghosts>>

merge_end ==
  /\ Goto("merge", "runs")
  /\ a0 = a1b0 \/ a1b0 = b1
  /\ a0' = b1
  /\ Constant /\ UNCHANGED <<walk, l, e, a1b0, b1, output_run_cnt, inits, ghosts>>

no_more_runs ==
  /\ Goto("runs", "pass_end") /\ a0 = tail
  /\ Constant /\ UNCHANGED <<walk, l, e, sort, inits, ghosts>>

\* One run too few.
is_last_pass_Never == ~(output_run_cnt >= 1)
\* One run too many.
is_last_pass_Early == ~(output_run_cnt > 2)
is_last_pass == ~(output_run_cnt > 1)

end_pass ==
  /\ \/ Goto("pass_end", "pass") /\ ~is_last_pass
     \/ is_last_pass /\ IF InOrder(esh_plugin_list) THEN Goto("pass_end", "sorted")
                        ELSE Goto("pass_end", "aborted")
  /\ Constant /\ UNCHANGED <<walk, l, e, sort, inits, ghosts>>

-----------------------------------------------------------------------------
(***************************************************************************)
(* A prompt and a command.                                                 *)
(***************************************************************************)

Kept == Constant /\ UNCHANGED <<l, sort, inits, ghosts>>

begin_walk(from, to) ==
  /\ Goto(from, to)
  /\ e' = list_begin(l, head) /\ notified' = <<>> /\ isPlugin' = FALSE
  /\ Kept

build_prompt_from_plugins == begin_walk("prompt", "fragments")

\* The fragments are joined in the order of the calls; without any there is a default.
make_prompt ==
  /\ pc = "fragments" /\ e # tail
  /\ notified' = IF "make_prompt" \in hooks[e] THEN Append(notified, e) ELSE notified
  /\ e' = l.next[e]
  /\ Kept /\ UNCHANGED <<pc, isPlugin>>

\* The prompt is shown, and the user types a line.
plugin_execute == e = tail /\ begin_walk("fragments", "offer")

\* e is moved on in the body of the loop as well.
next_plugin_Twice(takes) == IF l.next[e] = tail THEN tail ELSE l.next[l.next[e]]
\* e->next, also when the plug-in has taken the command.
next_plugin(takes) == l.next[e]

\* Whether there is a process_builtin to call is not looked at.
process_builtin(takes) ==
  /\ pc = "offer" /\ e # tail
  /\ IF "process_builtin" \in hooks[e]
     THEN /\ notified' = Append(notified, e) /\ isPlugin' = (isPlugin \/ takes)
          /\ e' = next_plugin(takes)
          /\ UNCHANGED pc
     ELSE pc' = "crashed" /\ UNCHANGED <<e, walk>>
  /\ Kept

\* The command is executed, or not if it was a plug-in's.
command_done ==
  /\ Goto("offer", "prompt") /\ e = tail
  /\ notified' = <<>> /\ isPlugin' = FALSE
  /\ Kept /\ UNCHANGED e

Ended == pc \in {"aborted", "crashed"} /\ UNCHANGED vars

Sort == \/ begin_pass \/ find_runs \/ merge_first \/ merge_second \/ merge_end
        \/ no_more_runs \/ end_pass

MainStep ==
  \/ Sort \/ esh_plugin_initialize \/ init_plugin \/ NextOption
  \/ make_prompt \/ \E takes \in BOOLEAN : process_builtin(takes)

Next ==
  \/ opendir \/ (\E p \in Plugin : load_plugin(p)) \/ closedir
  \/ EndOfOptions \/ MainStep
  \/ build_prompt_from_plugins \/ plugin_execute \/ command_done \/ Ended

Spec == Init /\ [][Next]_vars /\ WF_vars(MainStep)

-----------------------------------------------------------------------------
(***************************************************************************)
(* Properties.                                                             *)
(***************************************************************************)

Sorting == pc \in {"pass", "runs", "merge", "pass_end"}

\* At every step of the sort, in the middle of a merge too, esh_plugin_list is sound in
\* both directions and holds the plug-ins it held before: inplace_merge works on the
\* only copy of the list.
ListKept ==
  /\ IsList(l, head, tail)
  /\ Sorting => ToSet(esh_plugin_list) = ToSet(before)

\* p was loaded, or left by the last sort, before q.
Precedes(p, q) == \E a, b \in DOMAIN before : a < b /\ before[a] = p /\ before[b] = q

\* list_sort is stable: once it has returned plug-ins are in the order of their ranks,
\* those of the same rank as they were loaded. esh.h promises that plug-ins "are
\* notified of events in increasing rank".
SortedStably ==
  pc \in {"sorted", "init", "options", "prompt"} =>
    LET s == esh_plugin_list IN
    /\ ToSet(s) = ToSet(before)
    /\ \A m, n \in DOMAIN s : m < n =>
         \/ rank[s[m]] < rank[s[n]]
         \/ rank[s[m]] = rank[s[n]] /\ Precedes(s[m], s[n])

\* None of the assertions of list_sort, inplace_merge and list_splice fails: what find_end_of_run
\* returns is sorted, after each merge of the pass and with all the splices done before.
AssertionsHold == pc # "aborted"

\* Each pass merges the runs in pairs, the last of an odd number is left as it is; the
\* count says how many there are now. That is what bounds the passes by lg n, as the
\* comment of list_sort has it.
RunsHalve ==
  pc = "pass_end" => /\ 2 * output_run_cnt <= runs + 1
                     /\ Runs(esh_plugin_list) <= output_run_cnt

\* When a plug-in is initialised those before it by rank have been, also the ones that
\* an earlier -p has loaded and initialised before.
InitInRank ==
  [][\A p \in Plugin : inits'[p] # inits[p] =>
       \A q \in ToSet(esh_plugin_list) :
         rank[q] < rank[p] /\ "init" \in hooks[q] => inits[q] > 0]_vars

\* A prompt is asked, and a command offered, in the order of the ranks, whichever -p a plug-in
\* came with: none is asked twice, none before one of a lower rank that has the function, and a
\* command that nobody takes has been offered to all. (Plug-ins behind the one that takes it are
\* asked too, against esh.h:66; of that nothing is said here.)
NotifiedInRank ==
  pc \in {"fragments", "offer"} =>
    LET f    == IF pc = "fragments" THEN "make_prompt" ELSE "process_builtin"
        able == {p \in ToSet(esh_plugin_list) : f \in hooks[p]}
    IN  /\ \A m, n \in DOMAIN notified : m < n => /\ notified[m] # notified[n]
                                                 /\ rank[notified[m]] <= rank[notified[n]]
        /\ \A p \in ToSet(notified), q \in able : rank[q] < rank[p] => q \in ToSet(notified)
        /\ e = tail /\ ~isPlugin => ToSet(notified) = able

\* list_sort returns, whatever the order and the ranks.
SortEnds == Sorting ~> pc = "sorted"

-----------------------------------------------------------------------------
(***************************************************************************)
(* The inductive invariant behind ListKept, SortedStably, AssertionsHold,  *)
(* RunsHalve, InitInRank and NotifiedInRank. Iterators are places in Line. *)
(***************************************************************************)

Line == Append(esh_plugin_list, tail)

\* Places m to n hold a run; places m to n at which a run ends.
Sorted(m, n) == \A a, b \in m..n : a < b => rank[Line[a]] <= rank[Line[b]]
Drops(m, n)  == {k \in m..n : less(Line[k], Line[k - 1])}

\* The places before i hold at most cnt runs, and there are that many places.
Done(i, cnt) ==
  IF cnt = 0 THEN i = 1 ELSE cnt < i /\ Cardinality(Drops(2, i - 1)) < cnt
\* The runs from place i on.
Left(i) == IF Line[i] = tail THEN 0 ELSE 1 + Cardinality(Drops(i + 1, Len(esh_plugin_list)))

\* Each turn of the loop makes one run of two.
RunsInv ==
  pc = "runs" => \E i \in DOMAIN Line :
    a0 = Line[i] /\ Done(i, output_run_cnt) /\ 2 * output_run_cnt + Left(i) <= runs

\* The run that is put out, r to i - 1, is sorted and before what is left of the two.
MergeInv ==
  pc = "merge" => \E r, i, j, k \in DOMAIN Line :
    /\ r <= i /\ i <= j /\ j <= k /\ r < k
    /\ a0 = Line[i] /\ a1b0 = Line[j] /\ b1 = Line[k]
    /\ output_run_cnt > 0 /\ Done(r, output_run_cnt - 1) /\ 2 * output_run_cnt + Left(k) <= runs
    /\ Sorted(r, i - 1) /\ Sorted(i, j - 1) /\ Sorted(j, k - 1)
    /\ \A m \in r..(i - 1), n \in i..(k - 1) : rank[Line[m]] <= rank[Line[n]]

\* Whatever is moved keeps its order among those of its rank.
StableInv ==
  pc # "load" =>
    /\ \A p \in Plugin : Contains(esh_plugin_list, p) <=> Contains(before, p)
    /\ \A m, n \in DOMAIN esh_plugin_list :
         m < n /\ rank[Line[m]] = rank[Line[n]] => Precedes(Line[m], Line[n])

SortInv ==
  /\ esh_plugin_list \in Seq(Plugin) /\ IsList(l, head, tail)
  /\ pc # "aborted"
  /\ StableInv /\ RunsInv /\ MergeInv /\ RunsHalve
  /\ output_run_cnt <= Len(esh_plugin_list)
  /\ pc \notin {"load", "pass", "runs", "merge", "pass_end"} => InOrder(esh_plugin_list)

\* The walks over the sorted list: what they have behind them.
Has(f, i) == {p \in Plugin : f \in hooks[p] /\ \E k \in 1..(i - 1) : Line[k] = p}
WalkInv ==
  /\ pc = "init" => \E i \in DOMAIN Line : e = Line[i] /\ \A p \in Has("init", i) : inits[p] > 0
  /\ pc \in {"fragments", "offer"} =>
       /\ \E i \in DOMAIN Line :
            /\ e = Line[i]
            /\ ToSet(notified) = Has(IF pc = "offer" THEN "process_builtin" ELSE "make_prompt", i)
       /\ \A m, n \in DOMAIN notified : m < n =>
            \E i, k \in DOMAIN esh_plugin_list :
              i < k /\ notified[m] = Line[i] /\ notified[n] = Line[k]

PluginsInv == TypeOK /\ SortInv /\ WalkInv
=============================================================================

------------------------------ MODULE JobTable ------------------------------
(***************************************************************************)
(* What esh promises of its job list: a job that was started is entered in *)
(* the list once, behind the jobs that are there, whether it still runs or *)
(* has ended by then; it stays until its first process has ended, and then *)
(* it is taken out, for as long as the shell is there to do it.            *)
(***************************************************************************)
EXTENDS SequencesExt

CONSTANT Job

VARIABLES
  state,   \* state[j]: "new", "running", "ended", or "gone"
  listed,  \* the jobs of the list, in order
  open     \* the shell has not ended

vars == <<state, listed, open>>

TypeOK ==
  /\ state \in [Job -> {"new", "running", "ended", "gone"}]
  /\ listed \in Seq(Job)
  /\ open \in BOOLEAN

Init ==
  /\ state = [j \in Job |-> "new"]
  /\ listed = <<>>
  /\ open = TRUE

Change(j, s) == state' = [state EXCEPT ![j] = s]

Start(j) ==
  /\ open /\ state[j] = "new"
  /\ Change(j, "running")
  /\ UNCHANGED <<listed, open>>

End(j) ==
  /\ open /\ state[j] = "running"
  /\ Change(j, "ended")
  /\ UNCHANGED <<listed, open>>

Enter(j) ==
  /\ open /\ state[j] \in {"running", "ended"} /\ ~Contains(listed, j)
  /\ listed' = Append(listed, j)
  /\ UNCHANGED <<state, open>>

Leave(j) ==
  /\ open /\ state[j] = "ended"
  /\ \E i \in DOMAIN listed : listed[i] = j /\ listed' = RemoveAt(listed, i)
  /\ Change(j, "gone")
  /\ UNCHANGED open

Close ==
  /\ open
  /\ open' = FALSE
  /\ UNCHANGED <<state, listed>>

Next == Close \/ \E j \in Job : Start(j) \/ End(j) \/ Enter(j) \/ Leave(j)

\* The shell's own duties; when jobs start and end is not for it to say.
Fairness == \A j \in Job : WF_vars(Enter(j)) /\ WF_vars(Leave(j))

Safety == Init /\ [][Next]_vars
Spec == Safety /\ Fairness
=============================================================================

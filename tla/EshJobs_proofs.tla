--------------------------- MODULE EshJobs_proofs ---------------------------
(***************************************************************************)
(* Proofs about EshJobs, for every set of pipelines, every shape of them,  *)
(* every choice of built-ins and arguments, and every bound on jid.        *)
(***************************************************************************)
EXTENDS EshJobs, SequenceTheorems, TLAPS

-----------------------------------------------------------------------------
(***************************************************************************)
(* Sequences as lists without duplicates.                                  *)
(***************************************************************************)

\* list_push_back: the list gains one member and stays free of duplicates if
\* that member is new.
LEMMA AppendToList ==
  ASSUME NEW S, NEW s \in Seq(S), NEW e \in S
  PROVE  /\ Append(s, e) \in Seq(S)
         /\ Range(Append(s, e)) = Range(s) \cup {e}
         /\ IsInjective(s) /\ e \notin Range(s) => IsInjective(Append(s, e))
<1> DEFINE t == Append(s, e)
<1>1. /\ t \in Seq(S) /\ Len(t) = Len(s) + 1
      /\ \A k \in 1..Len(s) : t[k] = s[k]
      /\ t[Len(s) + 1] = e
  BY AppendProperties
<1>2. DOMAIN s = 1..Len(s) /\ DOMAIN t = 1..(Len(s) + 1) /\ Len(s) \in Nat
  BY <1>1, LenProperties
<1>3. Range(t) = Range(s) \cup {e}
  <2>1. ASSUME NEW k \in DOMAIN t PROVE t[k] \in Range(s) \cup {e}
    <3>1. CASE k = Len(s) + 1  BY <3>1, <1>1
    <3>2. CASE k \in 1..Len(s)  BY <3>2, <1>1, <1>2 DEF Range
    <3> QED  BY <3>1, <3>2, <1>2
  <2>2. ASSUME NEW k \in DOMAIN s PROVE s[k] \in Range(t)
    <3>1. k \in DOMAIN t /\ t[k] = s[k]  BY <1>1, <1>2
    <3> QED  BY <3>1 DEF Range
  <2>3. e \in Range(t)
    <3>1. Len(s) + 1 \in DOMAIN t  BY <1>2
    <3> QED  BY <3>1, <1>1 DEF Range
  <2> QED  BY <2>1, <2>2, <2>3 DEF Range
<1>4. ASSUME IsInjective(s), e \notin Range(s) PROVE IsInjective(t)
  <2> SUFFICES ASSUME NEW a \in DOMAIN t, NEW b \in DOMAIN t, t[a] = t[b]
               PROVE  a = b
    BY DEF IsInjective
  <2>1. ASSUME NEW k \in 1..Len(s) PROVE t[k] = s[k] /\ s[k] # e
    BY <2>1, <1>1, <1>2, <1>4 DEF Range
  <2>2. CASE a \in 1..Len(s) /\ b \in 1..Len(s)
    BY <2>1, <2>2, <1>2, <1>4 DEF IsInjective
  <2>3. CASE a = Len(s) + 1 \/ b = Len(s) + 1
    BY <2>1, <2>3, <1>1, <1>2
  <2> QED  BY <2>2, <2>3, <1>2
<1> QED  BY <1>1, <1>3, <1>4

\* list_remove: the list loses exactly the member at that place.
LEMMA RemoveFromList ==
  ASSUME NEW S, NEW s \in Seq(S), NEW i \in DOMAIN s
  PROVE  /\ RemoveAt(s, i) \in Seq(S) /\ DOMAIN RemoveAt(s, i) = 1..(Len(s) - 1)
         /\ \A k \in 1..(Len(s) - 1) : RemoveAt(s, i)[k] = IF k < i THEN s[k] ELSE s[k + 1]
         /\ IsInjective(s) => /\ IsInjective(RemoveAt(s, i))
                              /\ Range(RemoveAt(s, i)) = Range(s) \ {s[i]}
<1> DEFINE a == SubSeq(s, 1, i - 1)
           b == SubSeq(s, i + 1, Len(s))
           t == a \o b
<1>1. /\ Len(s) \in Nat /\ DOMAIN s = 1..Len(s) /\ i \in 1..Len(s)
      /\ \A k \in 1..Len(s) : s[k] \in S
  BY LenProperties, ElementOfSeq
<1>2. /\ a \in Seq(S) /\ Len(a) = i - 1
      /\ \A k \in 1..(i - 1) : a[k] = s[k]
  <2>1. \A k \in 1..(i - 1) : s[k] \in S  BY <1>1
  <2>2. /\ a \in Seq(S)
        /\ Len(a) = IF 1 <= i - 1 THEN i - 1 - 1 + 1 ELSE 0
        /\ \A k \in 1..(i - 1 - 1 + 1) : a[k] = s[1 + k - 1]
    <3>1. 1 \in Int /\ i - 1 \in Int  BY <1>1
    <3> HIDE DEF a
    <3> QED  BY <2>1, <3>1, SubSeqProperties DEF a
  <2> HIDE DEF a
  <2> QED  BY <1>1, <2>2
<1>3. /\ b \in Seq(S) /\ Len(b) = Len(s) - i
      /\ \A k \in 1..(Len(s) - i) : b[k] = s[i + k]
  <2>1. \A k \in (i + 1)..Len(s) : s[k] \in S  BY <1>1
  <2>2. /\ b \in Seq(S)
        /\ Len(b) = IF i + 1 <= Len(s) THEN Len(s) - (i + 1) + 1 ELSE 0
        /\ \A k \in 1..(Len(s) - (i + 1) + 1) : b[k] = s[(i + 1) + k - 1]
    <3>1. i + 1 \in Int /\ Len(s) \in Int  BY <1>1
    <3> QED  BY <2>1, <3>1, SubSeqProperties
  <2>3. Len(s) - (i + 1) + 1 = Len(s) - i
    BY <1>1
  <2>4. ASSUME NEW k \in 1..(Len(s) - i) PROVE (i + 1) + k - 1 = i + k
    BY <1>1
  <2> HIDE DEF b
  <2>5. ASSUME NEW k \in 1..(Len(s) - i) PROVE b[k] = s[i + k]
    BY <2>2, <2>3, <2>4
  <2>6. Len(b) = Len(s) - i
    BY <1>1, <2>2
  <2> QED  BY <2>2, <2>5, <2>6
<1> HIDE DEF a, b
<1>4. /\ t \in Seq(S) /\ Len(t) = Len(s) - 1
      /\ \A k \in 1..(Len(s) - 1) : t[k] = IF k < i THEN s[k] ELSE s[k + 1]
  <2>1. /\ t \in Seq(S) /\ Len(t) = Len(a) + Len(b)
        /\ \A k \in 1..(Len(a) + Len(b)) : t[k] = IF k <= Len(a) THEN a[k] ELSE b[k - Len(a)]
    BY <1>2, <1>3, ConcatProperties
  <2> HIDE DEF t
  <2>2. ASSUME NEW k \in 1..(Len(s) - 1) PROVE t[k] = IF k < i THEN s[k] ELSE s[k + 1]
    <3>0. Len(a) = i - 1 /\ Len(b) = Len(s) - i /\ k \in 1..(Len(a) + Len(b))
      BY <1>1, <1>2, <1>3
    <3>1. CASE k < i
      <4>1. k <= Len(a) /\ k \in 1..(i - 1)
        BY <3>0, <3>1, <1>1
      <4> QED  BY <3>0, <3>1, <4>1, <2>1, <1>2
    <3>2. CASE ~(k < i)
      <4>1. /\ ~(k <= Len(a)) /\ k - Len(a) = k - (i - 1)
            /\ k - (i - 1) \in 1..(Len(s) - i) /\ i + (k - (i - 1)) = k + 1
        BY <3>0, <3>2, <1>1
      <4>2. t[k] = b[k - (i - 1)] /\ b[k - (i - 1)] = s[i + (k - (i - 1))]
        BY <3>0, <4>1, <2>1, <1>3
      <4> QED  BY <4>1, <4>2, <3>2
    <3> QED  BY <3>1, <3>2
  <2> QED  BY <1>1, <1>2, <1>3, <2>1, <2>2
<1>5. DOMAIN t = 1..(Len(s) - 1)
  BY <1>4, LenProperties
<1> HIDE DEF t
<1>6. ASSUME IsInjective(s) PROVE IsInjective(t)
  <2> SUFFICES ASSUME NEW x \in DOMAIN t, NEW y \in DOMAIN t, t[x] = t[y]
               PROVE  x = y
    BY DEF IsInjective
  <2>1. \A k, l \in 1..Len(s) : s[k] = s[l] => k = l
    BY <1>6, <1>1 DEF IsInjective
  <2> QED  BY <2>1, <1>1, <1>4, <1>5
<1>7. ASSUME IsInjective(s) PROVE Range(t) = Range(s) \ {s[i]}
  <2>1. \A k, l \in 1..Len(s) : s[k] = s[l] => k = l
    BY <1>7, <1>1 DEF IsInjective
  <2>2. ASSUME NEW k \in DOMAIN t PROVE t[k] \in Range(s) \ {s[i]}
    <3>1. CASE k < i
      BY <3>1, <2>1, <1>1, <1>4, <1>5 DEF Range
    <3>2. CASE ~(k < i)
      <4>1. k + 1 \in 1..Len(s) /\ k + 1 # i /\ t[k] = s[k + 1]
        BY <3>2, <1>1, <1>4, <1>5
      <4> QED  BY <4>1, <2>1, <1>1 DEF Range
    <3> QED  BY <3>1, <3>2
  <2>3. ASSUME NEW k \in DOMAIN s, k # i PROVE s[k] \in Range(t)
    <3>1. CASE k < i
      <4>1. k \in DOMAIN t /\ t[k] = s[k]  BY <3>1, <1>1, <1>4, <1>5
      <4> QED  BY <4>1 DEF Range
    <3>2. CASE k > i
      <4>1. k - 1 \in DOMAIN t /\ t[k - 1] = s[k]
        BY <3>2, <1>1, <1>4, <1>5
      <4> QED  BY <4>1 DEF Range
    <3> QED  BY <2>3, <3>1, <3>2, <1>1
  <2> QED  BY <2>2, <2>3 DEF Range
<1>8. RemoveAt(s, i) = t
  BY DEF RemoveAt, t, a, b
<1> QED  BY <1>4, <1>5, <1>6, <1>7, <1>8

-----------------------------------------------------------------------------
(***************************************************************************)
(* Processes and their names.                                              *)
(***************************************************************************)

\* The shape of a pid, and the leader of a pipeline.
LEMMA Pids ==
  /\ \A p \in Pid : p[1] \in Job /\ p[2] \in 1..MaxCmds /\ p = <<p[1], p[2]>>
  /\ \A j \in Job, k \in 1..MaxCmds : <<j, k>> \in Pid
  /\ \A j \in Job : Leader(j) \in Pid /\ Leader(j)[1] = j /\ Leader(j)[2] = 1
  /\ \A i, j \in Job : Leader(i) = Leader(j) => i = j
  /\ \A j \in Job : /\ Len(Cmds[j]) \in 1..MaxCmds /\ DOMAIN Cmds[j] = 1..Len(Cmds[j])
                    /\ Cmds[j][1] = "program"
  /\ MaxCmds \in Nat /\ NoJob \notin Job
<1>1. /\ MaxCmds \in Nat /\ NoJob \notin Job /\ Pid = Job \X (1..MaxCmds)
      /\ Cmds \in [Job -> Seq({"program", "builtin"})]
      /\ \A j \in Job : Len(Cmds[j]) \in 1..MaxCmds /\ Cmds[j][1] = "program"
  BY JobAssumption
<1>2. ASSUME NEW p \in Pid
      PROVE  p[1] \in Job /\ p[2] \in 1..MaxCmds /\ p = <<p[1], p[2]>>
  BY <1>1
<1>3. \A j \in Job, k \in 1..MaxCmds : <<j, k>> \in Pid
  BY <1>1
<1>4. ASSUME NEW j \in Job
      PROVE  /\ Leader(j) \in Pid /\ Leader(j)[1] = j /\ Leader(j)[2] = 1
             /\ DOMAIN Cmds[j] = 1..Len(Cmds[j])
  <2>1. 1 \in 1..MaxCmds  BY <1>1
  <2> QED  BY <2>1, <1>1, <1>3, LenProperties DEF Leader
<1>5. \A i, j \in Job : Leader(i) = Leader(j) => i = j
  BY DEF Leader
<1> QED  BY <1>1, <1>2, <1>3, <1>4, <1>5

\* A change of state by any set of processes keeps the kernel's types.
LEMMA ChangeStateType ==
  ASSUME KernelTypeOK, NEW S, NEW r \in RunState,
         NEW s \in TermReport \cup StopSignal \cup {"none"}, ChangeState(S, r, s)
  PROVE  /\ run' \in [Pid -> RunState]
         /\ report' \in [Pid -> TermReport \cup StopSignal \cup {"none"}]
         /\ chld' \in BOOLEAN
BY DEF KernelTypeOK, ChangeState

\* So does a signal for a group.
LEMMA KillpgType ==
  ASSUME KernelTypeOK, NEW g, NEW sig, killpg(g, sig)
  PROVE  KernelTypeOK'
<1>1. /\ run' \in [Pid -> RunState]
      /\ report' \in [Pid -> TermReport \cup StopSignal \cup {"none"}]
      /\ chld' \in BOOLEAN
  <2>1. CASE ChangeState({p \in Group(g) : run[p] = "stopped"}, "live", "none")
    BY <2>1, ChangeStateType DEF RunState
  <2>2. CASE ChangeState({p \in Group(g) : run[p] # "zombie"}, "zombie", "signaled")
    BY <2>2, ChangeStateType DEF RunState, TermReport
  <2>3. CASE ChangeState({p \in Group(g) : run[p] = "live"}, "stopped", "SIGSTOP")
    BY <2>3, ChangeStateType DEF RunState, StopSignal
  <2> QED  BY <2>1, <2>2, <2>3 DEF killpg
<1> QED  BY <1>1 DEF killpg, KernelTypeOK

\* So does anything a child does, and a child leaves the shell's state alone.
LEMMA ProcessType ==
  ASSUME TypeOK, NEW p \in Pid, Process(p)
  PROVE  KernelTypeOK'
<1> USE DEF TypeOK, KernelTypeOK
<1>1. Leader(p[1]) \in Pid
  BY Pids
<1>2. CASE child_setpgid(p)
  BY <1>1, <1>2 DEF child_setpgid, ChildStep, Phase
<1>3. CASE child_give_terminal_to(p)
  BY <1>1, <1>3 DEF child_give_terminal_to, ChildStep, Phase
<1>4. CASE child_execvp(p)
  BY <1>4 DEF child_execvp, ChildStep, Phase
<1>5. CASE Die(p)
  BY <1>5, ChangeStateType DEF Die, RunState
<1>6. CASE StopFromKeyboard(p)
  BY <1>6, ChangeStateType DEF StopFromKeyboard, RunState, StopSignal
<1>7. CASE StopForTerminal(p)
  BY <1>7, ChangeStateType DEF StopForTerminal, RunState, StopSignal
<1>8. CASE SignalFromOutside(p)
  <2>1. CASE ChangeState({p}, "stopped", "SIGSTOP")
    BY <1>8, <2>1, ChangeStateType DEF SignalFromOutside, RunState, StopSignal
  <2>2. CASE ChangeState({p}, "live", "none")
    BY <1>8, <2>2, ChangeStateType DEF SignalFromOutside, RunState
  <2>3. CASE ChangeState({p}, "zombie", "signaled")
    BY <1>8, <2>3, ChangeStateType DEF SignalFromOutside, RunState, TermReport
  <2> QED  BY <1>8, <2>1, <2>2, <2>3 DEF SignalFromOutside
<1> QED  BY <1>2, <1>3, <1>4, <1>5, <1>6, <1>7, <1>8 DEF Process, ProcessStep

\* child_status_change takes the job of p out of the list if p has ended, and
\* gives no unused pipeline a status.
LEMMA StatusChange ==
  ASSUME TypeOK, NEW p \in Pid, child_status_change(p)
  PROVE  /\ job_list' \in Seq(Job) /\ jid' \in Nat /\ status' \in [Job -> Status]
         /\ \A j \in Job : status'[j] = "NONE" => status[j] = "NONE"
         /\ IsInjective(job_list) =>
              /\ IsInjective(job_list')
              /\ Listed' = {j \in Listed : Leader(j) = p => ~Delists(report[p])}
<1> USE DEF TypeOK
<1>1. jid' \in Nat
  BY DEF child_status_change
<1>2. CASE \A i \in DOMAIN job_list : Leader(job_list[i]) # p
  <2>1. UNCHANGED <<job_list, status>>
    BY <1>2 DEF child_status_change
  <2> QED  BY <1>1, <1>2, <2>1 DEF Listed, Range
<1>3. ASSUME NEW i \in DOMAIN job_list,
             Leader(job_list[i]) = p,
             job_list' = IF Delists(report[p]) THEN RemoveAt(job_list, i) ELSE job_list,
             status' = [status EXCEPT ![job_list[i]] = StatusAfter(@, report[p])]
      PROVE  /\ job_list' \in Seq(Job) /\ status' \in [Job -> Status]
             /\ \A j \in Job : status'[j] = "NONE" => status[j] = "NONE"
             /\ IsInjective(job_list) =>
                  /\ IsInjective(job_list')
                  /\ Listed' = {j \in Listed : Leader(j) = p => ~Delists(report[p])}
  <2>1. status' \in [Job -> Status] /\ \A j \in Job : status'[j] = "NONE" => status[j] = "NONE"
    BY <1>3 DEF Status, StatusAfter
  <2>2. job_list[i] \in Job /\ Listed \subseteq Job
    BY LenProperties, ElementOfSeq DEF Listed, Range
  <2>3. \A j \in Listed : Leader(j) = p <=> j = job_list[i]
    BY <1>3, <2>2, Pids
  <2>4. CASE Delists(report[p])
    <3>1. job_list' = RemoveAt(job_list, i)
      BY <1>3, <2>4
    <3> QED  BY <3>1, <2>1, <2>3, <2>4, RemoveFromList DEF Listed
  <2>5. CASE ~Delists(report[p])
    <3>1. job_list' = job_list
      BY <1>3, <2>5
    <3> QED  BY <3>1, <2>1, <2>5 DEF Listed
  <2> QED  BY <2>4, <2>5
<1> QED  BY <1>1, <1>2, <1>3 DEF child_status_change


-----------------------------------------------------------------------------
(***************************************************************************)
(* Type correctness. ControlInv is part of the induction: the process main *)
(* forks or gives a group exists only where main's locals are in range.    *)
(***************************************************************************)

TypeInv == TypeOK /\ ControlInv

LEMMA TypeInit == Init => TypeInv
<1> SUFFICES ASSUME Init PROVE TypeInv
  OBVIOUS
<1>1. KernelTypeOK
  BY DEF Init, KernelInit, KernelTypeOK, RunState, Phase
<1>2. job_list \in Seq(Job) /\ n \in 0..(MaxCmds + 1)
  BY Pids, EmptySeq DEF Init
<1> QED
  BY <1>1, <1>2 DEF Init, TypeInv, TypeOK, ControlInv, PC, Status, JobControl

\* main's locals where a built-in or a wait ends.
LEMMA FinishType ==
  ASSUME Finish
  PROVE  /\ pc' \in PC /\ pipeline' \in Job \cup {NoJob} /\ n' \in 0..(MaxCmds + 1)
         /\ op' \in JobControl \cup {"none"} /\ local' \in Nat
         /\ ControlInv'
BY Pids DEF Finish, PC, ControlInv

\* The steps of main that leave the processes and the list alone.
LEMMA TypeLoop == TypeInv /\ Loop => TypeInv'
<1> SUFFICES ASSUME TypeInv, Loop PROVE TypeInv'
  OBVIOUS
<1> USE Pids DEF TypeInv, TypeOK, ControlInv, Main, Goto, PC, mask, table, fields
<1>1. CASE EndOfLine
  BY <1>1 DEF EndOfLine, kernel, KernelTypeOK
<1>2. CASE pre_process_Builtin
  BY <1>2 DEF pre_process_Builtin, kernel, KernelTypeOK
<1>3. ASSUME NEW j \in Job, NEW b \in Amp, pre_process_Program(j, b)
      PROVE  TypeInv'
  <2>1. b \in BOOLEAN
    BY JobAssumption
  <2> QED  BY <1>3, <2>1 DEF pre_process_Program, kernel, KernelTypeOK, Status
<1>4. CASE LoadJid
  BY <1>4 DEF LoadJid, kernel, KernelTypeOK
<1>5. CASE StoreJid
  BY <1>5 DEF StoreJid, kernel, KernelTypeOK
<1>6. CASE AssignJid
  BY <1>6 DEF AssignJid, kernel, KernelTypeOK
<1> QED  BY <1>1, <1>2, <1>3, <1>4, <1>5, <1>6 DEF Loop

LEMMA TypeLaunch == TypeInv /\ Launch => TypeInv'
<1> SUFFICES ASSUME TypeInv, Launch PROVE TypeInv'
  OBVIOUS
<1> USE Pids DEF TypeInv, TypeOK, ControlInv, Main, Goto, PC, mask, table, fields
<1>1. CASE pipeline_process
  BY <1>1 DEF pipeline_process, AtCommand, esh_signal_block, fork, Current, KernelTypeOK,
     RunState, Phase
<1>2. CASE setpgid_child
  <2>1. pipeline \in Job /\ n + 1 \in 1..(MaxCmds + 1)
    BY <1>2 DEF setpgid_child
  <2>2. pgid' \in [Pid -> Pid \cup {Shell}]
    BY <1>2, <2>1 DEF setpgid_child, KernelTypeOK
  <2>3. KernelTypeOK'
    BY <1>2, <2>2 DEF setpgid_child, KernelTypeOK
  <2> QED  BY <1>2, <2>1, <2>3 DEF setpgid_child
<1>3. CASE setpgid_child_Late \/ fork_Error
  BY <1>3 DEF setpgid_child_Late, fork_Error, esh_signal_block, kernel, KernelTypeOK, Dead
<1>4. CASE pipeline_post_process
  <2>1. job_list' \in Seq(Job)
    BY <1>4, AppendToList DEF pipeline_post_process
  <2>2. KernelTypeOK' /\ UNCHANGED <<in_handler, jid, status, bg_job, pipeline_jid>>
    BY <1>4 DEF pipeline_post_process, kernel, KernelTypeOK
  <2>3. CASE Goto("wait") /\ UNCHANGED blocked
    BY <1>4, <2>1, <2>2, <2>3 DEF pipeline_post_process
  <2>4. CASE Finish /\ blocked' = FALSE
    BY <2>1, <2>2, <2>4, FinishType
  <2> QED  BY <1>4, <2>3, <2>4 DEF pipeline_post_process
<1> QED  BY <1>1, <1>2, <1>3, <1>4 DEF Launch

LEMMA TypeBuiltin == TypeInv /\ Builtin => TypeInv'
<1> SUFFICES ASSUME TypeInv, Builtin PROVE TypeInv'
  OBVIOUS
<1> USE Pids DEF TypeInv, TypeOK, ControlInv, Main, Goto, Finish, PC, Dead, mask, table, fields
<1>1. CASE jobs_execute
  BY <1>1 DEF jobs_execute, kernel, KernelTypeOK
<1>2. CASE exit_execute
  BY <1>2 DEF exit_execute, kernel, KernelTypeOK
<1>3. ASSUME NEW o \in JobControl, get_jid(o) PROVE TypeInv'
  <2>1. local' \in Nat
    <3>1. CASE local' \in JidArgs
      BY <3>1, JobAssumption
    <3>2. CASE job_list # <<>> /\ local' = pipeline_jid[Last(job_list)]
      <4>1. Len(job_list) \in 1..Len(job_list)
        BY <3>2, EmptySeq, LenProperties
      <4>2. Last(job_list) \in Job
        BY <4>1, ElementOfSeq DEF Last
      <4> QED  BY <3>2, <4>2
    <3> QED  BY <1>3, <3>1, <3>2 DEF get_jid
  <2> QED  BY <1>3, <2>1 DEF get_jid, kernel, KernelTypeOK
<1>4. CASE get_jid_Abort
  BY <1>4 DEF get_jid_Abort, kernel, KernelTypeOK
<1>5. CASE no_such_job
  BY <1>5 DEF no_such_job, kernel, KernelTypeOK
<1>6. CASE list_not_empty
  BY <1>6 DEF list_not_empty, kernel, KernelTypeOK
<1>7. CASE get_job_from_jid
  <2>1. PICK i \in DOMAIN job_list :
          /\ pipeline' = job_list[i]
          /\ status' = [status EXCEPT ![job_list[i]] = CASE op = "fg" -> "FOREGROUND"
                                                         [] op = "bg" -> "BACKGROUND"
                                                         [] OTHER     -> @]
    BY <1>7 DEF get_job_from_jid
  <2>2. job_list[i] \in Job
    BY LenProperties, ElementOfSeq
  <2>3. status' \in [Job -> Status]
    BY <2>1, <2>2 DEF Status
  <2> QED  BY <1>7, <2>1, <2>2, <2>3 DEF get_job_from_jid, kernel, KernelTypeOK
<1>8. CASE get_job_from_jid_Null
  BY <1>8 DEF get_job_from_jid_Null, kernel, KernelTypeOK
<1>9. CASE signal_job
  BY <1>9, KillpgType DEF signal_job
<1>10. CASE signal_Foreground
  BY <1>10, KillpgType DEF signal_Foreground, esh_signal_block
<1>11. CASE signal_NoGroup
  BY <1>11 DEF signal_NoGroup, kernel, KernelTypeOK
<1>12. CASE give_terminal_to
  BY <1>12 DEF give_terminal_to, KernelTypeOK
<1> QED
  BY <1>1, <1>2, <1>3, <1>4, <1>5, <1>6, <1>7, <1>8, <1>9, <1>10, <1>11, <1>12 DEF Builtin

\* A collected status: in the foreground, or in the handler.
LEMMA TypeCollect ==
  ASSUME TypeInv, NEW p \in Reportable, Collect(p), child_status_change(p)
  PROVE  /\ run' \in [Pid -> RunState]
         /\ report' \in [Pid -> TermReport \cup StopSignal \cup {"none"}]
         /\ job_list' \in Seq(Job) /\ jid' \in Nat /\ status' \in [Job -> Status]
BY StatusChange DEF TypeInv, TypeOK, KernelTypeOK, Reportable, Collect, RunState

LEMMA TypeStep == TypeInv /\ [Next]_vars => TypeInv'
<1> SUFFICES ASSUME TypeInv, [Next]_vars PROVE TypeInv'
  OBVIOUS
<1> USE DEF TypeInv, TypeOK, ControlInv, Main, PC, mask, table, fields
<1>1. CASE ReadLine
  BY <1>1 DEF ReadLine, Goto, kernel, KernelTypeOK, Dead
<1>2. CASE ReadWithoutTerminal
  BY <1>2 DEF ReadWithoutTerminal, Goto, kernel, KernelTypeOK, Dead
<1>3. CASE MainStep
  <2>1. CASE wait_for_job
    <3>1. PICK p \in Reportable : Collect(p) /\ child_status_change(p)
      BY <2>1 DEF wait_for_job
    <3>2. /\ run' \in [Pid -> RunState]
          /\ report' \in [Pid -> TermReport \cup StopSignal \cup {"none"}]
          /\ job_list' \in Seq(Job) /\ jid' \in Nat /\ status' \in [Job -> Status]
      BY <3>1, TypeCollect
    <3>3. KernelTypeOK'
      BY <2>1, <3>2 DEF wait_for_job, reclaim_terminal, KernelTypeOK
    <3>4. Finish /\ blocked' = FALSE /\ UNCHANGED <<in_handler, bg_job, pipeline_jid>>
      BY <2>1 DEF wait_for_job
    <3> QED  BY <3>2, <3>3, <3>4, FinishType
  <2> QED  BY <1>3, <2>1, TypeLoop, TypeLaunch, TypeBuiltin DEF MainStep
<1>4. CASE handler_enter
  BY <1>4 DEF handler_enter, main, KernelTypeOK
<1>5. CASE handler_reap
  BY <1>5, TypeCollect DEF handler_reap, main, KernelTypeOK
<1>6. CASE handler_return
  <2>1. in_handler' = FALSE /\ UNCHANGED <<main, blocked, table, fields, kernel>>
    BY <1>6 DEF handler_return
  <2>2. KernelTypeOK'
    BY <2>1 DEF kernel, KernelTypeOK
  <2> QED  BY <2>1, <2>2 DEF main
<1>7. ASSUME NEW p \in Pid, Process(p) PROVE TypeInv'
  BY <1>7, ProcessType DEF Process, main
<1>8. CASE UNCHANGED vars
  BY <1>8 DEF vars, main, kernel, KernelTypeOK
<1> QED
  BY <1>1, <1>2, <1>3, <1>4, <1>5, <1>6, <1>7, <1>8 DEF Next, Handler, Ended

\* The variables of the shell and of the kernel keep their types, in particular
\* a position in the command list, a job id and every process that is forked,
\* put in a group or given the terminal.
THEOREM TypeCorrect == Spec => []TypeOK
<1>1. Init => TypeInv  BY TypeInit
<1>2. TypeInv /\ [Next]_vars => TypeInv'  BY TypeStep
<1>3. TypeInv => TypeOK  BY DEF TypeInv
<1> QED  BY <1>1, <1>2, <1>3, PTL DEF Spec


-----------------------------------------------------------------------------
(***************************************************************************)
(* What a step does to the processes. All steps but a fork and a waitpid   *)
(* keep every process in this sense.                                       *)
(***************************************************************************)

Kept(p) ==
  /\ run'[p] = "none" <=> run[p] = "none"
  /\ run'[p] = "reaped" <=> run[p] = "reaped"
  /\ Awaited(p) => Awaited(p)'
  /\ phase'[p] = "forked" => phase[p] = "forked"
  /\ pgid'[p] \in {pgid[p], Leader(p[1])}

\* A status to report that is new makes SIGCHLD pending.
Announced == Reportable' \subseteq Reportable \/ chld'

ProcessOK(p) ==
  /\ run[p] \in {"none", "live", "reaped"} => report[p] = "none"
  /\ run[p] = "zombie" <=> report[p] \in TermReport
  /\ pgid[p] \in {Shell, Leader(p[1])}

\* Nothing happens to the processes.
LEMMA KeptUnchanged ==
  ASSUME TypeOK, ProcessInv, UNCHANGED <<run, phase, report, pgid>>
  PROVE  ProcessInv' /\ Announced /\ \A p \in Pid : Kept(p)
BY DEF ProcessInv, Kept, Awaited, Announced, Reportable

\* Some processes change state, none that waitpid has yet to report as ended.
LEMMA KeptChangeState ==
  ASSUME TypeOK, ProcessInv, UNCHANGED <<phase, pgid>>,
         NEW S \in SUBSET Pid, NEW r, NEW s, ChangeState(S, r, s),
         \A p \in S : run[p] \in {"live", "stopped"},
         \/ r = "live" /\ s = "none"
         \/ r = "stopped" /\ s \in StopSignal
         \/ r = "zombie" /\ s \in TermReport
  PROVE  ProcessInv' /\ Announced /\ \A p \in Pid : Kept(p)
<1> USE DEF TypeOK, KernelTypeOK
<1>1. ASSUME NEW p \in Pid, p \in S PROVE ProcessOK(p)' /\ Kept(p)
  <2>1. run'[p] = r /\ report'[p] = s
    BY <1>1 DEF ChangeState
  <2> QED
    BY <1>1, <2>1 DEF ProcessInv, ProcessOK, Kept, Awaited, TermReport, StopSignal
<1>2. ASSUME NEW p \in Pid, p \notin S PROVE ProcessOK(p)' /\ Kept(p)
  BY <1>2 DEF ChangeState, ProcessInv, ProcessOK, Kept, Awaited
<1>3. Announced
  <2>1. CASE S = {}
    BY <2>1 DEF Announced, Reportable, ChangeState
  <2>2. CASE S # {}
    BY <2>2 DEF Announced, ChangeState
  <2> QED  BY <2>1, <2>2
<1> QED  BY <1>1, <1>2, <1>3 DEF ProcessInv, ProcessOK

\* A signal for a group.
LEMMA KeptKillpg ==
  ASSUME TypeOK, ProcessInv, NEW g, NEW sig, killpg(g, sig)
  PROVE  ProcessInv' /\ Announced /\ \A p \in Pid : Kept(p)
<1> USE DEF Group, Unreaped
<1>1. UNCHANGED <<phase, pgid>>
  BY DEF killpg
<1>2. CASE ChangeState({p \in Group(g) : run[p] = "stopped"}, "live", "none")
  BY <1>1, <1>2, KeptChangeState
<1>3. CASE ChangeState({p \in Group(g) : run[p] # "zombie"}, "zombie", "signaled")
  BY <1>1, <1>3, KeptChangeState DEF TermReport
<1>4. CASE ChangeState({p \in Group(g) : run[p] = "live"}, "stopped", "SIGSTOP")
  BY <1>1, <1>4, KeptChangeState DEF StopSignal
<1> QED  BY <1>2, <1>3, <1>4 DEF killpg

\* A child's own step.
LEMMA KeptProcess ==
  ASSUME TypeOK, ProcessInv, NEW q \in Pid, Process(q)
  PROVE  ProcessInv' /\ Announced /\ \A p \in Pid : Kept(p)
<1>1. CASE child_setpgid(q)
  BY <1>1 DEF child_setpgid, ChildStep, TypeOK, KernelTypeOK, ProcessInv, Announced,
     Reportable, Kept, Awaited
<1>2. CASE child_give_terminal_to(q)
  BY <1>2 DEF child_give_terminal_to, ChildStep, TypeOK, KernelTypeOK, ProcessInv,
     Announced, Reportable, Kept, Awaited
<1>3. CASE child_execvp(q)
  BY <1>3 DEF child_execvp, ChildStep, TypeOK, KernelTypeOK, ProcessInv, Announced,
     Reportable, Kept, Awaited
<1>4. CASE Die(q)
  BY <1>4, KeptChangeState DEF Die
<1>5. CASE StopFromKeyboard(q)
  BY <1>5, KeptChangeState DEF StopFromKeyboard, StopSignal
<1>6. CASE StopForTerminal(q)
  BY <1>6, KeptChangeState DEF StopForTerminal, StopSignal
<1>7. CASE SignalFromOutside(q)
  <2>1. CASE run[q] = "live" /\ ChangeState({q}, "stopped", "SIGSTOP")
    BY <1>7, <2>1, KeptChangeState DEF SignalFromOutside, StopSignal
  <2>2. CASE run[q] = "stopped" /\ ChangeState({q}, "live", "none")
    BY <1>7, <2>2, KeptChangeState DEF SignalFromOutside
  <2>3. CASE run[q] = "stopped" /\ ChangeState({q}, "zombie", "signaled")
    BY <1>7, <2>3, KeptChangeState DEF SignalFromOutside, TermReport
  <2> QED  BY <1>7, <2>1, <2>2, <2>3 DEF SignalFromOutside
<1> QED  BY <1>1, <1>2, <1>3, <1>4, <1>5, <1>6, <1>7 DEF Process, ProcessStep

\* waitpid hands out one status: the other processes are as before, and that
\* one is gone only if it had ended.
LEMMA Collected ==
  ASSUME TypeOK, ProcessInv, NEW q \in Reportable, Collect(q), UNCHANGED pgid
  PROVE  /\ ProcessInv'
         /\ Reportable' \subseteq Reportable
         /\ \A p \in Pid : p # q => run'[p] = run[p] /\ report'[p] = report[p]
         /\ \A p \in Pid : run'[p] = "none" <=> run[p] = "none"
         /\ run'[q] = "reaped" <=> Delists(report[q])
         /\ run[q] \in {"stopped", "zombie"}
<1> USE DEF TypeOK, KernelTypeOK, Reportable, Collect
<1>1. run[q] \in {"stopped", "zombie"}
  BY DEF ProcessInv, RunState
<1>2. run'[q] = "reaped" <=> Delists(report[q])
  BY <1>1 DEF ProcessInv, Delists
<1>3. ASSUME NEW p \in Pid, p # q PROVE run'[p] = run[p] /\ report'[p] = report[p]
  BY <1>3
<1>4. report'[q] = "none" /\ run'[q] \in {"stopped", "reaped"}
  BY <1>1
<1>5. ProcessInv'
  <2>1. ProcessOK(q)'
    BY <1>4 DEF ProcessInv, ProcessOK, TermReport
  <2>2. ASSUME NEW p \in Pid, p # q PROVE ProcessOK(p)'
    BY <1>3, <2>2 DEF ProcessInv, ProcessOK
  <2> QED  BY <2>1, <2>2 DEF ProcessInv, ProcessOK
<1> QED  BY <1>1, <1>2, <1>3, <1>4, <1>5


\* A fork makes one process of the pipeline being launched, new to the kernel.
LEMMA Forks ==
  ASSUME TypeInv, ProcessInv, LaunchInv, pipeline_process
  PROVE  /\ pipeline \in Job /\ n \in 1..MaxCmds /\ Current \in Pid /\ Launching
         /\ run[Current] = "none" /\ run'[Current] = "live" /\ phase'[Current] = "forked"
         /\ ProcessInv' /\ Announced
         /\ \A p \in Pid : p # Current => Kept(p)
         /\ pgid' = pgid
<1>1. pipeline \in Job /\ n \in 1..MaxCmds /\ pc = "cmd"
  BY Pids DEF TypeInv, TypeOK, ControlInv, pipeline_process, AtCommand, Main
<1>2. Current \in Pid /\ Current[1] = pipeline /\ Current[2] = n
  BY <1>1, Pids DEF Current
<1>3. Launching /\ ~Forked(n)
  BY <1>1, Pids DEF Launching, Forked
<1>4. run[Current] = "none"
  BY <1>2, <1>3 DEF LaunchInv
<1>5. /\ run' = [run EXCEPT ![Current] = "live"]
      /\ phase' = [phase EXCEPT ![Current] = "forked"]
      /\ UNCHANGED <<report, pgid, tty, chld>>
  BY DEF pipeline_process, fork
<1> USE DEF TypeInv, TypeOK, KernelTypeOK
<1>6. ASSUME NEW p \in Pid, p # Current PROVE Kept(p) /\ ProcessOK(p)'
  BY <1>5, <1>6 DEF Kept, Awaited, ProcessInv, ProcessOK
<1>7. ASSUME NEW p \in Pid, p = Current
      PROVE  ProcessOK(p)' /\ run'[p] = "live" /\ phase'[p] = "forked"
  <2>1. run'[p] = "live" /\ phase'[p] = "forked" /\ report'[p] = report[p] /\ pgid'[p] = pgid[p]
    BY <1>5, <1>7
  <2>2. report[p] = "none" /\ pgid[p] \in {Shell, Leader(p[1])}
    BY <1>4, <1>7 DEF ProcessInv
  <2> QED  BY <2>1, <2>2 DEF ProcessOK, TermReport
<1>8. ProcessInv'
  <2>1. \A p \in Pid : ProcessOK(p)'
    <3> SUFFICES ASSUME NEW p \in Pid PROVE ProcessOK(p)'
      OBVIOUS
    <3>1. CASE p = Current  BY <3>1, <1>7
    <3>2. CASE p # Current  BY <3>2, <1>6
    <3> QED  BY <3>1, <3>2
  <2> QED  BY <2>1 DEF ProcessInv, ProcessOK
<1>9. Announced
  BY <1>5 DEF Announced, Reportable
<1>10. run'[Current] = "live" /\ phase'[Current] = "forked" /\ pgid' = pgid
  BY <1>2, <1>5
<1> QED  BY <1>1, <1>2, <1>3, <1>4, <1>6, <1>8, <1>9, <1>10

\* A status collected, with what it changes in the list.
Collects(q) == Collect(q) /\ child_status_change(q) /\ UNCHANGED <<phase, pgid, chld>>

\* Every step keeps all processes, forks one, or collects one status.
LEMMA StepKinds ==
  ASSUME TypeInv, ProcessInv, LaunchInv, [Next]_vars
  PROVE  /\ ProcessInv' /\ Announced
         /\ \/ \A p \in Pid : Kept(p)
            \/ pipeline_process
            \/ (wait_for_job \/ handler_reap) /\ \E q \in Reportable : Collects(q)
<1> USE DEF TypeInv
<1>1. CASE UNCHANGED <<run, phase, report, pgid>>
  BY <1>1, KeptUnchanged
<1>2. CASE pipeline_process
  BY <1>2, Forks
<1>3. CASE setpgid_child
  <2>1. pipeline \in Job /\ Current \in Pid /\ Current[1] = pipeline
    BY <1>3, Pids DEF setpgid_child, Main, ControlInv, TypeOK, Current
  <2>2. /\ pgid' = [pgid EXCEPT ![Current] = Leader(pipeline)]
        /\ UNCHANGED <<run, phase, report>>
    BY <1>3 DEF setpgid_child
  <2> QED
    BY <2>1, <2>2 DEF TypeOK, KernelTypeOK, ProcessInv, Announced, Reportable, Kept, Awaited
<1>4. CASE wait_for_job \/ handler_reap
  <2>1. PICK q \in Reportable : Collects(q)
    BY <1>4 DEF wait_for_job, handler_reap, Collects
  <2> QED  BY <1>4, <2>1, Collected DEF Collects, Announced
<1>5. CASE signal_job
  BY <1>5, KeptKillpg DEF signal_job
<1>6. CASE signal_Foreground
  BY <1>6, KeptKillpg DEF signal_Foreground
<1>7. ASSUME NEW q \in Pid, Process(q)
      PROVE  ProcessInv' /\ Announced /\ \A p \in Pid : Kept(p)
  BY <1>7, KeptProcess
<1>8. \/ UNCHANGED <<run, phase, report, pgid>>
      \/ pipeline_process \/ setpgid_child \/ wait_for_job \/ handler_reap
      \/ signal_job \/ signal_Foreground \/ \E q \in Pid : Process(q)
  <2>1. CASE ReadLine \/ ReadWithoutTerminal \/ UNCHANGED vars \/ handler_enter \/ handler_return
    BY <2>1 DEF ReadLine, ReadWithoutTerminal, vars, kernel, handler_enter, handler_return
  <2>2. CASE Loop
    BY <2>2 DEF Loop, EndOfLine, pre_process_Builtin, pre_process_Program, LoadJid, StoreJid,
       AssignJid, kernel
  <2>3. CASE Launch
    BY <2>3 DEF Launch, setpgid_child_Late, fork_Error, pipeline_post_process, kernel
  <2>4. CASE Builtin
    BY <2>4 DEF Builtin, jobs_execute, exit_execute, get_jid, get_jid_Abort, no_such_job,
       list_not_empty, get_job_from_jid, get_job_from_jid_Null, signal_NoGroup,
       give_terminal_to, kernel
  <2> QED  BY <2>1, <2>2, <2>3, <2>4 DEF Next, MainStep, Handler, Ended
<1> QED  BY <1>1, <1>2, <1>3, <1>4, <1>5, <1>6, <1>7, <1>8

-----------------------------------------------------------------------------
(***************************************************************************)
(* SIGCHLD: no status is forgotten, and the handler keeps out of a launch. *)
(***************************************************************************)

LEMMA SigchldStep ==
  ASSUME TypeInv, ProcessInv, LaunchInv, NoLostSigchld, [Next]_vars
  PROVE  NoLostSigchld'
<1>1. Announced
  BY StepKinds
<1>2. CASE handler_enter
  BY <1>2 DEF handler_enter, NoLostSigchld
<1>3. CASE handler_return
  BY <1>1, <1>3 DEF handler_return, NoLostSigchld, kernel, Reportable
<1>4. CASE UNCHANGED in_handler /\ (chld => chld')
  BY <1>1, <1>4 DEF NoLostSigchld, Announced
<1>5. handler_enter \/ handler_return \/ (UNCHANGED in_handler /\ (chld => chld'))
  <2>1. CASE ReadLine \/ ReadWithoutTerminal \/ UNCHANGED vars \/ handler_enter
             \/ handler_return \/ handler_reap \/ wait_for_job
    BY <2>1 DEF ReadLine, ReadWithoutTerminal, vars, mask, kernel, handler_reap, wait_for_job
  <2>2. CASE Loop
    BY <2>2 DEF Loop, EndOfLine, pre_process_Builtin, pre_process_Program, LoadJid, StoreJid,
       AssignJid, mask, kernel
  <2>3. CASE Launch
    BY <2>3 DEF Launch, pipeline_process, setpgid_child, setpgid_child_Late, fork_Error,
       pipeline_post_process, fork, mask, kernel
  <2>4. CASE Builtin
    BY <2>4 DEF Builtin, jobs_execute, exit_execute, get_jid, get_jid_Abort, no_such_job,
       list_not_empty, get_job_from_jid, get_job_from_jid_Null, signal_job,
       signal_Foreground, signal_NoGroup, give_terminal_to, killpg, ChangeState, mask, kernel
  <2>5. ASSUME NEW p \in Pid, Process(p) PROVE UNCHANGED in_handler /\ (chld => chld')
    <3>1. chld => chld'
      <4>1. CASE child_setpgid(p) \/ child_give_terminal_to(p) \/ child_execvp(p)
        BY <4>1 DEF child_setpgid, child_give_terminal_to, child_execvp, ChildStep
      <4>2. CASE ProcessStep(p)
        BY <4>2 DEF ProcessStep, Die, StopFromKeyboard, StopForTerminal, SignalFromOutside,
           ChangeState
      <4> QED  BY <2>5, <4>1, <4>2 DEF Process
    <3> QED  BY <2>5, <3>1 DEF Process, mask
  <2> QED  BY <2>1, <2>2, <2>3, <2>4, <2>5 DEF Next, MainStep, Handler, Ended
<1> QED  BY <1>2, <1>3, <1>4, <1>5

LEMMA MaskStep ==
  ASSUME TypeInv, MaskInv, [Next]_vars
  PROVE  MaskInv'
<1> USE DEF MaskInv, Main, Goto, Dead, mask
<1>1. CASE ReadLine \/ ReadWithoutTerminal \/ UNCHANGED vars \/ handler_enter
           \/ handler_return \/ handler_reap \/ wait_for_job
  BY <1>1 DEF ReadLine, ReadWithoutTerminal, vars, main, handler_enter, handler_return,
     handler_reap, wait_for_job, Finish
<1>2. CASE Loop
  BY <1>2 DEF Loop, EndOfLine, pre_process_Builtin, pre_process_Program, LoadJid, StoreJid,
     AssignJid
<1>3. CASE Launch
  BY <1>3, Pids DEF Launch, pipeline_process, AtCommand, setpgid_child, setpgid_child_Late,
     fork_Error, pipeline_post_process, esh_signal_block, Finish, TypeInv, TypeOK
<1>4. CASE Builtin
  BY <1>4 DEF Builtin, AtCommand, jobs_execute, exit_execute, get_jid, get_jid_Abort,
     no_such_job, list_not_empty, get_job_from_jid, get_job_from_jid_Null, signal_job,
     signal_Foreground, signal_NoGroup, give_terminal_to, esh_signal_block, Finish
<1>5. ASSUME NEW p \in Pid, Process(p) PROVE MaskInv'
  BY <1>5 DEF Process, main
<1> QED  BY <1>1, <1>2, <1>3, <1>4, <1>5 DEF Next, MainStep, Handler, Ended


-----------------------------------------------------------------------------
(***************************************************************************)
(* The job list and the launch.                                            *)
(***************************************************************************)

\* The list changes only at the end of a launch and when a status is collected;
\* no pipeline becomes unused again.
LEMMA TableKinds ==
  ASSUME TypeInv, [Next]_vars
  PROVE  /\ \A j \in Job : status'[j] = "NONE" => status[j] = "NONE"
         /\ \/ job_list' = job_list
            \/ pipeline_post_process
            \/ (wait_for_job \/ handler_reap) /\ \E q \in Reportable : Collects(q)
<1> USE DEF table, TypeInv, TypeOK
<1>1. CASE ReadLine \/ ReadWithoutTerminal \/ UNCHANGED vars \/ handler_enter \/ handler_return
  BY <1>1 DEF ReadLine, ReadWithoutTerminal, vars, handler_enter, handler_return
<1>2. CASE Loop
  <2>1. ASSUME NEW i \in Job, NEW b \in Amp, pre_process_Program(i, b)
        PROVE  job_list' = job_list /\ \A j \in Job : status'[j] = "NONE" => status[j] = "NONE"
    BY <2>1 DEF pre_process_Program
  <2> QED
    BY <1>2, <2>1 DEF Loop, EndOfLine, pre_process_Builtin, LoadJid, StoreJid, AssignJid
<1>3. CASE Launch
  BY <1>3 DEF Launch, pipeline_process, setpgid_child, setpgid_child_Late, fork_Error,
     pipeline_post_process
<1>4. CASE Builtin
  <2>1. CASE get_job_from_jid
    <3>1. PICK i \in DOMAIN job_list :
            status' = [status EXCEPT ![job_list[i]] = CASE op = "fg" -> "FOREGROUND"
                                                        [] op = "bg" -> "BACKGROUND"
                                                        [] OTHER     -> @]
      BY <2>1 DEF get_job_from_jid
    <3> QED  BY <2>1, <3>1 DEF get_job_from_jid
  <2> QED
    BY <1>4, <2>1 DEF Builtin, jobs_execute, exit_execute, get_jid, get_jid_Abort,
       no_such_job, list_not_empty, get_job_from_jid_Null, signal_job, signal_Foreground,
       signal_NoGroup, give_terminal_to
<1>5. CASE wait_for_job \/ handler_reap
  <2>1. PICK q \in Reportable : Collects(q)
    BY <1>5 DEF wait_for_job, handler_reap, Collects
  <2>2. q \in Pid  BY DEF Reportable
  <2> QED  BY <1>5, <2>1, <2>2, StatusChange DEF Collects
<1>6. ASSUME NEW p \in Pid, Process(p) PROVE UNCHANGED table
  BY <1>6 DEF Process
<1> QED  BY <1>1, <1>2, <1>3, <1>4, <1>5, <1>6 DEF Next, MainStep, Handler, Ended

\* The end of a launch, in terms of the set of the listed jobs.
LEMMA PostProcess ==
  ASSUME TypeInv, pipeline_post_process
  PROVE  /\ pc = "cmd" /\ pipeline \in Job /\ n > Len(Cmds[pipeline]) /\ n > 1
         /\ status[pipeline] # "NONE"
         /\ Listed' = Listed \cup {pipeline}
         /\ IsInjective(job_list) /\ pipeline \notin Listed => IsInjective(job_list')
         /\ UNCHANGED <<status, kernel>> /\ pc' \in {"wait", "loop"}
         /\ pc' = "wait" => pipeline' = pipeline
<1>1. pipeline \in Job /\ pc = "cmd" /\ n > Len(Cmds[pipeline]) /\ job_list \in Seq(Job)
  BY DEF TypeInv, TypeOK, pipeline_post_process, Main
<1>2. n > 1
  BY <1>1, Pids DEF TypeInv, TypeOK
<1>3. /\ Listed' = Listed \cup {pipeline}
      /\ IsInjective(job_list) /\ pipeline \notin Listed => IsInjective(job_list')
  BY <1>1, AppendToList DEF pipeline_post_process, Listed
<1> QED  BY <1>1, <1>2, <1>3 DEF pipeline_post_process, Goto, Finish

\* A collected status takes out of the list the job that has ended, no other.
LEMMA CollectList ==
  ASSUME TypeInv, IsInjective(job_list), NEW q \in Reportable, Collects(q)
  PROVE  /\ IsInjective(job_list')
         /\ Listed' = {j \in Listed : Leader(j) = q => ~Delists(report[q])}
<1>1. q \in Pid  BY DEF Reportable
<1> QED  BY <1>1, StatusChange DEF Collects, TypeInv

LEMMA UnusedStep ==
  ASSUME TypeInv, ProcessInv, UnusedInv, LaunchInv, IsInjective(job_list), [Next]_vars
  PROVE  UnusedInv'
<1> SUFFICES ASSUME NEW j \in Job, status'[j] = "NONE"
             PROVE  j \notin Listed' /\ \A p \in Pid : p[1] = j => run'[p] = "none"
  BY DEF UnusedInv
<1>1. status[j] = "NONE" /\ j \notin Listed /\ \A p \in Pid : p[1] = j => run[p] = "none"
  BY TableKinds DEF UnusedInv
<1>2. j \notin Listed'
  <2>1. CASE job_list' = job_list
    BY <1>1, <2>1 DEF Listed
  <2>2. CASE pipeline_post_process
    BY <1>1, <2>2, PostProcess
  <2>3. ASSUME NEW q \in Reportable, Collects(q) PROVE j \notin Listed'
    BY <1>1, <2>3, CollectList
  <2> QED  BY <2>1, <2>2, <2>3, TableKinds
<1>3. ASSUME NEW p \in Pid, p[1] = j PROVE run'[p] = "none"
  <2>1. CASE Kept(p)
    BY <1>1, <1>3, <2>1 DEF Kept
  <2>2. CASE pipeline_process
    <3>1. pipeline # j
      BY <1>1, <2>2, Forks DEF LaunchInv
    <3>2. p # Current
      BY <1>3, <3>1 DEF Current
    <3> QED  BY <1>1, <1>3, <2>2, <3>2, Forks DEF Kept
  <2>3. ASSUME NEW q \in Reportable, Collects(q) PROVE run'[p] = "none"
    BY <1>1, <1>3, <2>3, Collected DEF Collects, TypeInv
  <2> QED  BY <2>1, <2>2, <2>3, StepKinds
<1> QED  BY <1>2, <1>3


\* Where main is at work on a launch, and where it stays when it does not move.
LEMMA LaunchKinds ==
  ASSUME TypeInv, [Next]_vars, Launching'
  PROVE  \/ UNCHANGED main /\ Launching /\ (handler_enter \/ handler_reap \/ handler_return
                                            \/ UNCHANGED vars \/ \E p \in Pid : Process(p))
         \/ \E j \in Job, b \in Amp : pre_process_Program(j, b)
         \/ Launching /\ (LoadJid \/ StoreJid \/ AssignJid)
         \/ pipeline_process \/ setpgid_child
<1> USE DEF Launching, TypeInv, ControlInv, Main, Goto
<1>1. CASE ReadLine \/ ReadWithoutTerminal \/ wait_for_job
  BY <1>1 DEF ReadLine, ReadWithoutTerminal, wait_for_job, Finish
<1>2. CASE Loop
  BY <1>2 DEF Loop, EndOfLine, pre_process_Builtin, LoadJid, StoreJid, AssignJid
<1>3. CASE Launch
  BY <1>3 DEF Launch, setpgid_child_Late, fork_Error, pipeline_post_process, Finish
<1>4. CASE Builtin
  BY <1>4 DEF Builtin, jobs_execute, exit_execute, get_jid, get_jid_Abort, no_such_job,
     list_not_empty, get_job_from_jid, get_job_from_jid_Null, signal_job, signal_Foreground,
     signal_NoGroup, give_terminal_to, Finish
<1>5. ASSUME Handler \/ UNCHANGED vars \/ \E p \in Pid : Process(p)
      PROVE  UNCHANGED main
  BY <1>5 DEF Handler, handler_enter, handler_reap, handler_return, vars, Process
<1>6. CASE Handler \/ UNCHANGED vars \/ \E p \in Pid : Process(p)
  BY <1>5, <1>6 DEF Handler, main
<1> QED  BY <1>1, <1>2, <1>3, <1>4, <1>6 DEF Next, MainStep, Ended

\* The conditions on one process of the pipeline being launched.
Launched(p) ==
  /\ ~Forked(p[2]) => run[p] = "none"
  /\ Forked(p[2])  => run[p] # "reaped" /\ Awaited(p)
  /\ p[2] < n      => pgid[p] = Leader(pipeline)

LEMMA LaunchStep ==
  ASSUME TypeInv, ProcessInv, MaskInv, UnusedInv, LaunchInv, IsInjective(job_list),
         [Next]_vars
  PROVE  LaunchInv'
<1> SUFFICES ASSUME Launching'
             PROVE  /\ status'[pipeline'] # "NONE" /\ pipeline' \notin Listed'
                    /\ \A p \in Pid : p[1] = pipeline' => Launched(p)'
  BY DEF LaunchInv, Launched
<1>0. /\ n \in 0..(MaxCmds + 1) /\ pipeline \in Job \cup {NoJob}
      /\ \A p \in Pid : p[2] \in 1..MaxCmds
  BY Pids DEF TypeInv, TypeOK
<1>1. ASSUME UNCHANGED main, Launching,
             handler_enter \/ handler_reap \/ handler_return \/ UNCHANGED vars
             \/ \E p \in Pid : Process(p)
      PROVE  /\ status'[pipeline'] # "NONE" /\ pipeline' \notin Listed'
             /\ \A p \in Pid : p[1] = pipeline' => Launched(p)'
  <2>1. /\ pipeline' = pipeline /\ n' = n /\ pc' = pc /\ pipeline \in Job
        /\ status[pipeline] # "NONE" /\ pipeline \notin Listed
        /\ \A p \in Pid : p[1] = pipeline => Launched(p)
    BY <1>0, <1>1 DEF main, LaunchInv, Launched, Launching
  <2>2. status'[pipeline] # "NONE"
    BY <2>1, TableKinds
  <2>3. \A k : Forked(k)' <=> Forked(k)
    BY <2>1 DEF Forked
  <2>4. CASE handler_reap
    <3>1. PICK q \in Reportable : Collects(q)
      BY <2>4 DEF handler_reap, Collects
    <3>2. pipeline \notin Listed'
      BY <2>1, <3>1, CollectList
    <3>3. ~(pc = "setpgid") /\ ~(pc = "cmd" /\ n > 1)
      BY <2>4 DEF handler_reap, MaskInv
    <3>4. ~(n > 1)
      BY <1>1, <3>3 DEF TypeInv, ControlInv, Launching
    <3>5. ASSUME NEW p \in Pid, p[1] = pipeline PROVE Launched(p)'
      <4>1. ~Forked(p[2]) /\ ~(p[2] < n)
        BY <1>0, <3>3, <3>4 DEF Forked
      <4>2. run[p] = "none"
        BY <2>1, <3>5, <4>1 DEF Launched
      <4>3. run'[p] = "none"
        BY <3>1, <4>2, Collected DEF Collects, TypeInv
      <4> QED  BY <2>1, <2>3, <4>1, <4>3 DEF Launched
    <3> QED  BY <2>1, <2>2, <3>2, <3>5
  <2>5. CASE ~handler_reap
    <3>1. job_list' = job_list /\ \A p \in Pid : Kept(p)
      BY <1>1, <2>1, <2>5, StepKinds, TableKinds
      DEF pipeline_post_process, pipeline_process, wait_for_job, Finish, Goto, Launching, Main,
          AtCommand
    <3>2. ASSUME NEW p \in Pid, p[1] = pipeline PROVE Launched(p)'
      <4>1. Launched(p) /\ Kept(p)
        BY <2>1, <3>1, <3>2
      <4>2. p[2] < n => pgid'[p] = Leader(pipeline)
        BY <3>2, <4>1 DEF Launched, Kept
      <4> QED  BY <2>1, <2>3, <4>1, <4>2 DEF Launched, Kept
    <3> QED  BY <2>1, <2>2, <3>1, <3>2 DEF Listed
  <2> QED  BY <2>4, <2>5
<1>2. ASSUME NEW j \in Job, NEW b \in Amp, pre_process_Program(j, b)
      PROVE  /\ status'[pipeline'] # "NONE" /\ pipeline' \notin Listed'
             /\ \A p \in Pid : p[1] = pipeline' => Launched(p)'
  <2>1. /\ pipeline' = j /\ pc' = "load" /\ n' = 0 /\ status[j] = "NONE"
        /\ run' = run /\ job_list' = job_list /\ status'[j] # "NONE"
    BY <1>2 DEF pre_process_Program, Main, TypeInv, TypeOK, ControlInv, kernel
  <2>2. j \notin Listed /\ \A p \in Pid : p[1] = j => run[p] = "none"
    BY <2>1 DEF UnusedInv
  <2>3. \A p \in Pid : ~(Forked(p[2])') /\ ~(p[2] < n')
    BY <1>0, <2>1 DEF Forked
  <2> QED  BY <2>1, <2>2, <2>3 DEF Launched, Listed
<1>3. ASSUME Launching, LoadJid \/ StoreJid \/ AssignJid
      PROVE  /\ status'[pipeline'] # "NONE" /\ pipeline' \notin Listed'
             /\ \A p \in Pid : p[1] = pipeline' => Launched(p)'
  <2>1. /\ pipeline' = pipeline /\ pc' # "setpgid" /\ n = 0 /\ n' \in 0..1
        /\ pc # "setpgid" /\ UNCHANGED <<run, status, job_list>>
    BY <1>3 DEF LoadJid, StoreJid, AssignJid, Main, TypeInv, ControlInv, table, kernel
  <2>2. \A p \in Pid : ~(Forked(p[2])') /\ ~(p[2] < n') /\ ~Forked(p[2])
    BY <1>0, <2>1 DEF Forked
  <2> QED  BY <1>3, <2>1, <2>2 DEF LaunchInv, Launched, Listed
<1>4. ASSUME pipeline_process
      PROVE  /\ status'[pipeline'] # "NONE" /\ pipeline' \notin Listed'
             /\ \A p \in Pid : p[1] = pipeline' => Launched(p)'
  <2>1. /\ pipeline' = pipeline /\ n' = n /\ pc = "cmd" /\ pc' = "setpgid"
        /\ UNCHANGED <<status, job_list>>
    BY <1>4 DEF pipeline_process, AtCommand, Main, table
  <2>2. /\ status[pipeline] # "NONE" /\ pipeline \notin Listed
        /\ \A p \in Pid : p[1] = pipeline => Launched(p)
    BY <1>4, Forks DEF LaunchInv, Launched
  <2>3. ASSUME NEW p \in Pid, p[1] = pipeline PROVE Launched(p)'
    <3>1. p[2] \in 1..MaxCmds /\ p = <<p[1], p[2]>> /\ n \in 1..MaxCmds
      BY <1>4, Forks, Pids
    <3>2. Forked(p[2])' <=> Forked(p[2]) \/ p[2] = n
      BY <2>1 DEF Forked
    <3>3. CASE p[2] = n
      <4>1. p = Current
        BY <2>3, <3>1, <3>3 DEF Current
      <4>2. run'[p] = "live"
        BY <1>4, <4>1, Forks
      <4> QED  BY <2>1, <3>1, <3>2, <3>3, <4>2 DEF Launched, Awaited
    <3>4. CASE p[2] # n
      <4>1. p # Current
        BY <3>4 DEF Current
      <4>2. Kept(p) /\ Launched(p) /\ pgid' = pgid
        BY <1>4, <2>2, <2>3, <4>1, Forks
      <4> QED  BY <2>1, <3>2, <3>4, <4>2 DEF Launched, Kept
    <3> QED  BY <3>3, <3>4
  <2> QED  BY <2>1, <2>2, <2>3 DEF Listed
<1>5. ASSUME setpgid_child
      PROVE  /\ status'[pipeline'] # "NONE" /\ pipeline' \notin Listed'
             /\ \A p \in Pid : p[1] = pipeline' => Launched(p)'
  <2>1. /\ pipeline' = pipeline /\ n' = n + 1 /\ pc = "setpgid" /\ pc' = "cmd"
        /\ UNCHANGED <<status, job_list, run, report>>
        /\ pgid' = [pgid EXCEPT ![Current] = Leader(pipeline)]
        /\ pipeline \in Job /\ n \in 1..MaxCmds
    BY <1>0, <1>5, Pids DEF setpgid_child, Main, table, TypeInv, ControlInv
  <2>2. /\ status[pipeline] # "NONE" /\ pipeline \notin Listed
        /\ \A p \in Pid : p[1] = pipeline => Launched(p)
    BY <2>1, Pids DEF LaunchInv, Launched, Launching
  <2>3. ASSUME NEW p \in Pid, p[1] = pipeline PROVE Launched(p)'
    <3>1. p[2] \in 1..MaxCmds /\ p = <<p[1], p[2]>> /\ Launched(p)
      BY <2>2, <2>3, Pids
    <3>2. Forked(p[2])' <=> Forked(p[2])
      BY <2>1, <3>1 DEF Forked
    <3>3. ASSUME p[2] < n' PROVE pgid'[p] = Leader(pipeline)
      <4>1. CASE p[2] = n
        <5>1. p = Current
          BY <2>3, <3>1, <4>1 DEF Current
        <5> QED  BY <2>1, <5>1 DEF TypeInv, TypeOK, KernelTypeOK
      <4>2. CASE p[2] # n
        <5>1. p # Current /\ p[2] < n
          BY <2>1, <3>1, <3>3, <4>2 DEF Current
        <5> QED  BY <2>1, <3>1, <5>1 DEF Launched, TypeInv, TypeOK, KernelTypeOK
      <4> QED  BY <4>1, <4>2
    <3> QED  BY <2>1, <3>1, <3>2, <3>3 DEF Launched, Awaited
  <2> QED  BY <2>1, <2>2, <2>3 DEF Listed
<1> QED  BY <1>1, <1>2, <1>3, <1>4, <1>5, LaunchKinds


\* From "setpgid", and with a process already forked, main moves only by
\* setpgid_child.
LEMMA SetpgidKinds ==
  ASSUME TypeInv, [Next]_vars
  PROVE  /\ pc = "setpgid" => UNCHANGED main \/ setpgid_child \/ setpgid_child_Late
         /\ pc' = "setpgid" => UNCHANGED main \/ pipeline_process
<1> USE DEF Main, Goto, AtCommand, Finish, Dead
<1>1. CASE ReadLine \/ ReadWithoutTerminal \/ wait_for_job
  BY <1>1 DEF ReadLine, ReadWithoutTerminal, wait_for_job
<1>2. CASE Loop
  BY <1>2 DEF Loop, EndOfLine, pre_process_Builtin, pre_process_Program, LoadJid, StoreJid,
     AssignJid
<1>3. CASE Launch
  BY <1>3 DEF Launch, pipeline_process, setpgid_child, setpgid_child_Late, fork_Error,
     pipeline_post_process
<1>4. CASE Builtin
  BY <1>4 DEF Builtin, jobs_execute, exit_execute, get_jid, get_jid_Abort, no_such_job,
     list_not_empty, get_job_from_jid, get_job_from_jid_Null, signal_job, signal_Foreground,
     signal_NoGroup, give_terminal_to
<1>5. CASE Handler \/ UNCHANGED vars \/ \E p \in Pid : Process(p)
  BY <1>5 DEF Handler, handler_enter, handler_reap, handler_return, vars, Process
<1> QED  BY <1>1, <1>2, <1>3, <1>4, <1>5 DEF Next, MainStep, Ended

LEMMA GroupStep ==
  ASSUME TypeInv, ProcessInv, LaunchInv, GroupInv, [Next]_vars
  PROVE  GroupInv'
<1> SUFFICES ASSUME NEW p \in Pid, phase'[p] = "forked"
             PROVE  \/ pgid'[p] = Leader(p[1])
                    \/ pc' = "setpgid" /\ p = <<pipeline', n'>>
  BY DEF GroupInv, Current
<1>1. CASE pipeline_process
  <2>1. pc = "cmd" /\ pc' = "setpgid" /\ pipeline' = pipeline /\ n' = n
    BY <1>1 DEF pipeline_process, AtCommand, Main
  <2>2. CASE p = Current
    BY <2>1, <2>2 DEF Current
  <2>3. CASE p # Current
    BY <1>1, <2>1, <2>3, Forks DEF Kept, GroupInv
  <2> QED  BY <2>2, <2>3
<1>2. CASE setpgid_child
  <2>1. /\ pgid' = [pgid EXCEPT ![Current] = Leader(pipeline)] /\ phase' = phase
        /\ pgid \in [Pid -> Pid \cup {Shell}]
    BY <1>2 DEF setpgid_child, TypeInv, TypeOK, KernelTypeOK
  <2>2. CASE p = Current
    BY <2>1, <2>2 DEF Current
  <2>3. CASE p # Current
    BY <2>1, <2>3 DEF GroupInv
  <2> QED  BY <2>2, <2>3
<1>3. CASE setpgid_child_Late
  BY <1>3 DEF setpgid_child_Late, GroupInv, kernel
<1>4. CASE ~pipeline_process /\ ~setpgid_child /\ ~setpgid_child_Late
  <2>1. pc = "setpgid" => pc' = "setpgid" /\ <<pipeline', n'>> = Current
    BY <1>4, SetpgidKinds DEF main, Current
  <2>2. phase[p] = "forked" /\ pgid'[p] \in {pgid[p], Leader(p[1])}
    <3>1. CASE Kept(p)
      BY <3>1 DEF Kept
    <3>2. CASE \E q \in Reportable : Collects(q)
      BY <3>2 DEF Collects
    <3> QED  BY <1>4, <3>1, <3>2, StepKinds
  <2> QED  BY <2>1, <2>2 DEF GroupInv
<1> QED  BY <1>1, <1>2, <1>3, <1>4

LEMMA WaitStep ==
  ASSUME TypeInv, ProcessInv, MaskInv, LaunchInv, WaitInv, [Next]_vars
  PROVE  WaitInv'
<1> SUFFICES ASSUME pc' \in {"give", "wait"}
             PROVE  \E p \in Pid : /\ run'[p] \in {"live", "stopped", "zombie"}
                                   /\ pgid'[p] = Leader(pipeline') /\ Awaited(p)'
  BY DEF WaitInv, Group, Unreaped
<1> USE DEF TypeInv
<1>1. CASE pipeline_post_process
  <2>1. /\ Launching /\ pc = "cmd" /\ pipeline \in Job /\ n > 1 /\ pipeline' = pipeline
        /\ UNCHANGED kernel
    BY <1>1, PostProcess, Pids DEF Launching
  <2>2. Leader(pipeline) \in Pid /\ Leader(pipeline)[1] = pipeline /\ Leader(pipeline)[2] = 1
    BY <2>1, Pids
  <2>3. /\ Awaited(Leader(pipeline)) /\ run[Leader(pipeline)] # "reaped"
        /\ pgid[Leader(pipeline)] = Leader(pipeline)
    BY <2>1, <2>2 DEF LaunchInv, Forked
  <2>4. run[Leader(pipeline)] \in {"live", "stopped", "zombie"}
    BY <2>2, <2>3 DEF TypeOK, KernelTypeOK, RunState, ProcessInv, Awaited
  <2> QED  BY <2>1, <2>2, <2>3, <2>4 DEF kernel, Awaited
<1>2. CASE signal_Foreground
  <2>1. PICK p \in Pid : run[p] \in {"live", "stopped", "zombie"} /\ pgid[p] = Leader(pipeline)
    BY <1>2 DEF signal_Foreground, Group, Unreaped
  <2>2. /\ ChangeState({q \in Group(Leader(pipeline)) : run[q] = "stopped"}, "live", "none")
        /\ pgid' = pgid /\ pipeline' = pipeline
    BY <1>2 DEF signal_Foreground, killpg, Signal, Goto
  <2>3. CASE run[p] = "stopped"
    BY <2>1, <2>2, <2>3 DEF ChangeState, Group, Unreaped, Awaited
  <2>4. CASE run[p] # "stopped"
    <3>1. run'[p] = run[p] /\ report'[p] = report[p]
      BY <2>2, <2>4 DEF ChangeState
    <3>2. Awaited(p)
      BY <2>1, <2>4 DEF ProcessInv, Awaited, TermReport
    <3> QED  BY <2>1, <2>2, <3>1, <3>2 DEF Awaited
  <2> QED  BY <2>3, <2>4
<1>3. CASE pc \in {"give", "wait"} /\ pipeline' = pipeline /\ \A p \in Pid : Kept(p)
  <2>1. PICK p \in Pid : /\ run[p] \in {"live", "stopped", "zombie"}
                         /\ pgid[p] = Leader(pipeline) /\ Awaited(p)
    BY <1>3 DEF WaitInv, Group, Unreaped
  <2>2. pipeline \in Job /\ Leader(pipeline) \in Pid
    BY <1>3, Pids DEF TypeOK, ControlInv
  <2>3. Leader(p[1]) = Leader(pipeline)
    BY <2>1, <2>2, ShellIsNoChild DEF ProcessInv
  <2>4. Awaited(p)' /\ pgid'[p] = Leader(pipeline)
    BY <1>3, <2>1, <2>3 DEF Kept
  <2>5. run'[p] \in {"live", "stopped", "zombie"}
    <3>1. run'[p] \in RunState
      BY TypeStep DEF TypeOK, KernelTypeOK
    <3> QED  BY <1>3, <2>1, <3>1 DEF Kept, RunState
  <2> QED  BY <1>3, <2>4, <2>5
<1>4. \/ pipeline_post_process \/ signal_Foreground
      \/ pc \in {"give", "wait"} /\ pipeline' = pipeline /\ \A p \in Pid : Kept(p)
  <2> USE DEF Main, Goto, AtCommand, Finish, Dead
  <2>1. CASE give_terminal_to
    <3>1. UNCHANGED <<run, phase, report, pgid>>
      BY <2>1 DEF give_terminal_to
    <3> QED  BY <2>1, <3>1, KeptUnchanged DEF give_terminal_to
  <2>2. CASE UNCHANGED main /\ ~pipeline_process
    <3>1. pc \in {"give", "wait"} /\ pipeline' = pipeline
      BY <2>2 DEF main
    <3>2. ~handler_reap /\ ~wait_for_job
      BY <2>2, <3>1 DEF handler_reap, MaskInv, wait_for_job, main
    <3> QED  BY <2>2, <3>1, <3>2, StepKinds
  <2>3. CASE ReadLine \/ ReadWithoutTerminal \/ wait_for_job
    BY <2>3 DEF ReadLine, ReadWithoutTerminal, wait_for_job
  <2>4. CASE Loop
    BY <2>4 DEF Loop, EndOfLine, pre_process_Builtin, pre_process_Program, LoadJid, StoreJid,
       AssignJid
  <2>5. CASE Launch
    BY <2>5 DEF Launch, pipeline_process, setpgid_child, setpgid_child_Late, fork_Error
  <2>6. CASE Builtin /\ ~give_terminal_to
    BY <2>6 DEF Builtin, jobs_execute, exit_execute, get_jid, get_jid_Abort, no_such_job,
       list_not_empty, get_job_from_jid, get_job_from_jid_Null, signal_job, signal_NoGroup
  <2>7. CASE Handler \/ UNCHANGED vars \/ \E p \in Pid : Process(p)
    <3>1. UNCHANGED main
      BY <2>7 DEF Handler, handler_enter, handler_reap, handler_return, vars, Process
    <3>2. ~pipeline_process
      BY <3>1 DEF pipeline_process, main
    <3> QED  BY <2>2, <3>1, <3>2
  <2> QED  BY <2>1, <2>3, <2>4, <2>5, <2>6, <2>7 DEF Next, MainStep, Ended
<1> QED  BY <1>1, <1>2, <1>3, <1>4


LEMMA JobListStep ==
  ASSUME TypeInv, ProcessInv, LaunchInv, JobListExact, [Next]_vars
  PROVE  JobListExact'
<1> USE DEF TypeInv
<1>0. /\ IsInjective(job_list)
      /\ \A j \in Listed : Leader(j) \in Unreaped
      /\ \A j \in Job : pc \notin Dead /\ Plain(j) /\ Leader(j) \in Unreaped =>
           j \in Listed \/ (pc \in {"cmd", "setpgid"} /\ pipeline = j)
      /\ Listed \subseteq Job
  BY LenProperties, ElementOfSeq DEF JobListExact, Listed, Range, TypeOK
<1>1. IsInjective(job_list')
  <2>1. CASE job_list' = job_list
    BY <1>0, <2>1
  <2>2. CASE pipeline_post_process
    <3>1. pipeline \notin Listed
      BY <2>2, PostProcess, Pids DEF LaunchInv, Launching
    <3> QED  BY <1>0, <2>2, <3>1, PostProcess
  <2>3. ASSUME NEW q \in Reportable, Collects(q) PROVE IsInjective(job_list')
    BY <1>0, <2>3, CollectList
  <2> QED  BY <2>1, <2>2, <2>3, TableKinds
<1>2. ASSUME NEW p \in Pid, p \in Unreaped, Kept(p) PROVE p \in Unreaped'
  <2>1. run'[p] \in RunState
    BY TypeStep DEF TypeOK, KernelTypeOK
  <2> QED  BY <1>2, <2>1 DEF Unreaped, Kept, RunState
<1>3. ASSUME NEW j \in Listed' PROVE Leader(j) \in Unreaped'
  <2>1. CASE pipeline_post_process
    <3>1. /\ Listed' = Listed \cup {pipeline} /\ run' = run /\ Launching /\ pc = "cmd"
          /\ pipeline \in Job /\ n > 1
      BY <2>1, PostProcess, Pids DEF Launching, kernel
    <3>2. Leader(pipeline) \in Pid /\ Leader(pipeline)[1] = pipeline /\ Leader(pipeline)[2] = 1
      BY <3>1, Pids
    <3>3. Awaited(Leader(pipeline)) /\ run[Leader(pipeline)] # "reaped"
      BY <3>1, <3>2 DEF LaunchInv, Forked
    <3>4. Leader(pipeline) \in Unreaped
      BY <3>2, <3>3 DEF Unreaped, TypeOK, KernelTypeOK, RunState, ProcessInv, Awaited
    <3> QED  BY <1>0, <1>3, <3>1, <3>4 DEF Unreaped
  <2>2. ASSUME NEW q \in Reportable, Collects(q) PROVE Leader(j) \in Unreaped'
    <3>1. j \in Listed /\ (Leader(j) = q => ~Delists(report[q])) /\ Leader(j) \in Unreaped
      BY <1>0, <1>3, <2>2, CollectList
    <3>2. Leader(j) \in Pid /\ q \in Pid
      BY <3>1 DEF Unreaped, Reportable
    <3>3. run'[Leader(j)] \in RunState /\ run'[Leader(j)] # "none"
      BY <2>2, <3>1, <3>2, Collected, TypeStep DEF Collects, Unreaped, TypeOK, KernelTypeOK
    <3>4. run'[Leader(j)] # "reaped"
      BY <2>2, <3>1, <3>2, Collected DEF Collects, Unreaped
    <3> QED  BY <3>2, <3>3, <3>4 DEF Unreaped, RunState
  <2>3. CASE job_list' = job_list /\ \A p \in Pid : Kept(p)
    <3>1. j \in Listed
      BY <1>3, <2>3 DEF Listed
    <3>2. Leader(j) \in Unreaped /\ Leader(j) \in Pid
      BY <1>0, <3>1 DEF Unreaped
    <3> QED  BY <1>2, <2>3, <3>2
  <2>4. CASE pipeline_process
    <3>1. job_list' = job_list
      BY <2>4 DEF pipeline_process, table
    <3>2. Leader(j) \in Unreaped /\ Leader(j) \in Pid
      BY <1>0, <1>3, <3>1 DEF Unreaped, Listed
    <3>3. Leader(j) # Current
      BY <2>4, <3>2, Forks DEF Unreaped
    <3> QED  BY <1>2, <2>4, <3>2, <3>3, Forks
  <2> QED  BY <2>1, <2>2, <2>3, <2>4, StepKinds, TableKinds
<1>4. ASSUME NEW j \in Job, pc' \notin Dead, Plain(j), Leader(j) \in Unreaped'
      PROVE  j \in Listed' \/ (pc' \in {"cmd", "setpgid"} /\ pipeline' = j)
  <2>1. pc \notin Dead
    <3> USE DEF Main, AtCommand
    <3>1. CASE UNCHANGED main
      BY <1>4, <3>1 DEF main
    <3>2. CASE ReadLine \/ ReadWithoutTerminal \/ wait_for_job
      BY <3>2 DEF ReadLine, ReadWithoutTerminal, wait_for_job, Dead
    <3>3. CASE Loop
      BY <3>3 DEF Loop, EndOfLine, pre_process_Builtin, pre_process_Program, LoadJid,
         StoreJid, AssignJid, Dead
    <3>4. CASE Launch
      BY <3>4 DEF Launch, pipeline_process, setpgid_child, setpgid_child_Late, fork_Error,
         pipeline_post_process, Dead
    <3>5. CASE Builtin
      BY <3>5 DEF Builtin, jobs_execute, exit_execute, get_jid, get_jid_Abort, no_such_job,
         list_not_empty, get_job_from_jid, get_job_from_jid_Null, signal_job,
         signal_Foreground, signal_NoGroup, give_terminal_to, Dead
    <3>6. CASE Handler \/ UNCHANGED vars \/ \E p \in Pid : Process(p)
      BY <3>1, <3>6 DEF Handler, handler_enter, handler_reap, handler_return, vars, Process
    <3> QED  BY <3>2, <3>3, <3>4, <3>5, <3>6 DEF Next, MainStep, Ended
  <2>2. CASE pipeline_process /\ Leader(j) = Current
    BY <2>2 DEF pipeline_process, Leader, Current
  <2>3. CASE ~(pipeline_process /\ Leader(j) = Current)
    <3>1. Leader(j) \in Pid
      BY Pids
    <3>2. Leader(j) \in Unreaped
      <4>1. CASE Kept(Leader(j))
        <5>1. run[Leader(j)] \in RunState
          BY <3>1 DEF TypeOK, KernelTypeOK
        <5> QED  BY <1>4, <3>1, <4>1, <5>1 DEF Kept, Unreaped, RunState
      <4>2. ASSUME NEW q \in Reportable, Collects(q) PROVE Leader(j) \in Unreaped
        BY <1>4, <3>1, <4>2, Collected DEF Collects, Unreaped
      <4> QED  BY <2>3, <3>1, <4>1, <4>2, StepKinds, Forks
    <3>3. CASE j \in Listed
      <4>1. j \in Listed'
        <5>1. CASE job_list' = job_list
          BY <3>3, <5>1 DEF Listed
        <5>2. CASE pipeline_post_process
          BY <3>3, <5>2, PostProcess
        <5>3. ASSUME NEW q \in Reportable, Collects(q) PROVE j \in Listed'
          <6>1. Leader(j) = q => ~Delists(report[q])
            BY <1>4, <5>3, Collected DEF Collects, Unreaped
          <6> QED  BY <1>0, <3>3, <5>3, <6>1, CollectList
        <5> QED  BY <5>1, <5>2, <5>3, TableKinds
      <4> QED  BY <4>1
    <3>4. CASE pc \in {"cmd", "setpgid"} /\ pipeline = j
      <4> USE DEF Main, Goto, Finish, Dead
      <4>1. CASE ReadLine \/ ReadWithoutTerminal \/ wait_for_job \/ Loop
        BY <3>4, <4>1 DEF ReadLine, ReadWithoutTerminal, wait_for_job, Loop, EndOfLine,
           pre_process_Builtin, pre_process_Program, LoadJid, StoreJid, AssignJid
      <4>2. CASE Launch
        <5>1. CASE pipeline_post_process
          BY <3>4, <5>1, PostProcess
        <5> QED
          BY <1>4, <3>4, <4>2, <5>1 DEF Launch, pipeline_process, setpgid_child,
             setpgid_child_Late, fork_Error
      <4>3. ~Builtin
        <5>1. ~AtCommand("builtin")
          <6>1. pipeline # NoJob
            BY <3>4, Pids
          <6>2. ASSUME AtCommand("builtin") PROVE FALSE
            <7>1. pc = "cmd" /\ n <= Len(Cmds[j]) /\ Cmds[j][n] = "builtin"
              BY <3>4, <6>1, <6>2 DEF AtCommand
            <7>2. n \in DOMAIN Cmds[j]
              BY <7>1, Pids DEF TypeOK, ControlInv
            <7> QED  BY <1>4, <7>1, <7>2 DEF Plain
          <6> QED  BY <6>2
        <5> QED
          BY <3>4, <5>1 DEF Builtin, jobs_execute, exit_execute, get_jid, get_jid_Abort,
             no_such_job, list_not_empty, get_job_from_jid, get_job_from_jid_Null,
             signal_job, signal_Foreground, signal_NoGroup, give_terminal_to
      <4>4. CASE Handler \/ UNCHANGED vars \/ \E p \in Pid : Process(p)
        BY <3>4, <4>4 DEF Handler, handler_enter, handler_reap, handler_return, vars,
           Process, main
      <4> QED  BY <4>1, <4>2, <4>3, <4>4 DEF Next, MainStep, Ended
    <3> QED  BY <1>0, <1>4, <2>1, <3>2, <3>3, <3>4
  <2> QED  BY <2>2, <2>3
<1> QED  BY <1>1, <1>3, <1>4 DEF JobListExact

-----------------------------------------------------------------------------
(***************************************************************************)
(* The inductive invariant, and what follows from it.                      *)
(***************************************************************************)

LEMMA InvInit == Init => Inv
<1> SUFFICES ASSUME Init PROVE Inv
  OBVIOUS
<1>1. TypeInv
  BY TypeInit
<1>2. /\ \A p \in Pid : run[p] = "none" /\ phase[p] = "none" /\ report[p] = "none"
                        /\ pgid[p] = Shell
      /\ job_list = <<>> /\ pc = "prompt" /\ blocked = FALSE /\ in_handler = FALSE
  BY DEF Init, KernelInit
<1>3. Listed = {} /\ IsInjective(job_list)
  BY <1>2 DEF Listed, Range, IsInjective
<1>4. ProcessInv /\ NoLostSigchld
  BY <1>2 DEF ProcessInv, TermReport, NoLostSigchld, Reportable
<1>5. MaskInv /\ LaunchInv /\ WaitInv
  BY <1>2 DEF MaskInv, LaunchInv, Launching, WaitInv
<1>6. UnusedInv /\ GroupInv
  BY <1>2, <1>3 DEF UnusedInv, GroupInv
<1>7. JobListExact
  BY <1>2, <1>3, Pids DEF JobListExact, Unreaped
<1> QED  BY <1>1, <1>3, <1>4, <1>5, <1>6, <1>7 DEF Inv, TypeInv

LEMMA InvStep == Inv /\ [Next]_vars => Inv'
<1> SUFFICES ASSUME Inv, [Next]_vars PROVE Inv'
  OBVIOUS
<1>1. /\ TypeInv /\ ProcessInv /\ MaskInv /\ UnusedInv /\ LaunchInv /\ GroupInv /\ WaitInv
      /\ NoLostSigchld /\ JobListExact /\ IsInjective(job_list)
  BY DEF Inv, TypeInv, JobListExact
<1>2. TypeOK' /\ ControlInv'
  BY <1>1, TypeStep DEF TypeInv
<1>3. ProcessInv'
  BY <1>1, StepKinds
<1>4. MaskInv' /\ NoLostSigchld'
  BY <1>1, MaskStep, SigchldStep
<1>5. UnusedInv' /\ LaunchInv' /\ GroupInv'
  BY <1>1, UnusedStep, LaunchStep, GroupStep
<1>6. WaitInv' /\ JobListExact'
  BY <1>1, WaitStep, JobListStep
<1> QED  BY <1>2, <1>3, <1>4, <1>5, <1>6 DEF Inv

\* The invariant holds in every state of the shell.
THEOREM Invariance == Spec => []Inv
BY InvInit, InvStep, PTL DEF Spec

\* sigchld_handler forgets no status.
THEOREM SigchldNeverLost == Spec => []NoLostSigchld
<1>1. Inv => NoLostSigchld  BY DEF Inv
<1> QED  BY <1>1, Invariance, PTL

\* The list holds each job from the end of its launch until its first process
\* is reaped, once.
THEOREM JobListIsExact == Spec => []JobListExact
<1>1. Inv => JobListExact  BY DEF Inv
<1> QED  BY <1>1, Invariance, PTL

\* Blocking SIGCHLD before the first fork keeps the handler from reaping a
\* process of the pipeline.
THEOREM NothingReapedInLaunch == Spec => []LaunchUnreaped
<1>1. ASSUME Inv PROVE LaunchUnreaped
  <2> SUFFICES ASSUME pc \in {"cmd", "setpgid"}, NEW p \in Pid, p[1] = pipeline
               PROVE  run[p] # "reaped"
    BY DEF LaunchUnreaped
  <2>1. Launching
    BY Pids DEF Launching
  <2> QED  BY <1>1, <2>1 DEF Inv, LaunchInv
<1> QED  BY <1>1, Invariance, PTL

\* A wait in the foreground always has a status to come.
THEOREM WaitReturns == Spec => []WaitWillReturn
<1>1. ASSUME Inv PROVE WaitWillReturn
  BY <1>1 DEF Inv, WaitInv, WaitWillReturn, Awaited, Group, Unreaped, Reportable
<1> QED  BY <1>1, Invariance, PTL

\* setpgid, tcsetpgrp and waitpid never fail for want of a process in the group.
THEOREM GroupsAlwaysExist == Spec => []GroupsExist
<1>1. ASSUME Inv PROVE GroupsExist
  <2> USE <1>1 DEF Inv, GroupJoinable
  <2>1. ASSUME pc = "setpgid" PROVE GroupJoinable(Current, Leader(pipeline))
    <3>1. pipeline \in Job /\ n > 0 /\ n \in Nat /\ Launching
      BY <2>1, Pids DEF TypeOK, ControlInv, Launching
    <3>2. CASE n = 1
      BY <3>2 DEF Current, Leader
    <3>3. CASE n # 1
      <4>1. /\ Leader(pipeline) \in Pid /\ Leader(pipeline)[1] = pipeline
            /\ Leader(pipeline)[2] < n
        BY <3>1, <3>3, Pids
      <4>2. /\ pgid[Leader(pipeline)] = Leader(pipeline)
            /\ run[Leader(pipeline)] # "reaped" /\ Awaited(Leader(pipeline))
        BY <3>1, <4>1 DEF LaunchInv, Forked
      <4>3. Leader(pipeline) \in Group(Leader(pipeline))
        BY <4>1, <4>2 DEF Group, Unreaped, TypeOK, KernelTypeOK, RunState, ProcessInv, Awaited
      <4> QED  BY <4>3
    <3> QED  BY <3>2, <3>3
  <2>2. ASSUME NEW p \in Pid, run[p] = "live", phase[p] = "forked"
        PROVE  GroupJoinable(p, Leader(p[1]))
    <3>1. CASE pgid[p] = Leader(p[1])
      BY <2>2, <3>1 DEF Group, Unreaped
    <3>2. CASE pc = "setpgid" /\ p = Current
      <4>1. p[1] = pipeline
        BY <3>2 DEF Current
      <4> QED  BY <2>1, <3>2, <4>1
    <3> QED  BY <2>2, <3>1, <3>2 DEF GroupInv
  <2>3. pc \in {"give", "wait"} => Group(Leader(pipeline)) # {}
    BY DEF WaitInv
  <2> QED  BY <2>1, <2>2, <2>3 DEF GroupsExist
<1> QED  BY <1>1, Invariance, PTL

=============================================================================

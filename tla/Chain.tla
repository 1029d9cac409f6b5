------------------------------- MODULE Chain -------------------------------
(***************************************************************************)
(* What a pipeline promises its commands: the input of a command comes to  *)
(* its end when the command before it in the same pipeline has ended and   *)
(* not before, and then it does come to its end.                           *)
(***************************************************************************)
EXTENDS Naturals

CONSTANT Proc   \* the commands: pairs of a pipeline and a position in it

VARIABLES
  started,   \* the commands that have been started
  ended,     \* those of them that have ended
  drained    \* those still there whose input has come to its end

vars == <<started, ended, drained>>

TypeOK == ended \subseteq started /\ drained \subseteq started \ ended /\ started \subseteq Proc

Before(p) == <<p[1], p[2] - 1>>
After(p)  == <<p[1], p[2] + 1>>

Init == started = {} /\ ended = {} /\ drained = {}

Start(p) ==
  /\ p \notin started /\ (p[2] > 1 => Before(p) \in started)
  /\ started' = started \cup {p}
  /\ UNCHANGED <<ended, drained>>

Drain(p) ==
  /\ p[2] > 1 /\ Before(p) \in ended
  /\ p \in started \ (ended \cup drained)
  /\ drained' = drained \cup {p}
  /\ UNCHANGED <<started, ended>>

\* The input of the next command may come to its end in the same step.
End(p) ==
  /\ p \in started \ ended
  /\ ended' = ended \cup {p}
  /\ \/ drained' = drained \ {p}
     \/ /\ After(p) \in started \ (ended \cup drained)
        /\ drained' = (drained \ {p}) \cup {After(p)}
  /\ UNCHANGED started

Next == \E p \in Proc : Start(p) \/ Drain(p) \/ End(p)

Safety == Init /\ [][Next]_vars

\* The shell's duty; when commands start and end is not for it to say.
Spec == Safety /\ \A p \in Proc : WF_vars(Drain(p))
=============================================================================

------------------------------ MODULE CopyTask ------------------------------
(***************************************************************************)
(* What copying an environment promises, without workers, requests or      *)
(* dialogs: a task is begun for a set of elements, its environment is      *)
(* created or refused, every element is settled once, and the task is      *)
(* complete only when all of them are.  A task may be abandoned halfway.   *)
(***************************************************************************)
EXTENDS FiniteSets

CONSTANT Key

VARIABLES
  phase,     \* "none", "creating", "copying", "complete", "refused"
  outcome    \* what became of each element of the task; "outside" is no part of it

taskVars == <<phase, outcome>>

Settled == {"success", "skipped", "failed"}

Nothing == [k \in Key |-> "outside"]

Init == phase = "none" /\ outcome = Nothing

Begin(S) ==
  /\ phase = "none"
  /\ S # {}
  /\ phase' = "creating"
  /\ outcome' = [k \in Key |-> IF k \in S THEN "waiting" ELSE "outside"]

Created == phase = "creating" /\ phase' = "copying" /\ UNCHANGED outcome

Refused == phase = "creating" /\ phase' = "refused" /\ UNCHANGED outcome

Settle(k, s) ==
  /\ phase = "copying"
  /\ outcome[k] = "waiting"
  /\ outcome' = [outcome EXCEPT ![k] = s]
  /\ UNCHANGED phase

Complete ==
  /\ phase = "copying"
  /\ \A k \in Key : outcome[k] # "waiting"
  /\ phase' = "complete"
  /\ UNCHANGED outcome

\* The page is left or the dialog closed: the report is gone with it.
Forget == phase # "none" /\ phase' = "none" /\ outcome' = Nothing

Next ==
  \/ \E S \in SUBSET Key : Begin(S)
  \/ Created \/ Refused \/ Complete \/ Forget
  \/ \E k \in Key, s \in Settled : Settle(k, s)

Spec == Init /\ [][Next]_taskVars
=============================================================================

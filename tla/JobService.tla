----------------------------- MODULE JobService ------------------------------
(***************************************************************************)
(* What an actor's job slot promises whoever gave it an event: jobs run    *)
(* one at a time; a job that was accepted ends with exactly one report of  *)
(* its outcome, and only then is its event finalized and the slot free; a   *)
(* job one of whose tasks failed is never reported a success.              *)
(***************************************************************************)
EXTENDS Integers, FiniteSets

CONSTANT Events

VARIABLES
  current,   \* the event whose job occupies the slot, 0 when there is none
  tasks,     \* "sound", or "failed" once a task of the current job has failed
  report,    \* what was reported for each event, "none" before
  finalized  \* events given back to their producers

vars == <<current, tasks, report, finalized>>

Init ==
  /\ current = 0 /\ tasks = "sound"
  /\ report = [e \in Events |-> "none"]
  /\ finalized = {}

Accept(e) ==
  /\ current = 0 /\ e \notin finalized
  /\ current' = e
  /\ UNCHANGED <<tasks, report, finalized>>

TaskFails ==
  /\ current # 0 /\ report[current] = "none"
  /\ tasks' = "failed"
  /\ UNCHANGED <<current, report, finalized>>

Report(outcome) ==
  /\ current # 0 /\ report[current] = "none"
  /\ outcome = "success" => tasks = "sound"
  /\ report' = [report EXCEPT ![current] = outcome]
  /\ UNCHANGED <<current, tasks, finalized>>

Release ==
  /\ current # 0 /\ report[current] # "none"
  /\ finalized' = finalized \cup {current}
  /\ current' = 0 /\ tasks' = "sound"
  /\ UNCHANGED report

\* ACTOR_JOB_HALT ends a job with its report and its release in one
Halt ==
  /\ current # 0 /\ report[current] = "none"
  /\ report' = [report EXCEPT ![current] = "halted"]
  /\ finalized' = finalized \cup {current}
  /\ current' = 0 /\ tasks' = "sound"

Next ==
  \/ \E e \in Events : Accept(e)
  \/ TaskFails
  \/ \E outcome \in {"success", "failure"} : Report(outcome)
  \/ Release
  \/ Halt

Spec == Init /\ [][Next]_vars
=============================================================================

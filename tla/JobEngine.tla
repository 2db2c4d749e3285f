----------------------------- MODULE JobEngine -------------------------------
(***************************************************************************)
(* The turn of actor_job_execute as operators, for the modules that model  *)
(* concrete handlers (ActorJob models the engine under any handler).  A    *)
(* job is a record with the fields phase and task; a handler's signal is   *)
(* what it returns.                                                        *)
(***************************************************************************)
EXTENDS Integers

\* enum actor_job_signal.  QUIT_ISR, LOOP and RETRY leave the phases alone.
HALT == 0
CONTINUE == 1
WAIT == 3
QUIT_ISR == 4
LOOP == 5
TASK_SUCCESS == 252
TASK_FAILURE == 253
SUCCESS == 254
FAILURE == 255

\* Is a signal stored in the place of a phase?  The next turn takes it back.
Stored(job) == job.phase \in {SUCCESS, FAILURE} \/ job.task \in {TASK_SUCCESS, TASK_FAILURE}

\* A bug to catch: a stored TASK_SUCCESS is not taken back as the next phase
AdvanceStuck(job, s) ==
  CASE job.phase \in {SUCCESS, FAILURE} -> [phase |-> 0, task |-> job.task, signal |-> job.phase]
    [] job.task = TASK_FAILURE /\ job.phase \notin {SUCCESS, FAILURE} ->
         [phase |-> FAILURE, task |-> job.task, signal |-> FAILURE]
    [] OTHER -> [phase |-> IF s \in {SUCCESS, FAILURE} THEN s ELSE job.phase,
                 task |-> CASE s \in {WAIT, CONTINUE} -> job.task + 1
                            [] s \in {TASK_SUCCESS, TASK_FAILURE} -> s
                            [] OTHER -> job.task,
                 signal |-> s]

\* A bug to catch: a task that failed is followed by the next phase
AdvanceForgiving(job, s) ==
  CASE job.phase \in {SUCCESS, FAILURE} -> [phase |-> 0, task |-> job.task, signal |-> job.phase]
    [] job.task \in {TASK_SUCCESS, TASK_FAILURE} /\ job.phase \notin {SUCCESS, FAILURE} ->
         [phase |-> job.phase + 1, task |-> 0, signal |-> TASK_SUCCESS]
    [] OTHER -> [phase |-> IF s \in {SUCCESS, FAILURE} THEN s ELSE job.phase,
                 task |-> CASE s \in {WAIT, CONTINUE} -> job.task + 1
                            [] s \in {TASK_SUCCESS, TASK_FAILURE} -> s
                            [] OTHER -> job.task,
                 signal |-> s]

\* actor_job_advance
Advance(job, s) ==
  CASE job.phase \in {SUCCESS, FAILURE} -> [phase |-> 0, task |-> job.task, signal |-> job.phase]
    [] job.task = TASK_FAILURE /\ job.phase \notin {SUCCESS, FAILURE} ->
         [phase |-> FAILURE, task |-> job.task, signal |-> FAILURE]
    [] job.task = TASK_SUCCESS /\ job.phase \notin {SUCCESS, FAILURE} ->
         [phase |-> job.phase + 1, task |-> 0, signal |-> TASK_SUCCESS]
    [] OTHER -> [phase |-> IF s \in {SUCCESS, FAILURE} THEN s ELSE job.phase,
                 task |-> CASE s \in {WAIT, CONTINUE} -> job.task + 1
                            [] s \in {TASK_SUCCESS, TASK_FAILURE} -> s
                            [] OTHER -> job.task,
                 signal |-> s]

\* The turn in which actor_job_complete_callback is called
Completes(next) ==
  next.signal = HALT \/ (next.signal \in {SUCCESS, FAILURE} /\ next.phase = next.signal)

\* The turn that finalizes and frees the job
Finishes(next) ==
  next.signal = HALT \/ (next.signal \in {SUCCESS, FAILURE} /\ next.phase # next.signal)

\* The turn after which the loop rests until the job is executed again
Rests(next, isr) == next.signal \in {WAIT, LOOP} \/ (next.signal = QUIT_ISR /\ isr)
=============================================================================

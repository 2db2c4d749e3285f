------------------------------ MODULE ActorJob -------------------------------
(***************************************************************************)
(* The job engine (actor_rtos job.c) and the calls that start and feed a   *)
(* job (event.c): one actor's job slot.  The input thread starts jobs and  *)
(* passes responses to them; the job's own thread, of lower priority, or   *)
(* an interrupt of the actor's hardware executes it, calling its handler   *)
(* until the handler wants to wait.  Execution disables interrupts, so no  *)
(* thread or interrupt comes between the calls of one execution.           *)
(*                                                                         *)
(* What handlers compute is abstract: one may return any signal, until its *)
(* last phase, where handlers return ACTOR_JOB_SUCCESS.                    *)
(***************************************************************************)
EXTENDS Integers, Sequences, FiniteSets

CONSTANTS
  MaxEvents,   \* bound: the number of events that ask for a job
  IsrEvents,   \* the events whose jobs await interrupts, others await responses
  LastPhase,   \* the job_phase that falls into the handler's default case
  LastTask,    \* bound: the task_phase that ends a task
  MaxRetries   \* bound: TASK_RETRY and TASK_LOOP are returned at most so often

Events == 1..MaxEvents

ASSUME JobAssumption ==
  /\ MaxEvents \in Nat /\ IsrEvents \subseteq Events
  /\ MaxRetries \in Nat

VARIABLES
  slot,      \* *job_slot: the event it was allocated for, 0 when NULL
  job,       \* the contents of that allocation
  next_time, \* when the actor's worker in the job's thread is due: "now" or "never"
  running,   \* "none" or who executes the job: "thread" or "isr"
  call,      \* the input thread's call in progress
  fate,      \* ghost: what became of each event
  report,    \* ghost: what actor_job_complete_callback found, "none" before
  awaited,   \* responses on their way to the input thread, by the job they are for
  retries    \* ghost: retries so far

vars == <<slot, job, next_time, running, call, fate, report, awaited, retries>>

\* enum actor_job_signal.  Nothing in the repository returns ACTOR_JOB_RETRY.
HALT == 0
CONTINUE == 1
TASK_RETRY == 2
WAIT == 3
QUIT_ISR == 4
LOOP == 5
TASK_SUCCESS == 252
TASK_FAILURE == 253
SUCCESS == 254
FAILURE == 255
\* Counted phases stay below the signals stored in the same fields.
ASSUME PhaseAssumption ==
  LastPhase \in 1..(TASK_SUCCESS - 1) /\ LastTask \in 1..(TASK_SUCCESS - 1)

JobSignals == {HALT, CONTINUE, TASK_RETRY, WAIT, QUIT_ISR, LOOP,
               TASK_SUCCESS, TASK_FAILURE, SUCCESS, FAILURE}

\* A phase is counted from 0, or it is the signal stored in its place
JobPhases == 0..LastPhase \cup {SUCCESS, FAILURE}
TaskPhases == 0..LastTask \cup {TASK_SUCCESS, TASK_FAILURE}

Blank == [inciting |-> 0, incoming |-> 0, handler |-> "NULL", phase |-> 0, task |-> 0,
          irq |-> "off"]  \* has its execution enabled the actor's interrupt?
NoCall == [at |-> "none", event |-> 0, job |-> 0]

\* Memory the input thread still points to was freed, and zeroed, meanwhile
Stale == call.job # slot
-----------------------------------------------------------------------------
\* actor_event_accept_and_start_job_generic: allocate a job unless there is
\* one, and take a pointer to it
Start(e) ==
  /\ call = NoCall /\ running = "none"
  /\ fate[e] = "new"
  /\ slot' = IF slot = 0 THEN e ELSE slot
  /\ job' = IF slot = 0 THEN Blank ELSE job
  /\ call' = [at |-> "start", event |-> e, job |-> slot']
  /\ UNCHANGED <<next_time, running, fate, report, awaited, retries>>

\* A bug to catch: the event is stored without looking whether there is room
AcceptAlways ==
  /\ call.at = "start" /\ running = "none"
  /\ fate' = [fate EXCEPT ![call.event] = "accepted"]
  /\ call' = [call EXCEPT !.at = "accepted"]
  /\ job' = IF Stale THEN job ELSE [job EXCEPT !.inciting = call.event]
  /\ UNCHANGED <<slot, next_time, running, report, awaited, retries>>

\* ... the job's inciting_event is idle, it stores the event; otherwise the
\* actor is busy.  The zeroes of a freed job read as ACTOR_EVENT_IDLE.
Accept ==
  /\ call.at = "start" /\ running = "none"
  /\ IF ~Stale /\ job.inciting # 0
     THEN /\ fate' = [fate EXCEPT ![call.event] = "deferred"]
          /\ call' = NoCall
          /\ UNCHANGED job
     ELSE /\ fate' = [fate EXCEPT ![call.event] = "accepted"]
          /\ call' = [call EXCEPT !.at = "accepted"]
          /\ job' = IF Stale THEN job ELSE [job EXCEPT !.inciting = call.event]
  /\ UNCHANGED <<slot, next_time, running, report, awaited, retries>>

\* ... set the job's handler and thread, and schedule its worker
Schedule ==
  /\ call.at = "accepted" /\ running = "none"
  /\ job' = IF Stale THEN job ELSE [job EXCEPT !.handler = "set"]
  /\ next_time' = "now"
  /\ call' = NoCall
  /\ UNCHANGED <<slot, running, fate, report, awaited, retries>>

\* A response arrives for the actor: without a job there is nobody to pass it to
Respond(j) ==
  /\ call = NoCall /\ running = "none"
  /\ awaited[j] > 0
  /\ IF slot = 0
     THEN /\ awaited' = [awaited EXCEPT ![j] = @ - 1]
          /\ UNCHANGED call
     ELSE /\ call' = [at |-> "pass", event |-> j, job |-> slot]
          /\ UNCHANGED awaited
  /\ UNCHANGED <<slot, job, next_time, running, fate, report, retries>>

\* actor_event_accept_and_pass_to_job_generic: store it as incoming_event and
\* schedule the worker, or defer it when one is still there
Pass ==
  /\ call.at = "pass" /\ running = "none"
  /\ call' = NoCall
  /\ IF ~Stale /\ job.incoming # 0
     THEN UNCHANGED <<job, next_time, awaited>>
     ELSE /\ job' = IF Stale THEN job ELSE [job EXCEPT !.incoming = call.event]
          /\ next_time' = "now"
          /\ awaited' = [awaited EXCEPT ![call.event] = @ - 1]
  /\ UNCHANGED <<slot, running, fate, report, retries>>

-----------------------------------------------------------------------------
\* actor_job_execute_if_running_in_thread, called by the due worker.  The
\* thread has a lower priority than the input thread.
RunInThread ==
  /\ running = "none" /\ call = NoCall /\ next_time = "now"
  /\ next_time' = "never"
  /\ IF slot # 0 /\ job.handler = "set"
     THEN running' = "thread" /\ job' = [job EXCEPT !.irq = "on"]
     ELSE UNCHANGED <<running, job>>
  /\ UNCHANGED <<slot, call, fate, report, awaited, retries>>

\* The interrupt handler of the actor's hardware executes the job, as in
\* i2c_notify and sdio_notify, also inside a call of the input thread
RunInIsr ==
  /\ running = "none"
  /\ slot # 0 /\ job.irq = "on" /\ job.inciting \in IsrEvents
  /\ running' = "isr"
  /\ UNCHANGED <<slot, job, next_time, call, fate, report, awaited, retries>>

\* What the handler may return, by where it is called
Choices ==
  IF job.phase = LastPhase THEN {SUCCESS}
  ELSE {s \in JobSignals :
          /\ s \in {CONTINUE, WAIT} => job.task \notin {LastTask, TASK_SUCCESS, TASK_FAILURE}
          /\ s \in {TASK_RETRY, LOOP} => retries < MaxRetries
          /\ s = QUIT_ISR => running = "isr"
          /\ s = LOOP => job.inciting \in IsrEvents}

\* actor_job_advance, its last switch: the handler's signal sets the phases
Obey(s) ==
  [phase |-> IF s \in {SUCCESS, FAILURE} THEN s ELSE job.phase,
   task |-> CASE s = TASK_RETRY -> 0
              [] s \in {WAIT, CONTINUE} -> job.task + 1
              [] s \in {TASK_SUCCESS, TASK_FAILURE} -> s
              [] OTHER -> job.task,
   signal |-> s]

\* A bug to catch: a stored TASK_FAILURE does not make the job fail
AdvanceForgiving(s) ==
  IF job.phase \in {SUCCESS, FAILURE}
  THEN [phase |-> 0, task |-> job.task, signal |-> job.phase]
  ELSE IF job.task \in {TASK_SUCCESS, TASK_FAILURE}
  THEN [phase |-> job.phase + 1, task |-> 0, signal |-> TASK_SUCCESS]
  ELSE Obey(s)

\* A bug to catch: the handler's signal counts beside a stored TASK_SUCCESS
AdvanceTwice(s) ==
  IF job.phase \in {SUCCESS, FAILURE}
  THEN [phase |-> 0, task |-> job.task, signal |-> job.phase]
  ELSE IF job.task = TASK_FAILURE
  THEN [phase |-> FAILURE, task |-> job.task, signal |-> FAILURE]
  ELSE IF job.task = TASK_SUCCESS
  THEN [phase |-> IF s = TASK_SUCCESS THEN job.phase + 2 ELSE job.phase + 1,
        task |-> 0, signal |-> TASK_SUCCESS]
  ELSE Obey(s)

\* actor_job_advance: a stored SUCCESS or FAILURE is taken back, whatever the
\* handler says; so is a stored TASK_SUCCESS or TASK_FAILURE; then the
\* handler's signal counts.
Advance(s) ==
  IF job.phase \in {SUCCESS, FAILURE}
  THEN [phase |-> 0, task |-> job.task, signal |-> job.phase]
  ELSE IF job.task = TASK_FAILURE
  THEN [phase |-> FAILURE, task |-> job.task, signal |-> FAILURE]
  ELSE IF job.task = TASK_SUCCESS
  THEN [phase |-> job.phase + 1, task |-> 0, signal |-> TASK_SUCCESS]
  ELSE Obey(s)

Outcome(s) ==
  CASE s = SUCCESS -> "success" [] s = FAILURE -> "failure" [] OTHER -> "halted"

Reported(s) == report' = [report EXCEPT ![job.inciting] = Outcome(s)]

\* actor_job_finalize: both events are finalized, the job is freed.  Then
\* actor_node_idle_callback has the deferred events offered again.
Finalize ==
  /\ fate' = [e \in Events |-> IF e = job.inciting THEN "finalized"
                               ELSE IF fate[e] = "deferred" THEN "new" ELSE fate[e]]
  /\ slot' = 0
  /\ job' = Blank
  /\ running' = "none"

\* actor_job_execute, one turn of its loop, by the signal after advance
Ends(next) ==                       \* ACTOR_JOB_SUCCESS, _FAILURE or _HALT
  /\ next.signal \in {SUCCESS, FAILURE, HALT}
  /\ IF next.phase = next.signal \/ next.signal = HALT
     THEN Reported(next.signal) ELSE UNCHANGED report
  /\ IF next.phase # next.signal \/ next.signal = HALT
     THEN Finalize
     ELSE /\ job' = [job EXCEPT !.phase = next.phase, !.task = next.task]
          /\ UNCHANGED <<fate, slot, running>>
  /\ UNCHANGED <<next_time, awaited>>

Goes(next) ==                       \* the loop turns again
  /\ next.signal \in {TASK_RETRY, CONTINUE, TASK_FAILURE, TASK_SUCCESS}
  /\ job' = [job EXCEPT !.phase = next.phase, !.task = next.task]
  /\ UNCHANGED <<slot, running, next_time, fate, report, awaited>>

\* A bug to catch: the loop does not halt to wait for the response
WaitsNot(next) ==
  /\ next.signal = WAIT
  /\ job' = [job EXCEPT !.task = next.task, !.incoming = 0]
  /\ awaited' = IF job.inciting \in IsrEvents THEN awaited
                ELSE [awaited EXCEPT ![slot] = @ + 1]
  /\ UNCHANGED <<slot, next_time, running, fate, report>>

Waits(next) ==                      \* incoming_event is finalized to free its room
  /\ next.signal = WAIT
  /\ job' = [job EXCEPT !.task = next.task, !.incoming = 0]
  /\ running' = "none"
  /\ awaited' = IF job.inciting \in IsrEvents THEN awaited
                ELSE [awaited EXCEPT ![slot] = @ + 1]
  /\ UNCHANGED <<slot, next_time, fate, report>>

Loops(next) ==                      \* halts until it is executed again
  /\ next.signal = LOOP
  /\ running' = "none"
  /\ UNCHANGED <<slot, job, next_time, fate, report, awaited>>

\* A bug to catch: nothing makes the thread go on
QuitsIsrUnscheduled(next) ==
  /\ next.signal = QUIT_ISR
  /\ job' = [job EXCEPT !.irq = "off"]
  /\ running' = "none"
  /\ UNCHANGED <<slot, next_time, fate, report, awaited>>

QuitsIsr(next) ==                   \* interrupts are off, the thread has to go on
  /\ next.signal = QUIT_ISR
  /\ job' = [job EXCEPT !.irq = "off"]
  /\ next_time' = "now"
  /\ running' = "none"
  /\ UNCHANGED <<slot, fate, report, awaited>>

Execute ==
  /\ running # "none"
  /\ \E s \in Choices :
       LET next == Advance(s)
       IN  /\ Ends(next) \/ Goes(next) \/ Waits(next) \/ Loops(next) \/ QuitsIsr(next)
           /\ retries' = IF next.signal \in {TASK_RETRY, LOOP} THEN retries + 1 ELSE retries
  /\ UNCHANGED call

-----------------------------------------------------------------------------
Init ==
  /\ slot = 0 /\ job = Blank
  /\ next_time = "never" /\ running = "none" /\ call = NoCall
  /\ fate = [e \in Events |-> "new"]
  /\ report = [e \in Events |-> "none"]
  /\ awaited = [j \in Events |-> 0]
  /\ retries = 0

InputThread == (\E e \in Events : Start(e) \/ Respond(e)) \/ Accept \/ Schedule \/ Pass

Next == InputThread \/ RunInThread \/ RunInIsr \/ Execute

Spec == Init /\ [][Next]_vars

\* The threads get their turns, interrupts that are awaited come, and a handler
\* that is called returns.
FairSpec == /\ Spec
            /\ WF_vars(InputThread) /\ WF_vars(RunInThread)
            /\ WF_vars(RunInIsr) /\ WF_vars(Execute)
-----------------------------------------------------------------------------
Jobs == [inciting : Events \cup {0}, incoming : Events \cup {0}, handler : {"NULL", "set"},
         phase : JobPhases, task : TaskPhases, irq : {"off", "on"}]
Calls == [at : {"none", "start", "accepted", "pass"}, event : Events \cup {0},
          job : Events \cup {0}]

TypeOK ==
  /\ slot \in Events \cup {0}
  /\ job \in Jobs
  /\ next_time \in {"now", "never"}
  /\ running \in {"none", "thread", "isr"}
  /\ call \in Calls
  /\ fate \in [Events -> {"new", "deferred", "accepted", "finalized"}]
  /\ report \in [Events -> {"none", "success", "failure", "halted"}]
  /\ awaited \in [Events -> Nat]
  /\ retries \in 0..MaxRetries

Holds(e) == slot # 0 /\ job.inciting = e

\* README.md:108 "events are never lost": an event an actor has accepted for a
\* job is in the job slot until it is finalized.
AcceptedIsHeld == \A e \in Events : fate[e] = "accepted" => Holds(e)

\* event.c:53-71: that is so of every event that got there, whatever interrupts,
\* calls and threads do meanwhile.  The one way to lose an accepted event is to
\* store it in a job that was freed since the input thread looked at the slot.
LostToFreedJobOnly ==
  [][\A e \in Events :
       fate'[e] = "accepted" /\ ~Holds(e)' =>
         IF fate[e] = "accepted" THEN ~Holds(e) ELSE call.event = e /\ Stale]_vars

\* w25.c:175-177: the response a job finds in incoming_event answers its own
\* request, never one of an earlier job in the same slot.
ResponseForThisJob == slot # 0 => job.incoming \in {0, slot}

\* Every job that holds its event comes to its end: whoever executes it, whatever
\* it waits for, something executes it again.
JobsEnd == \A e \in Events : Holds(e) ~> fate[e] = "finalized"

\* job.c:16-30, 74-93: the engine implements the job service: one job at a
\* time, exactly one report and then the release, no success after a failure.
Service == INSTANCE JobService WITH
  current <- job.inciting,
  tasks <- IF job.task = TASK_FAILURE THEN "failed" ELSE "sound",
  finalized <- {e \in Events : fate[e] = "finalized"}
ServiceSpec == Service!Spec
=============================================================================

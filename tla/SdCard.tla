------------------------------- MODULE SdCard --------------------------------
(***************************************************************************)
(* The SD card driver (sdcard.c): file operations as jobs in a thread of   *)
(* its own, SDFS, that has no queue and may block.  The callbacks of the    *)
(* file system publish a request to the SDIO transport and sleep in         *)
(* actor_job_wait (job.c) until the thread is woken; a wake-up is taken for  *)
(* the answer.  littlefs is external: an operation moves any number of      *)
(* blocks and succeeds.                                                      *)
(*                                                                         *)
(* Of the times of SDFS only their order matters: next is "due" when         *)
(* next_time is not after current_time, and "later" when it is a minute on.  *)
(***************************************************************************)
EXTENDS Sdio

CONSTANTS
  Files,       \* events for the driver, numbered from 1
  FileType,    \* "WRITE", or "OTHER" for OPEN, READ, CLOSE and ERASE
  MaxAlarms    \* bound: wake-ups of SDFS because a minute has passed

ASSUME SdCardAssumption ==
  /\ Files \subseteq Nat \ {0} /\ IsFiniteSet(Files) /\ MaxAlarms \in Nat
  /\ FileType \in [Files -> {"WRITE", "OTHER"}]

Mount == -1   \* the job that the first alarm of the input thread starts

VARIABLES
  file,     \* where each event is
  job,      \* the event of sdcard->job, 0 without a job, and whether it was overwritten
  pc,       \* SDFS: "dispatch" an alarm, or in actor_thread_event_await: "compute" the
            \* timeout, "take" the notification, "woken"
  waiting,  \* is that the await of actor_job_wait?
  timeout,  \* the timeout that was computed: "zero" or "minute"
  next,     \* thread->next_time: "due" or "later"
  worker,   \* is worker->next_time due?
  slot,     \* is RESCHEDULE in the notification slot?
  alarms    \* wake-ups after a minute

threadVars == <<pc, waiting, timeout, next, worker, slot, alarms>>
vars == <<sdioVars, file, job, threadVars>>

NoFile == [event |-> 0, overwritten |-> FALSE]

\* The input thread has the highest priority: it starts the MOUNT before SDFS first runs
Init ==
  /\ SdioInit
  /\ file = [f \in Files |-> "none"] /\ job = [NoFile EXCEPT !.event = Mount]
  /\ pc = "dispatch" /\ waiting = FALSE /\ timeout = "minute" /\ next = "later"
  /\ worker = TRUE /\ slot = FALSE /\ alarms = 0
-----------------------------------------------------------------------------
\* A bug to catch: the thread is not told when its next_time comes forward
ScheduleQuietly ==
  /\ worker' = TRUE /\ next' = "due"
  /\ UNCHANGED slot

\* actor_thread_actor_schedule for sdcard, at the current time of SDFS: the thread is told
\* when its next_time comes forward
Schedule ==
  /\ worker' = TRUE /\ next' = "due"
  /\ slot' = (slot \/ next = "later")

\* An actor publishes an event for a file
Publish(f) ==
  /\ ThreadsRun /\ file[f] = "none"
  /\ file' = [file EXCEPT ![f] = "published"]
  /\ UNCHANGED <<sdioVars, job, threadVars>>

\* sdcard_worker_on_input: start a job, or defer the event while there is one
OfferFile(f) ==
  /\ ThreadsRun /\ file[f] = "published"
  /\ IF job.event = 0
     THEN /\ file' = [file EXCEPT ![f] = "accepted"]
          /\ job' = [NoFile EXCEPT !.event = f]
          /\ Schedule
     ELSE /\ file' = [file EXCEPT ![f] = "deferred"]
          /\ UNCHANGED <<job, worker, next, slot>>
  /\ UNCHANGED <<sdioVars, pc, waiting, timeout, alarms>>

\* actor_thread_event_await, its timeout
Compute ==
  /\ ThreadsRun /\ pc = "compute"
  /\ pc' = "take" /\ timeout' = (IF next = "due" THEN "zero" ELSE "minute")
  /\ UNCHANGED <<sdioVars, file, job, waiting, next, worker, slot, alarms>>

\* ... a notification sends it back, no notification in time makes it an alarm, which
\* overwrites the event the caller passes: in actor_job_wait that is job->inciting_event
Take ==
  /\ ThreadsRun /\ pc = "take"
  /\ IF slot THEN pc' = "compute" /\ slot' = FALSE /\ UNCHANGED <<alarms, job>>
     ELSE /\ pc' = "woken" /\ UNCHANGED slot
          /\ \/ timeout = "zero" /\ UNCHANGED alarms
             \/ timeout = "minute" /\ alarms < MaxAlarms /\ alarms' = alarms + 1
          /\ job' = IF waiting THEN [job EXCEPT !.overwritten = TRUE] ELSE job
  /\ UNCHANGED <<sdioVars, file, waiting, timeout, next, worker>>

\* A bug to catch: the schedule that has expired is kept
WakeDue ==
  /\ ThreadsRun /\ pc = "woken"
  /\ IF waiting THEN worker' = FALSE /\ cpu' = "sdcard" ELSE UNCHANGED <<worker, cpu>>
  /\ pc' = "dispatch" /\ waiting' = FALSE /\ timeout' = "minute"
  /\ UNCHANGED <<request, outcome, sdio, incoming, buffers, capacity, cardVars, isr, due, stopped,
                 file, job, next, slot, alarms>>

\* ... its end: current_time is read, next_time is a minute on.  The job that waited goes on
\* with interrupts masked and its worker not due any more.
Wake ==
  /\ ThreadsRun /\ pc = "woken"
  /\ next' = "later"
  /\ IF waiting THEN worker' = FALSE /\ cpu' = "sdcard" ELSE UNCHANGED <<worker, cpu>>
  /\ pc' = "dispatch" /\ waiting' = FALSE /\ timeout' = "minute"
  /\ UNCHANGED <<request, outcome, sdio, incoming, buffers, capacity, cardVars, isr, due, stopped,
                 file, job, slot, alarms>>

\* actor_thread_event_dispatch of the alarm, sdcard_worker_thread: the job is executed
Dispatch ==
  /\ ThreadsRun /\ pc = "dispatch"
  /\ worker' = FALSE
  /\ IF worker /\ job.event # 0 THEN cpu' = "sdcard" /\ UNCHANGED pc
     ELSE pc' = "compute" /\ UNCHANGED cpu
  /\ UNCHANGED <<request, outcome, sdio, incoming, buffers, capacity, cardVars, isr, due, stopped,
                 file, job, waiting, timeout, next, slot, alarms>>
-----------------------------------------------------------------------------
Unused == {r \in Requests : request[r].state = "none"}

\* A callback of littlefs, or the MOUNT before it: actor_job_publish_event_generic.  The
\* caller of actor_job_wait looks at no signal.
Callback(type) ==
  /\ cpu = "sdcard"
  /\ (type = "MOUNT") = (job.event = Mount /\ ~job.overwritten)
  /\ \E r \in Unused : /\ \A o \in Unused : r <= o
                       /\ request' = [request EXCEPT ![r] = [state |-> "published", type |-> type]]
  /\ cpu' = "threads" /\ pc' = "compute" /\ waiting' = TRUE
  /\ UNCHANGED <<outcome, sdio, incoming, buffers, capacity, cardVars, isr, due, stopped,
                 file, job, timeout, next, worker, slot, alarms>>

\* The handler ends with ACTOR_JOB_HALT: the job is finalized, and deferred events are
\* offered again.  Of an event that was overwritten no report goes to its producer.
Halts ==
  /\ cpu = "sdcard" /\ (job.event = Mount => job.overwritten)
  /\ file' = [f \in Files |-> IF f = job.event
                              THEN IF job.overwritten THEN "unreported" ELSE "reported"
                              ELSE IF file[f] = "deferred" THEN "published" ELSE file[f]]
  /\ job' = NoFile
  /\ cpu' = "threads" /\ pc' = "compute"
  /\ UNCHANGED <<request, outcome, sdio, incoming, buffers, capacity, cardVars, isr, due, stopped,
                 waiting, timeout, next, worker, slot, alarms>>

\* sdcard_job_write whose lfs_file_seek had to flush, so that it slept: its data are gone
\* with its event, which the assertion of actor_buffer_source finds
LosesData ==
  /\ cpu = "sdcard" /\ job.event \in Files /\ job.overwritten
  /\ FileType[job.event] = "WRITE"
  /\ stopped' = "data overwritten" /\ cpu' = "threads"
  /\ UNCHANGED <<request, outcome, sdio, incoming, buffers, capacity, cardVars, isr, due,
                 file, job, threadVars>>

JobRuns == \/ \E type \in {"MOUNT", "READ_TO_BUFFER", "WRITE"} : Callback(type)
           \/ Halts \/ LosesData

\* A turn of the transport.  The event it finalizes is reported to its producer:
\* sdcard_on_event_report schedules the job's thread, without looking if there is a job.
TransportTurn ==
  /\ JobTurn
  /\ IF sdio'.event # 0 THEN UNCHANGED <<stopped, worker, next, slot>>
     ELSE IF job.event # 0 THEN Schedule /\ UNCHANGED stopped
     ELSE stopped' = "report without job" /\ UNCHANGED <<worker, next, slot>>
  /\ UNCHANGED <<file, job, pc, waiting, timeout, alarms>>

\* What the transport, the card and the DMA do without the driver
Transport ==
  /\ \/ \E r \in Requests : Offer(r)
     \/ RunInThread \/ SdioInterrupt \/ DmaInterrupt \/ CommandStep \/ DataStep \/ DmaStep
  /\ UNCHANGED <<file, job, threadVars>>

Next ==
  \/ \E f \in Files : Publish(f) \/ OfferFile(f)
  \/ Compute \/ Take \/ Wake \/ Dispatch
  \/ JobRuns \/ TransportTurn \/ Transport

Spec == Init /\ [][Next]_vars

\* The scheduler runs every thread that is ready, interrupts are served, a minute passes
\* if MaxAlarms allows, and the card goes on: it answers or times out.  A pending DMA
\* interrupt is served although those of SDIO keep coming.  The stream fills the FIFO for
\* data to send; one that receives need not come to its end.
Fairness ==
  LET Alone == UNCHANGED <<file, job, threadVars>> IN
  /\ \A f \in Files : WF_vars(OfferFile(f))
  /\ WF_vars(Compute) /\ WF_vars(Take) /\ WF_vars(Wake) /\ WF_vars(Dispatch)
  /\ WF_vars(JobRuns) /\ WF_vars(TransportTurn)
  /\ \A r \in Requests : WF_vars(Offer(r) /\ Alone)
  /\ WF_vars(RunInThread /\ Alone) /\ WF_vars(SdioInterrupt /\ Alone)
  /\ SF_vars(DmaInterrupt /\ Alone) /\ WF_vars(dma = "tx" /\ DmaStep /\ Alone)
  /\ WF_vars(CommandStep /\ Alone) /\ WF_vars(DataStep /\ Alone)

FairSpec == Spec /\ Fairness
-----------------------------------------------------------------------------
\* The values the variables can have: no count of buffers below zero, no task after the last.
TypeOK ==
  /\ request \in [Requests -> [state : {"none", "published", "deferred", "accepted", "done"},
                               type : {"none", "MOUNT", "READ_TO_BUFFER", "WRITE"}]]
  /\ outcome \in [Requests -> {0, SUCCESS, FAILURE}]
  /\ sdio \in [event : {0} \cup Requests, phase : 0..2 \cup {SUCCESS, FAILURE},
               task : 0..20 \cup {TASK_SUCCESS, TASK_FAILURE}]
  /\ {incoming, capacity, isr, due, waiting, worker, slot} \subseteq BOOLEAN
  /\ buffers \in 0..MaxErrors + 1
  /\ sta \in {"clear", "sent", "answered", "failed"}
  /\ data \in {"off", "moving", "ended", "error"}
  /\ dma \in {"off", "rx", "rx done", "rx idle", "tx", "tx done", "tx idle"}
  /\ notReady \in 0..MaxNotReady /\ errors \in 0..MaxErrors
  /\ cpu \in {"threads", "sdio", "sdcard"}
  /\ stopped \in {"no", "signal without job", "report without job", "data overwritten"}
  /\ file \in [Files -> {"none", "published", "deferred", "accepted", "reported", "unreported"}]
  /\ job \in [event : {0, Mount} \cup Files, overwritten : BOOLEAN]
  /\ pc \in {"dispatch", "compute", "take", "woken"}
  /\ timeout \in {"zero", "minute"} /\ next \in {"due", "later"} /\ alarms \in 0..MaxAlarms

\* Requests that are not answered yet
Outstanding == {r \in Requests : request[r].state \in {"published", "deferred", "accepted"}}

\* A callback returns to the file system when its block was transferred: the job leaves no
\* request behind it, but one for each minute that woke it instead of the answer.
AnswersAwaited ==
  Cardinality(Outstanding) <= alarms + (IF waiting THEN 1 ELSE 0)

\* The report of a request finds the driver's job, and the DMA's signal the transport's,
\* unless a minute has passed, or a block has failed.
StopsForAReason ==
  /\ stopped = "report without job" => alarms > 0
  /\ stopped = "signal without job" => errors > 0

\* The transport's jobs leave no buffer behind but those of blocks that failed.
OnlyFailuresLeak ==
  sdio.event = 0 /\ stopped = "no" =>
    buffers = Cardinality({r \in Requests : outcome[r] = FAILURE})

\* A notification is not lost: a thread about to sleep for a minute although its worker is
\* due has one in its slot.
NoLostWakeup == pc = "take" /\ timeout = "minute" /\ worker => slot

\* The transport's job slot keeps the promise of JobService.
ReportOf(r) == CASE outcome[r] = SUCCESS -> "success"
                 [] outcome[r] = FAILURE -> "failure"
                 [] OTHER -> "none"
Service == INSTANCE JobService WITH
  Events <- Requests, current <- sdio.event,
  tasks <- IF sdio.task = TASK_FAILURE THEN "failed" ELSE "sound",
  report <- [r \in Requests |-> ReportOf(r)],
  finalized <- {r \in Requests : request[r].state = "done"}
TransportServes == Service!Spec

\* A file operation that began ends, unless the program stops.
OperationEnds == job.event # 0 ~> job.event = 0 \/ stopped # "no"
=============================================================================

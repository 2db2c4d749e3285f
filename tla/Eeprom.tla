------------------------------- MODULE Eeprom --------------------------------
(***************************************************************************)
(* The diagnosis job of the AT24C driver (at24c.c) on the I2C transport:   *)
(* read the first byte, write it plus one, read again, compare.  The       *)
(* driver waits for the report of each of its requests; an actor that       *)
(* reads from the same bus competes with it.                                *)
(*                                                                         *)
(* Two bytes are compared in the code; the second never changes, so that a *)
(* buffer is here its first byte.  Allocation is taken to succeed.          *)
(***************************************************************************)
EXTENDS I2c

CONSTANTS
  Bytes,        \* values of a byte, 256 in the code
  MaxDiagnoses  \* bound: DIAGNOSE events

ASSUME EepromAssumption == Bytes \in Nat \ {0, 1} /\ MaxDiagnoses \in Nat

VARIABLES
  job,      \* the job of at24c: event is 1 while it diagnoses
  target,   \* at24c->target_buffer: [state, byte]
  snapshot, \* at24c->source_buffer
  first,    \* job->result
  cells,    \* external: the byte in the EEPROM
  before,   \* ghost: what it was when the diagnosis began
  asked     \* DIAGNOSE events so far

driverVars == <<job, target, snapshot, first>>
vars == <<i2cVars, driverVars, cells, before, asked>>

NoBuffer == [state |-> "none", byte |-> 0]
Released(buffer) == [buffer EXCEPT !.state = "freed"]
Garbage == Bytes    \* what a new buffer contains

Init ==
  /\ I2cInit
  /\ job = NoJob /\ target = NoBuffer /\ snapshot = NoBuffer /\ first = NoBuffer
  /\ cells \in 0..Bytes - 1 /\ before = cells
  /\ asked = 0
-----------------------------------------------------------------------------
\* An actor other than at24c publishes a READ
PublishRead(e) ==
  /\ ThreadsRun /\ TypeOf[e] = "READ" /\ request[e] = "none"
  /\ request' = [request EXCEPT ![e] = "published"]
  /\ UNCHANGED <<outcome, i2c, incoming, deviceVars, cpu, isr, due,
                 driverVars, cells, before, asked>>

\* at24c_worker_input: DIAGNOSE starts the job.  While there is one the event is
\* neither handled nor deferred: it is lost.
Diagnose ==
  /\ ThreadsRun /\ asked < MaxDiagnoses
  /\ asked' = asked + 1
  /\ IF job.event = 0
     THEN job' = [NoJob EXCEPT !.event = 1] /\ due' = due \cup {"at24c"} /\ before' = cells
     ELSE UNCHANGED <<job, due, before>>
  /\ UNCHANGED <<request, outcome, i2c, incoming, deviceVars, cpu, isr,
                 target, snapshot, first, cells>>

\* at24c_worker_low_priority
RunDriver ==
  /\ ThreadsRun /\ "at24c" \in due
  /\ due' = due \ {"at24c"}
  /\ cpu' = IF job.event # 0 THEN "at24c" ELSE cpu
  /\ isr' = FALSE
  /\ UNCHANGED <<request, outcome, i2c, incoming, deviceVars, driverVars, cells, before, asked>>

\* actor_job_execute goes on with the signal of the handler
DriverReturns(s) ==
  LET next == Advance(job, s) IN
  /\ cpu = "at24c"
  /\ cpu' = IF Finishes(next) \/ Rests(next, isr) THEN "threads" ELSE "at24c"
  /\ job' = IF Finishes(next) THEN NoJob
            ELSE [job EXCEPT !.phase = next.phase, !.task = next.task]
  /\ UNCHANGED <<outcome, i2c, incoming, deviceVars, isr, due, cells, before, asked>>

DriverAt(phases) == cpu = "at24c" /\ ~Stored(job) /\ job.phase \in phases

\* actor_publish of a request to i2c: the first of its type that was not yet made
Request(type) ==
  \E e \in Requests :
    /\ TypeOf[e] = type /\ request[e] = "none"
    /\ \A f \in Requests : TypeOf[f] = type /\ request[f] = "none" => e <= f
    /\ request' = [request EXCEPT ![e] = "published"]

\* A bug to catch: the report of the read is not waited for
TaskReadHasty ==
  /\ DriverAt({0, 2})
  /\ \/ /\ job.task = 0
        /\ target' = [state |-> "held", byte |-> Garbage]
        /\ first' = IF job.phase = 2 THEN target ELSE first
        /\ DriverReturns(CONTINUE) /\ UNCHANGED request
     \/ job.task = 1 /\ Request("READ_TO_BUFFER") /\ DriverReturns(CONTINUE) /\ UNCHANGED <<target, first>>
     \/ job.task = 2 /\ DriverReturns(TASK_SUCCESS) /\ UNCHANGED <<target, first, request>>
  /\ UNCHANGED snapshot

\* at24c_task_read, in phase 2 after job->result took the first buffer.  Two bytes at
\* 0x0010 are on one page of the device: one request.
TaskRead ==
  /\ DriverAt({0, 2})
  /\ \/ /\ job.task = 0
        /\ target' = [state |-> "held", byte |-> Garbage]
        /\ first' = IF job.phase = 2 THEN target ELSE first
        /\ DriverReturns(CONTINUE) /\ UNCHANGED request
     \/ job.task = 1 /\ Request("READ_TO_BUFFER") /\ DriverReturns(WAIT) /\ UNCHANGED <<target, first>>
     \/ job.task = 2 /\ DriverReturns(TASK_SUCCESS) /\ UNCHANGED <<target, first, request>>
  /\ UNCHANGED snapshot

\* A bug to catch: the second read is published before the write is reported
TaskWriteHasty ==
  /\ DriverAt({1})
  /\ \/ /\ job.task = 0
        /\ snapshot' = [state |-> "held", byte |-> (target.byte + 1) % Bytes]
        /\ DriverReturns(CONTINUE) /\ UNCHANGED request
     \/ job.task = 1 /\ Request("WRITE") /\ DriverReturns(CONTINUE) /\ UNCHANGED snapshot
     \/ job.task = 2 /\ DriverReturns(TASK_SUCCESS) /\ UNCHANGED <<snapshot, request>>
  /\ UNCHANGED <<target, first>>

\* at24c_task_write of the first byte plus one, in a byte
TaskWrite ==
  /\ DriverAt({1})
  /\ \/ /\ job.task = 0
        /\ snapshot' = [state |-> "held", byte |-> (target.byte + 1) % Bytes]
        /\ DriverReturns(CONTINUE) /\ UNCHANGED request
     \/ job.task = 1 /\ Request("WRITE") /\ DriverReturns(WAIT) /\ UNCHANGED snapshot
     \/ job.task = 2 /\ DriverReturns(TASK_SUCCESS) /\ UNCHANGED <<snapshot, request>>
  /\ UNCHANGED <<target, first>>

\* Phase 3: the sum is an int here, and not reduced to a byte
Compare ==
  /\ DriverAt({3})
  /\ DriverReturns(IF first.byte + 1 = target.byte THEN SUCCESS ELSE FAILURE)
  /\ UNCHANGED <<target, snapshot, first, request>>

\* The call in which the outcome is stored releases the buffers and keeps the pointers;
\* one in which a task's is does nothing
CleanUp ==
  /\ cpu = "at24c" /\ Stored(job) /\ DriverReturns(SUCCESS)
  /\ IF job.phase \in {SUCCESS, FAILURE}
     THEN target' = Released(target) /\ snapshot' = Released(snapshot) /\ first' = Released(first)
     ELSE UNCHANGED <<target, snapshot, first>>
  /\ UNCHANGED request

DriverTurn == TaskRead \/ TaskWrite \/ Compare \/ CleanUp
-----------------------------------------------------------------------------
\* External: the DMA reads and writes the memory the event of at24c points to
Transfer ==
  \/ /\ DmaStep("rx")
     /\ target' = IF TypeOf[i2c.event] = "READ_TO_BUFFER" THEN [target EXCEPT !.byte = cells] ELSE target
     /\ UNCHANGED cells
  \/ /\ DmaStep("tx") /\ cells' = snapshot.byte /\ UNCHANGED target

Transport ==
  /\ (\E e \in Requests : Offer(e) \/ Receive(e)) \/ RunInThread \/ Notify \/ DmaInterrupt
     \/ JobTurn \/ BusStep
  /\ UNCHANGED <<driverVars, cells, before, asked>>

Next ==
  \/ Transport
  \/ Transfer /\ UNCHANGED <<job, snapshot, first, before, asked>>
  \/ Diagnose \/ RunDriver \/ DriverTurn
  \/ \E e \in Requests : PublishRead(e)

Spec == Init /\ [][Next]_vars

\* The scheduler runs every thread that is ready, interrupts are served, the bus goes on
Fairness ==
  LET Alone == UNCHANGED <<driverVars, cells, before, asked>> IN
  /\ \A e \in Requests : WF_vars(Offer(e) /\ Alone)
  /\ WF_vars(RunInThread /\ Alone) /\ WF_vars(Notify /\ Alone) /\ WF_vars(DmaInterrupt /\ Alone)
  /\ WF_vars(JobTurn /\ Alone) /\ WF_vars(BusStep /\ Alone)
  /\ WF_vars(Transfer /\ UNCHANGED <<job, snapshot, first, before, asked>>)
  /\ WF_vars(RunDriver) /\ WF_vars(DriverTurn)

FairSpec == Spec /\ Fairness
-----------------------------------------------------------------------------
Job == [event : 0..MaxDiagnoses \cup Requests, phase : 0..3 \cup {SUCCESS, FAILURE},
        task : 0..4 \cup {TASK_SUCCESS, TASK_FAILURE}]
Buffer == [state : {"none", "held", "freed"}, byte : 0..Bytes]

\* The values the variables can have; a comparison never sees a byte no transfer wrote.
TypeOK ==
  /\ request \in [Requests -> {"none", "published", "deferred", "accepted", "done"}]
  /\ outcome \in [Requests -> {0, SUCCESS, FAILURE}]
  /\ i2c \in Job /\ job \in Job
  /\ incoming \in BOOLEAN /\ ev_irq \in BOOLEAN /\ isr \in BOOLEAN
  /\ output \in {"none", "held"} /\ source \in {"none", "held", "stale"}
  /\ responses \subseteq Requests /\ buffers \in 0..Cardinality(Requests)
  /\ bus \in {"off", "starting", "started", "addressing", "addressed", "ready", "sending",
              "sent", "failed"}
  /\ dma \in {"off", "rx", "rx done", "rx idle", "tx", "tx done", "tx idle"}
  /\ cpu \in {"threads", "i2c", "at24c"} /\ due \subseteq {"i2c", "at24c"}
  /\ {target, snapshot, first} \subseteq Buffer
  /\ cells \in 0..Bytes - 1 /\ before \in 0..Bytes - 1 /\ asked \in 0..MaxDiagnoses

\* A DMA stream that still moves bytes for at24c moves them from or to a buffer at24c
\* has not released: the transport only borrows the memory its event points to.
DmaMemoryAlive ==
  /\ dma = "rx" /\ i2c.event # 0 /\ TypeOf[i2c.event] = "READ_TO_BUFFER" => target.state = "held"
  /\ dma = "tx" => snapshot.state = "held"

\* A DMA stream signals its end to the task that started it: i2c_on_signal executes the
\* job slot without looking (actor_job_execute asserts it).  Not so when the bus fails
\* between the end and its interrupt: the job ends, and its stream stays registered.
DmaFindsJob == DmaFlag /\ bus # "failed" => i2c.event # 0 /\ i2c.phase = 1

\* Unless the bus fails, a job of the transport leaves no buffer behind but the ones
\* that travel in a RESPONSE.
NothingLeaked == i2c.event = 0 /\ bus # "failed" => buffers = Cardinality(responses)

\* The diagnosis calls the EEPROM good when the byte was incremented, and bad only when
\* the first byte was the highest: 0xff + 1 is written as 0 and compared as 256.
VerdictRight ==
  job.event # 0 =>
    /\ job.phase = SUCCESS => cells = before + 1
    /\ job.phase = FAILURE => before = Bytes - 1

\* The transport's job slot keeps the promise of JobService.
ReportOf(e) == CASE outcome[e] = SUCCESS -> "success"
                 [] outcome[e] = FAILURE -> "failure"
                 [] OTHER -> "none"
Service == INSTANCE JobService WITH
  Events <- Requests, current <- i2c.event,
  tasks <- IF i2c.task = TASK_FAILURE THEN "failed" ELSE "sound",
  report <- [e \in Requests |-> ReportOf(e)],
  finalized <- {e \in Requests : request[e] = "done"}
TransportServes == Service!Spec

\* A diagnosis that began ends, unless the bus fails (then no thread runs again).
DiagnoseEnds == job.event # 0 ~> job.event = 0 \/ bus = "failed"
=============================================================================

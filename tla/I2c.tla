-------------------------------- MODULE I2c ----------------------------------
(***************************************************************************)
(* The I2C transport (i2c.c) with its DMA streams (dma.c): one job at a    *)
(* time, executed by the medium priority thread, by the event and error    *)
(* interrupts of the peripheral and by the DMA interrupt.  Execution masks *)
(* interrupts, so nobody else runs while cpu is not "threads".             *)
(*                                                                         *)
(* The peripheral is external: bus is what its status registers tell the   *)
(* code.  No code clears an error flag, and it keeps the error interrupt   *)
(* pending: after an error no thread runs any more.                        *)
(***************************************************************************)
EXTENDS JobEngine, FiniteSets

CONSTANTS
  Requests,   \* the events for the transport, numbered from 1
  TypeOf,     \* their types: "READ", "READ_TO_BUFFER" or "WRITE"
  BusErrors   \* may the slave refuse, or the bus fail?

ASSUME I2cAssumption ==
  /\ Requests \subseteq Nat \ {0} /\ IsFiniteSet(Requests)
  /\ TypeOf \in [Requests -> {"READ", "READ_TO_BUFFER", "WRITE"}]
  /\ BusErrors \in BOOLEAN

VARIABLES
  request,   \* where each event is: "none" before it is published
  outcome,   \* ghost: the phase actor_job_complete_callback found for it, 0 before
  i2c,       \* the job: its inciting event (0 without a job) and its phases
  incoming,  \* i2c->incoming_signal: has a DMA stream signalled its end?
  output,    \* i2c->output_buffer: "none" or "held"
  source,    \* i2c->source_buffer: "none", "held", "stale" once it is released
  responses, \* events whose buffer travels in a RESPONSE
  buffers,   \* how many buffers of the pool i2c owns
  bus,       \* external: the state of the peripheral
  dma,       \* external: the stream in use, "off", "rx", "tx" or with its flag set
  ev_irq,    \* is the event interrupt enabled in the NVIC?
  cpu,       \* who executes: "threads", or a job: "i2c", "at24c"
  isr,       \* is that in an interrupt?
  due        \* the actors whose worker is due in its thread

deviceVars == <<output, source, responses, buffers, bus, dma, ev_irq>>
i2cVars == <<request, outcome, i2c, incoming, deviceVars, cpu, isr, due>>

NoJob == [event |-> 0, phase |-> 0, task |-> 0]

\* I2C_EVENT_MASTER_RECEIVER_MODE_SELECTED: master and bus busy, whatever was addressed
Busy == bus \notin {"off", "starting"}
\* SB, ADDR and BTF raise the event interrupt; TXE alone does not (ITBUFEN is off)
EventFlag == bus \in {"started", "addressed", "sent"}
DmaFlag == dma \in {"rx done", "tx done"}

\* Interrupts come before threads, the DMA's and the event's before the error's
ThreadsRun == cpu = "threads" /\ ~DmaFlag /\ ~(EventFlag /\ ev_irq) /\ bus # "failed"

I2cInit ==
  /\ request = [e \in Requests |-> "none"] /\ outcome = [e \in Requests |-> 0]
  /\ i2c = NoJob /\ incoming = FALSE
  /\ output = "none" /\ source = "none" /\ responses = {} /\ buffers = 0
  /\ bus = "off" /\ dma = "off" /\ ev_irq = TRUE
  /\ cpu = "threads" /\ isr = FALSE /\ due = {}
-----------------------------------------------------------------------------
\* i2c_worker_on_input: start a job, or defer the event while there is one
Offer(e) ==
  /\ ThreadsRun /\ request[e] = "published"
  /\ IF i2c.event = 0
     THEN /\ request' = [request EXCEPT ![e] = "accepted"]
          /\ i2c' = [NoJob EXCEPT !.event = e]
          /\ due' = due \cup {"i2c"}
     ELSE /\ request' = [request EXCEPT ![e] = "deferred"]
          /\ UNCHANGED <<i2c, due>>
  /\ UNCHANGED <<outcome, incoming, deviceVars, cpu, isr>>

\* i2c_worker_medium_priority
RunInThread ==
  /\ ThreadsRun /\ "i2c" \in due
  /\ due' = due \ {"i2c"}
  /\ cpu' = IF i2c.event # 0 THEN "i2c" ELSE cpu
  /\ isr' = FALSE
  /\ UNCHANGED <<request, outcome, i2c, incoming, deviceVars>>

\* i2c_notify, for the event interrupt: reading SR1 and SR2 clears ADDR.  For the
\* error interrupt it executes the job as well; without one it returns to come again.
Notify ==
  /\ cpu = "threads" /\ ~DmaFlag
  /\ (EventFlag /\ ev_irq) \/ bus = "failed"
  /\ i2c.event # 0
  /\ cpu' = "i2c" /\ isr' = TRUE
  /\ bus' = IF bus = "addressed" THEN "ready" ELSE bus
  /\ UNCHANGED <<request, outcome, i2c, incoming, output, source, responses, buffers,
                 dma, ev_irq, due>>

\* actors_dma_notify and i2c_on_signal: the flag is cleared when the job rests.  Half
\* a transfer is signalled for a ring only, which reads of unknown length use.  Without
\* a job the assertion of actor_job_execute stops the program.
DmaInterrupt ==
  /\ cpu = "threads" /\ DmaFlag /\ i2c.event # 0
  /\ incoming' = TRUE
  /\ dma' = IF dma = "rx done" THEN "rx idle" ELSE "tx idle"
  /\ cpu' = "i2c" /\ isr' = TRUE
  /\ UNCHANGED <<request, outcome, i2c, output, source, responses, buffers, bus, ev_irq, due>>
-----------------------------------------------------------------------------
\* actor_job_finalize, and the idle callback that has deferred events offered again.
\* The report of an event at24c published schedules it (at24c_on_event_report).
Finalize ==
  /\ request' = [e \in Requests |-> IF e = i2c.event THEN "done"
                                    ELSE IF request[e] = "deferred" THEN "published"
                                    ELSE request[e]]
  /\ i2c' = NoJob
  /\ due' = IF TypeOf[i2c.event] = "READ" THEN due ELSE due \cup {"at24c"}

\* actor_job_execute goes on with the signal of the handler
Returns(s) ==
  LET next == Advance(i2c, s) IN
  /\ cpu = "i2c" /\ UNCHANGED isr
  /\ cpu' = IF Finishes(next) \/ Rests(next, isr) THEN "threads" ELSE "i2c"
  /\ outcome' = IF Completes(next) THEN [outcome EXCEPT ![i2c.event] = next.signal] ELSE outcome
  /\ IF Finishes(next) THEN Finalize
     ELSE /\ i2c' = [i2c EXCEPT !.phase = next.phase, !.task = next.task]
          /\ due' = IF next.signal = QUIT_ISR /\ isr THEN due \cup {"i2c"} ELSE due
          /\ UNCHANGED request

\* The handler of the job is called in phase p and finds no error
At(p) == cpu = "i2c" /\ bus # "failed" /\ ~Stored(i2c) /\ i2c.phase = p
Reading == TypeOf[i2c.event] # "WRITE"

\* i2c_handle_error comes first, whatever the phase: no task cleans up
HandleError ==
  /\ bus = "failed" /\ Returns(TASK_FAILURE)
  /\ UNCHANGED <<incoming, deviceVars>>

\* The calls in which the engine takes back a stored signal do nothing else
TakeBack ==
  /\ bus # "failed" /\ Stored(i2c) /\ Returns(HALT)
  /\ UNCHANGED <<incoming, deviceVars>>

\* i2c_task_setup
Setup ==
  /\ At(0)
  /\ \/ i2c.task = 0 /\ bus' = "starting" /\ Returns(CONTINUE)
     \/ i2c.task = 1 /\ bus = "started" /\ bus' = "addressing" /\ Returns(WAIT)
     \/ i2c.task = 2 /\ Busy /\ bus' = "sending" /\ Returns(CONTINUE)
     \/ i2c.task = 3 /\ bus \in {"sending", "sent"} /\ UNCHANGED bus /\ Returns(TASK_SUCCESS)
     \/ /\ \/ i2c.task = 1 /\ bus # "started"
           \/ i2c.task = 2 /\ ~Busy
           \/ i2c.task = 3 /\ bus # "sent"
        /\ UNCHANGED bus /\ Returns(LOOP)
  /\ UNCHANGED <<incoming, output, source, responses, buffers, dma, ev_irq>>

\* i2c_task_read_data, from the buffer to the DMA stream.  Its address is not waited for.
StartRead ==
  /\ At(1) /\ Reading
  /\ \/ /\ i2c.task = 0 /\ ev_irq' = FALSE
        /\ IF isr THEN Returns(QUIT_ISR) /\ UNCHANGED <<output, buffers>>
           ELSE Returns(CONTINUE) /\ output' = "held" /\ buffers' = buffers + 1
        /\ UNCHANGED <<bus, dma>>
     \/ /\ i2c.task = 1 /\ bus' = "starting" /\ ev_irq' = TRUE /\ Returns(CONTINUE)
        /\ UNCHANGED <<output, buffers, dma>>
     \/ /\ i2c.task = 2
        /\ IF bus = "started" THEN Returns(CONTINUE) /\ bus' = "addressing"
           ELSE Returns(LOOP) /\ UNCHANGED bus
        /\ UNCHANGED <<output, buffers, dma, ev_irq>>
     \/ /\ i2c.task = 3
        /\ IF Busy THEN Returns(WAIT) /\ dma' = "rx" ELSE Returns(LOOP) /\ UNCHANGED dma
        /\ UNCHANGED <<output, buffers, bus, ev_irq>>
  /\ UNCHANGED <<incoming, source, responses>>

\* A bug to catch: waiting for the transfer counts as a step
FinishReadCounting ==
  /\ At(1) /\ Reading /\ i2c.task = 4
  /\ IF incoming THEN incoming' = FALSE /\ dma' = "off" /\ bus' = "off" /\ Returns(TASK_SUCCESS)
     ELSE Returns(WAIT) /\ UNCHANGED <<incoming, dma, bus>>
  /\ UNCHANGED <<output, source, responses, buffers, ev_irq>>

\* A bug to catch: the task is over when the address was sent
FinishReadEarly ==
  /\ At(1) /\ Reading /\ i2c.task = 4
  /\ IF incoming THEN incoming' = FALSE /\ dma' = "off" /\ bus' = "off" /\ Returns(TASK_SUCCESS)
     ELSE Returns(TASK_SUCCESS) /\ UNCHANGED <<incoming, dma, bus>>
  /\ UNCHANGED <<output, source, responses, buffers, ev_irq>>

\* ... and from its end to the stop
FinishRead ==
  /\ At(1) /\ Reading /\ i2c.task = 4
  /\ IF incoming THEN incoming' = FALSE /\ dma' = "off" /\ bus' = "off" /\ Returns(TASK_SUCCESS)
     ELSE Returns(LOOP) /\ UNCHANGED <<incoming, dma, bus>>
  /\ UNCHANGED <<output, source, responses, buffers, ev_irq>>

\* i2c_task_write_data, up to the DMA stream
StartWrite ==
  /\ At(1) /\ ~Reading
  /\ \/ /\ i2c.task = 0 /\ ev_irq' = FALSE
        /\ IF isr THEN Returns(QUIT_ISR) /\ UNCHANGED <<source, buffers>>
           ELSE Returns(CONTINUE) /\ source' = "held" /\ buffers' = buffers + 1
        /\ UNCHANGED dma
     \/ /\ i2c.task = 1 /\ dma' = "tx" /\ Returns(CONTINUE)
        /\ UNCHANGED <<source, buffers, ev_irq>>
  /\ UNCHANGED <<incoming, output, responses, bus>>

\* A bug to catch: the event interrupt stays off after the transfer
FinishWriteDeaf ==
  /\ At(1) /\ ~Reading
  /\ \/ /\ i2c.task = 2
        /\ IF incoming THEN /\ incoming' = FALSE /\ dma' = "off" /\ ev_irq' = ev_irq
                            /\ source' = "stale" /\ buffers' = buffers - 1 /\ Returns(CONTINUE)
           ELSE Returns(LOOP) /\ UNCHANGED <<incoming, dma, ev_irq, source, buffers>>
        /\ UNCHANGED bus
     \/ /\ i2c.task = 3
        /\ \/ bus \in {"sending", "sent"} /\ bus' = "off" /\ Returns(TASK_SUCCESS)
           \/ bus # "sent" /\ UNCHANGED bus /\ Returns(LOOP)
        /\ UNCHANGED <<incoming, dma, ev_irq, source, buffers>>
  /\ UNCHANGED <<output, responses>>

\* ... from its end (i2c_dma_tx_stop releases the buffer) to the stop
FinishWrite ==
  /\ At(1) /\ ~Reading
  /\ \/ /\ i2c.task = 2
        /\ IF incoming THEN /\ incoming' = FALSE /\ dma' = "off" /\ ev_irq' = TRUE
                            /\ source' = "stale" /\ buffers' = buffers - 1 /\ Returns(CONTINUE)
           ELSE Returns(LOOP) /\ UNCHANGED <<incoming, dma, ev_irq, source, buffers>>
        /\ UNCHANGED bus
     \/ /\ i2c.task = 3
        /\ \/ bus \in {"sending", "sent"} /\ bus' = "off" /\ Returns(TASK_SUCCESS)
           \/ bus # "sent" /\ UNCHANGED bus /\ Returns(LOOP)
        /\ UNCHANGED <<incoming, dma, ev_irq, source, buffers>>
  /\ UNCHANGED <<output, responses>>

\* A bug to catch: the buffer of a READ_TO_BUFFER is not given back
PublishAlways ==
  /\ At(2) /\ Reading
  /\ output' = "none"
  /\ responses' = responses \cup ({i2c.event} \cap {e \in Requests : TypeOf[e] = "READ"})
  /\ Returns(TASK_SUCCESS)
  /\ UNCHANGED <<incoming, source, buffers, bus, dma, ev_irq>>

\* i2c_task_publish_response: a READ is answered with the buffer, a READ_TO_BUFFER
\* with the report of its event
PublishResponse ==
  /\ At(2) /\ Reading
  /\ output' = "none"
  /\ IF TypeOf[i2c.event] = "READ"
     THEN responses' = responses \cup {i2c.event} /\ UNCHANGED buffers
     ELSE buffers' = buffers - 1 /\ UNCHANGED responses
  /\ Returns(TASK_SUCCESS)
  /\ UNCHANGED <<incoming, source, bus, dma, ev_irq>>

\* The phases after the last task, and the call in phase SUCCESS
Succeed ==
  /\ At(IF Reading THEN 3 ELSE 2) /\ Returns(SUCCESS)
  /\ UNCHANGED <<incoming, deviceVars>>

JobTurn ==
  \/ HandleError \/ TakeBack \/ Setup \/ StartRead \/ FinishRead
  \/ StartWrite \/ FinishWrite \/ PublishResponse \/ Succeed
-----------------------------------------------------------------------------
\* External: the bus goes on by itself, or fails
BusStep ==
  /\ \/ bus = "starting" /\ bus' = "started"
     \/ bus = "addressing" /\ bus' = "addressed"
     \/ bus = "sending" /\ bus' = "sent"
     \/ BusErrors /\ bus \in {"starting", "addressing", "sending", "ready"} /\ bus' = "failed"
  /\ UNCHANGED <<request, outcome, i2c, incoming, output, source, responses, buffers,
                 dma, ev_irq, cpu, isr, due>>

\* External: the stream of direction d moves its last byte
DmaStep(d) ==
  /\ dma = d
  /\ IF d = "rx" THEN bus = "ready" /\ UNCHANGED bus
     ELSE bus \in {"sending", "sent"} /\ bus' = "sending"
  /\ dma' = IF d = "rx" THEN "rx done" ELSE "tx done"
  /\ UNCHANGED <<request, outcome, i2c, incoming, output, source, responses, buffers,
                 ev_irq, cpu, isr, due>>

\* External: the producer of a READ takes the buffer of the RESPONSE and releases it
Receive(e) ==
  /\ ThreadsRun /\ e \in responses
  /\ responses' = responses \ {e} /\ buffers' = buffers - 1
  /\ UNCHANGED <<request, outcome, i2c, incoming, output, source, bus, dma, ev_irq,
                 cpu, isr, due>>
=============================================================================

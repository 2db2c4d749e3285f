-------------------------------- MODULE Sdio ---------------------------------
(***************************************************************************)
(* The SDIO transport (sdio.c): one job at a time, executed by the high     *)
(* priority thread, by the SDIO interrupt and by the DMA interrupt, with    *)
(* interrupts masked.  All requests come from the SD card driver, for one   *)
(* block each (read, program and cache sizes are 512 in OD.c).              *)
(*                                                                         *)
(* External: sta is the state of the command path in SDIO_STA, data that of *)
(* the data path.  A card that is being detected answers every command; a   *)
(* block's command or its data may fail.                                    *)
(***************************************************************************)
EXTENDS JobEngine, FiniteSets

CONSTANTS
  MaxRequests, \* bound: requests to the transport
  MaxNotReady, \* bound: times the card is not ready yet
  MaxErrors    \* bound: failures of blocks

ASSUME SdioAssumption == {MaxRequests, MaxNotReady, MaxErrors} \subseteq Nat

Requests == 1..MaxRequests

VARIABLES
  request,   \* the events for the transport: [state, type], "none" before
  outcome,   \* ghost: the phase actor_job_complete_callback found for them, 0 before
  sdio,      \* the job: its inciting event (0 without a job) and its phases
  incoming,  \* sdio->incoming_signal: has the DMA stream signalled its end?
  buffers,   \* how many buffers of the pool sdio owns
  capacity,  \* is storage_sdcard_get_capacity set?
  sta,       \* external: the command, "clear", "sent", "answered" or "failed"
  data,      \* external: the data, "off", "moving", "ended" or "error"
  dma,       \* external: the stream, "off", "rx", "tx", or with its flag set
  notReady,  \* times the card was not ready
  errors,    \* failures so far
  cpu,       \* who executes: "threads", or a job: "sdio", "sdcard"
  isr,       \* does sdio execute in an interrupt?
  due,       \* is the worker of sdio due in its thread?
  stopped    \* "no", or where an assertion or a fault has stopped the program

cardVars == <<sta, data, dma, notReady, errors>>
sdioVars == <<request, outcome, sdio, incoming, buffers, capacity, cardVars, cpu, isr, due, stopped>>

NoJob == [event |-> 0, phase |-> 0, task |-> 0]

\* The flags SDIO_MASK lets interrupt: all but RXACT and RXDAVL
SdioFlag == sta # "clear" \/ data \in {"ended", "error"}
            \/ (data = "moving" /\ dma \in {"tx", "tx done", "tx idle"})
DmaFlag == dma \in {"rx done", "tx done"}
ThreadsRun == cpu = "threads" /\ stopped = "no" /\ ~SdioFlag /\ ~DmaFlag

SdioInit ==
  /\ request = [r \in Requests |-> [state |-> "none", type |-> "none"]]
  /\ outcome = [r \in Requests |-> 0]
  /\ sdio = NoJob /\ incoming = FALSE /\ buffers = 0 /\ capacity = FALSE
  /\ sta = "clear" /\ data = "off" /\ dma = "off" /\ notReady = 0 /\ errors = 0
  /\ cpu = "threads" /\ isr = FALSE /\ due = FALSE /\ stopped = "no"
-----------------------------------------------------------------------------
\* sdio_on_input: start a job, or defer the event while there is one
Offer(r) ==
  /\ ThreadsRun /\ request[r].state = "published"
  /\ IF sdio.event = 0
     THEN /\ request' = [request EXCEPT ![r].state = "accepted"]
          /\ sdio' = [NoJob EXCEPT !.event = r]
          /\ due' = TRUE
     ELSE /\ request' = [request EXCEPT ![r].state = "deferred"]
          /\ UNCHANGED <<sdio, due>>
  /\ UNCHANGED <<outcome, incoming, buffers, capacity, cardVars, cpu, isr, stopped>>

\* sdio_on_high_priority
RunInThread ==
  /\ ThreadsRun /\ due
  /\ due' = FALSE
  /\ cpu' = IF sdio.event # 0 THEN "sdio" ELSE cpu
  /\ isr' = FALSE
  /\ UNCHANGED <<request, outcome, sdio, incoming, buffers, capacity, cardVars, stopped>>

\* sdio_notify: execute the job, or clear the flags
SdioInterrupt ==
  /\ cpu = "threads" /\ stopped = "no" /\ SdioFlag
  /\ IF sdio.event # 0 THEN cpu' = "sdio" /\ isr' = TRUE /\ UNCHANGED <<sta, data>>
     ELSE sta' = "clear" /\ data' = "off" /\ UNCHANGED <<cpu, isr>>
  /\ UNCHANGED <<request, outcome, sdio, incoming, buffers, capacity, dma, notReady, errors,
                 due, stopped>>

\* actors_dma_notify and sdio_on_signal, which executes the job slot without looking:
\* without a job the assertion of actor_job_execute stops the program
DmaInterrupt ==
  /\ cpu = "threads" /\ stopped = "no" /\ DmaFlag
  /\ IF sdio.event # 0
     THEN /\ incoming' = TRUE /\ cpu' = "sdio" /\ isr' = TRUE
          /\ dma' = IF dma = "rx done" THEN "rx idle" ELSE "tx idle"
          /\ UNCHANGED stopped
     ELSE stopped' = "signal without job" /\ UNCHANGED <<incoming, cpu, isr, dma>>
  /\ UNCHANGED <<request, outcome, sdio, buffers, capacity, sta, data, notReady, errors, due>>
-----------------------------------------------------------------------------
\* actor_job_finalize, and the idle callback that has deferred events offered again
Finalize ==
  /\ request' = [r \in Requests |->
                   IF r = sdio.event THEN [request[r] EXCEPT !.state = "done"]
                   ELSE IF request[r].state = "deferred" THEN [request[r] EXCEPT !.state = "published"]
                   ELSE request[r]]
  /\ sdio' = NoJob

Executes == cpu = "sdio" /\ stopped = "no"

\* actor_job_execute goes on with the signal of the handler, which may have moved the
\* task itself by skip
ReturnsFrom(skip, s) ==
  LET next == Advance([sdio EXCEPT !.task = @ + skip], s) IN
  /\ cpu' = IF Finishes(next) \/ Rests(next, isr) THEN "threads" ELSE "sdio"
  /\ outcome' = IF Completes(next) THEN [outcome EXCEPT ![sdio.event] = next.signal] ELSE outcome
  /\ IF Finishes(next) THEN Finalize /\ UNCHANGED due
     ELSE /\ sdio' = [sdio EXCEPT !.phase = next.phase, !.task = next.task]
          /\ due' = (due \/ (next.signal = QUIT_ISR /\ isr))
          /\ UNCHANGED request
  /\ isr' = (isr /\ cpu' = "sdio")
Returns(s) == ReturnsFrom(0, s)

Type == request[sdio.event].type
At(type, phase) == Executes /\ ~Stored(sdio) /\ Type = type /\ sdio.phase = phase

\* sdio_send_command_and_wait
SendAndWait ==
  \/ sta = "clear" /\ sta' = "sent" /\ Returns(LOOP)
  \/ sta = "sent" /\ UNCHANGED sta /\ Returns(LOOP)
  \/ sta = "answered" /\ sta' = "clear" /\ Returns(CONTINUE)
  \/ sta = "failed" /\ sta' = "clear" /\ Returns(TASK_FAILURE)

\* sdio_task_detect_card, for a MOUNT, or a WRITE until the capacity is known (it does not
\* get past step 13 then).  The steps 1, 4, 5, 6, 8, 10, 12
\* and 14 to 19 are commands; a card that answers step 2 skips step 4; step 7 goes back to
\* step 5 until the card is ready; step 13 reads the capacity.
DetectCard ==
  /\ At("MOUNT", 0) \/ (At("WRITE", 0) /\ ~capacity)
  /\ \/ sdio.task \in {1, 4, 5, 6, 8, 10, 12} \cup 14..19 /\ SendAndWait /\ UNCHANGED <<capacity, notReady>>
     \/ sdio.task = 2 /\ sta' = "sent" /\ Returns(CONTINUE) /\ UNCHANGED <<capacity, notReady>>
     \/ /\ sdio.task = 3
        /\ \/ sta = "sent" /\ UNCHANGED sta /\ Returns(LOOP)
           \/ sta = "failed" /\ sta' = "clear" /\ Returns(CONTINUE)
           \/ sta = "answered" /\ sta' = "clear" /\ ReturnsFrom(1, CONTINUE)
        /\ UNCHANGED <<capacity, notReady>>
     \/ /\ sdio.task = 7
        /\ \/ notReady < MaxNotReady /\ notReady' = notReady + 1 /\ ReturnsFrom(-3, CONTINUE)
           \/ Returns(CONTINUE) /\ UNCHANGED notReady
        /\ UNCHANGED <<sta, capacity>>
     \/ /\ sdio.task \in {0, 9, 11, 13} /\ Returns(CONTINUE)
        /\ capacity' = (capacity \/ sdio.task = 13)
        /\ UNCHANGED <<sta, notReady>>
     \/ sdio.task = 20 /\ Returns(TASK_SUCCESS) /\ UNCHANGED <<sta, capacity, notReady>>
  /\ UNCHANGED <<incoming, buffers, data, dma, errors>>

\* sdio_task_read_block up to the card's data; the stream starts before the command
StartRead ==
  /\ At("READ_TO_BUFFER", 0)
  /\ \/ /\ sdio.task = 0
        /\ IF isr THEN Returns(QUIT_ISR) /\ UNCHANGED <<buffers, dma>>
           ELSE Returns(CONTINUE) /\ buffers' = buffers + 1 /\ dma' = "rx"
        /\ UNCHANGED <<sta, data>>
     \/ sdio.task = 1 /\ SendAndWait /\ UNCHANGED <<buffers, data, dma>>
     \/ sdio.task = 2 /\ data' = "moving" /\ Returns(WAIT) /\ UNCHANGED <<buffers, sta, dma>>
  /\ UNCHANGED <<incoming, capacity, notReady, errors>>

\* ... and from there: the DMA or the end of the block, whichever is first, stops the
\* stream; an error leaves it, and the buffer, as they are
FinishRead ==
  /\ At("READ_TO_BUFFER", 0)
  /\ \/ /\ sdio.task = 3
        /\ IF data = "error" THEN Returns(TASK_FAILURE) /\ UNCHANGED <<incoming, dma, data>>
           ELSE IF incoming \/ data = "ended"
           THEN /\ incoming' = FALSE /\ dma' = "off" /\ Returns(CONTINUE)
                /\ data' = IF data = "ended" THEN "off" ELSE data
           ELSE Returns(LOOP) /\ UNCHANGED <<incoming, dma, data>>
     \/ /\ sdio.task = 4 /\ Returns(IF data = "moving" THEN LOOP ELSE CONTINUE)
        /\ UNCHANGED <<incoming, dma, data>>
     \/ sdio.task = 5 /\ Returns(CONTINUE) /\ UNCHANGED <<incoming, dma, data>>
     \/ sdio.task = 6 /\ Returns(TASK_SUCCESS) /\ UNCHANGED <<incoming, dma, data>>
  /\ UNCHANGED <<buffers, capacity, sta, notReady, errors>>

\* A bug to catch: the buffer of a READ_TO_BUFFER is not given back
PublishKeeping ==
  /\ At("READ_TO_BUFFER", 1) /\ Returns(TASK_SUCCESS)
  /\ UNCHANGED <<incoming, buffers, capacity, cardVars>>

\* A bug to catch: the buffer is released twice
PublishTwice ==
  /\ At("READ_TO_BUFFER", 1) /\ Returns(TASK_SUCCESS) /\ buffers' = buffers - 2
  /\ UNCHANGED <<incoming, capacity, cardVars>>

\* sdio_task_publish_response: the buffer of a READ_TO_BUFFER is released
PublishResponse ==
  /\ At("READ_TO_BUFFER", 1) /\ Returns(TASK_SUCCESS) /\ buffers' = buffers - 1
  /\ UNCHANGED <<incoming, capacity, cardVars>>

\* sdio_job_write skips the detection of a card it knows
SkipDetection ==
  /\ At("WRITE", 0) /\ capacity /\ Returns(TASK_SUCCESS)
  /\ UNCHANGED <<incoming, buffers, capacity, cardVars>>

\* sdio_task_write_block up to the card's data
StartWrite ==
  /\ At("WRITE", 1)
  /\ \/ /\ sdio.task = 0
        /\ IF isr THEN Returns(QUIT_ISR) /\ UNCHANGED <<buffers, dma>>
           ELSE Returns(CONTINUE) /\ buffers' = buffers + 1 /\ dma' = "tx"
        /\ UNCHANGED <<sta, data>>
     \/ sdio.task = 1 /\ SendAndWait /\ UNCHANGED <<buffers, data, dma>>
     \/ sdio.task = 2 /\ data' = "moving" /\ Returns(CONTINUE) /\ UNCHANGED <<buffers, sta, dma>>
  /\ UNCHANGED <<incoming, capacity, notReady, errors>>

\* ... and from there.  Once bytes are in the FIFO, or the stream has ended, sdio_dma_tx_stop
\* moves the rest itself until the transmission is over.  It looks at no error of that.
FinishWrite ==
  /\ At("WRITE", 1)
  /\ \/ /\ sdio.task = 3 /\ data # "error" /\ (data = "moving" \/ incoming)
        /\ incoming' = FALSE /\ dma' = "off" /\ buffers' = buffers - 1
        /\ \/ data' = "ended" /\ UNCHANGED errors
           \/ errors < MaxErrors /\ errors' = errors + 1 /\ data' = "error"
        /\ Returns(CONTINUE)
     \/ /\ sdio.task = 3 /\ data = "error" /\ Returns(TASK_FAILURE)
        /\ UNCHANGED <<incoming, dma, buffers, data, errors>>
     \/ /\ sdio.task = 3 /\ data # "error" /\ ~incoming /\ Returns(LOOP)
        /\ data' = IF data = "ended" THEN "off" ELSE data
        /\ UNCHANGED <<incoming, dma, buffers, errors>>
     \/ /\ sdio.task \in 4..6 /\ Returns(CONTINUE)
        /\ UNCHANGED <<incoming, dma, buffers, data, errors>>
     \/ /\ sdio.task = 7 /\ Returns(TASK_SUCCESS)
        /\ UNCHANGED <<incoming, dma, buffers, data, errors>>
  /\ UNCHANGED <<capacity, sta, notReady>>

\* The phase after the last task, and the calls in which a stored signal is taken back
Conclude ==
  /\ Executes
  /\ \/ ~Stored(sdio) /\ sdio.phase = (IF Type = "MOUNT" THEN 1 ELSE 2) /\ Returns(SUCCESS)
     \/ Stored(sdio) /\ Returns(HALT)
  /\ UNCHANGED <<incoming, buffers, capacity, cardVars>>

JobTurn ==
  \/ DetectCard \/ StartRead \/ FinishRead \/ PublishResponse
  \/ SkipDetection \/ StartWrite \/ FinishWrite \/ Conclude
-----------------------------------------------------------------------------
\* External: the card answers, or a command for a block fails.  A card of version 1 does
\* not answer step 3 of the detection.
CommandStep ==
  /\ sta = "sent"
  /\ \/ sta' = "answered" /\ UNCHANGED errors
     \/ /\ sdio.phase = 0 /\ sdio.task = 3 /\ Type # "READ_TO_BUFFER"
        /\ sta' = "failed" /\ UNCHANGED errors
     \/ /\ sdio.task = 1 /\ (Type = "READ_TO_BUFFER" \/ sdio.phase = 1)
        /\ errors < MaxErrors /\ errors' = errors + 1 /\ sta' = "failed"
  /\ UNCHANGED <<request, outcome, sdio, incoming, buffers, capacity, data, dma, notReady,
                 cpu, isr, due, stopped>>

\* External: the data of a block come to their end.  Sent data do once the stream has
\* filled the FIFO for the last time.
DataStep ==
  /\ data = "moving" /\ dma # "tx"
  /\ \/ data' = "ended" /\ UNCHANGED errors
     \/ errors < MaxErrors /\ errors' = errors + 1 /\ data' = "error"
  /\ UNCHANGED <<request, outcome, sdio, incoming, buffers, capacity, sta, dma, notReady,
                 cpu, isr, due, stopped>>

\* External: the stream moves its last word; it may also stop short of that
DmaStep ==
  /\ dma \in {"rx", "tx"} /\ data # "off"
  /\ dma' = IF dma = "rx" THEN "rx done" ELSE "tx done"
  /\ UNCHANGED <<request, outcome, sdio, incoming, buffers, capacity, sta, data, notReady,
                 errors, cpu, isr, due, stopped>>
=============================================================================

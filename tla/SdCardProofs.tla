---------------------------- MODULE SdCardProofs -----------------------------
(***************************************************************************)
(* Proofs about SdCard, for any number of requests, files, alarms and      *)
(* errors: which answer a wake-up stands for, what stops the program, which *)
(* buffers are lost, and that the transport keeps its job slot's promise.   *)
(***************************************************************************)
EXTENDS SdCard, FiniteSetTheorems, TLAPS

RequestMap ==
  [Requests -> [state : {"none", "published", "deferred", "accepted", "done"},
                type : {"none", "MOUNT", "READ_TO_BUFFER", "WRITE"}]]

\* The values that the steps of the thread and of the engine depend on
Shape ==
  /\ request \in RequestMap
  /\ sdio \in [event : {0} \cup Requests, phase : Nat, task : Int]
  /\ job \in [event : {0, Mount} \cup Files, overwritten : BOOLEAN]
  /\ waiting \in BOOLEAN /\ alarms \in Nat /\ errors \in Nat
  /\ next \in {"due", "later"} /\ timeout \in {"zero", "minute"}

\* The transport's job is the event it accepted, and the driver's runs at a dispatch.
Occupied ==
  /\ sdio.event = 0 => sdio = NoJob
  /\ sdio.event # 0 => request[sdio.event].state = "accepted"
  /\ waiting => job.event # 0 /\ pc # "dispatch"
  /\ cpu = "sdio" => sdio.event # 0
  /\ cpu = "sdcard" => job.event # 0 /\ pc = "dispatch" /\ ~waiting /\ ~worker

\* A schedule that came after the timeout was computed is in the slot.
Sleep ==
  /\ pc \in {"compute", "take"} /\ worker => next = "due"
  /\ pc = "take" /\ timeout = "minute" /\ next = "due" => slot

\* Is the await about to end?
Armed == next = "due" \/ (pc = "take" /\ timeout = "zero") \/ pc = "woken"

\* The answers that may still come.  An await about to end has had its own; so has a
\* dispatch that finds a schedule, unless that is an alarm's.
Answers ==
  LET n == Cardinality(Outstanding) IN
  /\ waiting => n <= alarms + (IF Armed THEN 0 ELSE 1)
  /\ ~waiting => n <= alarms
  /\ pc = "dispatch" /\ next = "due" => n + 1 <= alarms
  /\ ~waiting /\ job.event = 0 /\ (Armed \/ pc = "dispatch") => n + 1 <= alarms

\* As long as no block failed, the stream is off unless a job waits for its end.
Streams ==
  /\ sdio.event # 0 /\ Type = "WRITE" /\ sdio.phase = 0 /\ capacity => sdio.task # 3
  /\ errors = 0 =>
       /\ dma # "off" =>
            /\ sdio.event # 0 /\ sdio.task \in 1..3
            /\ \/ Type = "READ_TO_BUFFER" /\ sdio.phase = 0
               \/ Type = "WRITE" /\ sdio.phase = 1
       /\ sta = "failed" =>
            /\ sdio.event # 0 /\ sdio.phase = 0 /\ sdio.task = 3 /\ Type # "READ_TO_BUFFER"
            /\ Type = "WRITE" => ~capacity
       /\ data # "error"

IInv == Shape /\ Occupied /\ Sleep /\ Answers /\ Streams /\ StopsForAReason

-----------------------------------------------------------------------------
USE DEF HALT, CONTINUE, WAIT, QUIT_ISR, LOOP, TASK_SUCCESS, TASK_FAILURE, SUCCESS, FAILURE,
        RequestMap

SdioJob == [event : {0} \cup Requests, phase : Nat, task : Int]

\* A handler's turn: the job goes on with its event, where the signal takes it.
LEMMA HandlerTurn ==
  ASSUME Shape, NEW skip \in Int, sdio.task + skip \notin {TASK_SUCCESS, TASK_FAILURE},
         sdio.phase \notin {SUCCESS, FAILURE},
         NEW s \in {CONTINUE, WAIT, QUIT_ISR, LOOP, TASK_SUCCESS, TASK_FAILURE, SUCCESS},
         ReturnsFrom(skip, s)
  PROVE  /\ request' = request /\ cpu' \in {"threads", "sdio"}
         /\ sdio' \in SdioJob /\ sdio'.event = sdio.event
         /\ sdio'.phase = IF s = SUCCESS THEN s ELSE sdio.phase
         /\ s \in {CONTINUE, WAIT} => sdio'.task = sdio.task + skip + 1
         /\ s \in {TASK_SUCCESS, TASK_FAILURE} => sdio'.task = s
         /\ s \in {QUIT_ISR, LOOP, SUCCESS} => sdio'.task = sdio.task + skip
         /\ outcome' = IF s = SUCCESS THEN [outcome EXCEPT ![sdio.event] = s] ELSE outcome
<1> DEFINE from == [sdio EXCEPT !.task = @ + skip]
           next1 == Advance(from, s)
<1>1. from.phase = sdio.phase /\ from.task = sdio.task + skip /\ from.task \in Int
  BY DEF Shape
<1>2. /\ next1.phase = (IF s = SUCCESS THEN s ELSE sdio.phase) /\ next1.signal = s
      /\ s \in {CONTINUE, WAIT} => next1.task = sdio.task + skip + 1
      /\ s \in {TASK_SUCCESS, TASK_FAILURE} => next1.task = s
      /\ s \in {QUIT_ISR, LOOP, SUCCESS} => next1.task = sdio.task + skip
  BY <1>1 DEF Advance
<1>3. ~Finishes(next1) /\ (Completes(next1) <=> s = SUCCESS)
  BY <1>2 DEF Finishes, Completes
<1> HIDE DEF next1
<1>4. /\ request' = request /\ cpu' \in {"threads", "sdio"}
      /\ sdio' = [sdio EXCEPT !.phase = next1.phase, !.task = next1.task]
      /\ outcome' = IF s = SUCCESS THEN [outcome EXCEPT ![sdio.event] = s] ELSE outcome
  BY <1>2, <1>3 DEF ReturnsFrom, next1
<1>5. next1.phase \in Nat /\ next1.task \in Int /\ sdio \in SdioJob
  BY <1>1, <1>2 DEF Shape, SdioJob
<1>6. /\ sdio' \in SdioJob /\ sdio'.event = sdio.event
      /\ sdio'.phase = next1.phase /\ sdio'.task = next1.task
  BY <1>4, <1>5 DEF SdioJob
<1> QED
  BY <1>2, <1>4, <1>6

\* The turn that takes a stored signal back: the next phase, the failure of the job, or
\* its end, which offers deferred events again.
LEMMA StoredTurn ==
  ASSUME Shape, Stored(sdio), Returns(HALT)
  PROVE  /\ cpu' \in {"threads", "sdio"}
         /\ \/ /\ request' = request /\ sdio' \in SdioJob /\ sdio'.event = sdio.event
               /\ sdio.phase \notin {SUCCESS, FAILURE}
               /\ \/ /\ sdio.task = TASK_FAILURE /\ sdio'.phase = FAILURE /\ sdio'.task = sdio.task
                     /\ outcome' = [outcome EXCEPT ![sdio.event] = FAILURE]
                  \/ /\ sdio.task = TASK_SUCCESS /\ sdio'.phase = sdio.phase + 1 /\ sdio'.task = 0
                     /\ outcome' = outcome
            \/ /\ sdio.phase \in {SUCCESS, FAILURE} /\ Finalize /\ cpu' = "threads"
               /\ outcome' = outcome
<1> DEFINE from == [sdio EXCEPT !.task = @ + 0]
           next1 == Advance(from, HALT)
<1>1. from = sdio
  BY DEF Shape
<1>2. CASE sdio.phase \in {SUCCESS, FAILURE}
  <2>1. next1.signal = sdio.phase /\ next1.phase = 0
    BY <1>1, <1>2 DEF Advance
  <2>2. Finishes(next1) /\ ~Completes(next1)
    BY <1>2, <2>1 DEF Finishes, Completes
  <2> HIDE DEF next1
  <2> QED
    BY <1>2, <2>2 DEF Returns, ReturnsFrom, next1
<1>3. CASE sdio.phase \notin {SUCCESS, FAILURE} /\ sdio.task = TASK_FAILURE
  <2>1. next1 = [phase |-> FAILURE, task |-> sdio.task, signal |-> FAILURE]
    BY <1>1, <1>3 DEF Advance
  <2>2. ~Finishes(next1) /\ Completes(next1)
    BY <2>1 DEF Finishes, Completes
  <2> HIDE DEF next1
  <2>3. /\ request' = request /\ cpu' \in {"threads", "sdio"}
        /\ sdio' = [sdio EXCEPT !.phase = next1.phase, !.task = next1.task]
        /\ outcome' = [outcome EXCEPT ![sdio.event] = next1.signal]
    BY <2>2 DEF Returns, ReturnsFrom, next1
  <2>4. next1.phase \in Nat /\ next1.task \in Int /\ sdio \in SdioJob
    BY <2>1 DEF Shape, SdioJob
  <2>5. /\ sdio' \in SdioJob /\ sdio'.event = sdio.event
        /\ sdio'.phase = next1.phase /\ sdio'.task = next1.task
    BY <2>3, <2>4 DEF SdioJob
  <2> QED
    BY <1>3, <2>1, <2>3, <2>5
<1>4. CASE sdio.phase \notin {SUCCESS, FAILURE} /\ sdio.task = TASK_SUCCESS
  <2>1. next1 = [phase |-> sdio.phase + 1, task |-> 0, signal |-> TASK_SUCCESS]
    BY <1>1, <1>4 DEF Advance
  <2>2. ~Finishes(next1) /\ ~Completes(next1)
    BY <2>1 DEF Finishes, Completes
  <2> HIDE DEF next1
  <2>3. /\ request' = request /\ cpu' \in {"threads", "sdio"}
        /\ sdio' = [sdio EXCEPT !.phase = next1.phase, !.task = next1.task]
        /\ outcome' = outcome
    BY <2>2 DEF Returns, ReturnsFrom, next1
  <2>4. next1.phase \in Nat /\ next1.task \in Int /\ sdio \in SdioJob
    BY <2>1 DEF Shape, SdioJob
  <2>5. /\ sdio' \in SdioJob /\ sdio'.event = sdio.event
        /\ sdio'.phase = next1.phase /\ sdio'.task = next1.task
    BY <2>3, <2>4 DEF SdioJob
  <2> QED
    BY <1>4, <2>1, <2>3, <2>5
<1> QED
  BY <1>2, <1>3, <1>4 DEF Stored

\* What a turn of the transport does to its job slot, whatever the handler is.
Turn ==
  /\ cpu = "sdio" /\ stopped = "no" /\ cpu' \in {"threads", "sdio"}
  /\ errors' \in Nat /\ (errors = 0 \/ errors' # 0)
  /\ \/ request' = request /\ sdio' \in SdioJob /\ sdio'.event = sdio.event
     \/ Finalize /\ cpu' = "threads"

\* The job goes on with its event.
Goes == request' = request /\ sdio' \in SdioJob /\ sdio'.event = sdio.event

\* The detection of a card leaves the stream alone.
LEMMA DetectCardTurn ==
  ASSUME Shape, Occupied, Streams, DetectCard
  PROVE  Turn /\ Streams'
<1>1. /\ cpu = "sdio" /\ stopped = "no" /\ sdio.event # 0 /\ sdio.event \in Requests
      /\ ~Stored(sdio) /\ sdio.phase = 0 /\ sdio.task \in 0..20
      /\ Type # "READ_TO_BUFFER" /\ (Type = "WRITE" => ~capacity)
      /\ UNCHANGED <<incoming, buffers, data, dma, errors>>
  BY DEF DetectCard, At, Executes, Occupied, Shape
<1>2. errors = 0 => dma = "off" /\ data # "error"
  BY <1>1 DEF Streams
<1>3. ASSUME NEW skip \in {0, 1, -3}, sdio.task + skip \in 0..20,
             NEW s \in {CONTINUE, LOOP, TASK_SUCCESS, TASK_FAILURE}, ReturnsFrom(skip, s)
      PROVE  /\ Goes /\ cpu' \in {"threads", "sdio"} /\ sdio'.phase = 0
             /\ s = CONTINUE => sdio'.task = sdio.task + skip + 1
             /\ s = LOOP => sdio'.task = sdio.task + skip
             /\ s \in {TASK_SUCCESS, TASK_FAILURE} => sdio'.task = s
  <2>1. sdio.task + skip \notin {TASK_SUCCESS, TASK_FAILURE} /\ sdio.phase \notin {SUCCESS, FAILURE}
    BY <1>1, <1>3
  <2> QED
    BY <1>1, <1>3, <2>1, HandlerTurn DEF Goes
<1>4. /\ Goes /\ cpu' \in {"threads", "sdio"} /\ sdio'.phase = 0
      /\ capacity' /\ ~capacity => sdio.task = 13 /\ sdio'.task = 14
      /\ sta' = "failed" => sta = "failed" /\ sdio.task # 3
  <2>1. CASE sdio.task \in {1, 4, 5, 6, 8, 10, 12} \cup 14..19 /\ SendAndWait /\ UNCHANGED capacity
    BY <1>1, <1>3, <2>1 DEF SendAndWait, Returns
  <2>2. CASE sdio.task = 2 /\ sta' = "sent" /\ Returns(CONTINUE) /\ UNCHANGED capacity
    BY <1>1, <1>3, <2>2 DEF Returns
  <2>3. CASE /\ sdio.task = 3 /\ UNCHANGED capacity
             /\ \/ sta = "sent" /\ UNCHANGED sta /\ Returns(LOOP)
                \/ sta = "failed" /\ sta' = "clear" /\ Returns(CONTINUE)
                \/ sta = "answered" /\ sta' = "clear" /\ ReturnsFrom(1, CONTINUE)
    BY <1>1, <1>3, <2>3 DEF Returns
  <2>4. CASE /\ sdio.task = 7 /\ UNCHANGED <<sta, capacity>>
             /\ ReturnsFrom(-3, CONTINUE) \/ Returns(CONTINUE)
    BY <1>1, <1>3, <2>4 DEF Returns
  <2>5. CASE /\ sdio.task \in {0, 9, 11, 13} /\ Returns(CONTINUE) /\ UNCHANGED sta
             /\ capacity' = (capacity \/ sdio.task = 13)
    <3>1. capacity' => capacity \/ sdio.task = 13
      BY <2>5, Zenon
    <3> QED
      BY <1>1, <1>3, <2>5, <3>1 DEF Returns
  <2>6. CASE sdio.task = 20 /\ Returns(TASK_SUCCESS) /\ UNCHANGED <<sta, capacity>>
    BY <1>1, <1>3, <2>6 DEF Returns
  <2> QED
    BY <2>1, <2>2, <2>3, <2>4, <2>5, <2>6 DEF DetectCard
<1>5. Turn
  BY <1>1, <1>4 DEF Turn, Goes, Shape
<1>6. Type' = Type
  BY <1>4 DEF Goes, Type
<1>7. Streams'
  BY <1>1, <1>2, <1>4, <1>6 DEF Streams, Goes
<1> QED
  BY <1>5, <1>7

\* A block is read: the stream is on while the tasks 1 to 3 wait, and off after the third
\* unless the data failed.
LEMMA ReadTurn ==
  ASSUME Shape, Occupied, Streams, StartRead \/ FinishRead \/ PublishResponse
  PROVE  Turn /\ Streams'
<1>1. /\ cpu = "sdio" /\ stopped = "no" /\ sdio.event # 0 /\ sdio.event \in Requests
      /\ ~Stored(sdio) /\ sdio.phase \in {0, 1} /\ sdio.task \in Int
      /\ Type = "READ_TO_BUFFER"
  BY DEF StartRead, FinishRead, PublishResponse, At, Executes, Occupied, Shape
<1>2. ASSUME NEW s \in {CONTINUE, WAIT, LOOP, QUIT_ISR, TASK_SUCCESS, TASK_FAILURE}, Returns(s)
      PROVE  /\ Goes /\ cpu' \in {"threads", "sdio"} /\ sdio'.phase = sdio.phase
             /\ s \in {CONTINUE, WAIT} => sdio'.task = sdio.task + 1
             /\ s \in {LOOP, QUIT_ISR} => sdio'.task = sdio.task
             /\ s \in {TASK_SUCCESS, TASK_FAILURE} => sdio'.task = s
  <2>1. /\ sdio.task + 0 = sdio.task /\ sdio.task + 0 \notin {TASK_SUCCESS, TASK_FAILURE}
        /\ sdio.phase \notin {SUCCESS, FAILURE}
    BY <1>1 DEF Stored
  <2> QED
    BY <1>1, <1>2, <2>1, HandlerTurn DEF Goes, Returns
<1> DEFINE Step ==
      /\ Goes /\ cpu' \in {"threads", "sdio"} /\ sdio'.phase = sdio.phase /\ errors' = errors
      /\ errors = 0 =>
           /\ data' = "error" => data = "error"
           /\ sta' = "failed" => sta = "failed" /\ sdio'.task = sdio.task
           /\ dma' # "off" => sdio.phase = 0 /\ sdio'.task \in 1..3
<1>3. ASSUME StartRead PROVE Step
  <2>1. sdio.phase = 0 /\ UNCHANGED <<incoming, capacity, notReady, errors>>
    BY <1>3 DEF StartRead, At
  <2>2. CASE /\ sdio.task = 0 /\ UNCHANGED <<sta, data>>
             /\ \/ Returns(QUIT_ISR) /\ UNCHANGED dma
                \/ Returns(CONTINUE) /\ dma' = "rx"
    BY <1>1, <1>2, <2>1, <2>2 DEF Streams
  <2>3. CASE sdio.task = 1 /\ SendAndWait /\ UNCHANGED <<buffers, data, dma>>
    <3>1. errors = 0 => sta # "failed"
      BY <1>1 DEF Streams
    <3> QED
      BY <1>1, <1>2, <2>1, <2>3, <3>1 DEF Streams, SendAndWait
  <2>4. CASE sdio.task = 2 /\ data' = "moving" /\ Returns(WAIT) /\ UNCHANGED <<buffers, sta, dma>>
    BY <1>1, <1>2, <2>1, <2>4 DEF Streams
  <2> QED
    BY <1>3, <2>2, <2>3, <2>4 DEF StartRead
<1>4. ASSUME FinishRead PROVE Step
  <2>1. sdio.phase = 0 /\ UNCHANGED <<buffers, capacity, sta, notReady, errors>>
    BY <1>4 DEF FinishRead, At
  <2>2. errors = 0 => sta # "failed" /\ data # "error"
    BY <1>1 DEF Streams
  <2>3. CASE /\ sdio.task = 3
             /\ \/ data = "error" /\ Returns(TASK_FAILURE) /\ UNCHANGED <<dma, data>>
                \/ dma' = "off" /\ Returns(CONTINUE) /\ data' \in {"off", data}
                \/ Returns(LOOP) /\ UNCHANGED <<dma, data>>
    BY <1>1, <1>2, <2>1, <2>2, <2>3
  <2>4. CASE /\ sdio.task \in {4, 5, 6} /\ UNCHANGED <<dma, data>>
             /\ \/ Returns(LOOP) \/ Returns(CONTINUE) \/ Returns(TASK_SUCCESS)
    <3>1. errors = 0 => dma = "off"
      BY <2>4 DEF Streams
    <3> QED
      BY <1>1, <1>2, <2>1, <2>2, <2>4, <3>1
  <2> QED
    BY <1>4, <2>3, <2>4 DEF FinishRead
<1>5. ASSUME PublishResponse PROVE Step
  <2>1. sdio.phase = 1 /\ Returns(TASK_SUCCESS) /\ UNCHANGED <<incoming, capacity, cardVars>>
    BY <1>5 DEF PublishResponse, At
  <2>2. errors = 0 => sta # "failed" /\ data # "error" /\ dma = "off"
    BY <1>1, <2>1 DEF Streams
  <2> QED
    BY <1>1, <1>2, <2>1, <2>2 DEF cardVars
<1>6. Step
  BY <1>3, <1>4, <1>5
<1>7. Turn
  BY <1>1, <1>6 DEF Turn, Goes, Shape
<1>8. Type' = Type /\ sdio'.event = sdio.event
  BY <1>6 DEF Goes, Type
<1>9. errors = 0 => sta # "failed" /\ data # "error"
  BY <1>1 DEF Streams

<1>10. Streams'
  BY <1>1, <1>6, <1>8, <1>9 DEF Streams
<1> QED
  BY <1>7, <1>10

\* A block is written: the stream is on between the tasks 0 and 3 as well, and off after
\* the third unless the data failed.
LEMMA WriteTurn ==
  ASSUME Shape, Occupied, Streams, SkipDetection \/ StartWrite \/ FinishWrite
  PROVE  Turn /\ Streams'
<1>1. /\ cpu = "sdio" /\ stopped = "no" /\ sdio.event # 0 /\ sdio.event \in Requests
      /\ ~Stored(sdio) /\ sdio.phase \in {0, 1} /\ sdio.task \in Int /\ errors \in Nat
      /\ Type = "WRITE"
  BY DEF SkipDetection, StartWrite, FinishWrite, At, Executes, Occupied, Shape
<1>2. ASSUME NEW s \in {CONTINUE, LOOP, QUIT_ISR, TASK_SUCCESS, TASK_FAILURE}, Returns(s)
      PROVE  /\ Goes /\ cpu' \in {"threads", "sdio"} /\ sdio'.phase = sdio.phase
             /\ s = CONTINUE => sdio'.task = sdio.task + 1
             /\ s \in {LOOP, QUIT_ISR} => sdio'.task = sdio.task
             /\ s \in {TASK_SUCCESS, TASK_FAILURE} => sdio'.task = s
  <2>1. /\ sdio.task + 0 = sdio.task /\ sdio.task + 0 \notin {TASK_SUCCESS, TASK_FAILURE}
        /\ sdio.phase \notin {SUCCESS, FAILURE}
    BY <1>1 DEF Stored
  <2> QED
    BY <1>1, <1>2, <2>1, HandlerTurn DEF Goes, Returns
<1>3. (sdio.phase = 1 /\ errors = 0) => sta # "failed" /\ data # "error"
  BY <1>1 DEF Streams
<1> DEFINE Step ==
      /\ Goes /\ cpu' \in {"threads", "sdio"} /\ sdio'.phase = sdio.phase
      /\ errors' \in {errors, errors + 1}
      /\ sdio.phase = 0 => sdio'.task # 3 /\ sta' = sta /\ data' = data /\ dma' = dma /\ capacity
      /\ errors' = 0 /\ sdio.phase = 1 =>
           /\ data' # "error" /\ sta' # "failed"
           /\ dma' # "off" => sdio'.task \in 1..3
<1>4. ASSUME SkipDetection PROVE Step
  <2>1. /\ sdio.phase = 0 /\ Returns(TASK_SUCCESS) /\ capacity
        /\ UNCHANGED <<sta, data, dma, errors>>
    BY <1>4 DEF SkipDetection, At, cardVars
  <2> QED
    BY <1>2, <2>1
<1>5. ASSUME StartWrite PROVE Step
  <2>1. sdio.phase = 1 /\ errors' = errors
    BY <1>5 DEF StartWrite, At
  <2>2. CASE /\ sdio.task = 0 /\ UNCHANGED <<sta, data>>
             /\ \/ Returns(QUIT_ISR) /\ UNCHANGED dma
                \/ Returns(CONTINUE) /\ dma' = "tx"
    BY <1>1, <1>2, <1>3, <2>1, <2>2 DEF Streams
  <2>3. CASE sdio.task = 1 /\ SendAndWait /\ UNCHANGED <<buffers, data, dma>>
    BY <1>1, <1>2, <1>3, <2>1, <2>3 DEF SendAndWait
  <2>4. CASE /\ sdio.task = 2 /\ data' = "moving" /\ Returns(CONTINUE)
             /\ UNCHANGED <<buffers, sta, dma>>
    BY <1>1, <1>2, <1>3, <2>1, <2>4
  <2> QED
    BY <1>5, <2>2, <2>3, <2>4 DEF StartWrite
<1>6. ASSUME FinishWrite PROVE Step
  <2>1. sdio.phase = 1 /\ sta' = sta
    BY <1>6 DEF FinishWrite, At
  <2>2. CASE /\ sdio.task = 3 /\ dma' = "off" /\ Returns(CONTINUE)
             /\ \/ data' = "ended" /\ UNCHANGED errors
                \/ errors' = errors + 1
    BY <1>1, <1>2, <1>3, <2>1, <2>2
  <2>3. CASE /\ sdio.task = 3 /\ data = "error" /\ Returns(TASK_FAILURE)
             /\ UNCHANGED <<dma, data, errors>>
    BY <1>1, <1>2, <1>3, <2>1, <2>3
  <2>4. CASE /\ sdio.task = 3 /\ Returns(LOOP) /\ UNCHANGED <<dma, errors>>
             /\ data' = IF data = "ended" THEN "off" ELSE data
    BY <1>1, <1>2, <1>3, <2>1, <2>4
  <2>5. CASE /\ sdio.task \in 4..7 /\ UNCHANGED <<dma, data, errors>>
             /\ Returns(CONTINUE) \/ Returns(TASK_SUCCESS)
    <3>1. errors = 0 => dma = "off"
      BY <2>5 DEF Streams
    <3> QED
      BY <1>1, <1>2, <1>3, <2>1, <2>5, <3>1
  <2> QED
    BY <1>6, <2>2, <2>3, <2>4, <2>5 DEF FinishWrite
<1>7. Step
  BY <1>4, <1>5, <1>6
<1>8. Turn
  BY <1>1, <1>7 DEF Turn, Goes
<1>9. Type' = Type /\ sdio'.event = sdio.event
  BY <1>7 DEF Goes, Type
<1>10. errors' = 0 => errors = 0
  BY <1>1, <1>7
<1>11. errors = 0 /\ sdio.phase = 0 => dma = "off" /\ sta # "failed" /\ data # "error"
  BY <1>1, <1>7 DEF Streams
<1>12. Streams'
  BY <1>1, <1>7, <1>9, <1>10, <1>11 DEF Streams
<1> QED
  BY <1>8, <1>12

\* The last phase, and the signals taken back: no stream is on, no command failed.
LEMMA ConcludeTurn ==
  ASSUME Shape, Occupied, Streams, Conclude
  PROVE  Turn /\ Streams'
<1>1. /\ cpu = "sdio" /\ stopped = "no" /\ sdio.event # 0 /\ sdio.event \in Requests
      /\ sdio \in SdioJob /\ errors \in Nat /\ UNCHANGED <<capacity, sta, data, dma, errors>>
  BY DEF Conclude, Executes, Occupied, Shape, SdioJob, cardVars
<1>2. errors = 0 => dma = "off" /\ sta # "failed" /\ data # "error"
  BY <1>1 DEF Conclude, Stored, Streams, SdioJob
<1>3. /\ cpu' \in {"threads", "sdio"}
      /\ \/ /\ request' = request /\ sdio' \in SdioJob /\ sdio'.event = sdio.event
            /\ sdio'.phase \in {SUCCESS, FAILURE, sdio.phase + 1}
         \/ Finalize /\ cpu' = "threads"
  <2>1. CASE Stored(sdio) /\ Returns(HALT)
    BY <2>1, StoredTurn
  <2>2. CASE ~Stored(sdio) /\ Returns(SUCCESS)
    <3>1. /\ sdio.task + 0 = sdio.task /\ sdio.task + 0 \notin {TASK_SUCCESS, TASK_FAILURE}
          /\ sdio.phase \notin {SUCCESS, FAILURE}
      BY <1>1, <2>2 DEF Stored, SdioJob
    <3> QED
      BY <1>1, <2>2, <3>1, HandlerTurn DEF Returns
  <2> QED
    BY <2>1, <2>2 DEF Conclude
<1>4. Turn
  BY <1>1, <1>3 DEF Turn
<1>5. sdio'.event = 0 \/ sdio'.phase # 0
  BY <1>1, <1>3 DEF SdioJob, Finalize, NoJob
<1>6. Streams'
  BY <1>1, <1>2, <1>5 DEF Streams
<1> QED
  BY <1>4, <1>6

\* Every turn of the transport's job does.
LEMMA EveryTurn ==
  ASSUME Shape, Occupied, Streams, JobTurn
  PROVE  Turn /\ Streams'
BY DetectCardTurn, ReadTurn, WriteTurn, ConcludeTurn DEF JobTurn
-----------------------------------------------------------------------------
\* The requests without an answer, as their number goes up and down
LEMMA Count == Cardinality(Outstanding) \in Nat /\ IsFiniteSet(Outstanding)
<1>1. Outstanding \subseteq 1..MaxRequests /\ IsFiniteSet(1..MaxRequests)
  BY SdioAssumption, FS_Interval DEF Outstanding, Requests
<1> QED
  BY <1>1, FS_Subset, FS_CardinalityType

\* Finalizing the request in service leaves one answer less to come.
LEMMA CountFinalize ==
  ASSUME Shape, Occupied, sdio.event # 0, Finalize
  PROVE  /\ Cardinality(Outstanding)' = Cardinality(Outstanding) - 1 /\ Cardinality(Outstanding) > 0
         /\ sdio' = NoJob /\ sdio' \in SdioJob
         /\ request' \in RequestMap
<1>1. sdio.event \in Requests /\ sdio.event \in Outstanding
  BY DEF Shape, Occupied, Outstanding
<1>2. Outstanding' = Outstanding \ {sdio.event}
  BY DEF Shape, Outstanding, Finalize
<1>3. /\ Cardinality(Outstanding \ {sdio.event}) = Cardinality(Outstanding) - 1
  BY <1>1, Count, FS_RemoveElement
<1>4. Cardinality(Outstanding \ {sdio.event}) \in Nat
  BY Count, FS_RemoveElement, FS_CardinalityType
<1>5. sdio' = NoJob /\ NoJob \in SdioJob
  BY DEF Finalize, NoJob, SdioJob
<1>6. request' \in RequestMap
  BY DEF Shape, Finalize
<1> QED
  BY <1>2, <1>3, <1>4, <1>5, <1>6, Count

\* A file operation's next block leaves one more.
LEMMA CountCallback ==
  ASSUME Shape, NEW r \in Unused, NEW type \in {"MOUNT", "READ_TO_BUFFER", "WRITE"},
         request' = [request EXCEPT ![r] = [state |-> "published", type |-> type]]
  PROVE  Cardinality(Outstanding)' = Cardinality(Outstanding) + 1
<1>1. r \notin Outstanding /\ Outstanding' = Outstanding \cup {r}
  BY DEF Shape, Outstanding, Unused
<1> QED
  BY <1>1, Count, FS_AddElement

-----------------------------------------------------------------------------
\* The start: SDFS is about to dispatch the MOUNT, and no request is on its way.
LEMMA Initially == Init => IInv
<1> SUFFICES ASSUME Init PROVE IInv
  OBVIOUS
<1>1. Shape
  <2>1. request \in RequestMap
    BY DEF Init, SdioInit
  <2>2. sdio \in [event : {0} \cup Requests, phase : Nat, task : Int]
    BY DEF Init, SdioInit, NoJob
  <2>3. job \in [event : {0, Mount} \cup Files, overwritten : BOOLEAN]
    BY DEF Init, NoFile
  <2>4. /\ waiting \in BOOLEAN /\ alarms \in Nat /\ errors \in Nat
        /\ next \in {"due", "later"} /\ timeout \in {"zero", "minute"}
    BY DEF Init, SdioInit
  <2> QED
    BY <2>1, <2>2, <2>3, <2>4 DEF Shape
<1>2. Occupied /\ Sleep
  BY DEF Init, SdioInit, Occupied, Sleep, NoJob, NoFile, Mount
<1>3. Outstanding = {}
  BY DEF Init, SdioInit, Outstanding
<1>4. Cardinality(Outstanding) = 0
  BY <1>3, FS_EmptySet
<1>5. Answers
  BY <1>4 DEF Init, Answers, NoFile, Mount
<1>6. Streams /\ StopsForAReason
  BY DEF Init, SdioInit, Streams, StopsForAReason, NoJob
<1> QED
  BY <1>1, <1>2, <1>5, <1>6 DEF IInv

\* What the driver's thread does leaves the transport alone.
LEMMA Untouched ==
  ASSUME Streams, StopsForAReason, Shape,
         UNCHANGED <<request, sdio, capacity, sta, data, dma, errors, stopped>>,
         alarms' \in {alarms, alarms + 1}
  PROVE  Streams' /\ StopsForAReason' /\ Outstanding' = Outstanding
<1>1. Type' = Type
  BY DEF Type
<1>2. Streams'
  BY <1>1 DEF Streams
<1>3. alarms \in Nat /\ errors \in Nat
  BY DEF Shape
<1>4. StopsForAReason'
  <2>1. stopped' = stopped /\ errors' = errors /\ (alarms' = alarms \/ alarms' = alarms + 1)
    OBVIOUS
  <2>2. alarms > 0 => alarms' > 0
    BY <1>3, <2>1
  <2> QED
    BY <2>1, <2>2 DEF StopsForAReason
<1>5. Outstanding' = Outstanding
  BY DEF Outstanding
<1> QED
  BY <1>2, <1>4, <1>5

\* The schedule comes with a notification whenever the thread may have its timeout already.
LEMMA ScheduleSleeps ==
  ASSUME Shape, Sleep, Schedule, pc' = pc, timeout' = timeout
  PROVE  Sleep'
<1>1. next' = "due" /\ next \in {"due", "later"}
  BY DEF Schedule, Shape
<1>2. next = "later" => slot'
  BY Zenon DEF Schedule
<1>3. slot => slot'
  BY Zenon DEF Schedule
<1> QED
  BY <1>1, <1>2, <1>3 DEF Sleep

\* The steps of the thread SDFS, and of who publishes to it
LEMMA ThreadStep ==
  ASSUME IInv, (\E f \in Files : Publish(f) \/ OfferFile(f)) \/ Compute \/ Take \/ Wake \/ Dispatch
  PROVE  IInv'
<1> USE Count DEF IInv, NoFile, Mount
<1>1. cpu = "threads" /\ UNCHANGED <<request, sdio, capacity, sta, data, dma, errors, stopped>>
  BY DEF Publish, OfferFile, Compute, Take, Wake, Dispatch, ThreadsRun, sdioVars, cardVars
<1>2. CASE \E f \in Files : Publish(f)
  <2>1. UNCHANGED <<sdioVars, job, threadVars>>
    BY <1>2 DEF Publish
  <2>2. Shape' /\ Occupied' /\ Sleep'
    BY <2>1 DEF sdioVars, cardVars, threadVars, Shape, Occupied, Sleep
  <2>3. Streams' /\ StopsForAReason' /\ Outstanding' = Outstanding
    BY <1>1, <2>1, Untouched DEF threadVars
  <2>4. Answers'
    BY <2>1, <2>3 DEF threadVars, Answers, Armed
  <2> QED
    BY <2>2, <2>3, <2>4
<1>3. ASSUME NEW f \in Files, OfferFile(f) PROVE IInv'
  <2>1. /\ UNCHANGED <<sdioVars, pc, waiting, timeout, alarms>>
        /\ \/ UNCHANGED <<job, worker, next, slot>>
           \/ job.event = 0 /\ job' = [NoFile EXCEPT !.event = f] /\ Schedule
    BY <1>3 DEF OfferFile
  <2>2. f # 0 /\ [NoFile EXCEPT !.event = f].event = f
    BY SdCardAssumption
  <2>3. Shape' /\ Occupied' /\ Sleep'
    <3>1. [NoFile EXCEPT !.event = f] \in [event : {0, Mount} \cup Files, overwritten : BOOLEAN]
      OBVIOUS
    <3>2. Shape'
      BY <2>1, <3>1 DEF sdioVars, cardVars, Shape, Schedule
    <3>3. Occupied'
      BY <1>1, <2>1, <2>2 DEF sdioVars, cardVars, Occupied, Schedule
    <3>4. Sleep'
      BY <2>1, ScheduleSleeps DEF Sleep
    <3> QED
      BY <3>2, <3>3, <3>4
  <2>4. Streams' /\ StopsForAReason' /\ Outstanding' = Outstanding
    BY <1>1, <2>1, Untouched
  <2>5. Answers'
    BY <2>1, <2>2, <2>4 DEF Answers, Armed, Schedule, Occupied, Shape
  <2> QED
    BY <2>3, <2>4, <2>5
<1>4. CASE Compute
  <2>1. Shape' /\ Occupied' /\ Sleep'
    BY <1>4 DEF Compute, sdioVars, cardVars, Shape, Occupied, Sleep
  <2>2. Streams' /\ StopsForAReason' /\ Outstanding' = Outstanding
    BY <1>1, <1>4, Untouched DEF Compute
  <2>3. Answers'
    BY <1>4, <2>2 DEF Compute, Answers, Armed, Shape
  <2> QED
    BY <2>1, <2>2, <2>3
<1>5. CASE Take
  <2>1. alarms' \in {alarms, alarms + 1}
    BY <1>5 DEF Take
  <2>2. job'.event = job.event /\ job' \in [event : {0, Mount} \cup Files, overwritten : BOOLEAN]
    BY <1>5 DEF Take, Shape
  <2>3. Shape' /\ Occupied' /\ Sleep'
    BY <1>5, <2>1, <2>2 DEF Take, sdioVars, cardVars, Shape, Occupied, Sleep
  <2>4. Streams' /\ StopsForAReason' /\ Outstanding' = Outstanding
    BY <1>1, <2>1, Untouched
  <2>5. Answers'
    BY <1>5, <2>2, <2>4 DEF Take, Answers, Armed, Shape, Occupied
  <2> QED
    BY <2>3, <2>4, <2>5
<1>6. CASE Wake
  <2>1. Shape' /\ Occupied' /\ Sleep'
    BY <1>1, <1>6 DEF Wake, cardVars, Shape, Occupied, Sleep
  <2>2. Streams' /\ StopsForAReason' /\ Outstanding' = Outstanding
    BY <1>1, <1>6, Untouched DEF Wake
  <2>3. Answers'
    BY <1>6, <2>2 DEF Wake, Answers, Armed, Shape, Occupied
  <2> QED
    BY <2>1, <2>2, <2>3
<1>7. CASE Dispatch
  <2>1. Shape' /\ Occupied' /\ Sleep'
    BY <1>1, <1>7 DEF Dispatch, cardVars, Shape, Occupied, Sleep
  <2>2. Streams' /\ StopsForAReason' /\ Outstanding' = Outstanding
    BY <1>1, <1>7, Untouched DEF Dispatch
  <2>3. Answers'
    BY <1>7, <2>2 DEF Dispatch, Answers, Armed, Shape, Occupied
  <2> QED
    BY <2>1, <2>2, <2>3
<1> QED
  BY <1>2, <1>3, <1>4, <1>5, <1>6, <1>7

\* A callback waits for one more answer; no other is left to come but those of alarms.
LEMMA CallbackStep ==
  ASSUME IInv, NEW type \in {"MOUNT", "READ_TO_BUFFER", "WRITE"}, Callback(type)
  PROVE  IInv'
<1>1. PICK r \in Unused : request' = [request EXCEPT ![r] = [state |-> "published", type |-> type]]
  BY DEF Callback
<1>2. /\ cpu = "sdcard" /\ cpu' = "threads" /\ pc = "dispatch" /\ pc' = "compute"
      /\ ~waiting /\ waiting' = TRUE /\ ~worker /\ job.event # 0
      /\ r \in Requests /\ r # sdio.event
      /\ UNCHANGED <<outcome, sdio, incoming, buffers, capacity, cardVars, isr, due, stopped,
                     file, job, timeout, next, worker, slot, alarms>>
  <2>1. cpu = "sdcard" /\ job.event # 0 /\ pc = "dispatch" /\ ~waiting /\ ~worker
    BY DEF Callback, IInv, Occupied
  <2>2. r \in Requests /\ request[r].state = "none"
    BY DEF Unused
  <2>3. r # sdio.event
    BY <2>2, SdioAssumption DEF IInv, Occupied, Requests
  <2> QED
    BY <2>1, <2>2, <2>3 DEF Callback
<1>3. Shape'
  BY <1>1, <1>2 DEF IInv, Shape, cardVars
<1>4. sdio.event # 0 => request'[sdio.event] = request[sdio.event]
  BY <1>1, <1>2 DEF IInv, Shape
<1>5. Occupied' /\ Sleep'
  BY <1>2, <1>4 DEF IInv, Occupied, Sleep
<1>6. Cardinality(Outstanding)' = Cardinality(Outstanding) + 1
  BY <1>1, CountCallback DEF IInv
<1>7. Answers'
  BY <1>2, <1>6, Count DEF IInv, Answers, Armed, Shape
<1>8. Streams'
  BY <1>2, <1>4 DEF IInv, Streams, Type, cardVars
<1>9. StopsForAReason'
  BY <1>2 DEF IInv, StopsForAReason, cardVars
<1> QED
  BY <1>3, <1>5, <1>7, <1>8, <1>9 DEF IInv

\* The job ends, or stops the program.
LEMMA HaltStep ==
  ASSUME IInv, Halts \/ LosesData
  PROVE  IInv'
<1>1. /\ cpu = "sdcard" /\ cpu' = "threads" /\ pc = "dispatch" /\ ~waiting /\ ~worker
      /\ UNCHANGED <<request, sdio, capacity, cardVars, timeout, next, worker, slot,
                     alarms, waiting>>
  BY DEF Halts, LosesData, IInv, Occupied, threadVars
<1>2. \/ job' = NoFile /\ pc' = "compute" /\ stopped' = stopped
      \/ UNCHANGED <<job, pc>> /\ stopped' = "data overwritten" /\ job.event # 0
  BY DEF Halts, LosesData, IInv, Occupied, threadVars
<1>3. NoFile \in [event : {0, Mount} \cup Files, overwritten : BOOLEAN] /\ NoFile.event = 0
  BY DEF NoFile
<1>4. Shape' /\ Occupied' /\ Sleep'
  BY <1>1, <1>2, <1>3 DEF IInv, Shape, Occupied, Sleep, cardVars
<1>5. Outstanding' = Outstanding /\ Type' = Type
  BY <1>1 DEF Outstanding, Type
<1>6. Answers'
  BY <1>1, <1>2, <1>3, <1>5, Count DEF IInv, Answers, Armed, Shape
<1>7. Streams' /\ StopsForAReason'
  BY <1>1, <1>2, <1>5 DEF IInv, Streams, StopsForAReason, cardVars
<1> QED
  BY <1>4, <1>6, <1>7 DEF IInv

\* A turn of the transport that ends its job brings the answer: it arms the await, and if
\* there is no job left to wait for it, more answers than one were outstanding.
LEMMA TransportTurnStep ==
  ASSUME IInv, TransportTurn
  PROVE  IInv'
<1>1. Turn /\ Streams' /\ sdio.event # 0 /\ UNCHANGED <<file, job, pc, waiting, timeout, alarms>>
  BY EveryTurn DEF TransportTurn, IInv, Turn, Occupied
<1>2. alarms \in Nat /\ errors \in Nat /\ errors' \in Nat /\ (errors = 0 \/ errors' # 0)
  BY <1>1 DEF IInv, Shape, Turn
<1>3. errors > 0 => errors' > 0
  BY <1>2
<1>4. CASE request' = request /\ sdio' \in SdioJob /\ sdio'.event = sdio.event
  <2>1. UNCHANGED <<stopped, worker, next, slot>>
    BY <1>1, <1>4 DEF TransportTurn
  <2>2. Shape'
    BY <1>1, <1>2, <1>4, <2>1 DEF IInv, Shape, SdioJob
  <2>3. Occupied' /\ Sleep'
    BY <1>1, <1>4, <2>1 DEF IInv, Occupied, Sleep, Turn
  <2>4. Outstanding' = Outstanding
    BY <1>4 DEF Outstanding
  <2>5. Answers'
    BY <1>1, <2>1, <2>4 DEF IInv, Answers, Armed
  <2>6. StopsForAReason'
    BY <1>1, <1>3, <2>1 DEF IInv, StopsForAReason
  <2> QED
    BY <1>1, <2>2, <2>3, <2>5, <2>6 DEF IInv
<1>5. CASE Finalize /\ cpu' = "threads"
  <2>1. /\ Cardinality(Outstanding)' = Cardinality(Outstanding) - 1 /\ Cardinality(Outstanding) > 0
        /\ sdio' = NoJob /\ sdio' \in SdioJob
        /\ request' \in RequestMap
    BY <1>1, <1>5, CountFinalize DEF IInv
  <2>2. sdio'.event = 0
    BY <2>1 DEF NoJob
  <2>3. CASE job.event # 0
    <3>1. Schedule /\ stopped' = stopped
      BY <2>2, <2>3 DEF TransportTurn
    <3>2. Sleep' /\ next' = "due"
      BY <1>1, <3>1, ScheduleSleeps DEF IInv, Schedule
    <3>3. Shape'
      BY <1>1, <1>2, <2>1, <3>2 DEF IInv, Shape, SdioJob
    <3>4. Occupied'
      BY <1>1, <1>5, <2>1, <2>2 DEF IInv, Occupied
    <3>5. Answers'
      <4> DEFINE n == Cardinality(Outstanding)
      <4>1. n \in Nat /\ n' = n - 1 /\ n <= alarms + 1 /\ (~waiting => n <= alarms)
        BY <1>2, <2>1, Count DEF IInv, Answers
      <4>2. Armed' /\ (pc = "dispatch" => ~waiting) /\ job'.event # 0
        BY <1>1, <2>3, <3>2 DEF Armed, IInv, Occupied
      <4> QED
        BY <1>1, <1>2, <4>1, <4>2 DEF Answers
    <3>6. StopsForAReason'
      BY <1>1, <1>3, <3>1 DEF IInv, StopsForAReason
    <3> QED
      BY <1>1, <3>2, <3>3, <3>4, <3>5, <3>6 DEF IInv
  <2>4. CASE job.event = 0
    <3>1. stopped' = "report without job" /\ UNCHANGED <<worker, next, slot>>
      BY <2>2, <2>4 DEF TransportTurn
    <3>2. Shape'
      BY <1>1, <1>2, <2>1, <3>1 DEF IInv, Shape, SdioJob
    <3>3. Occupied' /\ Sleep'
      BY <1>1, <1>5, <2>1, <2>2, <2>4, <3>1 DEF IInv, Occupied, Sleep
    <3>4. ~waiting /\ alarms > 0
      BY <1>2, <2>1, <2>4, Count DEF IInv, Answers, Occupied
    <3>5. Answers'
      <4> DEFINE n == Cardinality(Outstanding)
      <4>1. n \in Nat /\ n' = n - 1 /\ n <= alarms
        BY <2>1, <3>4, Count DEF IInv, Answers
      <4>2. n' <= alarms /\ n' + 1 <= alarms /\ alarms' = alarms
        BY <1>1, <1>2, <4>1
      <4> HIDE DEF n
      <4>3. ~waiting'
        BY <1>1, <3>4
      <4> QED
        BY <4>2, <4>3 DEF Answers, n
    <3>6. StopsForAReason'
      BY <1>1, <3>1, <3>4 DEF StopsForAReason
    <3> QED
      BY <1>1, <3>2, <3>3, <3>5, <3>6 DEF IInv
  <2> QED
    BY <2>3, <2>4
<1> QED
  BY <1>1, <1>4, <1>5 DEF Turn

\* A request that is offered is as far from its answer as before.
LEMMA SameAnswers ==
  ASSUME IInv, NEW r \in Requests, request[r].state = "published",
         \A o \in Requests : o # r => request'[o] = request[o],
         request'[r].state \in {"accepted", "deferred"},
         UNCHANGED <<file, job, threadVars>>, UNCHANGED <<stopped, errors>>
  PROVE  Answers' /\ StopsForAReason'
<1>1. Outstanding' = Outstanding
  BY DEF Outstanding
<1>2. Answers'
  BY <1>1 DEF IInv, Answers, Armed, threadVars
<1>3. StopsForAReason'
  BY DEF IInv, StopsForAReason, threadVars
<1> QED
  BY <1>2, <1>3

\* An event that a thread offers to the transport stays one without an answer.
LEMMA OfferStep ==
  ASSUME IInv, NEW r \in Requests, Offer(r), UNCHANGED <<file, job, threadVars>>
  PROVE  IInv'
<1>1. /\ cpu = "threads" /\ request[r].state = "published" /\ r # 0
      /\ UNCHANGED <<outcome, incoming, buffers, capacity, cardVars, cpu, isr, stopped>>
      /\ \/ /\ sdio.event = 0
            /\ request' = [request EXCEPT ![r].state = "accepted"]
            /\ sdio' = [NoJob EXCEPT !.event = r]
         \/ /\ sdio.event # 0 /\ sdio' = sdio
            /\ request' = [request EXCEPT ![r].state = "deferred"]
  BY SdioAssumption DEF Offer, ThreadsRun, Requests
<1>2. /\ request' \in RequestMap
      /\ \A o \in Requests : o # r => request'[o] = request[o]
      /\ request'[r].type = request[r].type /\ request'[r].state \in {"accepted", "deferred"}
  BY <1>1 DEF IInv, Shape
<1>3. Answers' /\ StopsForAReason'
  <2>1. UNCHANGED <<stopped, errors>>
    BY <1>1 DEF cardVars
  <2> QED
    BY <1>1, <1>2, <2>1, SameAnswers
<1>4. CASE sdio.event = 0
  <2>1. request'[r].state = "accepted"
    BY <1>1, <1>4 DEF IInv, Shape
  <2>2. sdio' \in SdioJob /\ sdio'.event = r /\ sdio'.phase = 0 /\ sdio'.task = 0
    BY <1>1, <1>4 DEF NoJob, SdioJob
  <2>3. Shape' /\ Occupied' /\ Sleep'
    BY <1>1, <1>2, <2>1, <2>2 DEF IInv, Shape, Occupied, Sleep, SdioJob, cardVars, threadVars
  <2>4. Streams'
    BY <1>1, <1>4, <2>2 DEF IInv, Streams, cardVars
  <2> QED
    BY <1>3, <2>3, <2>4 DEF IInv
<1>5. CASE sdio.event # 0
  <2>1. sdio' = sdio /\ request'[sdio.event] = request[sdio.event]
    BY <1>1, <1>2, <1>5 DEF IInv, Shape, Occupied
  <2>2. Shape' /\ Occupied' /\ Sleep'
    BY <1>1, <1>2, <1>5, <2>1 DEF IInv, Shape, Occupied, Sleep, cardVars, threadVars
  <2>3. Type' = Type
    BY <2>1 DEF Type
  <2>4. Streams'
    BY <1>1, <2>1, <2>3 DEF IInv, Streams, cardVars
  <2> QED
    BY <1>3, <2>2, <2>4 DEF IInv
<1> QED
  BY <1>4, <1>5

\* The interrupts, the card and the stream on their own.  The end of a stream that finds no
\* job is one of a block that failed.
LEMMA EnvironmentStep ==
  ASSUME IInv, UNCHANGED <<file, job, threadVars>>,
         RunInThread \/ SdioInterrupt \/ DmaInterrupt \/ CommandStep \/ DataStep \/ DmaStep
  PROVE  IInv'
<1>1. /\ UNCHANGED <<request, sdio, capacity>>
      /\ errors' \in {errors, errors + 1} /\ alarms' = alarms /\ errors \in Nat
      /\ cpu' = cpu \/ (cpu' = "sdio" /\ sdio.event # 0 /\ cpu = "threads")
  BY DEF RunInThread, SdioInterrupt, DmaInterrupt, CommandStep, DataStep, DmaStep, cardVars,
         threadVars, ThreadsRun, IInv, Shape
<1>2. errors' \in Nat /\ (errors > 0 => errors' > 0) /\ (errors' = 0 => errors = 0)
  BY <1>1
<1>3. Shape'
  BY <1>1, <1>2 DEF IInv, Shape, threadVars
<1>4. Occupied' /\ Sleep'
  BY <1>1 DEF IInv, Occupied, Sleep, threadVars
<1>5. Type' = Type
  BY <1>1 DEF Type
<1>6. Streams'
  <2>1. errors' = 0 =>
          /\ dma' # "off" => dma # "off"
          /\ sta' = "failed" =>
               \/ sta = "failed"
               \/ sta = "sent" /\ sdio.phase = 0 /\ sdio.task = 3 /\ Type # "READ_TO_BUFFER"
          /\ data' = "error" => data = "error"
    <3>1. CASE RunInThread
      BY <3>1 DEF RunInThread, cardVars
    <3>2. CASE SdioInterrupt
      BY <3>2 DEF SdioInterrupt
    <3>3. CASE DmaInterrupt
      BY <3>3 DEF DmaInterrupt, DmaFlag
    <3>4. CASE CommandStep
      BY <1>1, <3>4 DEF CommandStep
    <3>5. CASE DataStep
      BY <1>1, <3>5 DEF DataStep
    <3>6. CASE DmaStep
      BY <3>6 DEF DmaStep
    <3> QED
      BY <3>1, <3>2, <3>3, <3>4, <3>5, <3>6
  <2>2. sdio.task = 3 => sdio.event # 0
    BY DEF IInv, Occupied, NoJob
  <2> QED
    BY <1>1, <1>2, <1>5, <2>1, <2>2 DEF IInv, Streams
<1>7. StopsForAReason'
  <2>1. CASE stopped' = stopped
    BY <1>1, <1>2, <2>1 DEF IInv, StopsForAReason
  <2>2. CASE stopped' # stopped
    <3>1. stopped' = "signal without job" /\ sdio.event = 0 /\ dma # "off" /\ errors' = errors
      BY <2>2 DEF RunInThread, SdioInterrupt, DmaInterrupt, CommandStep, DataStep, DmaStep, DmaFlag
    <3>2. errors # 0
      BY <3>1 DEF IInv, Streams
    <3>3. errors > 0
      BY <1>1, <3>2
    <3> QED
      BY <1>2, <3>1, <3>3 DEF StopsForAReason
  <2> QED
    BY <2>1, <2>2
<1>8. Outstanding' = Outstanding
  BY <1>1 DEF Outstanding
<1>9. Answers'
  BY <1>8 DEF IInv, Answers, Armed, threadVars
<1> QED
  BY <1>3, <1>4, <1>6, <1>7, <1>9 DEF IInv

\* Every step of the program keeps the invariant.
LEMMA StepKeeps == IInv /\ [Next]_vars => IInv'
<1> SUFFICES ASSUME IInv, [Next]_vars PROVE IInv'
  OBVIOUS
<1>1. CASE (\E f \in Files : Publish(f) \/ OfferFile(f)) \/ Compute \/ Take \/ Wake \/ Dispatch
  BY <1>1, ThreadStep
<1>2. CASE JobRuns
  BY <1>2, CallbackStep, HaltStep DEF JobRuns
<1>3. CASE TransportTurn
  BY <1>3, TransportTurnStep
<1>4. CASE Transport
  BY <1>4, OfferStep, EnvironmentStep DEF Transport
<1>5. CASE UNCHANGED vars
  <2>1. Shape' /\ Occupied' /\ Sleep'
    BY <1>5 DEF vars, sdioVars, cardVars, threadVars, IInv, Shape, Occupied, Sleep
  <2>2. Streams' /\ StopsForAReason' /\ Outstanding' = Outstanding
    BY <1>5, Untouched DEF vars, sdioVars, cardVars, threadVars, IInv
  <2>3. Answers'
    BY <1>5, <2>2 DEF vars, threadVars, IInv, Answers, Armed
  <2> QED
    BY <2>1, <2>2, <2>3 DEF IInv
<1> QED
  BY <1>1, <1>2, <1>3, <1>4, <1>5 DEF Next

-----------------------------------------------------------------------------
\* What the driver, its thread and the transport agree on holds in every state.
THEOREM DriverConsistent == Spec => []IInv
BY Initially, StepKeeps, PTL DEF Spec

\* actor_thread_actor_schedule never leaves SDFS asleep with its worker due: it takes the
\* timeout it computed back, or finds the notification.
THEOREM NoWakeupIsLost == Spec => []NoLostWakeup
<1>1. IInv => NoLostWakeup
  BY DEF IInv, Sleep, NoLostWakeup
<1> QED
  BY <1>1, DriverConsistent, PTL

\* actor_job_wait returns to a callback of the file system with its answer: every wake-up
\* but those of an expired minute stands for one.
THEOREM EveryWakeupIsAnAnswer == Spec => []AnswersAwaited
<1>1. IInv => AnswersAwaited
  <2> SUFFICES ASSUME IInv PROVE AnswersAwaited
    OBVIOUS
  <2>1. alarms \in Nat
    BY DEF IInv, Shape
  <2> QED
    BY <2>1, Count DEF IInv, Answers, AnswersAwaited
<1> QED
  BY <1>1, DriverConsistent, PTL

\* A report that finds no job of the driver, and a signal that finds none of the transport,
\* take an expired minute and a failed block.
THEOREM StopsHaveReasons == Spec => []StopsForAReason
<1>1. IInv => StopsForAReason
  BY DEF IInv
<1> QED
  BY <1>1, DriverConsistent, PTL
-----------------------------------------------------------------------------
\* The place of the transport's job in the code: the calls of its handler, and those that
\* take back a stored signal.  Only a block fails.
Path ==
  /\ \A r \in Requests : request[r].state # "none" => request[r].type # "none"
  /\ sdio.event # 0 =>
       \/ /\ Type = "MOUNT"
          /\ \/ sdio.phase = 0 /\ sdio.task \in 0..20 \cup {TASK_SUCCESS}
             \/ sdio.phase \in {1, SUCCESS} /\ sdio.task = 0
       \/ /\ Type = "READ_TO_BUFFER"
          /\ \/ sdio.phase = 0 /\ sdio.task \in 0..6 \cup {TASK_SUCCESS, TASK_FAILURE}
             \/ sdio.phase = 1 /\ sdio.task \in {0, TASK_SUCCESS}
             \/ sdio.phase \in {2, SUCCESS} /\ sdio.task = 0
             \/ sdio.phase = FAILURE /\ sdio.task = TASK_FAILURE
       \/ /\ Type = "WRITE"
          /\ \/ sdio.phase = 0 /\ sdio.task \in 0..20 \cup {TASK_SUCCESS}
             \/ sdio.phase = 1 /\ sdio.task \in 0..7 \cup {TASK_SUCCESS, TASK_FAILURE}
             \/ sdio.phase \in {2, SUCCESS} /\ sdio.task = 0
             \/ sdio.phase = FAILURE /\ sdio.task = TASK_FAILURE

\* What is reported of each request: the outcome of its job, once, in the turn before the
\* one that ends it
Reported ==
  /\ outcome \in [Requests -> {0, SUCCESS, FAILURE}]
  /\ \A r \in Requests : request[r].state # "done" /\ r # sdio.event => outcome[r] = 0
  /\ sdio.event # 0 =>
       outcome[sdio.event] = IF sdio.phase \in {SUCCESS, FAILURE} THEN sdio.phase ELSE 0

\* The job transfers a block.
Transfers == \/ Type = "READ_TO_BUFFER" /\ sdio.phase = 0
             \/ Type = "WRITE" /\ sdio.phase = 1

\* The job has a buffer of its own: a task that fails gives none back.
Holding ==
  /\ sdio.event # 0
  /\ \/ Type = "READ_TO_BUFFER" /\ sdio.phase = 0 /\ sdio.task # 0
     \/ Type = "READ_TO_BUFFER" /\ sdio.phase = 1 /\ sdio.task = 0
     \/ Type = "WRITE" /\ sdio.phase = 1 /\ sdio.task \in {1, 2, 3, TASK_FAILURE}

\* The block of the job has failed, or is about to.
Broken ==
  /\ sdio.event # 0 /\ Transfers
  /\ \/ sdio.task = 1 /\ sta = "failed"
     \/ sdio.task = 3 /\ data = "error"
     \/ sdio.task = TASK_FAILURE

Failed == {r \in Requests : outcome[r] = FAILURE}

\* A buffer for each block that failed, and an error for each of them; a command fails where
\* a task looks at it.
Leaks ==
  /\ buffers = Cardinality(Failed) + (IF Holding THEN 1 ELSE 0)
  /\ Cardinality(Failed) + (IF Broken THEN 1 ELSE 0) <= errors
  /\ sta = "failed" =>
       /\ sdio.event # 0
       /\ \/ Transfers /\ sdio.task = 1
          \/ sdio.phase = 0 /\ sdio.task = 3 /\ Type # "READ_TO_BUFFER"

KInv == Path /\ Reported /\ Leaks
-----------------------------------------------------------------------------
LEMMA CountFailed == Cardinality(Failed) \in Nat /\ IsFiniteSet(Failed)
<1>1. Failed \subseteq 1..MaxRequests /\ IsFiniteSet(1..MaxRequests)
  BY SdioAssumption, FS_Interval DEF Failed, Requests
<1> QED
  BY <1>1, FS_Subset, FS_CardinalityType

\* A handler's turn that does not end its job
LEMMA GoesOn ==
  ASSUME IInv, KInv, cpu = "sdio", ~Stored(sdio),
         NEW skip \in {0, 1, -3}, sdio.task + skip \notin {TASK_SUCCESS, TASK_FAILURE},
         NEW s \in {CONTINUE, WAIT, QUIT_ISR, LOOP, TASK_SUCCESS, TASK_FAILURE},
         ReturnsFrom(skip, s)
  PROVE  /\ sdio.event # 0 /\ sdio.event \in Requests /\ sdio.task \in Int /\ sdio.phase \in 0..2
         /\ sdio.task \notin {TASK_SUCCESS, TASK_FAILURE}
         /\ errors \in Nat /\ Cardinality(Failed) \in Nat
         /\ request' = request /\ outcome' = outcome /\ Failed' = Failed /\ Type' = Type
         /\ sdio'.event = sdio.event /\ sdio'.phase = sdio.phase
         /\ s \in {CONTINUE, WAIT} => sdio'.task = sdio.task + skip + 1
         /\ s \in {TASK_SUCCESS, TASK_FAILURE} => sdio'.task = s
         /\ s \in {QUIT_ISR, LOOP} => sdio'.task = sdio.task + skip
         /\ Reported'
<1>1. /\ sdio.event # 0 /\ sdio.event \in Requests /\ sdio.task \in Int /\ sdio.phase \in 0..2
      /\ sdio.phase \notin {SUCCESS, FAILURE} /\ sdio.task \notin {TASK_SUCCESS, TASK_FAILURE}
      /\ errors \in Nat
  BY DEF IInv, Shape, Occupied, KInv, Path, Stored
<1>2. /\ request' = request /\ outcome' = outcome
      /\ sdio'.event = sdio.event /\ sdio'.phase = sdio.phase
      /\ s \in {CONTINUE, WAIT} => sdio'.task = sdio.task + skip + 1
      /\ s \in {TASK_SUCCESS, TASK_FAILURE} => sdio'.task = s
      /\ s \in {QUIT_ISR, LOOP} => sdio'.task = sdio.task + skip
  BY <1>1, HandlerTurn DEF IInv
<1>3. Failed' = Failed /\ Type' = Type
  BY <1>2 DEF Failed, Type
<1>4. Reported'
  BY <1>2 DEF KInv, Reported
<1> QED
  BY <1>1, <1>2, <1>3, <1>4, CountFailed

LEMMA DetectCardCounts ==
  ASSUME IInv, KInv, DetectCard
  PROVE  Path' /\ Reported' /\ Leaks'
<1>1. /\ cpu = "sdio" /\ ~Stored(sdio) /\ sdio.phase = 0 /\ sdio.task \in 0..20
      /\ Type \in {"MOUNT", "WRITE"} /\ (Type = "WRITE" => ~capacity)
      /\ UNCHANGED <<incoming, buffers, data, dma, errors>>
  BY DEF DetectCard, At, Executes
<1>2. ASSUME NEW skip \in {0, 1, -3}, sdio.task + skip \in 0..19,
             NEW s \in {CONTINUE, LOOP}, ReturnsFrom(skip, s),
             sta' = "failed" => sta = "failed" /\ sdio.task = 3 /\ s = LOOP /\ skip = 0
      PROVE  Path' /\ Reported' /\ Leaks'
  <2>1. /\ sdio.event # 0 /\ Failed' = Failed /\ Type' = Type /\ Reported' /\ request' = request
        /\ sdio'.event = sdio.event /\ sdio'.phase = 0
        /\ s = CONTINUE => sdio'.task = sdio.task + skip + 1
        /\ s = LOOP => sdio'.task = sdio.task + skip
        /\ sdio'.task \in 0..20 /\ errors \in Nat /\ Cardinality(Failed) \in Nat
    BY <1>1, <1>2, GoesOn
  <2>2. Path'
    BY <1>1, <2>1 DEF KInv, Path
  <2>3. ~Holding /\ ~Holding' /\ ~Broken /\ ~Broken'
    BY <1>1, <2>1 DEF Holding, Broken, Transfers
  <2>4. Leaks'
    BY <1>1, <1>2, <2>1, <2>3 DEF KInv, Leaks
  <2> QED
    BY <2>1, <2>2, <2>4
<1>3. sta = "failed" => sdio.task = 3
  BY <1>1 DEF KInv, Leaks, Transfers
<1>4. CASE sdio.task \in {1, 4, 5, 6, 8, 10, 12} \cup 14..19 /\ SendAndWait
  BY <1>1, <1>2, <1>3, <1>4 DEF SendAndWait, Returns
<1>5. CASE sdio.task = 2 /\ sta' = "sent" /\ Returns(CONTINUE)
  BY <1>1, <1>2, <1>5 DEF Returns
<1>6. CASE /\ sdio.task = 3
           /\ \/ sta = "sent" /\ UNCHANGED sta /\ Returns(LOOP)
              \/ sta = "failed" /\ sta' = "clear" /\ Returns(CONTINUE)
              \/ sta = "answered" /\ sta' = "clear" /\ ReturnsFrom(1, CONTINUE)
  BY <1>1, <1>2, <1>6 DEF Returns
<1>7. CASE /\ sdio.task = 7 /\ UNCHANGED sta
           /\ ReturnsFrom(-3, CONTINUE) \/ Returns(CONTINUE)
  BY <1>1, <1>2, <1>3, <1>7 DEF Returns
<1>8. CASE sdio.task \in {0, 9, 11, 13} /\ Returns(CONTINUE) /\ UNCHANGED sta
  BY <1>1, <1>2, <1>3, <1>8 DEF Returns
<1>9. CASE sdio.task = 20 /\ Returns(TASK_SUCCESS) /\ UNCHANGED sta
  <2>1. /\ sdio.event # 0 /\ Failed' = Failed /\ Type' = Type /\ Reported' /\ request' = request
        /\ sdio'.event = sdio.event /\ sdio'.phase = 0 /\ sdio'.task = TASK_SUCCESS
        /\ errors \in Nat /\ Cardinality(Failed) \in Nat
    BY <1>1, <1>9, GoesOn DEF Returns
  <2>2. Path'
    BY <1>1, <2>1 DEF KInv, Path
  <2>3. ~Holding /\ ~Holding' /\ ~Broken /\ ~Broken'
    BY <1>1, <2>1 DEF Holding, Broken, Transfers
  <2>4. Leaks'
    BY <1>1, <1>3, <1>9, <2>1, <2>3 DEF KInv, Leaks
  <2> QED
    BY <2>1, <2>2, <2>4
<1> QED
  BY <1>4, <1>5, <1>6, <1>7, <1>8, <1>9 DEF DetectCard

\* A turn of a block's task: it holds a buffer from its first task on, and an error of the
\* card makes it fail.
LEMMA ReadCounts ==
  ASSUME IInv, KInv, StartRead \/ FinishRead \/ PublishResponse
  PROVE  Path' /\ Reported' /\ Leaks'
<1>1. /\ cpu = "sdio" /\ ~Stored(sdio) /\ sdio.phase \in {0, 1} /\ Type = "READ_TO_BUFFER"
      /\ errors' = errors
  BY DEF StartRead, FinishRead, PublishResponse, At, Executes, cardVars
<1>2. ASSUME NEW s \in {CONTINUE, WAIT, LOOP, QUIT_ISR, TASK_SUCCESS, TASK_FAILURE}, Returns(s)
      PROVE  /\ sdio.event # 0 /\ Failed' = Failed /\ Type' = Type /\ Reported' /\ request' = request
             /\ sdio'.event = sdio.event /\ sdio'.phase = sdio.phase
             /\ s \in {CONTINUE, WAIT} => sdio'.task = sdio.task + 1
             /\ s \in {LOOP, QUIT_ISR} => sdio'.task = sdio.task
             /\ s \in {TASK_SUCCESS, TASK_FAILURE} => sdio'.task = s
             /\ errors \in Nat /\ Cardinality(Failed) \in Nat /\ sdio.task \in Nat
  <2>1. sdio.task + 0 = sdio.task /\ sdio.task + 0 \notin {TASK_SUCCESS, TASK_FAILURE}
        /\ sdio.task \in Nat
    BY <1>1 DEF IInv, Shape, Occupied, KInv, Path, Stored
  <2> QED
    BY <1>1, <1>2, <2>1, GoesOn DEF Returns
<1> DEFINE Next1 == Path' /\ Reported' /\ Leaks'
           Job == /\ sdio.event # 0 /\ Failed' = Failed /\ Type' = Type /\ request' = request
                  /\ sdio'.event = sdio.event /\ sdio'.phase = sdio.phase
                  /\ errors \in Nat /\ Cardinality(Failed) \in Nat /\ sdio.task \in Nat
<1>3. ASSUME StartRead PROVE Next1
  <2>1. sdio.phase = 0 /\ sdio.task \in 0..2
    BY <1>3 DEF StartRead, At
  <2>2. CASE /\ sdio.task = 0 /\ UNCHANGED <<sta, data>>
             /\ Returns(QUIT_ISR) /\ UNCHANGED <<buffers, dma>>
    <3>1. Job /\ Reported' /\ sdio'.task = sdio.task
      BY <1>2, <2>2
    <3> QED
      BY <1>1, <2>1, <2>2, <3>1 DEF KInv, Path, Leaks, Holding, Broken, Transfers
  <2>3. CASE /\ sdio.task = 0 /\ UNCHANGED <<sta, data>>
             /\ Returns(CONTINUE) /\ buffers' = buffers + 1
    <3>1. Job /\ Reported' /\ sdio'.task = 1
      BY <1>2, <2>3
    <3> QED
      BY <1>1, <2>1, <2>3, <3>1 DEF KInv, Path, Leaks, Holding, Broken, Transfers
  <2>4. CASE sdio.task = 1 /\ SendAndWait /\ UNCHANGED <<buffers, data>>
    <3>1. \E s \in {CONTINUE, LOOP, TASK_FAILURE} :
             /\ Returns(s) /\ (s = TASK_FAILURE => sta = "failed")
             /\ sta' # "failed"
      BY <2>4 DEF SendAndWait
    <3>2. PICK s \in {CONTINUE, LOOP, TASK_FAILURE} :
             Returns(s) /\ (s = TASK_FAILURE => sta = "failed") /\ sta' # "failed"
      BY <3>1
    <3>3. Job /\ Reported' /\ sdio'.task = (CASE s = CONTINUE -> 2 [] s = LOOP -> 1 [] OTHER -> s)
      BY <1>2, <2>4, <3>2
    <3> QED
      BY <1>1, <2>1, <2>4, <3>2, <3>3 DEF KInv, Path, Leaks, Holding, Broken, Transfers
  <2>5. CASE sdio.task = 2 /\ data' = "moving" /\ Returns(WAIT) /\ UNCHANGED <<buffers, sta>>
    <3>1. Job /\ Reported' /\ sdio'.task = 3
      BY <1>2, <2>5
    <3> QED
      BY <1>1, <2>1, <2>5, <3>1 DEF KInv, Path, Leaks, Holding, Broken, Transfers
  <2> QED
    BY <1>3, <2>2, <2>3, <2>4, <2>5 DEF StartRead
<1>4. ASSUME FinishRead PROVE Next1
  <2>1. sdio.phase = 0 /\ sdio.task \in 3..6 /\ UNCHANGED <<buffers, sta>> /\ sta # "failed"
    BY <1>1, <1>4 DEF FinishRead, At, KInv, Leaks
  <2>2. CASE sdio.task = 3
    <3>1. \E s \in {CONTINUE, LOOP, TASK_FAILURE} :
             /\ Returns(s) /\ (s = TASK_FAILURE <=> data = "error") /\ (s = LOOP => data' = data)
      BY <1>4, <2>2 DEF FinishRead
    <3>2. PICK s \in {CONTINUE, LOOP, TASK_FAILURE} :
             /\ Returns(s) /\ (s = TASK_FAILURE <=> data = "error") /\ (s = LOOP => data' = data)
      BY <3>1
    <3>3. Job /\ Reported' /\ sdio'.task = (CASE s = CONTINUE -> 4 [] s = LOOP -> 3 [] OTHER -> s)
      BY <1>2, <2>2, <3>2
    <3> QED
      BY <1>1, <2>1, <2>2, <3>2, <3>3 DEF KInv, Path, Leaks, Holding, Broken, Transfers
  <2>3. CASE sdio.task \in 4..6
    <3>1. \E s \in {CONTINUE, LOOP, TASK_SUCCESS} : Returns(s) /\ (s = CONTINUE => sdio.task # 6)
      BY <1>4, <2>3 DEF FinishRead
    <3>2. PICK s \in {CONTINUE, LOOP, TASK_SUCCESS} : Returns(s) /\ (s = CONTINUE => sdio.task # 6)
      BY <3>1
    <3>3. /\ Job /\ Reported'
          /\ sdio'.task = (CASE s = CONTINUE -> sdio.task + 1 [] s = LOOP -> sdio.task [] OTHER -> s)
      BY <1>2, <2>3, <3>2
    <3> QED
      BY <1>1, <2>1, <2>3, <3>2, <3>3 DEF KInv, Path, Leaks, Holding, Broken, Transfers
  <2> QED
    BY <2>1, <2>2, <2>3
<1>5. ASSUME PublishResponse PROVE Next1
  <2>1. /\ sdio.phase = 1 /\ Returns(TASK_SUCCESS) /\ buffers' = buffers - 1 /\ sta' = sta
    BY <1>5 DEF PublishResponse, At, cardVars
  <2>2. Job /\ Reported' /\ sdio'.task = TASK_SUCCESS
    BY <1>2, <2>1
  <2>3. sdio.task = 0
    BY <1>1, <2>1, <2>2 DEF KInv, Path, Stored
  <2> QED
    BY <1>1, <2>1, <2>2, <2>3 DEF KInv, Path, Leaks, Holding, Broken, Transfers
<1> QED
  BY <1>3, <1>4, <1>5

\* The same for a block that is written: it gives its buffer back at its third task.
LEMMA WriteCounts ==
  ASSUME IInv, KInv, SkipDetection \/ StartWrite \/ FinishWrite
  PROVE  Path' /\ Reported' /\ Leaks'
<1>1. /\ cpu = "sdio" /\ ~Stored(sdio) /\ sdio.phase \in {0, 1} /\ Type = "WRITE"
      /\ sta = "failed" => sdio.task = IF sdio.phase = 1 THEN 1 ELSE 3
  <2>1. /\ cpu = "sdio" /\ ~Stored(sdio) /\ sdio.phase \in {0, 1} /\ Type = "WRITE"
    BY DEF SkipDetection, StartWrite, FinishWrite, At, Executes
  <2> QED
    BY <2>1 DEF KInv, Leaks, Transfers
<1>2. ASSUME NEW s \in {CONTINUE, LOOP, QUIT_ISR, TASK_SUCCESS, TASK_FAILURE}, Returns(s)
      PROVE  /\ sdio.event # 0 /\ Failed' = Failed /\ Type' = Type /\ Reported' /\ request' = request
             /\ sdio'.event = sdio.event /\ sdio'.phase = sdio.phase
             /\ s = CONTINUE => sdio'.task = sdio.task + 1
             /\ s \in {LOOP, QUIT_ISR} => sdio'.task = sdio.task
             /\ s \in {TASK_SUCCESS, TASK_FAILURE} => sdio'.task = s
             /\ errors \in Nat /\ Cardinality(Failed) \in Nat /\ sdio.task \in Nat
  <2>1. sdio.task + 0 = sdio.task /\ sdio.task + 0 \notin {TASK_SUCCESS, TASK_FAILURE}
        /\ sdio.task \in Nat
    BY <1>1 DEF IInv, Shape, Occupied, KInv, Path, Stored
  <2> QED
    BY <1>1, <1>2, <2>1, GoesOn DEF Returns
<1> DEFINE Next1 == Path' /\ Reported' /\ Leaks'
           Job == /\ sdio.event # 0 /\ Failed' = Failed /\ Type' = Type /\ request' = request
                  /\ sdio'.event = sdio.event /\ sdio'.phase = sdio.phase
                  /\ errors \in Nat /\ Cardinality(Failed) \in Nat /\ sdio.task \in Nat
<1>3. ASSUME SkipDetection PROVE Next1
  <2>1. /\ sdio.phase = 0 /\ Returns(TASK_SUCCESS) /\ capacity
        /\ UNCHANGED <<buffers, errors, sta>>
    BY <1>3 DEF SkipDetection, At, cardVars
  <2>2. Job /\ Reported' /\ sdio'.task = TASK_SUCCESS
    BY <1>2, <2>1
  <2>3. sdio.task # 3
    BY <1>1, <2>1, <2>2 DEF IInv, Streams
  <2> QED
    BY <1>1, <2>1, <2>2, <2>3 DEF KInv, Path, Leaks, Holding, Broken, Transfers
<1>4. ASSUME StartWrite PROVE Next1
  <2>1. sdio.phase = 1 /\ sdio.task \in 0..2 /\ errors' = errors
    BY <1>4 DEF StartWrite, At
  <2>2. CASE /\ sdio.task = 0 /\ UNCHANGED <<sta, data>>
             /\ Returns(QUIT_ISR) /\ UNCHANGED <<buffers, dma>>
    <3>1. Job /\ Reported' /\ sdio'.task = sdio.task
      BY <1>2, <2>2
    <3> QED
      BY <1>1, <2>1, <2>2, <3>1 DEF KInv, Path, Leaks, Holding, Broken, Transfers
  <2>3. CASE /\ sdio.task = 0 /\ UNCHANGED <<sta, data>>
             /\ Returns(CONTINUE) /\ buffers' = buffers + 1
    <3>1. Job /\ Reported' /\ sdio'.task = 1
      BY <1>2, <2>3
    <3> QED
      BY <1>1, <2>1, <2>3, <3>1 DEF KInv, Path, Leaks, Holding, Broken, Transfers
  <2>4. CASE sdio.task = 1 /\ SendAndWait /\ UNCHANGED <<buffers, data>>
    <3>1. PICK s \in {CONTINUE, LOOP, TASK_FAILURE} :
             Returns(s) /\ (s = TASK_FAILURE => sta = "failed") /\ sta' # "failed"
      BY <2>4 DEF SendAndWait
    <3>2. Job /\ Reported' /\ sdio'.task = (CASE s = CONTINUE -> 2 [] s = LOOP -> 1 [] OTHER -> s)
      BY <1>2, <2>4, <3>1
    <3> QED
      BY <1>1, <2>1, <2>4, <3>1, <3>2 DEF KInv, Path, Leaks, Holding, Broken, Transfers
  <2>5. CASE sdio.task = 2 /\ data' = "moving" /\ Returns(CONTINUE) /\ UNCHANGED <<buffers, sta>>
    <3>1. Job /\ Reported' /\ sdio'.task = 3
      BY <1>2, <2>5
    <3> QED
      BY <1>1, <2>1, <2>5, <3>1 DEF KInv, Path, Leaks, Holding, Broken, Transfers
  <2> QED
    BY <1>4, <2>2, <2>3, <2>4, <2>5 DEF StartWrite
<1>5. ASSUME FinishWrite PROVE Next1
  <2>1. sdio.phase = 1 /\ sdio.task \in 3..7 /\ sta' = sta /\ sta # "failed"
    BY <1>1, <1>5 DEF FinishWrite, At
  <2>2. CASE /\ sdio.task = 3 /\ data # "error" /\ buffers' = buffers - 1 /\ Returns(CONTINUE)
             /\ errors' = errors \/ errors' = errors + 1
    <3>1. Job /\ Reported' /\ sdio'.task = 4
      BY <1>2, <2>2
    <3> QED
      BY <1>1, <2>1, <2>2, <3>1 DEF KInv, Path, Leaks, Holding, Broken, Transfers
  <2>3. CASE /\ sdio.task = 3 /\ data = "error" /\ Returns(TASK_FAILURE)
             /\ UNCHANGED <<buffers, data, errors>>
    <3>1. Job /\ Reported' /\ sdio'.task = TASK_FAILURE
      BY <1>2, <2>3
    <3> QED
      BY <1>1, <2>1, <2>3, <3>1 DEF KInv, Path, Leaks, Holding, Broken, Transfers
  <2>4. CASE /\ sdio.task = 3 /\ data # "error" /\ Returns(LOOP)
             /\ data' = (IF data = "ended" THEN "off" ELSE data) /\ UNCHANGED <<buffers, errors>>
    <3>1. Job /\ Reported' /\ sdio'.task = 3
      BY <1>2, <2>4
    <3> QED
      BY <1>1, <2>1, <2>4, <3>1 DEF KInv, Path, Leaks, Holding, Broken, Transfers
  <2>5. CASE sdio.task \in 4..6 /\ Returns(CONTINUE) /\ UNCHANGED <<buffers, errors>>
    <3>1. Job /\ Reported' /\ sdio'.task = sdio.task + 1
      BY <1>2, <2>5
    <3> QED
      BY <1>1, <2>1, <2>5, <3>1 DEF KInv, Path, Leaks, Holding, Broken, Transfers
  <2>6. CASE sdio.task = 7 /\ Returns(TASK_SUCCESS) /\ UNCHANGED <<buffers, errors>>
    <3>1. Job /\ Reported' /\ sdio'.task = TASK_SUCCESS
      BY <1>2, <2>6
    <3> QED
      BY <1>1, <2>1, <2>6, <3>1 DEF KInv, Path, Leaks, Holding, Broken, Transfers
  <2> QED
    BY <1>5, <2>2, <2>3, <2>4, <2>5, <2>6 DEF FinishWrite
<1> QED
  BY <1>3, <1>4, <1>5

\* The end of a job: what it reports is its outcome, and a block that failed is counted.
LEMMA ConcludeCounts ==
  ASSUME IInv, KInv, Conclude
  PROVE  Path' /\ Reported' /\ Leaks'
<1>1. /\ cpu = "sdio" /\ sdio.event # 0 /\ sdio.event \in Requests /\ sdio.task \in Int
      /\ errors \in Nat /\ Cardinality(Failed) \in Nat /\ outcome \in [Requests -> {0, SUCCESS, FAILURE}]
      /\ UNCHANGED <<buffers, sta, data, errors>>
  BY CountFailed DEF Conclude, Executes, IInv, Shape, Occupied, KInv, Reported, cardVars
<1>2. CASE ~Stored(sdio) /\ sdio.phase = (IF Type = "MOUNT" THEN 1 ELSE 2) /\ Returns(SUCCESS)
  <2>1. sdio.task = 0 /\ sdio.task + 0 = sdio.task /\ sdio.phase \in 1..2
    BY <1>1, <1>2 DEF KInv, Path
  <2>2. /\ request' = request /\ sdio'.event = sdio.event
        /\ sdio'.phase = SUCCESS /\ sdio'.task = 0
        /\ outcome' = [outcome EXCEPT ![sdio.event] = SUCCESS]
    BY <1>2, <2>1, HandlerTurn DEF IInv, Returns
  <2>3. outcome[sdio.event] = 0 /\ Type' = Type
    BY <1>1, <2>1, <2>2 DEF KInv, Reported, Type
  <2>4. Failed' = Failed
    BY <1>1, <2>2, <2>3 DEF Failed
  <2>5. Path'
    BY <1>1, <1>2, <2>1, <2>2, <2>3 DEF KInv, Path
  <2>6. Reported'
    BY <1>1, <2>2 DEF KInv, Reported
  <2>7. Leaks'
    BY <1>1, <1>2, <2>1, <2>2, <2>3, <2>4 DEF KInv, Leaks, Holding, Broken, Transfers
  <2> QED
    BY <2>5, <2>6, <2>7
<1>3. CASE Stored(sdio) /\ Returns(HALT)
  <2>1. CASE /\ request' = request /\ sdio'.event = sdio.event
             /\ sdio.phase \notin {SUCCESS, FAILURE}
             /\ sdio.task = TASK_FAILURE /\ sdio'.phase = FAILURE /\ sdio'.task = sdio.task
             /\ outcome' = [outcome EXCEPT ![sdio.event] = FAILURE]
    <3>1. outcome[sdio.event] = 0 /\ Type' = Type
      BY <1>1, <2>1 DEF KInv, Reported, Type
    <3>2. Failed' = Failed \cup {sdio.event} /\ sdio.event \notin Failed
      BY <1>1, <2>1, <3>1 DEF Failed
    <3>3. Cardinality(Failed)' = Cardinality(Failed) + 1
      BY <3>2, CountFailed, FS_AddElement
    <3>4. Path'
      BY <1>1, <2>1, <3>1 DEF KInv, Path
    <3>5. Reported'
      BY <1>1, <2>1 DEF KInv, Reported
    <3>6. Holding /\ Broken /\ ~Holding' /\ ~Broken'
      BY <1>1, <2>1, <3>1 DEF KInv, Path, Holding, Broken, Transfers
    <3>7. sta # "failed"
      BY <1>1, <2>1 DEF KInv, Leaks
    <3>8. Leaks'
      BY <1>1, <3>3, <3>6, <3>7 DEF KInv, Leaks
    <3> QED
      BY <3>4, <3>5, <3>8
  <2>2. CASE /\ request' = request /\ sdio'.event = sdio.event
             /\ sdio.phase \notin {SUCCESS, FAILURE}
             /\ sdio.task = TASK_SUCCESS /\ sdio'.phase = sdio.phase + 1 /\ sdio'.task = 0
             /\ outcome' = outcome
    <3>1. Failed' = Failed /\ Type' = Type
      BY <2>2 DEF Failed, Type
    <3>2. Path' /\ sdio.phase \in 0..1
      BY <1>1, <2>2, <3>1 DEF KInv, Path
    <3>3. Reported'
      BY <1>1, <2>2, <3>2 DEF KInv, Reported
    <3>4. /\ ~Broken' /\ ~Broken /\ sta # "failed"
      BY <1>1, <2>2, <3>1, <3>2 DEF KInv, Leaks, Broken, Transfers
    <3>5. Holding = Holding'
      BY <1>1, <2>2, <3>1, <3>2 DEF KInv, Path, Holding
    <3>6. Leaks'
      BY <1>1, <3>1, <3>4, <3>5 DEF KInv, Leaks
    <3> QED
      BY <3>2, <3>3, <3>6
  <2>3. CASE sdio.phase \in {SUCCESS, FAILURE} /\ Finalize /\ outcome' = outcome
    <3>1. sdio'.event = 0 /\ Failed' = Failed
      BY <2>3 DEF Finalize, NoJob, Failed
    <3>2. \A r \in Requests :
            /\ request'[r].type = request[r].type
            /\ request'[r].state # "none" => request[r].state # "none"
            /\ request'[r].state # "done" => request[r].state # "done" /\ r # sdio.event
      BY <1>1, <2>3 DEF Finalize, IInv, Shape, Occupied
    <3>3. Path'
      BY <3>1, <3>2 DEF KInv, Path
    <3>6. Reported'
      BY <1>1, <2>3, <3>1, <3>2 DEF KInv, Reported
    <3>4. ~Holding /\ ~Holding' /\ ~Broken /\ ~Broken' /\ sta # "failed"
      BY <1>1, <2>3, <3>1 DEF KInv, Leaks, Holding, Broken, Transfers
    <3>5. Leaks'
      BY <1>1, <3>1, <3>4 DEF KInv, Leaks
    <3> QED
      BY <3>3, <3>5, <3>6
  <2> QED
    BY <1>3, <2>1, <2>2, <2>3, StoredTurn DEF IInv
<1> QED
  BY <1>2, <1>3 DEF Conclude

\* A step that leaves the transport's job and what it holds
LEMMA AsideCounts ==
  ASSUME KInv, UNCHANGED <<request, outcome, sdio, buffers, sta, data, errors>>
  PROVE  KInv'
<1>1. Type' = Type /\ Failed' = Failed
  BY DEF Type, Failed
<1>2. Path' /\ Reported'
  BY <1>1 DEF KInv, Path, Reported
<1>3. Holding' = Holding /\ Broken' = Broken /\ Transfers' = Transfers
  BY <1>1 DEF Holding, Broken, Transfers
<1>4. Leaks'
  BY <1>1, <1>3 DEF KInv, Leaks
<1> QED
  BY <1>2, <1>4 DEF KInv

\* A new request has no report, and none is of the job.
LEMMA CallbackCounts ==
  ASSUME IInv, KInv, NEW type \in {"MOUNT", "READ_TO_BUFFER", "WRITE"}, Callback(type)
  PROVE  KInv'
<1>1. PICK r \in Unused : request' = [request EXCEPT ![r] = [state |-> "published", type |-> type]]
  BY DEF Callback
<1>2. r \in Requests /\ request[r].state = "none" /\ r # sdio.event
  BY <1>1, SdioAssumption DEF Unused, IInv, Occupied, Requests
<1>3. UNCHANGED <<outcome, sdio, buffers, sta, data, errors>>
  BY DEF Callback, cardVars
<1>4. /\ sdio.event # 0 => Type' = Type
      /\ \A o \in Requests : o # r => request'[o] = request[o]
      /\ request'[r].state = "published" /\ request'[r].type = type
  BY <1>1, <1>2, <1>3 DEF Type, IInv, Shape
<1>5. Path' /\ Reported'
  BY <1>2, <1>3, <1>4 DEF KInv, Path, Reported
<1>6. Failed' = Failed
  BY <1>3 DEF Failed
<1>7. Leaks'
  BY <1>3, <1>4, <1>6 DEF KInv, Leaks, Holding, Broken, Transfers
<1> QED
  BY <1>5, <1>7 DEF KInv

\* A job begins without a buffer.
LEMMA OfferCounts ==
  ASSUME IInv, KInv, NEW r \in Requests, Offer(r)
  PROVE  KInv'
<1>1. /\ request[r].state = "published" /\ r # 0 /\ sta # "failed"
      /\ UNCHANGED <<outcome, buffers, sta, data, errors>>
      /\ \/ /\ sdio.event = 0
            /\ request' = [request EXCEPT ![r].state = "accepted"]
            /\ sdio' = [NoJob EXCEPT !.event = r]
         \/ /\ sdio.event # 0 /\ sdio' = sdio
            /\ request' = [request EXCEPT ![r].state = "deferred"]
  <2>1. sta # "failed"
    BY DEF Offer, ThreadsRun, SdioFlag
  <2>2. r # 0
    BY SdioAssumption DEF Requests
  <2> QED
    BY <2>1, <2>2 DEF Offer, cardVars
<1>2. /\ \A o \in Requests : o # r => request'[o] = request[o]
      /\ request'[r].type = request[r].type /\ request'[r].state \in {"accepted", "deferred"}
      /\ request[r].type \in {"MOUNT", "READ_TO_BUFFER", "WRITE"}
  BY <1>1 DEF IInv, Shape, KInv, Path
<1>3. Failed' = Failed
  BY <1>1 DEF Failed
<1>4. CASE sdio.event = 0
  <2>1. sdio'.event = r /\ sdio'.phase = 0 /\ sdio'.task = 0 /\ sdio = NoJob
    BY <1>1, <1>4 DEF NoJob, IInv, Occupied
  <2>2. outcome[r] = 0
    <3>1. r # sdio.event /\ request[r].state # "done"
      BY <1>1, <1>4
    <3> QED
      BY <3>1 DEF KInv, Reported
  <2>3. Path' /\ Reported'
    <3>1. Type' \in {"MOUNT", "READ_TO_BUFFER", "WRITE"}
      BY <1>2, <2>1 DEF Type
    <3>2. Path'
      BY <1>2, <2>1, <3>1 DEF KInv, Path
    <3>3. \A o \in Requests : request'[o].state # "done" => request[o].state # "done"
      BY <1>1, <1>2
    <3>4. outcome' = outcome /\ \A o \in Requests : request[o].state # "done" => outcome[o] = 0
      BY <1>1, <1>4, SdioAssumption DEF KInv, Reported, Requests
    <3>5. Reported'
      BY <2>1, <2>2, <3>3, <3>4 DEF KInv, Reported
    <3> QED
      BY <3>2, <3>5
  <2>4. ~Holding /\ ~Holding' /\ ~Broken /\ ~Broken'
    BY <1>4, <2>1 DEF Holding, Broken
  <2>5. Leaks'
    BY <1>1, <1>3, <2>4 DEF KInv, Leaks
  <2> QED
    BY <2>3, <2>5 DEF KInv
<1>5. CASE sdio.event # 0
  <2>1. sdio' = sdio /\ request'[sdio.event].type = request[sdio.event].type
    BY <1>1, <1>2, <1>5 DEF IInv, Shape
  <2>2. Type' = Type
    BY <2>1 DEF Type
  <2>3. Path' /\ Reported'
    BY <1>1, <1>2, <2>1, <2>2 DEF KInv, Path, Reported
  <2>4. Holding' = Holding /\ Broken' = Broken
    BY <1>1, <2>1, <2>2 DEF Holding, Broken, Transfers
  <2>5. Leaks'
    BY <1>1, <1>3, <2>1, <2>4 DEF KInv, Leaks
  <2> QED
    BY <2>3, <2>5 DEF KInv
<1> QED
  BY <1>4, <1>5

\* What fails of a block costs one of the errors.
LEMMA EnvironmentCounts ==
  ASSUME IInv, KInv,
         RunInThread \/ SdioInterrupt \/ DmaInterrupt \/ CommandStep \/ DataStep \/ DmaStep
  PROVE  KInv'
<1>1. /\ UNCHANGED <<request, outcome, sdio, buffers>> /\ errors \in Nat /\ Cardinality(Failed) \in Nat
  BY CountFailed DEF RunInThread, SdioInterrupt, DmaInterrupt, CommandStep, DataStep, DmaStep, IInv, Shape
<1>2. Type' = Type /\ Failed' = Failed
  BY <1>1 DEF Type, Failed
<1>3. Path' /\ Reported'
  BY <1>1, <1>2 DEF KInv, Path, Reported
<1>4. Holding' = Holding /\ Transfers' = Transfers
  BY <1>1, <1>2 DEF Holding, Transfers
<1>5. /\ sta' = "failed" =>
          \/ sta = "failed" /\ sdio'.task = sdio.task
          \/ sdio.phase = 0 /\ sdio.task = 3 /\ Type # "READ_TO_BUFFER" /\ sdio.event # 0
          \/ sdio.task = 1 /\ Transfers /\ errors' = errors + 1 /\ sdio.event # 0
      /\ data' = "error" => data = "error" \/ errors' = errors + 1
      /\ errors' = errors \/ errors' = errors + 1
  <2>1. CASE RunInThread
    BY <2>1 DEF RunInThread, cardVars
  <2>2. CASE SdioInterrupt
    BY <1>1, <2>2 DEF SdioInterrupt
  <2>3. CASE DmaInterrupt
    BY <1>1, <2>3 DEF DmaInterrupt
  <2>4. CASE CommandStep
    <3>1. sdio.event # 0 => Type \in {"MOUNT", "READ_TO_BUFFER", "WRITE"} /\ sdio.phase \in Nat
      BY DEF KInv, Path, IInv, Shape, Occupied
    <3>2. sdio.task \in {1, 3} => sdio.event # 0
      BY DEF IInv, Occupied, NoJob
    <3>3. sdio.event # 0 /\ sdio.task = 1 /\ Type = "READ_TO_BUFFER" => sdio.phase = 0
      BY DEF KInv, Path
    <3>4. sdio.event # 0 /\ sdio.task = 1 /\ sdio.phase = 1 /\ Type # "READ_TO_BUFFER" => Type = "WRITE"
      BY DEF KInv, Path
    <3> QED
      BY <2>4, <3>2, <3>3, <3>4 DEF CommandStep, Transfers
  <2>5. CASE DataStep
    BY <1>1, <2>5 DEF DataStep
  <2>6. CASE DmaStep
    BY <2>6 DEF DmaStep
  <2> QED
    BY <2>1, <2>2, <2>3, <2>4, <2>5, <2>6
<1>6. Broken' => Broken \/ errors' = errors + 1
  BY <1>1, <1>2, <1>4, <1>5 DEF Broken
<1>7. Leaks'
  BY <1>1, <1>2, <1>4, <1>5, <1>6 DEF KInv, Leaks
<1> QED
  BY <1>3, <1>7 DEF KInv

LEMMA StepCounts ==
  ASSUME IInv, KInv, [Next]_vars
  PROVE  KInv'
<1>1. CASE (\E f \in Files : Publish(f) \/ OfferFile(f)) \/ Compute \/ Take \/ Wake \/ Dispatch
  BY <1>1, AsideCounts
    DEF Publish, OfferFile, Compute, Take, Wake, Dispatch, sdioVars, cardVars
<1>2. CASE \E type \in {"MOUNT", "READ_TO_BUFFER", "WRITE"} : Callback(type)
  BY <1>2, CallbackCounts
<1>3. CASE Halts \/ LosesData
  BY <1>3, AsideCounts DEF Halts, LosesData, cardVars
<1>4. CASE JobTurn
  BY <1>4, DetectCardCounts, ReadCounts, WriteCounts, ConcludeCounts DEF JobTurn, KInv
<1>5. CASE Transport
  BY <1>5, OfferCounts, EnvironmentCounts DEF Transport
<1>6. CASE UNCHANGED vars
  BY <1>6, AsideCounts DEF vars, sdioVars, cardVars
<1> QED
  BY <1>1, <1>2, <1>3, <1>4, <1>5, <1>6 DEF Next, JobRuns, TransportTurn

LEMMA InitiallyCounts == Init => KInv
<1> SUFFICES ASSUME Init PROVE KInv
  OBVIOUS
<1>1. Failed = {} /\ sdio.event = 0
  BY DEF Init, SdioInit, Failed, NoJob
<1>2. Cardinality(Failed) = 0
  BY <1>1, FS_EmptySet
<1>3. Path /\ Reported
  BY <1>1 DEF Init, SdioInit, Path, Reported
<1>4. Leaks
  BY <1>1, <1>2 DEF Init, SdioInit, Leaks, Holding, Broken
<1> QED
  BY <1>3, <1>4 DEF KInv

LEMMA CountsHold == Spec => [](IInv /\ KInv)
<1>1. Init => IInv /\ KInv
  BY Initially, InitiallyCounts
<1>2. IInv /\ KInv /\ [Next]_vars => (IInv /\ KInv)'
  BY StepKeeps, StepCounts
<1> QED
  BY <1>1, <1>2, PTL DEF Spec

\* Every buffer of a block is given back in the end but those of blocks that failed, and of
\* these every one is lost: the transport's error paths release nothing.
THEOREM FailuresLeak == Spec => []OnlyFailuresLeak
<1>1. IInv /\ KInv => OnlyFailuresLeak
  <2> SUFFICES ASSUME KInv, sdio.event = 0 PROVE buffers = Cardinality(Failed)
    BY DEF OnlyFailuresLeak, Failed
  <2>1. ~Holding
    BY DEF Holding
  <2> QED
    BY <2>1, CountFailed DEF KInv, Leaks
<1> QED
  BY <1>1, CountsHold, PTL
-----------------------------------------------------------------------------
Tasks == IF sdio.task = TASK_FAILURE THEN "failed" ELSE "sound"
Report == [r \in Requests |-> ReportOf(r)]
Finalized == {r \in Requests : request[r].state = "done"}

\* Nothing the service sees changes as long as these stay.
LEMMA ServiceStutters ==
  ASSUME sdio'.event = sdio.event, Tasks' = Tasks, outcome' = outcome, Finalized' = Finalized
  PROVE  [Service!Next]_(Service!vars)
<1>1. Report' = Report
  BY DEF Report, ReportOf
<1>2. UNCHANGED Service!vars
  BY <1>1 DEF Service!vars, Tasks, Report, Finalized
<1> QED
  BY <1>2

\* The report of one request
LEMMA ReportChanges ==
  ASSUME KInv, NEW r \in Requests, NEW s \in {SUCCESS, FAILURE},
         outcome' = [outcome EXCEPT ![r] = s]
  PROVE  /\ s = SUCCESS => Report' = [Report EXCEPT ![r] = "success"]
         /\ s = FAILURE => Report' = [Report EXCEPT ![r] = "failure"]
<1> DEFINE word == IF s = SUCCESS THEN "success" ELSE "failure"
<1>1. outcome'[r] = s /\ \A o \in Requests \ {r} : outcome'[o] = outcome[o]
  BY DEF KInv, Reported
<1>2. ReportOf(r)' = word /\ \A o \in Requests \ {r} : ReportOf(o)' = ReportOf(o)
  BY <1>1 DEF ReportOf
<1> HIDE DEF word
<1>3. Report' = [o \in Requests |-> IF o = r THEN word ELSE ReportOf(o)]
  BY <1>2 DEF Report
<1>4. [Report EXCEPT ![r] = word] = [o \in Requests |-> IF o = r THEN word ELSE ReportOf(o)]
  BY DEF Report
<1>5. Report' = [Report EXCEPT ![r] = word]
  BY <1>3, <1>4
<1>6. (s = SUCCESS => word = "success") /\ (s = FAILURE => word = "failure")
  BY DEF word
<1> QED
  BY <1>5, <1>6

\* The turn that completes the job reports its outcome, a success only of sound tasks.
LEMMA ReportServes ==
  ASSUME IInv, KInv, sdio.event # 0, sdio.phase \notin {SUCCESS, FAILURE},
         NEW s \in {SUCCESS, FAILURE}, s = SUCCESS => sdio.task # TASK_FAILURE,
         request' = request, sdio'.event = sdio.event, sdio'.task = sdio.task,
         outcome' = [outcome EXCEPT ![sdio.event] = s]
  PROVE  [Service!Next]_(Service!vars)
<1>1. sdio.event \in Requests /\ outcome[sdio.event] = 0
  BY DEF IInv, Shape, KInv, Reported
<1>2. PICK r \in Requests : r = sdio.event
  BY <1>1
<1>3. outcome' = [outcome EXCEPT ![r] = s]
  BY <1>2
<1>4. CASE s = SUCCESS
  <2>1. Report' = [Report EXCEPT ![r] = "success"]
    BY <1>2, <1>3, <1>4, ReportChanges
  <2>2. Report[r] = "none" /\ Tasks' = Tasks /\ Finalized' = Finalized /\ Tasks = "sound"
    BY <1>1, <1>2, <1>4 DEF Report, ReportOf, Tasks, Finalized
  <2>3. Service!Report("success")
    BY <1>1, <1>2, <2>1, <2>2 DEF Service!Report, Report, Tasks, Finalized
  <2> QED
    BY <2>3 DEF Service!Next
<1>5. CASE s = FAILURE
  <2>1. Report' = [Report EXCEPT ![r] = "failure"]
    BY <1>2, <1>3, <1>5, ReportChanges
  <2>2. Report[r] = "none" /\ Tasks' = Tasks /\ Finalized' = Finalized
    BY <1>1, <1>2 DEF Report, ReportOf, Tasks, Finalized
  <2>3. Service!Report("failure")
    BY <1>1, <1>2, <1>5, <2>1, <2>2 DEF Service!Report, Report, Tasks, Finalized
  <2> QED
    BY <2>3 DEF Service!Next
<1> QED
  BY <1>4, <1>5

\* A turn in which the handler is called and the job goes on
LEMMA HandlerServes ==
  ASSUME IInv, KInv, cpu = "sdio", ~Stored(sdio),
         NEW skip \in {0, 1, -3}, sdio.task + skip \notin {TASK_SUCCESS, TASK_FAILURE},
         NEW s \in {CONTINUE, WAIT, QUIT_ISR, LOOP, TASK_SUCCESS, TASK_FAILURE},
         ReturnsFrom(skip, s), s \in {CONTINUE, WAIT} => sdio.task + skip < 30
  PROVE  [Service!Next]_(Service!vars)
<1>1. /\ sdio.event # 0 /\ sdio.event \in Requests /\ sdio.task \in Int /\ sdio.phase \in 0..2
      /\ sdio.task \notin {TASK_SUCCESS, TASK_FAILURE}
      /\ request' = request /\ outcome' = outcome /\ sdio'.event = sdio.event
      /\ s \in {CONTINUE, WAIT} => sdio'.task = sdio.task + skip + 1
      /\ s \in {TASK_SUCCESS, TASK_FAILURE} => sdio'.task = s
      /\ s \in {QUIT_ISR, LOOP} => sdio'.task = sdio.task + skip
  BY GoesOn
<1>2. Finalized' = Finalized /\ Report' = Report
  BY <1>1 DEF Finalized, Report, ReportOf
<1>3. CASE s = TASK_FAILURE
  <2>1. outcome[sdio.event] = 0
    BY <1>1 DEF KInv, Reported
  <2>2. Report[sdio.event] = "none" /\ Tasks' = "failed"
    BY <1>1, <1>3, <2>1 DEF Report, ReportOf, Tasks
  <2>3. Service!TaskFails
    BY <1>1, <1>2, <2>2 DEF Service!TaskFails, Report, Tasks, Finalized
  <2> QED
    BY <2>3 DEF Service!Next
<1>4. CASE s # TASK_FAILURE
  <2>1. sdio'.task # TASK_FAILURE
    BY <1>1, <1>4
  <2>2. Tasks' = Tasks
    BY <1>1, <2>1 DEF Tasks
  <2> QED
    BY <1>1, <1>2, <2>2, ServiceStutters
<1> QED
  BY <1>3, <1>4

\* The end of a job is a report, its event's release, or neither.
LEMMA ConcludeServes ==
  ASSUME IInv, KInv, Conclude
  PROVE  [Service!Next]_(Service!vars)
<1>1. cpu = "sdio" /\ sdio.event # 0 /\ sdio.event \in Requests /\ sdio.task \in Int
  BY DEF Conclude, Executes, IInv, Shape, Occupied
<1>2. CASE ~Stored(sdio) /\ sdio.phase = (IF Type = "MOUNT" THEN 1 ELSE 2) /\ Returns(SUCCESS)
  <2>1. sdio.task = 0 /\ sdio.task + 0 = sdio.task /\ sdio.phase \in 1..2
    BY <1>1, <1>2 DEF KInv, Path
  <2>2. /\ request' = request /\ sdio'.event = sdio.event /\ sdio'.task = sdio.task
        /\ outcome' = [outcome EXCEPT ![sdio.event] = SUCCESS]
    BY <1>2, <2>1, HandlerTurn DEF IInv, Returns
  <2>3. PICK s \in {SUCCESS, FAILURE} : s = SUCCESS
    OBVIOUS
  <2>4. /\ outcome' = [outcome EXCEPT ![sdio.event] = s] /\ sdio.phase \notin {SUCCESS, FAILURE}
        /\ s = SUCCESS => sdio.task # TASK_FAILURE
    BY <2>1, <2>2, <2>3
  <2> QED
    BY <1>1, <2>2, <2>3, <2>4, ReportServes
<1>3. CASE Stored(sdio) /\ Returns(HALT)
  <2>1. CASE /\ request' = request /\ sdio'.event = sdio.event
             /\ sdio.phase \notin {SUCCESS, FAILURE}
             /\ sdio.task = TASK_FAILURE /\ sdio'.phase = FAILURE /\ sdio'.task = sdio.task
             /\ outcome' = [outcome EXCEPT ![sdio.event] = FAILURE]
    <3>1. PICK s \in {SUCCESS, FAILURE} : s = FAILURE
      OBVIOUS
    <3>2. outcome' = [outcome EXCEPT ![sdio.event] = s] /\ (s = SUCCESS => sdio.task # TASK_FAILURE)
      BY <2>1, <3>1
    <3> QED
      BY <1>1, <2>1, <3>2, ReportServes
  <2>2. CASE /\ request' = request /\ sdio'.event = sdio.event
             /\ sdio.phase \notin {SUCCESS, FAILURE}
             /\ sdio.task = TASK_SUCCESS /\ sdio'.phase = sdio.phase + 1 /\ sdio'.task = 0
             /\ outcome' = outcome
    <3>1. Tasks' = Tasks /\ Finalized' = Finalized
      BY <2>2 DEF Tasks, Finalized
    <3> QED
      BY <2>2, <3>1, ServiceStutters
  <2>3. CASE sdio.phase \in {SUCCESS, FAILURE} /\ Finalize /\ outcome' = outcome
    <3>1. sdio'.event = 0 /\ sdio'.task = 0
      BY <2>3 DEF Finalize, NoJob
    <3>2. \A r \in Requests : request'[r].state = "done" <=> request[r].state = "done" \/ r = sdio.event
      BY <1>1, <2>3 DEF Finalize, IInv, Shape
    <3>3. Finalized' = Finalized \cup {sdio.event}
      BY <1>1, <3>2 DEF Finalized
    <3>4. outcome[sdio.event] \in {SUCCESS, FAILURE}
      BY <1>1, <2>3 DEF KInv, Reported
    <3>5. Report' = Report /\ Report[sdio.event] # "none" /\ Tasks' = "sound"
      BY <1>1, <2>3, <3>1, <3>4 DEF Report, ReportOf, Tasks
    <3>6. Service!Release
      BY <1>1, <3>1, <3>3, <3>5 DEF Service!Release, Report, Tasks, Finalized
    <3> QED
      BY <3>6 DEF Service!Next
  <2> QED
    BY <1>3, <2>1, <2>2, <2>3, StoredTurn DEF IInv
<1> QED
  BY <1>2, <1>3 DEF Conclude

LEMMA JobTurnServes ==
  ASSUME IInv, KInv, JobTurn
  PROVE  [Service!Next]_(Service!vars)
<1>1. CASE Conclude
  BY <1>1, ConcludeServes
<1>2. CASE DetectCard \/ StartRead \/ FinishRead \/ PublishResponse
             \/ SkipDetection \/ StartWrite \/ FinishWrite
  <2>1. cpu = "sdio" /\ ~Stored(sdio) /\ sdio.task \in -3..30
    <3>1. cpu = "sdio" /\ ~Stored(sdio)
      BY <1>2 DEF DetectCard, StartRead, FinishRead, PublishResponse, SkipDetection, StartWrite,
                  FinishWrite, At, Executes
    <3> QED
      BY <3>1 DEF IInv, Occupied, KInv, Path, Stored
  <2>2. \E skip \in {0, 1, -3} : \E s \in {CONTINUE, WAIT, QUIT_ISR, LOOP, TASK_SUCCESS, TASK_FAILURE} :
           ReturnsFrom(skip, s) /\ (s \in {CONTINUE, WAIT} => sdio.task <= 20)
    <3>1. CASE DetectCard
      BY <3>1 DEF DetectCard, SendAndWait, Returns
    <3>2. CASE StartRead
      BY <3>2 DEF StartRead, SendAndWait, Returns
    <3>3. CASE FinishRead
      BY <3>3 DEF FinishRead, Returns
    <3>4. CASE PublishResponse \/ SkipDetection
      BY <3>4 DEF PublishResponse, SkipDetection, Returns
    <3>5. CASE StartWrite
      BY <3>5 DEF StartWrite, SendAndWait, Returns
    <3>6. CASE FinishWrite
      BY <3>6 DEF FinishWrite, Returns
    <3> QED
      BY <1>2, <3>1, <3>2, <3>3, <3>4, <3>5, <3>6
  <2>3. ASSUME NEW skip \in {0, 1, -3},
               NEW s \in {CONTINUE, WAIT, QUIT_ISR, LOOP, TASK_SUCCESS, TASK_FAILURE},
               ReturnsFrom(skip, s), s \in {CONTINUE, WAIT} => sdio.task <= 20
        PROVE  [Service!Next]_(Service!vars)
    <3>1. /\ sdio.task + skip \notin {TASK_SUCCESS, TASK_FAILURE}
          /\ s \in {CONTINUE, WAIT} => sdio.task + skip < 30
      BY <2>1, <2>3
    <3> QED
      BY <2>1, <2>3, <3>1, HandlerServes
  <2> QED
    BY <2>2, <2>3
<1> QED
  BY <1>1, <1>2 DEF JobTurn

LEMMA OfferServes ==
  ASSUME IInv, KInv, NEW r \in Requests, Offer(r)
  PROVE  [Service!Next]_(Service!vars)
<1>1. request[r].state = "published" /\ outcome' = outcome /\ r # 0
  BY SdioAssumption DEF Offer, Requests
<1>2. CASE sdio.event = 0
  <2>1. request' = [request EXCEPT ![r].state = "accepted"] /\ sdio' = [NoJob EXCEPT !.event = r]
    BY <1>2 DEF Offer
  <2>2. sdio'.event = r /\ sdio'.task = 0 /\ sdio.task = 0
    BY <1>2, <2>1 DEF NoJob, IInv, Occupied
  <2>3. \A o \in Requests : request'[o].state = "done" <=> request[o].state = "done"
    BY <1>1, <2>1 DEF IInv, Shape
  <2>4. Finalized' = Finalized
    BY <2>3 DEF Finalized
  <2>5. Report' = Report /\ Tasks' = Tasks /\ r \notin Finalized
    BY <1>1, <2>2 DEF Report, ReportOf, Tasks, Finalized
  <2>6. Service!Accept(r)
    BY <1>2, <2>2, <2>4, <2>5 DEF Service!Accept, Report, Tasks, Finalized
  <2> QED
    BY <2>6 DEF Service!Next
<1>3. CASE sdio.event # 0
  <2>1. request' = [request EXCEPT ![r].state = "deferred"] /\ sdio' = sdio
    BY <1>3 DEF Offer
  <2>2. \A o \in Requests : request'[o].state = "done" <=> request[o].state = "done"
    BY <1>1, <2>1 DEF IInv, Shape
  <2>3. Finalized' = Finalized /\ Tasks' = Tasks
    BY <2>1, <2>2 DEF Finalized, Tasks
  <2> QED
    BY <1>1, <2>1, <2>3, ServiceStutters
<1> QED
  BY <1>2, <1>3

LEMMA StepServes ==
  ASSUME IInv, KInv, [Next]_vars
  PROVE  [Service!Next]_(Service!vars)
<1>1. CASE JobTurn
  BY <1>1, JobTurnServes
<1>2. ASSUME NEW r \in Requests, Offer(r)
      PROVE  [Service!Next]_(Service!vars)
  BY <1>2, OfferServes
<1>3. CASE UNCHANGED <<request, outcome, sdio>>
  <2>1. Finalized' = Finalized /\ Tasks' = Tasks
    BY <1>3 DEF Finalized, Tasks
  <2> QED
    BY <1>3, <2>1, ServiceStutters
<1>4. CASE \E type \in {"MOUNT", "READ_TO_BUFFER", "WRITE"} : Callback(type)
  <2>1. PICK type \in {"MOUNT", "READ_TO_BUFFER", "WRITE"}, r \in Unused :
           request' = [request EXCEPT ![r] = [state |-> "published", type |-> type]]
    BY <1>4 DEF Callback
  <2>2. \A o \in Requests : request'[o].state = "done" <=> request[o].state = "done"
    BY <2>1 DEF IInv, Shape, Unused
  <2>3. outcome' = outcome /\ sdio' = sdio
    BY <1>4 DEF Callback
  <2>4. Finalized' = Finalized /\ Tasks' = Tasks
    BY <2>2, <2>3 DEF Finalized, Tasks
  <2> QED
    BY <2>3, <2>4, ServiceStutters
<1>5. CASE (\E f \in Files : Publish(f) \/ OfferFile(f)) \/ Compute \/ Take \/ Wake \/ Dispatch
  BY <1>3, <1>5 DEF Publish, OfferFile, Compute, Take, Wake, Dispatch, sdioVars
<1>6. CASE Halts \/ LosesData
  BY <1>3, <1>6 DEF Halts, LosesData
<1>7. CASE RunInThread \/ SdioInterrupt \/ DmaInterrupt \/ CommandStep \/ DataStep \/ DmaStep
  BY <1>3, <1>7 DEF RunInThread, SdioInterrupt, DmaInterrupt, CommandStep, DataStep, DmaStep
<1>8. CASE UNCHANGED vars
  BY <1>3, <1>8 DEF vars, sdioVars
<1> QED
  BY <1>1, <1>2, <1>4, <1>5, <1>6, <1>7, <1>8 DEF Next, JobRuns, TransportTurn, Transport

\* sdio's job slot keeps the promise of JobService, with a driver that takes a minute for an
\* answer and a card whose blocks may fail.
THEOREM TransportImplementsService == Spec => TransportServes
<1>1. Init => Service!Init
  <2> SUFFICES ASSUME Init PROVE Service!Init
    OBVIOUS
  <2>1. sdio.event = 0 /\ sdio.task = 0
    BY DEF Init, SdioInit, NoJob
  <2>2. Report = [r \in Requests |-> "none"] /\ Tasks = "sound" /\ Finalized = {}
    BY <2>1 DEF Init, SdioInit, Report, ReportOf, Tasks, Finalized
  <2> QED
    BY <2>1, <2>2 DEF Service!Init, Report, Tasks, Finalized
<1>2. IInv /\ KInv /\ [Next]_vars => [Service!Next]_(Service!vars)
  BY StepServes
<1> QED
  BY <1>1, <1>2, CountsHold, PTL DEF Spec, TransportServes, Service!Spec
-----------------------------------------------------------------------------
\* The values of the driver's thread, and what bounds the rest of the transport's
DriverTypes ==
  /\ waiting \in BOOLEAN /\ worker \in BOOLEAN /\ slot \in BOOLEAN
  /\ file \in [Files -> {"none", "published", "deferred", "accepted", "reported", "unreported"}]
  /\ pc \in {"dispatch", "compute", "take", "woken"} /\ alarms \in 0..MaxAlarms

Flags == incoming \in BOOLEAN /\ capacity \in BOOLEAN /\ isr \in BOOLEAN /\ due \in BOOLEAN

Registers ==
  /\ sta \in {"clear", "sent", "answered", "failed"}
  /\ data \in {"off", "moving", "ended", "error"}
  /\ dma \in {"off", "rx", "rx done", "rx idle", "tx", "tx done", "tx idle"}
  /\ cpu \in {"threads", "sdio", "sdcard"}
  /\ stopped \in {"no", "signal without job", "report without job", "data overwritten"}

Bounds == notReady \in 0..MaxNotReady /\ errors \in 0..MaxErrors

LEMMA DriverTyped ==
  ASSUME IInv, DriverTypes, [Next]_vars
  PROVE  DriverTypes'
<1> USE DEF DriverTypes
<1>1. CASE UNCHANGED <<file, threadVars>>
  BY <1>1 DEF threadVars
<1>2. ASSUME Schedule, UNCHANGED <<pc, waiting, alarms>>
      PROVE  /\ waiting' \in BOOLEAN /\ worker' \in BOOLEAN /\ slot' \in BOOLEAN
             /\ pc' \in {"dispatch", "compute", "take", "woken"} /\ alarms' \in 0..MaxAlarms
  <2>1. worker' = TRUE /\ slot' = (slot \/ next = "later")
    BY <1>2 DEF Schedule
  <2>2. slot' \in BOOLEAN
    BY <2>1, Zenon
  <2> QED
    BY <1>2, <2>1, <2>2
<1>3. CASE \E f \in Files : Publish(f)
  BY <1>3 DEF Publish, threadVars
<1>4. ASSUME NEW f \in Files, OfferFile(f) PROVE DriverTypes'
  <2>1. file' \in [Files -> {"none", "published", "deferred", "accepted", "reported", "unreported"}]
    BY <1>4 DEF OfferFile
  <2>2. UNCHANGED <<pc, waiting, alarms>> /\ (Schedule \/ UNCHANGED <<worker, slot>>)
    BY <1>4 DEF OfferFile
  <2> QED
    BY <1>2, <2>1, <2>2
<1>5. CASE Compute \/ Take \/ Wake \/ Dispatch
  <2>1. alarms' \in 0..MaxAlarms
    BY <1>5, SdCardAssumption DEF Compute, Take, Wake, Dispatch
  <2>2. waiting' \in BOOLEAN /\ worker' \in BOOLEAN /\ slot' \in BOOLEAN
    BY <1>5 DEF Compute, Take, Wake, Dispatch
  <2>3. pc' \in {"dispatch", "compute", "take", "woken"} /\ file' = file
    BY <1>5 DEF Compute, Take, Wake, Dispatch
  <2> QED
    BY <2>1, <2>2, <2>3
<1>6. CASE JobRuns
  <2>1. CASE \E type \in {"MOUNT", "READ_TO_BUFFER", "WRITE"} : Callback(type)
    BY <2>1 DEF Callback
  <2>2. CASE Halts
    BY <2>2 DEF Halts
  <2>3. CASE LosesData
    BY <2>3 DEF LosesData, threadVars
  <2> QED
    BY <1>6, <2>1, <2>2, <2>3 DEF JobRuns
<1>7. CASE TransportTurn
  <2>1. UNCHANGED <<file, pc, waiting, alarms>> /\ (Schedule \/ UNCHANGED <<worker, slot>>)
    BY <1>7 DEF TransportTurn
  <2> QED
    BY <1>2, <2>1
<1> QED
  BY <1>1, <1>3, <1>4, <1>5, <1>6, <1>7 DEF Next, Transport, vars

\* What stays where the driver's thread alone acts
Idle == UNCHANGED <<incoming, capacity, isr, due, sta, data, dma, notReady, errors>>

LEMMA ThreadIdle ==
  ASSUME \/ (\E f \in Files : Publish(f) \/ OfferFile(f)) \/ Compute \/ Take \/ Wake \/ Dispatch
         \/ JobRuns \/ UNCHANGED vars
  PROVE  /\ Idle
         /\ cpu' = cpu \/ cpu' \in {"threads", "sdcard"}
         /\ stopped' = stopped \/ stopped' = "data overwritten"
<1>1. CASE (\E f \in Files : Publish(f) \/ OfferFile(f)) \/ Compute \/ Take
  BY <1>1 DEF Publish, OfferFile, Compute, Take, Idle, sdioVars, cardVars
<1>2. CASE Wake
  BY <1>2 DEF Wake, Idle, cardVars
<1>3. CASE Dispatch
  BY <1>3 DEF Dispatch, Idle, cardVars
<1>4. CASE JobRuns
  <2>1. CASE \E type \in {"MOUNT", "READ_TO_BUFFER", "WRITE"} : Callback(type)
    BY <2>1 DEF Callback, Idle, cardVars
  <2>2. CASE Halts
    BY <2>2 DEF Halts, Idle, cardVars
  <2>3. CASE LosesData
    BY <2>3 DEF LosesData, Idle, cardVars
  <2> QED
    BY <1>4, <2>1, <2>2, <2>3 DEF JobRuns
<1>5. CASE UNCHANGED vars
  BY <1>5 DEF vars, Idle, sdioVars, cardVars
<1> QED
  BY <1>1, <1>2, <1>3, <1>4, <1>5

LEMMA BoundsKept ==
  ASSUME Bounds, [Next]_vars
  PROVE  Bounds'
<1>1. /\ notReady' = notReady \/ (notReady < MaxNotReady /\ notReady' = notReady + 1)
      /\ errors' = errors \/ (errors < MaxErrors /\ errors' = errors + 1)
  <2>1. CASE DetectCard
    BY <2>1 DEF DetectCard
  <2>2. CASE StartRead \/ FinishRead
    BY <2>2 DEF StartRead, FinishRead
  <2>3. CASE PublishResponse \/ SkipDetection \/ Conclude
    BY <2>3 DEF PublishResponse, SkipDetection, Conclude, cardVars
  <2>4. CASE StartWrite
    BY <2>4 DEF StartWrite
  <2>5. CASE FinishWrite
    BY <2>5 DEF FinishWrite
  <2>6. CASE Transport
    BY <2>6 DEF Transport, Offer, RunInThread, SdioInterrupt, DmaInterrupt, CommandStep,
                DataStep, DmaStep, cardVars
  <2>7. CASE Idle
    BY <2>7 DEF Idle
  <2> QED
    BY <2>1, <2>2, <2>3, <2>4, <2>5, <2>6, <2>7, ThreadIdle DEF Next, TransportTurn, JobTurn
<1>2. MaxNotReady \in Nat /\ MaxErrors \in Nat
  BY SdioAssumption
<1> QED
  BY <1>1, <1>2 DEF Bounds

LEMMA RegistersKept ==
  ASSUME Registers, [Next]_vars
  PROVE  Registers'
<1> DEFINE Path1 ==
      /\ sta' \in {"clear", "sent", "answered", "failed"}
      /\ data' \in {"off", "moving", "ended", "error"}
      /\ dma' \in {"off", "rx", "rx done", "rx idle", "tx", "tx done", "tx idle"}
<1>1. ASSUME JobTurn PROVE Path1
  <2>1. CASE DetectCard
    BY <2>1 DEF DetectCard, SendAndWait, Registers
  <2>2. CASE StartRead
    BY <2>2 DEF StartRead, SendAndWait, Registers
  <2>3. CASE FinishRead
    <3>1. data' \in {"off", data} /\ dma' \in {"off", dma} /\ sta' = sta
      BY <2>3 DEF FinishRead
    <3> QED
      BY <3>1 DEF Registers
  <2>4. CASE PublishResponse \/ SkipDetection \/ Conclude
    BY <2>4 DEF PublishResponse, SkipDetection, Conclude, cardVars, Registers
  <2>5. CASE StartWrite
    BY <2>5 DEF StartWrite, SendAndWait, Registers
  <2>6. CASE FinishWrite
    <3>1. data' \in {"off", "ended", "error", data} /\ dma' \in {"off", dma} /\ sta' = sta
      BY <2>6 DEF FinishWrite
    <3> QED
      BY <3>1 DEF Registers
  <2> QED
    BY <1>1, <2>1, <2>2, <2>3, <2>4, <2>5, <2>6 DEF JobTurn
<1>2. CASE TransportTurn
  <2>1. Path1
    BY <1>1, <1>2 DEF TransportTurn, Registers
  <2>2. cpu' \in {"threads", "sdio"}
    BY <1>2 DEF TransportTurn, JobTurn, DetectCard, StartRead, FinishRead, PublishResponse,
                SkipDetection, StartWrite, FinishWrite, Conclude, SendAndWait, Returns, ReturnsFrom
  <2>3. stopped' \in {stopped, "report without job"}
    BY <1>2 DEF TransportTurn
  <2> QED
    BY <2>1, <2>2, <2>3 DEF Registers
<1>3. CASE Transport
  <2>1. CASE \E r \in Requests : Offer(r)
    BY <2>1 DEF Offer, cardVars, Registers
  <2>2. CASE RunInThread
    BY <2>2 DEF RunInThread, cardVars, Registers
  <2>3. CASE SdioInterrupt
    BY <2>3 DEF SdioInterrupt, Registers
  <2>4. CASE DmaInterrupt
    BY <2>4 DEF DmaInterrupt, Registers
  <2>5. CASE CommandStep \/ DataStep \/ DmaStep
    BY <2>5 DEF CommandStep, DataStep, DmaStep, Registers
  <2> QED
    BY <1>3, <2>1, <2>2, <2>3, <2>4, <2>5 DEF Transport
<1>4. CASE ~(TransportTurn \/ Transport)
  BY <1>4, ThreadIdle DEF Next, Idle, Registers
<1> QED
  BY <1>2, <1>3, <1>4

LEMMA FlagsKept ==
  ASSUME Flags, [Next]_vars
  PROVE  Flags'
<1>1. ASSUME NEW skip, NEW s, ReturnsFrom(skip, s)
      PROVE  isr' \in BOOLEAN /\ due' \in BOOLEAN
  <2>1. isr' = (isr /\ cpu' = "sdio")
    BY <1>1 DEF ReturnsFrom
  <2>2. \E q : due' = due \/ due' = (due \/ q)
    <3>1. CASE due' = due
      BY <3>1
    <3>2. CASE due' # due
      <4> DEFINE next1 == Advance([sdio EXCEPT !.task = @ + skip], s)
      <4>1. due' = (due \/ (next1.signal = QUIT_ISR /\ isr))
        BY <1>1, <3>2 DEF ReturnsFrom
      <4> HIDE DEF next1
      <4> QED
        BY <4>1, Zenon
    <3> QED
      BY <3>1, <3>2
  <2> QED
    BY <2>1, <2>2, Zenon DEF Flags
<1>2. CASE JobTurn
  <2>1. isr' \in BOOLEAN /\ due' \in BOOLEAN
    BY <1>1, <1>2 DEF JobTurn, DetectCard, StartRead, FinishRead, PublishResponse, SkipDetection,
                      StartWrite, FinishWrite, Conclude, SendAndWait, Returns
  <2>2. incoming' = incoming \/ incoming' = FALSE
    BY <1>2 DEF JobTurn, DetectCard, StartRead, FinishRead, PublishResponse, SkipDetection,
                StartWrite, FinishWrite, Conclude
  <2>3. capacity' = capacity \/ capacity' = (capacity \/ sdio.task = 13)
    BY <1>2 DEF JobTurn, DetectCard, StartRead, FinishRead, PublishResponse, SkipDetection,
                StartWrite, FinishWrite, Conclude
  <2>4. incoming' \in BOOLEAN /\ capacity' \in BOOLEAN
    BY <2>2, <2>3, Zenon DEF Flags
  <2> QED
    BY <2>1, <2>4, Zenon DEF Flags
<1>3. CASE Transport
  <2>1. /\ incoming' = incoming \/ incoming' = TRUE
        /\ capacity' = capacity
        /\ isr' = isr \/ isr' = TRUE \/ isr' = FALSE
        /\ due' = due \/ due' = TRUE \/ due' = FALSE
    BY <1>3, Zenon DEF Transport, Offer, RunInThread, SdioInterrupt, DmaInterrupt, CommandStep,
                       DataStep, DmaStep
  <2> QED
    BY <2>1, Zenon DEF Flags
<1>4. CASE Idle
  BY <1>4, Zenon DEF Idle, Flags
<1> QED
  BY <1>2, <1>3, <1>4, ThreadIdle DEF Next, TransportTurn

\* SdCard's variables keep to their types: no count of buffers below zero nor above the
\* errors, no task after the last.
THEOREM SdCardTypeCorrect == Spec => []TypeOK
<1> DEFINE Types == DriverTypes /\ Flags /\ Registers /\ Bounds
<1>1. Init => Types
  <2> SUFFICES ASSUME Init PROVE Types
    OBVIOUS
  <2>1. MaxAlarms \in Nat /\ MaxNotReady \in Nat /\ MaxErrors \in Nat
    <3>1. MaxAlarms \in Nat
      BY SdCardAssumption
    <3>2. MaxNotReady \in Nat /\ MaxErrors \in Nat
      BY SdioAssumption
    <3> QED
      BY <3>1, <3>2
  <2>2. DriverTypes /\ Bounds
    <3>1. alarms = 0 /\ notReady = 0 /\ errors = 0
      BY DEF Init, SdioInit
    <3>2. alarms \in 0..MaxAlarms /\ Bounds
      BY <2>1, <3>1 DEF Bounds
    <3>3. file \in [Files -> {"none", "published", "deferred", "accepted", "reported", "unreported"}]
      BY DEF Init
    <3> QED
      BY <3>2, <3>3 DEF Init, DriverTypes
  <2>3. Flags /\ Registers
    BY DEF Init, SdioInit, Flags, Registers
  <2> QED
    BY <2>2, <2>3
<1>2. IInv /\ Types /\ [Next]_vars => Types'
  BY DriverTyped, FlagsKept, RegistersKept, BoundsKept
<1>3. IInv /\ KInv /\ Types => TypeOK
  <2> SUFFICES ASSUME IInv, KInv, Types PROVE TypeOK
    OBVIOUS
  <2>1. request \in RequestMap /\ outcome \in [Requests -> {0, SUCCESS, FAILURE}]
    BY DEF IInv, Shape, KInv, Reported
  <2>2. sdio \in [event : {0} \cup Requests, phase : 0..2 \cup {SUCCESS, FAILURE},
                  task : 0..20 \cup {TASK_SUCCESS, TASK_FAILURE}]
    <3>1. /\ sdio.phase \in 0..2 \cup {SUCCESS, FAILURE}
          /\ sdio.task \in 0..20 \cup {TASK_SUCCESS, TASK_FAILURE}
      BY DEF IInv, Occupied, NoJob, KInv, Path
    <3>2. sdio = [event |-> sdio.event, phase |-> sdio.phase, task |-> sdio.task]
          /\ sdio.event \in {0} \cup Requests
      BY DEF IInv, Shape
    <3> QED
      BY <3>1, <3>2
  <2>3. buffers \in 0..MaxErrors + 1
    <3>1. MaxErrors \in Nat /\ errors \in 0..MaxErrors
      BY SdioAssumption DEF Bounds
    <3> QED
      BY <3>1, CountFailed DEF KInv, Leaks
  <2>4. {incoming, capacity, isr, due, waiting, worker, slot} \subseteq BOOLEAN
    BY DEF Flags, DriverTypes
  <2>5. job \in [event : {0, Mount} \cup Files, overwritten : BOOLEAN]
        /\ timeout \in {"zero", "minute"} /\ next \in {"due", "later"}
    BY DEF IInv, Shape
  <2> QED
    BY <2>1, <2>2, <2>3, <2>4, <2>5 DEF TypeOK, Registers, Bounds, DriverTypes
<1> HIDE DEF Types
<1> QED
  BY <1>1, <1>2, <1>3, CountsHold, PTL DEF Spec
=============================================================================

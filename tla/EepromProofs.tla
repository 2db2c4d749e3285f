---------------------------- MODULE EepromProofs -----------------------------
(***************************************************************************)
(* Proofs about Eeprom, for any number of requests of any type and any     *)
(* size of a byte, with a bus that may fail at any time: a DMA stream      *)
(* finds its job and its memory alive, no buffer is leaked, and the        *)
(* diagnosis judges right.                                                 *)
(***************************************************************************)
EXTENDS Eeprom, FiniteSetTheorems, TLAPS

JobType == [event : {0} \cup Requests, phase : Nat, task : Nat]
BufferType == [state : {"none", "held", "freed"}, byte : Int]

\* The values that the steps depend on
Shape ==
  /\ request \in [Requests -> {"none", "published", "deferred", "accepted", "done"}]
  /\ i2c \in JobType
  /\ job \in [event : {0, 1}, phase : Nat, task : Nat]
  /\ responses \in SUBSET Requests /\ buffers \in Int
  /\ target \in BufferType /\ snapshot \in BufferType /\ cells \in Int

\* The transport's job is the one event it accepted.
Occupied ==
  /\ i2c.event # 0 => request[i2c.event] = "accepted"
  /\ \A e \in Requests : request[e] = "accepted" => i2c.event = e
  /\ cpu = "i2c" => i2c.event # 0

\* The place of the job in the code: the calls of its handler, with the bus in order,
\* and those that take back a stored signal.
Path ==
  i2c.event # 0 /\ bus # "failed" =>
    \/ i2c.phase = 0 /\ i2c.task \in 0..3 \cup {TASK_SUCCESS}
    \/ Reading /\ i2c.phase = 1 /\ i2c.task \in 0..4 \cup {TASK_SUCCESS}
    \/ Reading /\ i2c.phase = 2 /\ i2c.task \in {0, TASK_SUCCESS}
    \/ ~Reading /\ i2c.phase = 1 /\ i2c.task \in 0..3 \cup {TASK_SUCCESS}
    \/ i2c.phase \in {IF Reading THEN 3 ELSE 2, SUCCESS} /\ i2c.task = 0

\* The job has a buffer of its own.
Holding ==
  /\ i2c.event # 0
  /\ \/ Reading /\ i2c.phase = 1 /\ i2c.task # 0
     \/ Reading /\ i2c.phase = 2 /\ i2c.task = 0
     \/ ~Reading /\ i2c.phase = 1 /\ i2c.task \in {1, 2}

\* A stream runs, or has ended and signalled that, only at the task that waits for it.
Streams ==
  bus # "failed" =>
    /\ Holding => buffers = Cardinality(responses) + 1
    /\ ~Holding => buffers = Cardinality(responses)
    /\ dma # "off" =>
         /\ i2c.event # 0 /\ i2c.phase = 1
         /\ Reading => i2c.task = 4 /\ dma # "tx"
         /\ ~Reading => i2c.task = 2 /\ dma # "rx"

\* A RESPONSE is of a READ that was served, or is past its last task.
Answered ==
  /\ \A e \in responses : TypeOf[e] = "READ" /\ request[e] \in {"accepted", "done"}
  /\ i2c.event \in responses /\ bus # "failed" =>
       \/ i2c.phase = 2 /\ i2c.task = TASK_SUCCESS
       \/ i2c.phase \in {3, SUCCESS}

\* The requests of at24c that were not yet reported
Asked == {e \in Requests : TypeOf[e] # "READ" /\ request[e] \in {"published", "deferred", "accepted"}}

\* The driver waits while one of its requests is under way, and nothing wakes it before.
Waits ==
  \A e \in Asked :
    /\ job.event # 0 /\ job.task = 2
    /\ job.phase \in IF TypeOf[e] = "WRITE" THEN {1} ELSE {0, 2}
    /\ cpu # "at24c" /\ "at24c" \notin due
    /\ \A f \in Asked : f = e

\* What it lends to the transport it releases at the end of its job only.
Lends ==
  /\ cpu = "at24c" => job.event # 0 /\ "at24c" \notin due
  /\ job.event # 0 /\ job.phase \in 0..3 /\ ~(job.phase = 0 /\ job.task = 0) => target.state = "held"
  /\ job.event # 0 /\ job.phase = 1 /\ job.task \in {1, 2} => snapshot.state = "held"

\* A transfer that the failure of the bus cut off holds its memory for good.
CutOff ==
  dma = "tx" =>
    /\ snapshot.state = "held"
    /\ bus = "failed" => cpu # "at24c"

IInv == /\ Shape /\ Occupied /\ Path /\ Streams /\ Answered
        /\ Waits /\ Lends /\ CutOff
-----------------------------------------------------------------------------
USE DEF HALT, CONTINUE, WAIT, QUIT_ISR, LOOP, TASK_SUCCESS, TASK_FAILURE, SUCCESS, FAILURE

\* A handler's turn: the job goes on with its event, where the signal takes it.
LEMMA HandlerTurn ==
  ASSUME Shape, ~Stored(i2c),
         NEW s \in {CONTINUE, WAIT, QUIT_ISR, LOOP, TASK_SUCCESS, TASK_FAILURE, SUCCESS},
         Returns(s)
  PROVE  /\ request' = request /\ cpu = "i2c" /\ cpu' \in {"threads", "i2c"}
         /\ due' \in {due, due \cup {"i2c"}}
         /\ i2c' \in JobType /\ i2c'.event = i2c.event
         /\ i2c'.phase = IF s = SUCCESS THEN s ELSE i2c.phase
         /\ s \in {CONTINUE, WAIT} => i2c'.task = i2c.task + 1
         /\ s \in {TASK_SUCCESS, TASK_FAILURE} => i2c'.task = s
         /\ s \in {QUIT_ISR, LOOP, SUCCESS} => i2c'.task = i2c.task
         /\ outcome' = IF s = SUCCESS THEN [outcome EXCEPT ![i2c.event] = s] ELSE outcome
<1> DEFINE next == Advance(i2c, s)
<1>1. /\ next.phase = (IF s = SUCCESS THEN s ELSE i2c.phase) /\ next.signal = s
      /\ s \in {CONTINUE, WAIT} => next.task = i2c.task + 1
      /\ s \in {TASK_SUCCESS, TASK_FAILURE} => next.task = s
      /\ s \in {QUIT_ISR, LOOP, SUCCESS} => next.task = i2c.task
  BY DEF Advance, Stored
<1>2. ~Finishes(next) /\ (Completes(next) <=> s = SUCCESS)
  BY <1>1 DEF Finishes, Completes
<1> HIDE DEF next
<1>3. /\ request' = request /\ cpu = "i2c" /\ cpu' \in {"threads", "i2c"}
      /\ due' \in {due, due \cup {"i2c"}}
      /\ i2c' = [i2c EXCEPT !.phase = next.phase, !.task = next.task]
      /\ outcome' = IF s = SUCCESS THEN [outcome EXCEPT ![i2c.event] = s] ELSE outcome
  BY <1>1, <1>2 DEF Returns, next
<1>4. next.phase \in Nat /\ next.task \in Nat /\ i2c \in JobType
  BY <1>1 DEF Shape, JobType
<1>5. /\ i2c' \in JobType /\ i2c'.event = i2c.event
      /\ i2c'.phase = next.phase /\ i2c'.task = next.task
  BY <1>3, <1>4 DEF JobType
<1> QED
  BY <1>1, <1>3, <1>5

\* The turn that takes a stored signal back: the next phase, the failure of the job, or
\* its end, which offers deferred events again.
LEMMA StoredTurn ==
  ASSUME Shape, Stored(i2c), NEW s, Returns(s)
  PROVE  /\ cpu = "i2c" /\ cpu' \in {"threads", "i2c"}
         /\ \/ /\ request' = request /\ due' \in {due, due \cup {"i2c"}}
               /\ i2c' \in JobType /\ i2c'.event = i2c.event
               /\ i2c.phase \notin {SUCCESS, FAILURE}
               /\ \/ /\ i2c.task = TASK_FAILURE /\ i2c'.phase = FAILURE /\ i2c'.task = i2c.task
                     /\ outcome' = [outcome EXCEPT ![i2c.event] = FAILURE]
                  \/ /\ i2c.task = TASK_SUCCESS /\ i2c'.phase = i2c.phase + 1 /\ i2c'.task = 0
                     /\ outcome' = outcome
            \/ /\ i2c.phase \in {SUCCESS, FAILURE} /\ Finalize /\ cpu' = "threads"
               /\ outcome' = outcome
<1> DEFINE next == Advance(i2c, s)
<1>1. CASE i2c.phase \in {SUCCESS, FAILURE}
  <2>1. next.signal = i2c.phase /\ next.phase = 0
    BY <1>1 DEF Advance
  <2>2. Finishes(next) /\ ~Completes(next)
    BY <1>1, <2>1 DEF Finishes, Completes
  <2> HIDE DEF next
  <2> QED
    BY <1>1, <2>2 DEF Returns, next
<1>2. CASE i2c.phase \notin {SUCCESS, FAILURE} /\ i2c.task = TASK_FAILURE
  <2>1. next = [phase |-> FAILURE, task |-> i2c.task, signal |-> FAILURE]
    BY <1>2 DEF Advance
  <2>2. ~Finishes(next) /\ Completes(next)
    BY <2>1 DEF Finishes, Completes
  <2> HIDE DEF next
  <2>3. /\ request' = request /\ cpu = "i2c" /\ cpu' \in {"threads", "i2c"}
        /\ due' \in {due, due \cup {"i2c"}}
        /\ i2c' = [i2c EXCEPT !.phase = next.phase, !.task = next.task]
        /\ outcome' = [outcome EXCEPT ![i2c.event] = next.signal]
    BY <2>2 DEF Returns, next
  <2>4. next.phase \in Nat /\ next.task \in Nat /\ i2c \in JobType
    BY <2>1 DEF Shape, JobType
  <2>5. /\ i2c' \in JobType /\ i2c'.event = i2c.event
        /\ i2c'.phase = next.phase /\ i2c'.task = next.task
    BY <2>3, <2>4 DEF JobType
  <2> QED
    BY <1>2, <2>1, <2>3, <2>5
<1>3. CASE i2c.phase \notin {SUCCESS, FAILURE} /\ i2c.task = TASK_SUCCESS
  <2>1. next = [phase |-> i2c.phase + 1, task |-> 0, signal |-> TASK_SUCCESS]
    BY <1>3 DEF Advance
  <2>2. ~Finishes(next) /\ ~Completes(next)
    BY <2>1 DEF Finishes, Completes
  <2> HIDE DEF next
  <2>3. /\ request' = request /\ cpu = "i2c" /\ cpu' \in {"threads", "i2c"}
        /\ due' \in {due, due \cup {"i2c"}}
        /\ i2c' = [i2c EXCEPT !.phase = next.phase, !.task = next.task]
        /\ outcome' = outcome
    BY <2>2 DEF Returns, next
  <2>4. next.phase \in Nat /\ next.task \in Nat /\ i2c \in JobType
    BY <2>1 DEF Shape, JobType
  <2>5. /\ i2c' \in JobType /\ i2c'.event = i2c.event
        /\ i2c'.phase = next.phase /\ i2c'.task = next.task
    BY <2>3, <2>4 DEF JobType
  <2> QED
    BY <1>3, <2>1, <2>3, <2>5
<1> QED
  BY <1>1, <1>2, <1>3 DEF Stored

\* The transport's job goes on with its event.
Goes ==
  /\ cpu = "i2c" /\ cpu' \in {"threads", "i2c"}
  /\ request' = request /\ due' \in {due, due \cup {"i2c"}}
  /\ i2c' \in JobType /\ i2c'.event = i2c.event

\* What a turn does to the job slot, whatever the handler is.
Turn == Goes \/ (cpu = "i2c" /\ cpu' = "threads" /\ Finalize)

\* What the transport's turns keep by themselves
Inner == Path /\ Streams /\ Answered

Signals == {CONTINUE, WAIT, QUIT_ISR, LOOP, TASK_SUCCESS, TASK_FAILURE, SUCCESS}

\* What the lemmas about single tasks use of HandlerTurn
GoesOn(s) ==
  /\ Goes
  /\ i2c'.phase = IF s = SUCCESS THEN s ELSE i2c.phase
  /\ s \in {CONTINUE, WAIT} => i2c'.task = i2c.task + 1
  /\ s \in {TASK_SUCCESS, TASK_FAILURE} => i2c'.task = s
  /\ s \in {QUIT_ISR, LOOP, SUCCESS} => i2c'.task = i2c.task

LEMMA HandlerGoes ==
  ASSUME Shape, ~Stored(i2c), NEW s \in Signals, Returns(s)
  PROVE  GoesOn(s)
BY HandlerTurn DEF GoesOn, Goes, Signals

\* The RESPONSEs under way are finitely many.
LEMMA FiniteResponses == ASSUME Shape PROVE IsFiniteSet(responses)
BY I2cAssumption, FS_Subset DEF Shape

\* What is counted, as the arithmetic below needs it
LEMMA Numbers ==
  ASSUME IInv
  PROVE  /\ i2c.event \in Nat /\ i2c.phase \in Nat /\ i2c.task \in Nat
         /\ buffers \in Int /\ Cardinality(responses) \in Nat
<1>1. Cardinality(responses) \in Nat
  BY FiniteResponses, FS_CardinalityType DEF IInv
<1>2. i2c \in JobType /\ buffers \in Int
  BY DEF IInv, Shape
<1>3. \A e \in {0} \cup Requests : e \in Nat
  BY I2cAssumption
<1>4. i2c.event \in {0} \cup Requests /\ i2c.phase \in Nat /\ i2c.task \in Nat
  BY <1>2 DEF JobType
<1> QED
  BY <1>1, <1>2, <1>3, <1>4

LEMMA SetupTurn ==
  ASSUME IInv, Setup
  PROVE  Goes /\ Inner' /\ dma' = dma
<1>1. /\ cpu = "i2c" /\ i2c.event # 0 /\ bus # "failed" /\ ~Stored(i2c) /\ i2c.phase = 0
      /\ i2c.task \in 0..3
      /\ UNCHANGED <<responses, buffers, dma>>
  BY DEF Setup, At, IInv, Occupied, Path, Stored
<1>2. \E s \in {CONTINUE, WAIT, LOOP, TASK_SUCCESS} :
         /\ Returns(s) /\ (s \in {CONTINUE, WAIT} => i2c.task < 3)
  BY <1>1 DEF Setup
<1>3. PICK s \in {CONTINUE, WAIT, LOOP, TASK_SUCCESS} :
         GoesOn(s) /\ (s \in {CONTINUE, WAIT} => i2c.task < 3)
  BY <1>1, <1>2, HandlerGoes DEF IInv, Signals
<1>4. i2c'.phase = 0 /\ i2c'.task \in 0..3 \cup {TASK_SUCCESS} /\ Goes
  BY <1>1, <1>3 DEF GoesOn
<1>5. Path'
  BY <1>4 DEF Path, Goes
<1>6. Streams'
  BY <1>1, <1>4, Numbers DEF IInv, Streams, Holding, Goes
<1>7. Answered'
  BY <1>1, <1>4 DEF IInv, Answered, Goes
<1> QED
  BY <1>1, <1>4, <1>5, <1>6, <1>7 DEF Inner

LEMMA StartReadTurn ==
  ASSUME IInv, StartRead
  PROVE  Goes /\ Inner' /\ dma' \in {dma, "rx"}
<1>1. /\ cpu = "i2c" /\ i2c.event # 0 /\ bus # "failed" /\ ~Stored(i2c) /\ i2c.phase = 1
      /\ Reading /\ i2c.task \in 0..3
      /\ UNCHANGED responses
  BY DEF StartRead, At, IInv, Occupied, Path, Stored
<1>2. i2c.event \notin responses /\ buffers \in Int
  BY <1>1 DEF IInv, Answered, Shape
<1>3. /\ dma = "off"
      /\ buffers = Cardinality(responses) + (IF i2c.task = 0 THEN 0 ELSE 1)
  BY <1>1, Numbers DEF IInv, Streams, Holding
<1>4. /\ Goes /\ i2c'.phase = 1
      /\ \/ i2c'.task = i2c.task /\ buffers' = buffers /\ dma' = dma
         \/ i2c.task = 0 /\ i2c'.task = 1 /\ buffers' = buffers + 1 /\ dma' = dma
         \/ i2c.task \in {1, 2} /\ i2c'.task = i2c.task + 1 /\ buffers' = buffers /\ dma' = dma
         \/ i2c.task = 3 /\ i2c'.task = 4 /\ buffers' = buffers /\ dma' = "rx"
  <2>1. ASSUME NEW s \in {CONTINUE, WAIT, LOOP, QUIT_ISR}, Returns(s)
        PROVE  /\ Goes /\ i2c'.phase = 1
               /\ i2c'.task = IF s \in {CONTINUE, WAIT} THEN i2c.task + 1 ELSE i2c.task
    BY <1>1, <2>1, HandlerGoes DEF IInv, Signals, GoesOn
  <2> QED
    BY <1>1, <2>1 DEF StartRead
<1>5. Path'
  BY <1>1, <1>4 DEF Path, Goes, Reading
<1>6. Streams'
  BY <1>1, <1>3, <1>4, Numbers DEF IInv, Streams, Holding, Goes, Reading
<1>7. Answered'
  BY <1>1, <1>2, <1>4 DEF IInv, Answered, Goes
<1> QED
  BY <1>4, <1>5, <1>6, <1>7 DEF Inner

LEMMA FinishReadTurn ==
  ASSUME IInv, FinishRead
  PROVE  Goes /\ Inner' /\ dma' \in {dma, "off"}
<1>1. /\ cpu = "i2c" /\ i2c.event # 0 /\ bus # "failed" /\ ~Stored(i2c) /\ i2c.phase = 1
      /\ Reading /\ i2c.task = 4
      /\ UNCHANGED <<buffers, responses>>
  BY DEF FinishRead, At, IInv, Occupied
<1>2. i2c.event \notin responses
  BY <1>1 DEF IInv, Answered
<1>3. /\ Goes /\ i2c'.phase = 1
      /\ \/ i2c'.task = 4 /\ UNCHANGED dma
         \/ i2c'.task = TASK_SUCCESS /\ dma' = "off"
  <2>1. ASSUME NEW s \in {LOOP, TASK_SUCCESS}, Returns(s)
        PROVE  /\ Goes /\ i2c'.phase = 1
               /\ i2c'.task = IF s = LOOP THEN 4 ELSE s
    BY <1>1, <2>1, HandlerGoes DEF IInv, Signals, GoesOn
  <2> QED
    BY <1>1, <2>1 DEF FinishRead
<1>4. Path'
  BY <1>1, <1>3 DEF Path, Goes, Reading
<1>5. Streams'
  BY <1>1, <1>3, Numbers DEF IInv, Streams, Holding, Goes, Reading
<1>6. Answered'
  BY <1>1, <1>2, <1>3 DEF IInv, Answered, Goes
<1> QED
  BY <1>3, <1>4, <1>5, <1>6 DEF Inner

LEMMA StartWriteTurn ==
  ASSUME IInv, StartWrite
  PROVE  Goes /\ Inner' /\ (dma' = dma \/ (dma' = "tx" /\ TypeOf[i2c.event] = "WRITE"))
<1>1. /\ cpu = "i2c" /\ i2c.event # 0 /\ bus # "failed" /\ ~Stored(i2c) /\ i2c.phase = 1
      /\ ~Reading /\ i2c.task \in {0, 1}
      /\ UNCHANGED responses
  BY DEF StartWrite, At, IInv, Occupied
<1>2. i2c.event \notin responses /\ buffers \in Int
  BY <1>1 DEF IInv, Answered, Shape
<1>3. /\ dma = "off"
      /\ buffers = Cardinality(responses) + (IF i2c.task = 0 THEN 0 ELSE 1)
  BY <1>1, Numbers DEF IInv, Streams, Holding
<1>4. /\ Goes /\ i2c'.phase = 1
      /\ \/ i2c.task = 0 /\ i2c'.task = 0 /\ buffers' = buffers /\ dma' = dma
         \/ i2c.task = 0 /\ i2c'.task = 1 /\ buffers' = buffers + 1 /\ dma' = dma
         \/ i2c.task = 1 /\ i2c'.task = 2 /\ buffers' = buffers /\ dma' = "tx"
  <2>1. ASSUME NEW s \in {CONTINUE, QUIT_ISR}, Returns(s)
        PROVE  /\ Goes /\ i2c'.phase = 1
               /\ i2c'.task = IF s = CONTINUE THEN i2c.task + 1 ELSE i2c.task
    BY <1>1, <2>1, HandlerGoes DEF IInv, Signals, GoesOn
  <2> QED
    BY <1>1, <2>1 DEF StartWrite
<1>5. Path'
  BY <1>1, <1>4 DEF Path, Goes, Reading
<1>6. Streams'
  BY <1>1, <1>3, <1>4, Numbers DEF IInv, Streams, Holding, Goes, Reading
<1>7. Answered'
  BY <1>1, <1>2, <1>4 DEF IInv, Answered, Goes
<1> QED
  BY <1>1, <1>4, <1>5, <1>6, <1>7 DEF Inner, Reading

LEMMA FinishWriteTurn ==
  ASSUME IInv, FinishWrite
  PROVE  Goes /\ Inner' /\ dma' \in {dma, "off"}
<1>1. /\ cpu = "i2c" /\ i2c.event # 0 /\ bus # "failed" /\ ~Stored(i2c) /\ i2c.phase = 1
      /\ ~Reading /\ i2c.task \in {2, 3}
      /\ UNCHANGED responses
  BY DEF FinishWrite, At, IInv, Occupied
<1>2. i2c.event \notin responses /\ buffers \in Int
  BY <1>1 DEF IInv, Answered, Shape
<1>3. /\ Goes /\ i2c'.phase = 1
      /\ \/ i2c'.task = i2c.task /\ UNCHANGED <<dma, buffers>>
         \/ /\ i2c.task = 2 /\ i2c'.task = 3
            /\ dma' = "off" /\ buffers' = buffers - 1
         \/ i2c.task = 3 /\ i2c'.task = TASK_SUCCESS /\ UNCHANGED <<dma, buffers>>
  <2>1. ASSUME NEW s \in {CONTINUE, LOOP, TASK_SUCCESS}, Returns(s)
        PROVE  /\ Goes /\ i2c'.phase = 1
               /\ i2c'.task = CASE s = LOOP -> i2c.task [] s = CONTINUE -> i2c.task + 1 [] OTHER -> s
    BY <1>1, <2>1, HandlerGoes DEF IInv, Signals, GoesOn
  <2>2. CASE i2c.task = 2
    BY <1>1, <2>1, <2>2 DEF FinishWrite
  <2>3. CASE i2c.task = 3
    BY <1>1, <2>1, <2>3 DEF FinishWrite
  <2> QED
    BY <1>1, <2>2, <2>3
<1>4. Path'
  BY <1>1, <1>3 DEF Path, Goes, Reading
<1>5. Streams'
  <2>1. Cardinality(responses) \in Nat
    BY FiniteResponses, FS_CardinalityType DEF IInv
  <2> QED
    BY <1>1, <1>2, <1>3, <2>1, Numbers DEF IInv, Streams, Holding, Goes, Reading
<1>6. Answered'
  BY <1>1, <1>2, <1>3 DEF IInv, Answered, Goes
<1> QED
  BY <1>3, <1>4, <1>5, <1>6 DEF Inner

\* The buffer leaves with a RESPONSE, or is released.
LEMMA PublishResponseTurn ==
  ASSUME IInv, PublishResponse
  PROVE  Goes /\ Inner' /\ dma' = dma
<1>1. /\ cpu = "i2c" /\ i2c.event # 0 /\ i2c.event \in Requests /\ bus # "failed"
      /\ ~Stored(i2c) /\ i2c.phase = 2 /\ i2c.task = 0 /\ Reading
      /\ UNCHANGED dma /\ Returns(TASK_SUCCESS)
  BY DEF PublishResponse, At, IInv, Occupied, Path, Stored, Shape, JobType
<1>2. Goes /\ i2c'.phase = 2 /\ i2c'.task = TASK_SUCCESS
  BY <1>1, HandlerGoes DEF IInv, Signals, GoesOn
<1>3. i2c.event \notin responses /\ IsFiniteSet(responses) /\ Cardinality(responses) \in Nat
  BY <1>1, FiniteResponses, FS_CardinalityType DEF IInv, Answered
<1>4. /\ buffers = Cardinality(responses) + 1 /\ buffers \in Int
      /\ dma = "off"
  BY <1>1, Numbers DEF IInv, Streams, Holding
<1>5. buffers' = Cardinality(responses') /\ responses' \subseteq responses \cup {i2c.event}
      /\ (i2c.event \in responses' => TypeOf[i2c.event] = "READ")
  <2>1. CASE TypeOf[i2c.event] = "READ"
    <3>1. responses' = responses \cup {i2c.event} /\ buffers' = buffers
      BY <2>1 DEF PublishResponse
    <3>2. Cardinality(responses \cup {i2c.event}) = Cardinality(responses) + 1
      BY <1>3, FS_AddElement
    <3> QED
      BY <1>4, <2>1, <3>1, <3>2
  <2>2. CASE TypeOf[i2c.event] # "READ"
    BY <1>3, <1>4, <2>2 DEF PublishResponse
  <2> QED
    BY <2>1, <2>2
<1>6. Path'
  BY <1>1, <1>2 DEF Path, Goes, Reading
<1>7. Streams'
  BY <1>1, <1>2, <1>4, <1>5, Numbers DEF IInv, Streams, Holding, Goes, Reading
<1>8. Answered'
  BY <1>1, <1>2, <1>5 DEF IInv, Answered, Goes, Occupied
<1> QED
  BY <1>1, <1>2, <1>6, <1>7, <1>8 DEF Inner

LEMMA SucceedTurn ==
  ASSUME IInv, Succeed
  PROVE  Goes /\ Inner' /\ dma' = dma
<1>1. /\ cpu = "i2c" /\ i2c.event # 0 /\ bus # "failed" /\ ~Stored(i2c)
      /\ i2c.phase = (IF Reading THEN 3 ELSE 2) /\ i2c.task = 0
      /\ UNCHANGED <<responses, buffers, dma>> /\ Returns(SUCCESS)
  BY DEF Succeed, At, IInv, Occupied, Path, deviceVars
<1>2. Goes /\ i2c'.phase = SUCCESS /\ i2c'.task = 0
  BY <1>1, HandlerGoes DEF IInv, Signals, GoesOn
<1>3. Path' /\ Streams' /\ Answered'
  BY <1>1, <1>2, Numbers DEF IInv, Path, Goes, Reading, Streams, Holding, Answered
<1> QED
  BY <1>1, <1>2, <1>3 DEF Inner

\* A job ends with its own buffers given back, or on a failed bus.
LEMMA StoredKeeps ==
  ASSUME IInv, Stored(i2c), NEW s, Returns(s), UNCHANGED deviceVars
  PROVE  Turn /\ Inner'
<1>1. cpu = "i2c" /\ i2c.event # 0 /\ i2c.event \in Requests
  BY StoredTurn DEF IInv, Occupied, Shape, JobType
<1>2. CASE /\ Goes /\ i2c.phase \notin {SUCCESS, FAILURE}
           /\ \/ i2c.task = TASK_FAILURE /\ i2c'.phase = FAILURE
              \/ i2c.task = TASK_SUCCESS /\ i2c'.phase = i2c.phase + 1 /\ i2c'.task = 0
  <2>1. Path'
    BY <1>1, <1>2 DEF IInv, Path, Goes, Reading, deviceVars
  <2>2. Streams'
    BY <1>1, <1>2, Numbers DEF IInv, Path, Goes, Reading, Streams, Holding, deviceVars
  <2>3. Answered'
    BY <1>1, <1>2 DEF IInv, Path, Goes, Reading, Answered, deviceVars
  <2> QED
    BY <1>2, <2>1, <2>2, <2>3 DEF Turn, Inner
<1>3. CASE i2c.phase \in {SUCCESS, FAILURE} /\ Finalize /\ cpu' = "threads"
  <2>1. i2c'.event = 0
    BY <1>3 DEF Finalize, NoJob
  <2>2. Path' /\ Streams'
    BY <1>1, <1>3, <2>1, Numbers DEF IInv, Path, Streams, Holding, deviceVars
  <2>3. Answered'
    <3>1. responses' = responses /\ 0 \notin responses
      BY I2cAssumption DEF deviceVars, IInv, Shape
    <3>2. ASSUME NEW e \in responses PROVE TypeOf[e] = "READ" /\ request'[e] \in {"accepted", "done"}
      <4>1. e \in Requests /\ TypeOf[e] = "READ" /\ request[e] \in {"accepted", "done"}
        BY DEF IInv, Answered, Shape
      <4> QED
        BY <1>3, <4>1 DEF Finalize
    <3> QED
      BY <2>1, <3>1, <3>2 DEF Answered
  <2> QED
    BY <1>1, <1>3, <2>2, <2>3 DEF Turn, Inner
<1> QED
  BY <1>2, <1>3, StoredTurn DEF Goes, IInv

LEMMA TakeBackTurn ==
  ASSUME IInv, TakeBack
  PROVE  Turn /\ Inner' /\ dma' = dma
BY StoredKeeps DEF TakeBack, deviceVars

\* On a failed bus the invariant asks nothing of the streams.
LEMMA HandleErrorTurn ==
  ASSUME IInv, HandleError
  PROVE  Turn /\ Inner' /\ dma' = dma
<1>1. bus = "failed" /\ Returns(TASK_FAILURE) /\ UNCHANGED deviceVars
  BY DEF HandleError
<1>2. CASE Stored(i2c)
  BY <1>1, <1>2, StoredKeeps DEF deviceVars
<1>3. CASE ~Stored(i2c)
  <2>1. Goes
    BY <1>1, <1>3, HandlerGoes DEF IInv, Signals, GoesOn
  <2>2. Path' /\ Streams' /\ Answered'
    BY <1>1, <2>1 DEF IInv, Path, Streams, Answered, Goes, deviceVars
  <2> QED
    BY <1>1, <2>1, <2>2 DEF Turn, Inner, deviceVars
<1> QED
  BY <1>2, <1>3

\* What every turn of the transport's job keeps, and does not touch
LEMMA JobTurnKeeps ==
  ASSUME IInv, JobTurn
  PROVE  /\ Turn /\ Inner'
         /\ responses' \in SUBSET Requests /\ buffers' \in Int
         /\ bus = "failed" => bus' = "failed"
         /\ bus' = "failed" => bus = "failed"
         /\ \/ dma' = dma \/ dma' \in {"off", "rx"}
            \/ dma' = "tx" /\ bus # "failed" /\ i2c.event # 0 /\ TypeOf[i2c.event] = "WRITE"
<1> USE DEF deviceVars
<1>1. /\ responses \in SUBSET Requests /\ buffers \in Int
      /\ cpu = "i2c" => i2c.event \in Requests
  BY DEF IInv, Shape, JobType, Occupied
<1>2. CASE HandleError
  BY <1>1, <1>2, HandleErrorTurn DEF HandleError
<1>3. CASE TakeBack
  BY <1>1, <1>3, TakeBackTurn DEF TakeBack
<1>4. CASE Setup
  BY <1>1, <1>4, SetupTurn DEF Setup, At, Turn
<1>5. CASE StartRead
  <2>1. buffers' \in {buffers, buffers + 1} /\ responses' = responses /\ bus # "failed"
    BY <1>5 DEF StartRead, At
  <2>2. bus' \in {bus, "starting", "addressing"}
    BY <1>5 DEF StartRead
  <2> QED
    BY <1>1, <1>5, <2>1, <2>2, StartReadTurn DEF Turn
<1>6. CASE FinishRead
  BY <1>1, <1>6, FinishReadTurn DEF FinishRead, At, Turn
<1>7. CASE StartWrite
  <2>1. buffers' \in {buffers, buffers + 1} /\ responses' = responses /\ bus # "failed"
    BY <1>7 DEF StartWrite, At
  <2>2. bus' = bus /\ i2c.event # 0
    BY <1>7 DEF StartWrite, At, IInv, Occupied
  <2> QED
    BY <1>1, <1>7, <2>1, <2>2, StartWriteTurn DEF Turn
<1>8. CASE FinishWrite
  <2>1. buffers' \in {buffers, buffers - 1} /\ responses' = responses /\ bus # "failed"
    BY <1>8 DEF FinishWrite, At
  <2>2. bus' \in {bus, "off"}
    BY <1>8 DEF FinishWrite
  <2> QED
    BY <1>1, <1>8, <2>1, <2>2, FinishWriteTurn DEF Turn
<1>9. CASE PublishResponse
  BY <1>1, <1>9, PublishResponseTurn DEF PublishResponse, At, Turn
<1>10. CASE Succeed
  BY <1>1, <1>10, SucceedTurn DEF Succeed, At, Turn
<1> QED
  BY <1>2, <1>3, <1>4, <1>5, <1>6, <1>7, <1>8, <1>9, <1>10 DEF JobTurn

\* The memory a stream reads stays, as long as the driver's does.
LEMMA WriteWaits ==
  ASSUME IInv, i2c.event # 0, TypeOf[i2c.event] = "WRITE"
  PROVE  snapshot.state = "held" /\ cpu # "at24c"
<1>1. i2c.event \in Requests /\ i2c.event \in Asked
  BY DEF IInv, Shape, JobType, Occupied, Asked
<1>2. job.event # 0 /\ job.task = 2 /\ job.phase = 1 /\ cpu # "at24c"
  BY <1>1 DEF IInv, Waits
<1> QED
  BY <1>2 DEF IInv, Lends

LEMMA JobTurnStep ==
  ASSUME IInv, JobTurn, UNCHANGED <<driverVars, cells, before, asked>>
  PROVE  IInv'
<1>1. /\ Turn /\ Inner'
      /\ responses' \in SUBSET Requests /\ buffers' \in Int
      /\ cpu = "i2c" /\ cpu' \in {"threads", "i2c"} /\ i2c.event \in Requests
      /\ i2c.event # 0
      /\ UNCHANGED <<job, target, snapshot, cells>>
  BY JobTurnKeeps DEF Turn, Goes, driverVars, IInv, Shape, JobType, Occupied
<1>2. CutOff'
  BY <1>1, JobTurnKeeps, WriteWaits DEF IInv, CutOff
<1>3. Lends'
  BY <1>1 DEF IInv, Lends
<1>4. Shape' /\ Occupied' /\ Waits'
  <2>1. CASE Goes
    <3>1. Shape' /\ Occupied'
      BY <1>1, <2>1 DEF IInv, Shape, Occupied, Goes
    <3>2. Asked' = Asked
      BY <2>1 DEF Asked, Goes
    <3>3. Waits'
      BY <1>1, <2>1, <3>2 DEF IInv, Waits, Goes
    <3> QED
      BY <3>1, <3>3
  <2>2. CASE Finalize
    <3>1. /\ i2c' = NoJob /\ i2c'.event = 0
          /\ request' = [e \in Requests |-> IF e = i2c.event THEN "done"
                                            ELSE IF request[e] = "deferred" THEN "published"
                                            ELSE request[e]]
      BY <2>2 DEF Finalize, NoJob
    <3>2. Shape' /\ Occupied'
      <4>1. i2c' \in JobType
        BY <3>1 DEF NoJob, JobType
      <4>2. \A e \in Requests : request[e] \in {"none", "published", "deferred", "accepted", "done"}
        BY DEF IInv, Shape
      <4>3. request' \in [Requests -> {"none", "published", "deferred", "accepted", "done"}]
        BY <3>1, <4>2
      <4>4. \A e \in Requests : request'[e] # "accepted"
        BY <3>1 DEF IInv, Occupied
      <4>5. cpu' = "threads"
        BY <1>1, <2>2, <3>1 DEF Turn, Goes
      <4>6. Shape'
        BY <1>1, <4>1, <4>3 DEF IInv, Shape
      <4>7. Occupied'
        BY <3>1, <4>4, <4>5 DEF Occupied
      <4> QED
        BY <4>6, <4>7
    <3>3. Asked' = Asked \ {i2c.event}
      BY <3>1 DEF Asked
    <3>4. CASE TypeOf[i2c.event] = "READ"
      <4>1. Asked' = Asked /\ due' = due
        BY <2>2, <3>3, <3>4 DEF Asked, Finalize
      <4> QED
        BY <1>1, <3>2, <4>1 DEF IInv, Waits
    <3>5. CASE TypeOf[i2c.event] # "READ"
      <4>1. i2c.event \in Asked
        BY <1>1, <3>5 DEF IInv, Occupied, Asked, Shape, JobType
      <4>2. Asked' = {}
        BY <3>3, <4>1 DEF IInv, Waits
      <4> QED
        BY <3>2, <4>2 DEF Waits
    <3> QED
      BY <3>4, <3>5
  <2> QED
    BY <1>1, <2>1, <2>2 DEF Turn
<1> QED
  BY <1>1, <1>2, <1>3, <1>4 DEF IInv, Inner

\* The other steps of the transport, and of who uses it
LEMMA OfferStep ==
  ASSUME IInv, NEW e \in Requests, Offer(e), UNCHANGED <<driverVars, cells, before, asked>>
  PROVE  IInv'
<1>1. /\ cpu = "threads" /\ bus # "failed" /\ request[e] = "published"
      /\ UNCHANGED <<outcome, incoming, deviceVars, cpu, isr>>
      /\ UNCHANGED <<job, target, snapshot, cells>>
  BY DEF Offer, ThreadsRun, driverVars
<1>2. Lends' /\ due' \in {due, due \cup {"i2c"}}
  BY <1>1 DEF Offer, IInv, Lends
<1>3. CutOff'
  BY <1>1 DEF IInv, CutOff, deviceVars
<1>4. PICK s \in {"accepted", "deferred"} :
        /\ request' = [request EXCEPT ![e] = s]
        /\ s = "accepted" => i2c.event = 0 /\ i2c' = [NoJob EXCEPT !.event = e]
        /\ s = "deferred" => i2c.event # 0 /\ i2c' = i2c
  BY DEF Offer
<1>5. Asked' = Asked
  BY <1>1, <1>4 DEF Asked, IInv, Shape
<1>6. Waits'
  BY <1>1, <1>2, <1>5 DEF IInv, Waits
<1>7. e \in Nat /\ e # 0 /\ e \notin responses
  BY <1>1, I2cAssumption DEF IInv, Answered
<1>8. CASE s = "accepted"
  <2>1. i2c' \in JobType /\ i2c'.event = e /\ i2c'.phase = 0 /\ i2c'.task = 0
    BY <1>4, <1>8 DEF NoJob, JobType
  <2>2. Shape' /\ Occupied'
    <3>1. request' \in [Requests -> {"none", "published", "deferred", "accepted", "done"}]
      BY <1>4, <1>8 DEF IInv, Shape
    <3>2. Shape'
      BY <1>1, <2>1, <3>1 DEF IInv, Shape, deviceVars
    <3>3. request'[e] = "accepted" /\ \A f \in Requests \ {e} : request'[f] = request[f]
      BY <1>4, <1>8 DEF IInv, Shape
    <3>4. \A f \in Requests : request[f] # "accepted"
      BY <1>4, <1>8, I2cAssumption DEF IInv, Occupied
    <3>5. Occupied'
      BY <1>1, <1>7, <2>1, <3>3, <3>4 DEF Occupied
    <3> QED
      BY <3>2, <3>5
  <2>3. Path' /\ Streams'
    BY <1>1, <1>4, <1>8, <2>1, Numbers DEF IInv, Path, Streams, Holding, deviceVars
  <2>4. Answered'
    <3>1. \A f \in responses : f \in Requests /\ f # e
      BY <1>7 DEF IInv, Shape
    <3> QED
      BY <1>1, <1>4, <1>7, <2>1, <3>1 DEF IInv, Shape, Answered, deviceVars
  <2> QED
    BY <1>2, <1>3, <1>6, <2>2, <2>3, <2>4 DEF IInv
<1>9. CASE s = "deferred"
  <2>1. Shape' /\ Occupied'
    BY <1>1, <1>4, <1>9 DEF IInv, Shape, Occupied, deviceVars
  <2>2. Path' /\ Streams'
    BY <1>1, <1>4, <1>9 DEF IInv, Path, Streams, Holding, Reading, deviceVars
  <2>3. Answered'
    <3>1. \A f \in responses : f \in Requests /\ f # e
      BY <1>7 DEF IInv, Shape
    <3> QED
      BY <1>1, <1>4, <1>7, <1>9, <3>1 DEF IInv, Shape, Answered, deviceVars
  <2> QED
    BY <1>2, <1>3, <1>6, <2>1, <2>2, <2>3 DEF IInv
<1> QED
  BY <1>8, <1>9

\* While the driver executes, it has no request under way and no stream reads its memory.
LEMMA DriverAlone ==
  ASSUME IInv, cpu = "at24c"
  PROVE  Asked = {} /\ dma # "tx"
<1>1. Asked = {}
  BY DEF IInv, Waits
<1>2. CASE bus = "failed"
  BY <1>1, <1>2 DEF IInv, CutOff
<1>3. CASE bus # "failed"
  <2>1. dma = "tx" => i2c.event # 0 /\ ~Reading
    BY <1>3 DEF IInv, Streams
  <2>2. i2c.event # 0 /\ ~Reading => cpu # "at24c"
    BY WriteWaits DEF Reading
  <2> QED
    BY <1>1, <2>1, <2>2
<1> QED
  BY <1>2, <1>3

\* A step that leaves job, requests and buffers where they are
Aside == UNCHANGED <<request, i2c, responses, buffers, job, target, snapshot, cells>>

LEMMA AsideKeeps ==
  ASSUME IInv, Aside, due' \subseteq due, cpu' = "at24c" => cpu = "at24c",
         cpu' = "i2c" => i2c.event # 0,
         bus' = "failed" \/ (bus # "failed" /\ (dma' # "off" => dma # "off")),
         dma' \in {"rx", "tx"} => dma' = dma
  PROVE  IInv'
<1> USE DEF Aside
<1>1. Shape' /\ Occupied'
  BY DEF IInv, Shape, Occupied
<1>2. Path' /\ Answered'
  BY DEF IInv, Path, Answered, Reading
<1>3. Streams'
  BY DEF IInv, Streams, Holding, Reading
<1>4. Asked' = Asked
  BY DEF Asked
<1>5. Waits' /\ Lends'
  BY <1>4 DEF IInv, Waits, Lends
<1>6. CutOff'
  <2>1. dma = "tx" => snapshot.state = "held"
    BY DEF IInv, CutOff
  <2> QED
    BY <2>1, DriverAlone DEF CutOff
<1> QED
  BY <1>1, <1>2, <1>3, <1>5, <1>6 DEF IInv

\* The steps of the transport outside its job, and what is external to it
LEMMA TransportStep ==
  ASSUME IInv, Transport
  PROVE  IInv'
<1>1. UNCHANGED <<driverVars, cells, before, asked>>
  BY DEF Transport
<1>2. UNCHANGED <<job, target, snapshot, cells>>
  BY <1>1 DEF driverVars
<1>3. ASSUME NEW e \in Requests, Offer(e) PROVE IInv'
  BY <1>1, <1>3, OfferStep
<1>4. ASSUME NEW e \in Requests, Receive(e) PROVE IInv'
  <2>1. /\ cpu = "threads" /\ bus # "failed" /\ e \in responses
        /\ responses' = responses \ {e} /\ buffers' = buffers - 1
        /\ UNCHANGED <<request, i2c, bus, dma, cpu, due>>
    BY <1>4 DEF Receive, ThreadsRun
  <2>2. Shape' /\ Occupied' /\ Path' /\ Answered'
    BY <1>2, <2>1 DEF IInv, Shape, Occupied, Path, Reading, Answered
  <2>3. Cardinality(responses') = Cardinality(responses) - 1
    BY <2>1, FiniteResponses, FS_RemoveElement DEF IInv
  <2>4. Streams'
    BY <2>1, <2>3, Numbers DEF IInv, Streams, Holding, Reading
  <2>5. Asked' = Asked
    BY <2>1 DEF Asked
  <2>6. Waits' /\ Lends' /\ CutOff'
    BY <1>2, <2>1, <2>5 DEF IInv, Waits, Lends, CutOff
  <2> QED
    BY <2>2, <2>4, <2>6 DEF IInv
<1>5. CASE RunInThread
  BY <1>2, <1>5, AsideKeeps DEF RunInThread, ThreadsRun, deviceVars, Aside
<1>6. CASE Notify
  BY <1>2, <1>6, AsideKeeps DEF Notify, Aside
<1>7. CASE DmaInterrupt
  <2>1. /\ cpu' = "i2c" /\ i2c.event # 0 /\ bus' = bus /\ dma # "off" /\ dma # "tx"
        /\ dma' \in {"rx idle", "tx idle"}
        /\ UNCHANGED <<request, i2c, responses, buffers, due>>
    BY <1>7 DEF DmaInterrupt, DmaFlag
  <2>2. Aside /\ dma' \notin {"rx", "tx"} /\ dma' # "off"
    BY <1>2, <2>1 DEF Aside
  <2>3. due' \subseteq due /\ (bus' = "failed" \/ bus # "failed")
    BY <2>1
  <2> QED
    BY <2>1, <2>2, <2>3, AsideKeeps
<1>8. CASE JobTurn
  BY <1>1, <1>8, JobTurnStep
<1>9. CASE BusStep
  BY <1>2, <1>9, AsideKeeps DEF BusStep, Aside, IInv, Occupied
<1> QED
  BY <1>3, <1>4, <1>5, <1>6, <1>7, <1>8, <1>9 DEF Transport

\* External: the stream's transfers keep the state of the buffers.
LEMMA TransferStep ==
  ASSUME IInv, Transfer, UNCHANGED <<job, snapshot, first, before, asked>>
  PROVE  IInv'
<1>1. /\ dma \in {"rx", "tx"} /\ dma' \in {"rx done", "tx done"} /\ bus # "failed"
      /\ bus' # "failed"
      /\ UNCHANGED <<request, i2c, responses, buffers, cpu, due, job, snapshot>>
  BY DEF Transfer, DmaStep
<1>2. target' \in BufferType /\ target'.state = target.state /\ cells' \in Int
  <2>1. target \in BufferType /\ snapshot.byte \in Int /\ cells \in Int
    BY DEF IInv, Shape, BufferType
  <2>2. /\ target' = target \/ target' = [target EXCEPT !.byte = cells]
        /\ cells' = cells \/ cells' = snapshot.byte
    BY DEF Transfer
  <2> QED
    BY <2>1, <2>2 DEF BufferType
<1>3. Shape' /\ Occupied' /\ Path' /\ Streams' /\ Answered'
  <2>1. Shape' /\ Occupied'
    BY <1>1, <1>2 DEF IInv, Shape, Occupied
  <2>2. Path' /\ Answered'
    <3>1. i2c' = i2c /\ responses' = responses /\ request' = request /\ bus # "failed" /\ bus' # "failed"
      BY <1>1
    <3>2. Path'
      BY <3>1 DEF IInv, Path, Reading
    <3> QED
      BY <3>1, <3>2 DEF IInv, Answered
  <2>3. dma # "off" /\ dma' # "tx" /\ dma' # "rx"
    BY <1>1
  <2>4. Streams'
    BY <1>1, <2>3, Numbers DEF IInv, Streams, Holding, Reading
  <2> QED
    BY <2>1, <2>2, <2>4
<1>4. Asked' = Asked
  BY <1>1 DEF Asked
<1>5. Waits' /\ Lends' /\ CutOff'
  BY <1>1, <1>2, <1>4 DEF IInv, Waits, Lends, CutOff
<1> QED
  BY <1>3, <1>5 DEF IInv

LEMMA PublishReadStep ==
  ASSUME IInv, NEW e \in Requests, PublishRead(e)
  PROVE  IInv'
<1>1. /\ request[e] = "none" /\ request' = [request EXCEPT ![e] = "published"]
      /\ TypeOf[e] = "READ"
      /\ UNCHANGED <<i2c, responses, buffers, bus, dma, cpu, due, job, target, snapshot, cells>>
  BY DEF PublishRead, deviceVars, driverVars
<1>2. Shape' /\ Occupied' /\ Path' /\ Streams'
  BY <1>1 DEF IInv, Shape, Occupied, Path, Streams, Holding, Reading
<1>3. Answered'
  <2>1. \A f \in responses : f \in Requests /\ f # e
    BY <1>1 DEF IInv, Shape, Answered
  <2> QED
    BY <1>1, <2>1 DEF IInv, Shape, Answered
<1>4. Asked' = Asked
  BY <1>1 DEF Asked, IInv, Shape
<1>5. Waits' /\ Lends' /\ CutOff'
  BY <1>1, <1>4 DEF IInv, Waits, Lends, CutOff
<1> QED
  BY <1>2, <1>3, <1>5 DEF IInv
-----------------------------------------------------------------------------
\* What a step of the driver leaves alone: all of the transport but its requests
Apart == UNCHANGED <<i2c, responses, buffers, bus, dma, cells>>

\* A step of the driver that makes no request while it has none under way
LEMMA DriverKeeps ==
  ASSUME IInv, Apart, Asked = {}, UNCHANGED request, dma # "tx", cpu' # "i2c",
         job' \in [event : {0, 1}, phase : Nat, task : Nat],
         target' \in BufferType, snapshot' \in BufferType,
         Lends'
  PROVE  IInv'
<1> USE DEF Apart
<1>1. Shape' /\ Occupied' /\ Path' /\ Streams' /\ Answered'
  BY DEF IInv, Shape, Occupied, Path, Streams, Holding, Answered, Reading
<1>2. Asked' = {}
  BY DEF Asked
<1>3. Waits' /\ CutOff'
  BY <1>2 DEF Waits, CutOff
<1> QED
  BY <1>1, <1>3 DEF IInv

LEMMA DiagnoseStep ==
  ASSUME IInv, Diagnose
  PROVE  IInv'
<1>1. CASE job.event = 0
  <2>1. Asked = {} /\ dma # "tx"
    <3>1. Asked = {}
      BY <1>1 DEF IInv, Waits
    <3>2. dma = "tx" => i2c.event # 0 /\ TypeOf[i2c.event] = "WRITE" /\ i2c.event \in Requests
      BY DEF IInv, Streams, Diagnose, ThreadsRun, Reading, Shape, JobType
    <3> QED
      BY <3>1, <3>2 DEF IInv, Occupied, Asked
  <2>2. /\ job' = [NoJob EXCEPT !.event = 1] /\ cpu = "threads" /\ cpu' = cpu
        /\ UNCHANGED <<target, snapshot, request>> /\ Apart
    BY <1>1 DEF Diagnose, ThreadsRun, driverVars, deviceVars, Apart
  <2>3. /\ job' \in [event : {0, 1}, phase : Nat, task : Nat]
        /\ job'.phase = 0 /\ job'.task = 0
    BY <2>2 DEF NoJob
  <2>4. Lends'
    BY <2>2, <2>3 DEF Lends
  <2> QED
    BY <2>1, <2>2, <2>3, <2>4, DriverKeeps DEF IInv, Shape
<1>2. CASE job.event # 0
  BY <1>2, AsideKeeps DEF Diagnose, ThreadsRun, deviceVars, driverVars, Aside
<1> QED
  BY <1>1, <1>2

LEMMA RunDriverStep ==
  ASSUME IInv, RunDriver
  PROVE  IInv'
<1>1. /\ cpu = "threads" /\ "at24c" \in due /\ due' = due \ {"at24c"} /\ bus # "failed"
      /\ cpu' \in {"threads", "at24c"} /\ (cpu' = "at24c" => job.event # 0)
      /\ UNCHANGED <<job, target, snapshot, request>> /\ Apart
  BY DEF RunDriver, ThreadsRun, driverVars, deviceVars, Apart
<1>2. Asked = {}
  BY <1>1 DEF IInv, Waits
<1>3. dma # "tx"
  <2>1. dma = "tx" => i2c.event # 0 /\ TypeOf[i2c.event] = "WRITE" /\ i2c.event \in Requests
    BY <1>1 DEF IInv, Streams, Reading, Shape, JobType
  <2> QED
    BY <1>2, <2>1 DEF IInv, Occupied, Asked
<1>4. Lends'
  BY <1>1 DEF IInv, Lends
<1> QED
  BY <1>1, <1>2, <1>3, <1>4, DriverKeeps DEF IInv, Shape

DriverSignals == {CONTINUE, WAIT, TASK_SUCCESS, SUCCESS, FAILURE}

\* A turn of the driver's handler
LEMMA DriverHandlerTurn ==
  ASSUME Shape, ~Stored(job), NEW s \in DriverSignals, DriverReturns(s)
  PROVE  /\ cpu' = IF s = WAIT THEN "threads" ELSE "at24c"
         /\ due' = due /\ Apart
         /\ job' \in [event : {0, 1}, phase : Nat, task : Nat] /\ job'.event = job.event
         /\ job'.phase = IF s \in {SUCCESS, FAILURE} THEN s ELSE job.phase
         /\ s \in {CONTINUE, WAIT} => job'.task = job.task + 1
         /\ s = TASK_SUCCESS => job'.task = s
<1> DEFINE next == Advance(job, s)
<1>1. /\ next.phase = (IF s \in {SUCCESS, FAILURE} THEN s ELSE job.phase) /\ next.signal = s
      /\ s \in {CONTINUE, WAIT} => next.task = job.task + 1
      /\ s = TASK_SUCCESS => next.task = s
      /\ s \in {SUCCESS, FAILURE} => next.task = job.task
  BY DEF Advance, Stored, DriverSignals
<1>2. ~Finishes(next)
  BY <1>1 DEF Finishes, DriverSignals
<1>3. Rests(next, isr) <=> s = WAIT
  BY <1>1 DEF Rests, DriverSignals
<1> HIDE DEF next
<1>4. /\ cpu' = IF s = WAIT THEN "threads" ELSE "at24c"
      /\ due' = due /\ Apart
      /\ job' = [job EXCEPT !.phase = next.phase, !.task = next.task]
  BY <1>2, <1>3 DEF DriverReturns, next, Apart, deviceVars
<1>5. next.phase \in Nat /\ next.task \in Nat
  BY <1>1 DEF Shape, DriverSignals
<1>6. job \in [event : {0, 1}, phase : Nat, task : Nat]
  BY DEF Shape
<1>7. /\ job' \in [event : {0, 1}, phase : Nat, task : Nat] /\ job'.event = job.event
      /\ job'.phase = next.phase /\ job'.task = next.task
  BY <1>4, <1>5, <1>6
<1> QED
  BY <1>1, <1>4, <1>7

\* A request finds the driver waiting.
LEMMA RequestStep ==
  ASSUME IInv, NEW type \in {"READ_TO_BUFFER", "WRITE"}, Request(type),
         cpu = "at24c", job.event # 0, ~Stored(job), DriverReturns(WAIT), job.task = 1,
         job.phase \in IF type = "WRITE" THEN {1} ELSE {0, 2},
         target' = target, snapshot' = snapshot
  PROVE  IInv'
<1>1. /\ cpu' = "threads" /\ due' = due /\ Apart
      /\ job' \in [event : {0, 1}, phase : Nat, task : Nat] /\ job'.event = job.event
      /\ job'.phase = job.phase /\ job'.task = 2
  BY DriverHandlerTurn DEF IInv, DriverSignals
<1>2. PICK e \in Requests : /\ TypeOf[e] = type /\ request[e] = "none"
                            /\ request' = [request EXCEPT ![e] = "published"]
  BY DEF Request
<1>3. Asked = {} /\ dma # "tx"
  BY DriverAlone
<1>4. Asked' = {e}
  BY <1>2, <1>3 DEF Asked, IInv, Shape
<1>5. Shape' /\ Occupied' /\ Path' /\ Streams'
  BY <1>1, <1>2 DEF IInv, Shape, Occupied, Path, Streams, Holding, Reading, Apart
<1>6. Answered'
  <2>1. \A f \in responses : f \in Requests /\ f # e
    BY <1>2 DEF IInv, Shape, Answered
  <2> QED
    BY <1>1, <1>2, <2>1 DEF IInv, Shape, Answered, Apart
<1>7. Waits'
  BY <1>1, <1>2, <1>4 DEF IInv, Lends, Waits
<1>8. Lends'
  BY <1>1 DEF IInv, Lends
<1>9. CutOff'
  BY <1>1, <1>3 DEF CutOff, Apart
<1> QED
  BY <1>5, <1>6, <1>7, <1>8, <1>9 DEF IInv

LEMMA TaskReadStep ==
  ASSUME IInv, TaskRead
  PROVE  IInv'
<1>1. /\ cpu = "at24c" /\ ~Stored(job) /\ job.phase \in {0, 2} /\ snapshot' = snapshot
      /\ job.event # 0 /\ "at24c" \notin due /\ Asked = {} /\ dma # "tx"
  BY DriverAlone DEF TaskRead, DriverAt, IInv, Lends
<1>2. CASE /\ job.task = 0 /\ target' = [state |-> "held", byte |-> Garbage]
           /\ DriverReturns(CONTINUE) /\ UNCHANGED request
  <2>1. /\ cpu' = "at24c" /\ due' = due /\ Apart
        /\ job' \in [event : {0, 1}, phase : Nat, task : Nat]
        /\ job'.phase = job.phase /\ job'.event = job.event
    BY <1>1, <1>2, DriverHandlerTurn DEF IInv, DriverSignals
  <2>2. target' \in BufferType /\ target'.state = "held" /\ snapshot' \in BufferType
    BY <1>1, <1>2, EepromAssumption DEF Garbage, BufferType, IInv, Shape
  <2>3. Lends'
    BY <1>1, <2>1, <2>2 DEF Lends
  <2> QED
    BY <1>1, <1>2, <2>1, <2>2, <2>3, DriverKeeps
<1>3. CASE job.task = 1 /\ Request("READ_TO_BUFFER") /\ DriverReturns(WAIT) /\ UNCHANGED target
  BY <1>1, <1>3, RequestStep
<1>4. CASE job.task = 2 /\ DriverReturns(TASK_SUCCESS) /\ UNCHANGED <<target, request>>
  <2>1. /\ cpu' = "at24c" /\ due' = due /\ Apart
        /\ job' \in [event : {0, 1}, phase : Nat, task : Nat]
        /\ job'.phase = job.phase /\ job'.event = job.event
    BY <1>1, <1>4, DriverHandlerTurn DEF IInv, DriverSignals
  <2>2. Lends'
    BY <1>1, <1>4, <2>1 DEF IInv, Lends
  <2> QED
    BY <1>1, <1>4, <2>1, <2>2, DriverKeeps DEF IInv, Shape
<1> QED
  BY <1>2, <1>3, <1>4 DEF TaskRead

LEMMA TaskWriteStep ==
  ASSUME IInv, TaskWrite
  PROVE  IInv'
<1>1. /\ cpu = "at24c" /\ ~Stored(job) /\ job.phase = 1 /\ target' = target
      /\ job.event # 0 /\ "at24c" \notin due /\ Asked = {} /\ dma # "tx"
  BY DriverAlone DEF TaskWrite, DriverAt, IInv, Lends
<1>2. CASE /\ job.task = 0
           /\ snapshot' = [state |-> "held", byte |-> (target.byte + 1) % Bytes]
           /\ DriverReturns(CONTINUE) /\ UNCHANGED request
  <2>1. /\ cpu' = "at24c" /\ due' = due /\ Apart
        /\ job' \in [event : {0, 1}, phase : Nat, task : Nat]
        /\ job'.phase = job.phase /\ job'.event = job.event
    BY <1>1, <1>2, DriverHandlerTurn DEF IInv, DriverSignals
  <2>2. snapshot' \in BufferType /\ snapshot'.state = "held" /\ target' \in BufferType
    <3>1. target \in BufferType /\ target.byte \in Int
      BY DEF IInv, Shape, BufferType
    <3>2. (target.byte + 1) % Bytes \in Int
      BY <3>1, EepromAssumption
    <3> QED
      BY <1>1, <1>2, <3>1, <3>2 DEF BufferType
  <2>3. Lends'
    BY <1>1, <2>1, <2>2 DEF IInv, Lends
  <2> QED
    BY <1>1, <1>2, <2>1, <2>2, <2>3, DriverKeeps
<1>3. CASE job.task = 1 /\ Request("WRITE") /\ DriverReturns(WAIT) /\ UNCHANGED snapshot
  BY <1>1, <1>3, RequestStep
<1>4. CASE job.task = 2 /\ DriverReturns(TASK_SUCCESS) /\ UNCHANGED <<snapshot, request>>
  <2>1. /\ cpu' = "at24c" /\ due' = due /\ Apart
        /\ job' \in [event : {0, 1}, phase : Nat, task : Nat]
        /\ job'.phase = job.phase /\ job'.event = job.event /\ job'.task = TASK_SUCCESS
    BY <1>1, <1>4, DriverHandlerTurn DEF IInv, DriverSignals
  <2>2. Lends'
    BY <1>1, <1>4, <2>1 DEF IInv, Lends
  <2> QED
    BY <1>1, <1>4, <2>1, <2>2, DriverKeeps DEF IInv, Shape
<1> QED
  BY <1>2, <1>3, <1>4 DEF TaskWrite

LEMMA CompareStep ==
  ASSUME IInv, Compare
  PROVE  IInv'
<1>1. /\ cpu = "at24c" /\ ~Stored(job) /\ job.phase = 3
      /\ UNCHANGED <<target, snapshot, request>>
      /\ job.event # 0 /\ "at24c" \notin due /\ Asked = {} /\ dma # "tx"
  BY DriverAlone DEF Compare, DriverAt, IInv, Lends
<1>2. PICK s \in {SUCCESS, FAILURE} : DriverReturns(s)
  BY DEF Compare
<1>3. /\ cpu' = "at24c" /\ due' = due /\ Apart
      /\ job' \in [event : {0, 1}, phase : Nat, task : Nat]
      /\ job'.phase \in {SUCCESS, FAILURE} /\ job'.event = job.event
  BY <1>1, <1>2, DriverHandlerTurn DEF IInv, DriverSignals
<1>4. Lends'
  BY <1>1, <1>3 DEF Lends
<1> QED
  BY <1>1, <1>3, <1>4, DriverKeeps DEF IInv, Shape

\* The turn that takes the stored signal back, and the end of the diagnosis
LEMMA CleanUpStep ==
  ASSUME IInv, CleanUp
  PROVE  IInv'
<1> DEFINE next == Advance(job, SUCCESS)
<1>1. /\ cpu = "at24c" /\ Stored(job) /\ UNCHANGED request /\ DriverReturns(SUCCESS)
      /\ job.event # 0 /\ "at24c" \notin due /\ Asked = {} /\ dma # "tx"
      /\ due' = due /\ Apart
  BY DriverAlone DEF CleanUp, IInv, Lends, DriverReturns, Apart, deviceVars
<1>2. target' \in BufferType /\ snapshot' \in BufferType
  BY DEF CleanUp, Released, IInv, Shape, BufferType
<1>3. job \in [event : {0, 1}, phase : Nat, task : Nat]
  BY DEF IInv, Shape
<1>4. CASE job.phase \in {SUCCESS, FAILURE}
  <2>1. next.signal = job.phase /\ next.phase = 0
    BY <1>4 DEF Advance
  <2>2. Finishes(next)
    BY <1>4, <2>1 DEF Finishes
  <2> HIDE DEF next
  <2>3. job' = NoJob /\ cpu' = "threads"
    BY <1>1, <2>2 DEF DriverReturns, next
  <2>4. job' \in [event : {0, 1}, phase : Nat, task : Nat] /\ job'.event = 0
    BY <2>3 DEF NoJob
  <2>5. Lends'
    BY <2>3, <2>4 DEF Lends
  <2> QED
    BY <1>1, <1>2, <2>3, <2>4, <2>5, DriverKeeps
<1>5. CASE job.phase \notin {SUCCESS, FAILURE} /\ job.task \in {TASK_SUCCESS, TASK_FAILURE}
  <2>1. /\ target' = target /\ snapshot' = snapshot
    BY <1>5 DEF CleanUp
  <2>2. /\ next.signal \in {FAILURE, TASK_SUCCESS} /\ next.task \in {0, TASK_FAILURE}
        /\ next.signal = FAILURE => next.phase = FAILURE
        /\ next.signal = TASK_SUCCESS => next.phase = job.phase + 1 /\ next.task = 0
    BY <1>3, <1>5 DEF Advance
  <2>3. ~Finishes(next) /\ ~Rests(next, isr)
    BY <2>2 DEF Finishes, Rests
  <2> HIDE DEF next
  <2>4. cpu' = "at24c" /\ job' = [job EXCEPT !.phase = next.phase, !.task = next.task]
    BY <1>1, <2>3 DEF DriverReturns, next
  <2>5. next.phase \in Nat /\ next.task \in Nat
    BY <1>3, <2>2
  <2>6. /\ job' \in [event : {0, 1}, phase : Nat, task : Nat]
        /\ job'.event = job.event /\ job'.phase = next.phase /\ job'.task = next.task
    BY <1>3, <2>4, <2>5
  <2>7. CASE next.signal = FAILURE
    <3>1. Lends'
      BY <1>1, <2>2, <2>4, <2>6, <2>7 DEF Lends
    <3> QED
      BY <1>1, <1>2, <2>4, <2>6, <3>1, DriverKeeps
  <2>8. CASE next.signal = TASK_SUCCESS
    <3>1. job.phase \in Nat /\ job.task # 0 /\ job'.phase = job.phase + 1 /\ job'.task = 0
      BY <1>3, <1>5, <2>2, <2>6, <2>8
    <3>2. job'.phase \in 0..3 => job.phase \in 0..3 /\ ~(job.phase = 0 /\ job.task = 0)
      BY <3>1
    <3>3. Lends'
      BY <1>1, <2>1, <2>6, <3>1, <3>2 DEF IInv, Lends
    <3> QED
      BY <1>1, <1>2, <2>4, <2>6, <3>3, DriverKeeps
  <2> QED
    BY <2>2, <2>7, <2>8
<1> QED
  BY <1>1, <1>4, <1>5 DEF Stored
-----------------------------------------------------------------------------
LEMMA Initially == Init => IInv
<1> SUFFICES ASSUME Init PROVE IInv
  OBVIOUS
<1> USE DEF Init, I2cInit
<1>1. i2c \in JobType /\ i2c.event = 0 /\ job.event = 0
  BY DEF NoJob, JobType
<1>2. job \in [event : {0, 1}, phase : Nat, task : Nat]
  BY DEF NoJob
<1>3. target \in BufferType /\ snapshot \in BufferType /\ cells \in Int
  BY EepromAssumption DEF NoBuffer, BufferType
<1>4. Shape
  BY <1>1, <1>2, <1>3 DEF Shape
<1>5. Occupied
  BY <1>1 DEF Occupied
<1>6. Path /\ Streams
  BY <1>1, FS_EmptySet DEF Path, Streams, Holding
<1>7. Answered /\ Waits /\ Lends /\ CutOff
  BY <1>1 DEF Answered, Waits, Asked, Lends, CutOff
<1> QED
  BY <1>4, <1>5, <1>6, <1>7 DEF IInv

\* Every step of the program keeps the invariant.
LEMMA StepKeeps == IInv /\ [Next]_vars => IInv'
<1> SUFFICES ASSUME IInv, [Next]_vars PROVE IInv'
  OBVIOUS
<1>1. CASE Transport
  BY <1>1, TransportStep
<1>2. CASE Transfer /\ UNCHANGED <<job, snapshot, first, before, asked>>
  BY <1>2, TransferStep
<1>3. CASE Diagnose
  BY <1>3, DiagnoseStep
<1>4. CASE RunDriver
  BY <1>4, RunDriverStep
<1>5. CASE DriverTurn
  BY <1>5, TaskReadStep, TaskWriteStep, CompareStep, CleanUpStep DEF DriverTurn
<1>6. ASSUME NEW e \in Requests, PublishRead(e) PROVE IInv'
  BY <1>6, PublishReadStep
<1>7. CASE UNCHANGED vars
  BY <1>7, AsideKeeps DEF vars, i2cVars, deviceVars, driverVars, Aside, IInv, Occupied
<1> QED
  BY <1>1, <1>2, <1>3, <1>4, <1>5, <1>6, <1>7 DEF Next

\* What driver, transport and streams agree on holds in every state.
THEOREM EepromConsistent == Spec => []IInv
BY Initially, StepKeeps, PTL DEF Spec

\* i2c_on_signal finds the job whose stream ended, in the phase that waits for it.
THEOREM DmaAlwaysFindsJob == Spec => []DmaFindsJob
<1>1. IInv => DmaFindsJob
  BY DEF IInv, Streams, DmaFindsJob, DmaFlag
<1> QED
  BY <1>1, EepromConsistent, PTL

\* at24c releases no buffer that a DMA stream still reads or writes for it.
THEOREM DmaMemoryLives == Spec => []DmaMemoryAlive
<1>1. IInv => DmaMemoryAlive
  <2> SUFFICES ASSUME IInv PROVE DmaMemoryAlive
    OBVIOUS
  <2>1. dma = "tx" => snapshot.state = "held"
    BY DEF IInv, CutOff
  <2>2. ASSUME i2c.event # 0, TypeOf[i2c.event] = "READ_TO_BUFFER" PROVE target.state = "held"
    <3>1. i2c.event \in Asked
      BY <2>2 DEF IInv, Shape, JobType, Occupied, Asked
    <3>2. job.event # 0 /\ job.task = 2 /\ job.phase \in {0, 2}
      BY <2>2, <3>1 DEF IInv, Waits
    <3> QED
      BY <3>2 DEF IInv, Lends
  <2> QED
    BY <2>1, <2>2 DEF DmaMemoryAlive
<1> QED
  BY <1>1, EepromConsistent, PTL

\* A job of the transport leaves no buffer behind, unless the bus failed.
THEOREM TransportLeaksNothing == Spec => []NothingLeaked
<1>1. IInv => NothingLeaked
  BY DEF IInv, Streams, Holding, NothingLeaked
<1> QED
  BY <1>1, EepromConsistent, PTL
-----------------------------------------------------------------------------
\* What is reported of each event: the outcome of its job, once, in the turn before the
\* one that ends it.  The phases are those of a job on a failed bus, too.
Reported ==
  /\ i2c.event = 0 => i2c = NoJob
  /\ outcome \in [Requests -> {0, SUCCESS, FAILURE}]
  /\ \A e \in Requests : request[e] # "done" /\ e # i2c.event => outcome[e] = 0
  /\ i2c.event # 0 =>
       /\ i2c.phase \in 0..3 \cup {SUCCESS, FAILURE}
       /\ i2c.phase \notin {SUCCESS, FAILURE} => outcome[i2c.event] = 0
       /\ i2c.phase \in {SUCCESS, FAILURE} => outcome[i2c.event] = i2c.phase
       /\ i2c.phase = SUCCESS => i2c.task # TASK_FAILURE
       /\ i2c.task = TASK_SUCCESS => i2c.phase # 3

Tasks == IF i2c.task = TASK_FAILURE THEN "failed" ELSE "sound"
Report == [e \in Requests |-> ReportOf(e)]
Finalized == {e \in Requests : request[e] = "done"}

\* Nothing the service sees changes as long as these stay.
LEMMA ServiceStutters ==
  ASSUME i2c'.event = i2c.event, Tasks' = Tasks, outcome' = outcome, Finalized' = Finalized
  PROVE  UNCHANGED Service!vars
<1>1. Report' = Report
  BY DEF Report, ReportOf
<1> QED
  BY <1>1 DEF Service!vars, Tasks, Report, Finalized

\* The report of one event
LEMMA ReportChanges ==
  ASSUME Reported, NEW e \in Requests, NEW s \in {SUCCESS, FAILURE},
         outcome' = [outcome EXCEPT ![e] = s]
  PROVE  /\ s = SUCCESS => Report' = [Report EXCEPT ![e] = "success"]
         /\ s = FAILURE => Report' = [Report EXCEPT ![e] = "failure"]
<1> DEFINE word == IF s = SUCCESS THEN "success" ELSE "failure"
<1>1. outcome'[e] = s /\ \A f \in Requests \ {e} : outcome'[f] = outcome[f]
  BY DEF Reported
<1>2. ReportOf(e)' = word /\ \A f \in Requests \ {e} : ReportOf(f)' = ReportOf(f)
  BY <1>1 DEF ReportOf
<1> HIDE DEF word
<1>3. Report' = [f \in Requests |-> IF f = e THEN word ELSE ReportOf(f)]
  BY <1>2 DEF Report
<1>4. [Report EXCEPT ![e] = word] = [f \in Requests |-> IF f = e THEN word ELSE ReportOf(f)]
  BY DEF Report
<1>5. Report' = [Report EXCEPT ![e] = word]
  BY <1>3, <1>4
<1>6. (s = SUCCESS => word = "success") /\ (s = FAILURE => word = "failure")
  BY DEF word
<1> QED
  BY <1>5, <1>6

\* A step that leaves the job, its outcome and what is finalized
LEMMA OtherServes ==
  ASSUME Reported, i2c' = i2c, outcome' = outcome, Finalized' = Finalized
  PROVE  Reported' /\ [Service!Next]_(Service!vars)
<1>1. \A e \in Requests : request'[e] = "done" <=> request[e] = "done"
  BY DEF Finalized
<1>2. Reported'
  BY <1>1 DEF Reported
<1>3. UNCHANGED Service!vars
  BY ServiceStutters DEF Tasks
<1> QED
  BY <1>2, <1>3

\* A turn of the job in which its handler is called
LEMMA HandlerServes ==
  ASSUME IInv, Reported, cpu = "i2c", ~Stored(i2c),
         NEW s \in {CONTINUE, WAIT, QUIT_ISR, LOOP, TASK_SUCCESS, TASK_FAILURE, SUCCESS},
         Returns(s), s = TASK_SUCCESS => i2c.phase # 3,
         s \in {CONTINUE, WAIT} => i2c.task < 20
  PROVE  Reported' /\ [Service!Next]_(Service!vars)
<1>1. /\ i2c.event # 0 /\ i2c.event \in Requests /\ outcome[i2c.event] = 0
      /\ i2c.phase \in 0..3 /\ i2c.task \notin {TASK_SUCCESS, TASK_FAILURE} /\ i2c.task \in Nat
  BY DEF IInv, Shape, JobType, Occupied, Reported, Stored
<1>2. /\ request' = request /\ i2c'.event = i2c.event
      /\ i2c'.phase = IF s = SUCCESS THEN s ELSE i2c.phase
      /\ s \in {CONTINUE, WAIT} => i2c'.task = i2c.task + 1
      /\ s \in {TASK_SUCCESS, TASK_FAILURE} => i2c'.task = s
      /\ s \in {QUIT_ISR, LOOP, SUCCESS} => i2c'.task = i2c.task
      /\ outcome' = IF s = SUCCESS THEN [outcome EXCEPT ![i2c.event] = s] ELSE outcome
  BY HandlerTurn DEF IInv
<1>3. Finalized' = Finalized
  BY <1>2 DEF Finalized
<1>4. /\ i2c'.task = TASK_FAILURE <=> s = TASK_FAILURE
      /\ i2c'.task = TASK_SUCCESS => s = TASK_SUCCESS
  BY <1>1, <1>2
<1>5. CASE s = SUCCESS
  <2>1. /\ outcome' = [outcome EXCEPT ![i2c.event] = SUCCESS] /\ i2c'.phase = SUCCESS
        /\ i2c'.task # TASK_FAILURE /\ i2c'.task # TASK_SUCCESS
    BY <1>2, <1>4, <1>5
  <2>2. /\ outcome' \in [Requests -> {0, SUCCESS, FAILURE}] /\ outcome'[i2c.event] = SUCCESS
        /\ \A e \in Requests \ {i2c.event} : outcome'[e] = outcome[e]
    BY <1>1, <2>1 DEF Reported
  <2>3. Reported'
    BY <1>1, <1>2, <2>1, <2>2 DEF Reported
  <2>4. Report' = [Report EXCEPT ![i2c.event] = "success"]
    <3>1. PICK e \in Requests : e = i2c.event
      BY <1>1
    <3>2. PICK s1 \in {SUCCESS, FAILURE} : s1 = SUCCESS
      OBVIOUS
    <3>3. outcome' = [outcome EXCEPT ![e] = s1]
      BY <2>1, <3>1, <3>2
    <3>4. Report' = [Report EXCEPT ![e] = "success"]
      BY <3>2, <3>3, ReportChanges
    <3> QED
      BY <3>1, <3>4
  <2>5. Report[i2c.event] = "none" /\ Tasks = "sound" /\ Tasks' = Tasks
    BY <1>1, <2>1 DEF Report, ReportOf, Tasks
  <2>6. Service!Report("success")
    BY <1>1, <1>2, <1>3, <2>4, <2>5 DEF Service!Report, Report, Tasks, Finalized
  <2> QED
    BY <2>3, <2>6 DEF Service!Next
<1>6. CASE s # SUCCESS
  <2>1. outcome' = outcome /\ i2c'.phase = i2c.phase
    BY <1>2, <1>6
  <2>2. Reported'
    BY <1>1, <1>2, <1>4, <2>1 DEF Reported
  <2>3. CASE s = TASK_FAILURE
    <3>1. Report' = Report /\ Report[i2c.event] = "none" /\ Tasks' = "failed"
      BY <1>1, <1>4, <2>1, <2>3 DEF Report, ReportOf, Tasks
    <3>2. Service!TaskFails
      BY <1>1, <1>2, <1>3, <3>1 DEF Service!TaskFails, Report, Tasks, Finalized
    <3> QED
      BY <2>2, <3>2 DEF Service!Next
  <2>4. CASE s # TASK_FAILURE
    <3>1. Tasks' = Tasks
      BY <1>1, <1>4, <2>4 DEF Tasks
    <3> QED
      BY <1>2, <1>3, <2>1, <2>2, <3>1, ServiceStutters
  <2> QED
    BY <2>3, <2>4
<1> QED
  BY <1>5, <1>6

\* A turn of the job that takes back a stored signal
LEMMA StoredServes ==
  ASSUME IInv, Reported, cpu = "i2c", Stored(i2c), NEW s, Returns(s)
  PROVE  Reported' /\ [Service!Next]_(Service!vars)
<1>1. i2c.event # 0 /\ i2c.event \in Requests /\ i2c.phase \in 0..3 \cup {SUCCESS, FAILURE}
  BY DEF IInv, Shape, JobType, Occupied, Reported
<1>2. CASE /\ request' = request /\ i2c'.event = i2c.event
           /\ i2c.phase \notin {SUCCESS, FAILURE}
           /\ i2c.task = TASK_FAILURE /\ i2c'.phase = FAILURE /\ i2c'.task = i2c.task
           /\ outcome' = [outcome EXCEPT ![i2c.event] = FAILURE]
  <2>1. /\ outcome' \in [Requests -> {0, SUCCESS, FAILURE}] /\ outcome'[i2c.event] = FAILURE
        /\ \A e \in Requests \ {i2c.event} : outcome'[e] = outcome[e]
    BY <1>1, <1>2 DEF Reported
  <2>2. Reported'
    BY <1>1, <1>2, <2>1 DEF Reported
  <2>3. Report' = [Report EXCEPT ![i2c.event] = "failure"]
    <3>1. PICK e \in Requests : e = i2c.event
      BY <1>1
    <3>2. PICK s1 \in {SUCCESS, FAILURE} : s1 = FAILURE
      OBVIOUS
    <3>3. outcome' = [outcome EXCEPT ![e] = s1]
      BY <1>2, <3>1, <3>2
    <3>4. Report' = [Report EXCEPT ![e] = "failure"]
      BY <3>2, <3>3, ReportChanges
    <3> QED
      BY <3>1, <3>4
  <2>4. outcome[i2c.event] = 0
    BY <1>1, <1>2 DEF Reported
  <2>5. Report[i2c.event] = "none" /\ Tasks' = Tasks /\ Finalized' = Finalized
    BY <1>1, <1>2, <2>4 DEF Report, ReportOf, Tasks, Finalized
  <2>6. Service!Report("failure")
    BY <1>1, <1>2, <2>3, <2>5 DEF Service!Report, Report, Tasks, Finalized
  <2> QED
    BY <2>2, <2>6 DEF Service!Next
<1>3. CASE /\ request' = request /\ i2c'.event = i2c.event
           /\ i2c.phase \notin {SUCCESS, FAILURE}
           /\ i2c.task = TASK_SUCCESS /\ i2c'.phase = i2c.phase + 1 /\ i2c'.task = 0
           /\ outcome' = outcome
  <2>1. i2c.phase \in 0..2 /\ i2c'.phase \in 0..3
    BY <1>1, <1>3 DEF Reported
  <2>2. Reported'
    BY <1>1, <1>3, <2>1 DEF Reported
  <2>3. Tasks' = Tasks /\ Finalized' = Finalized
    BY <1>3 DEF Tasks, Finalized
  <2> QED
    BY <1>3, <2>2, <2>3, ServiceStutters
<1>4. CASE i2c.phase \in {SUCCESS, FAILURE} /\ Finalize /\ outcome' = outcome
  <2>1. /\ i2c' = NoJob /\ i2c'.event = 0 /\ i2c'.task = 0
        /\ request' = [e \in Requests |-> IF e = i2c.event THEN "done"
                                          ELSE IF request[e] = "deferred" THEN "published"
                                          ELSE request[e]]
    BY <1>4 DEF Finalize, NoJob
  <2>2. \A e \in Requests : request'[e] = "done" <=> request[e] = "done" \/ e = i2c.event
    BY <2>1
  <2>3. Finalized' = Finalized \cup {i2c.event}
    BY <1>1, <2>2 DEF Finalized
  <2>4. Reported'
    BY <1>4, <2>1, <2>2 DEF Reported
  <2>5. Report' = Report /\ Report[i2c.event] # "none" /\ Tasks' = "sound"
    BY <1>1, <1>4, <2>1 DEF Report, ReportOf, Reported, Tasks
  <2>6. Service!Release
    BY <1>1, <2>1, <2>3, <2>5 DEF Service!Release, Report, Tasks, Finalized
  <2> QED
    BY <2>4, <2>6 DEF Service!Next
<1> QED
  BY <1>2, <1>3, <1>4, StoredTurn DEF IInv

LEMMA JobTurnServes ==
  ASSUME IInv, Reported, JobTurn
  PROVE  Reported' /\ [Service!Next]_(Service!vars)
<1> USE DEF Stored
<1>1. CASE HandleError
  <2>1. Returns(TASK_FAILURE) /\ cpu = "i2c"
    BY <1>1 DEF HandleError, Returns
  <2> QED
    BY <2>1, HandlerServes, StoredServes
<1>2. CASE TakeBack
  <2>1. Returns(HALT) /\ cpu = "i2c" /\ Stored(i2c)
    BY <1>2 DEF TakeBack, Returns
  <2> QED
    BY <2>1, StoredServes
<1>3. CASE Setup \/ StartRead \/ FinishRead \/ StartWrite \/ FinishWrite \/ PublishResponse \/ Succeed
  <2>1. cpu = "i2c" /\ ~Stored(i2c)
    BY <1>3 DEF Setup, StartRead, FinishRead, StartWrite, FinishWrite, PublishResponse, Succeed, At
  <2>2. \E s \in {CONTINUE, WAIT, QUIT_ISR, LOOP, TASK_SUCCESS, SUCCESS} :
           /\ Returns(s) /\ (s = TASK_SUCCESS => i2c.phase # 3)
           /\ s \in {CONTINUE, WAIT} => i2c.task < 20
    <3>1. CASE Setup
      BY <3>1 DEF Setup, At
    <3>2. CASE StartRead
      BY <3>2 DEF StartRead, At
    <3>3. CASE FinishRead
      BY <3>3 DEF FinishRead, At
    <3>4. CASE StartWrite
      BY <3>4 DEF StartWrite, At
    <3>5. CASE FinishWrite
      BY <3>5 DEF FinishWrite, At
    <3>6. CASE PublishResponse
      BY <3>6 DEF PublishResponse, At
    <3>7. CASE Succeed
      BY <3>7 DEF Succeed, At
    <3> QED
      BY <1>3, <3>1, <3>2, <3>3, <3>4, <3>5, <3>6, <3>7
  <2> QED
    BY <2>1, <2>2, HandlerServes
<1> QED
  BY <1>1, <1>2, <1>3 DEF JobTurn

LEMMA OfferServes ==
  ASSUME IInv, Reported, NEW e \in Requests, Offer(e)
  PROVE  Reported' /\ [Service!Next]_(Service!vars)
<1>1. request[e] = "published" /\ outcome' = outcome /\ e # 0
  BY I2cAssumption DEF Offer
<1>2. CASE i2c.event = 0
  <2>1. request' = [request EXCEPT ![e] = "accepted"] /\ i2c' = [NoJob EXCEPT !.event = e]
    BY <1>2 DEF Offer
  <2>2. i2c'.event = e /\ i2c'.phase = 0 /\ i2c'.task = 0 /\ i2c.task = 0
    BY <1>2, <2>1 DEF NoJob, Reported
  <2>3. \A f \in Requests : request'[f] = "done" <=> request[f] = "done"
    BY <1>1, <2>1 DEF IInv, Shape
  <2>4. \A f \in Requests : request[f] # "done" => outcome[f] = 0
    BY <1>2, I2cAssumption DEF Reported
  <2>5. Reported'
    BY <1>1, <1>2, <2>2, <2>3, <2>4 DEF Reported
  <2>6. /\ Report' = Report /\ Tasks' = Tasks /\ Finalized' = Finalized
        /\ e \notin Finalized
    BY <1>1, <2>2, <2>3 DEF Report, ReportOf, Tasks, Finalized
  <2>7. Service!Accept(e)
    BY <1>2, <2>2, <2>6 DEF Service!Accept, Report, Tasks, Finalized
  <2> QED
    BY <2>5, <2>7 DEF Service!Next
<1>3. CASE i2c.event # 0
  <2>1. request' = [request EXCEPT ![e] = "deferred"] /\ i2c' = i2c
    BY <1>3 DEF Offer
  <2>2. Finalized' = Finalized
    BY <1>1, <2>1 DEF Finalized, IInv, Shape
  <2> QED
    BY <1>1, <2>1, <2>2, OtherServes
<1> QED
  BY <1>2, <1>3

LEMMA StepServes ==
  ASSUME IInv, Reported, [Next]_vars
  PROVE  Reported' /\ [Service!Next]_(Service!vars)
<1>1. CASE JobTurn
  BY <1>1, JobTurnServes
<1>2. ASSUME NEW e \in Requests, Offer(e)
      PROVE  Reported' /\ [Service!Next]_(Service!vars)
  BY <1>2, OfferServes
<1>3. ASSUME i2c' = i2c, outcome' = outcome, request' = request
      PROVE  Reported' /\ [Service!Next]_(Service!vars)
  <2>1. Finalized' = Finalized
    BY <1>3 DEF Finalized
  <2> QED
    BY <1>3, <2>1, OtherServes
<1>4. ASSUME i2c' = i2c, outcome' = outcome,
             NEW e \in Requests, request[e] = "none", request' = [request EXCEPT ![e] = "published"]
      PROVE  Reported' /\ [Service!Next]_(Service!vars)
  <2>1. Finalized' = Finalized
    BY <1>4 DEF Finalized, IInv, Shape
  <2> QED
    BY <1>4, <2>1, OtherServes
<1>5. CASE (\E e \in Requests : Receive(e)) \/ RunInThread \/ Notify \/ DmaInterrupt \/ BusStep
  BY <1>3, <1>5 DEF Receive, RunInThread, Notify, DmaInterrupt, BusStep
<1>6. CASE Transfer \/ Diagnose \/ RunDriver
  BY <1>3, <1>6 DEF Transfer, DmaStep, Diagnose, RunDriver
<1>7. CASE \E e \in Requests : PublishRead(e)
  BY <1>4, <1>7 DEF PublishRead
<1>8. CASE DriverTurn
  <2>1. i2c' = i2c /\ outcome' = outcome
    BY <1>8 DEF DriverTurn, TaskRead, TaskWrite, Compare, CleanUp, DriverReturns
  <2>2. request' = request \/ \E type \in {"READ_TO_BUFFER", "WRITE"} : Request(type)
    BY <1>8 DEF DriverTurn, TaskRead, TaskWrite, Compare, CleanUp
  <2>3. CASE request' = request
    BY <1>3, <2>1, <2>3
  <2>4. ASSUME NEW type \in {"READ_TO_BUFFER", "WRITE"}, Request(type)
        PROVE  Reported' /\ [Service!Next]_(Service!vars)
    BY <1>4, <2>1, <2>4 DEF Request
  <2> QED
    BY <2>2, <2>3, <2>4
<1>9. CASE UNCHANGED vars
  BY <1>3, <1>9 DEF vars, i2cVars
<1> QED
  BY <1>1, <1>2, <1>5, <1>6, <1>7, <1>8, <1>9 DEF Next, Transport

\* i2c's job slot keeps the promise of JobService, under any load and on any bus.
THEOREM TransportImplementsService == Spec => TransportServes
<1>1. Init => Reported /\ Service!Init
  <2> SUFFICES ASSUME Init PROVE Reported /\ Service!Init
    OBVIOUS
  <2>1. i2c = NoJob /\ i2c.event = 0 /\ i2c.task = 0
    BY DEF Init, I2cInit, NoJob
  <2>2. Reported
    BY <2>1 DEF Init, I2cInit, Reported
  <2>3. Report = [e \in Requests |-> "none"] /\ Tasks = "sound" /\ Finalized = {}
    BY <2>1 DEF Init, I2cInit, Report, ReportOf, Tasks, Finalized
  <2> QED
    BY <2>1, <2>2, <2>3 DEF Service!Init, Report, Tasks, Finalized
<1>2. IInv /\ Reported /\ [Next]_vars => Reported' /\ [Service!Next]_(Service!vars)
  BY StepServes
<1> QED
  BY <1>1, <1>2, EepromConsistent, PTL DEF Spec, TransportServes, Service!Spec
-----------------------------------------------------------------------------
\* A stream has signalled its end only after it moved its last byte.
Flag == bus # "failed" /\ incoming = TRUE => dma \notin {"off", "rx", "tx"}

\* What the diagnosis writes, and what it hopes to read back
Succ == (before + 1) % Bytes

\* The transport has moved the byte of the driver's request.
Moved ==
  /\ bus # "failed" /\ i2c.event \in Asked
  /\ \/ i2c.phase = 1 /\ Reading /\ i2c.task = 4 /\ dma # "rx"
     \/ i2c.phase = 1 /\ ~Reading /\ i2c.task = 2 /\ dma # "tx"
     \/ i2c.phase = 1 /\ ~Reading /\ i2c.task = 3
     \/ i2c.phase = 1 /\ i2c.task = TASK_SUCCESS
     \/ i2c.phase \in {2, 3, SUCCESS}

\* It has, or it has reported so and the driver may learn of it.
Done == Moved \/ (Asked = {} /\ (bus # "failed" \/ cpu = "at24c"))

\* What the bytes are, by the driver's phase
Known ==
  job.event # 0 =>
    /\ job.phase \in 0..3 \cup {SUCCESS, FAILURE} /\ job.task # TASK_FAILURE
    /\ job.phase = 0 =>
         /\ cells = before
         /\ (job.task = 2 /\ Done) \/ job.task = TASK_SUCCESS => target.byte = before
    /\ job.phase = 1 =>
         /\ target.byte = before
         /\ job.task \in {1, 2} => snapshot.byte = Succ
         /\ (job.task = 2 /\ Done) \/ job.task = TASK_SUCCESS => cells = Succ
    /\ job.phase = 2 =>
         /\ cells = Succ
         /\ job.task = 0 => target.byte = before
         /\ job.task # 0 => first.byte = before
         /\ (job.task = 2 /\ Done) \/ job.task = TASK_SUCCESS => target.byte = Succ
    /\ job.phase = 3 =>
         /\ job.task = 0
         /\ cells = Succ /\ first.byte = before /\ target.byte = Succ
    /\ job.phase = SUCCESS => cells = before + 1
    /\ job.phase = FAILURE => before = Bytes - 1

Ranges == cells \in 0..Bytes - 1 /\ before \in 0..Bytes - 1

KInv == Flag /\ Known /\ Ranges

\* A turn that keeps the request and brings its transfer no further
LEMMA GoesOnDone ==
  ASSUME IInv, Goes, bus # "failed", Moved' => Moved
  PROVE  Done' => Done
<1>1. Asked' = Asked
  BY DEF Goes, Asked
<1>2. cpu' # "at24c"
  BY DEF Goes
<1> QED
  BY <1>1, <1>2 DEF Done

\* A turn of the transport's job does not end a transfer: an interrupt has told it.
LEMMA JobTurnMoves ==
  ASSUME IInv, Flag, JobTurn
  PROVE  Flag' /\ (Done' => Done)
<1>1. /\ cpu = "i2c" /\ i2c.event # 0 /\ i2c.event \in Requests /\ cpu' # "at24c"
      /\ bus' = "failed" => bus = "failed"
      /\ i2c.phase \in Nat /\ i2c.task \in Nat
  BY JobTurnKeeps, Numbers DEF Turn, Goes, IInv, Shape, JobType, Occupied
<1>2. CASE bus = "failed"
  <2>1. bus' = "failed"
    BY <1>2, JobTurnKeeps
  <2> QED
    BY <1>1, <2>1 DEF Flag, Done, Moved
<1>3. CASE bus # "failed" /\ TakeBack
  <2>1. /\ UNCHANGED <<incoming, bus, dma>> /\ Stored(i2c) /\ Returns(HALT)
    BY <1>3 DEF TakeBack, deviceVars
  <2>2. Flag'
    BY <2>1 DEF Flag
  <2>3. CASE /\ Goes /\ i2c.phase \notin {SUCCESS, FAILURE} /\ i2c.task = TASK_SUCCESS
             /\ i2c'.phase = i2c.phase + 1 /\ i2c'.task = 0
    <3>1. Asked' = Asked
      BY <2>3 DEF Goes, Asked
    <3>2. i2c.phase \in 0..2
      BY <1>1, <1>3, <2>3 DEF IInv, Path
    <3>3. Moved' => Moved
      BY <1>3, <2>3, <3>1, <3>2 DEF Moved, Goes
    <3> QED
      BY <1>3, <2>2, <2>3, <3>3, GoesOnDone
  <2>4. CASE i2c.phase \in {SUCCESS, FAILURE} /\ Finalize
    <3>1. i2c.phase = SUCCESS
      BY <1>1, <1>3, <2>4 DEF IInv, Path
    <3>2. i2c.event \in Asked => Moved
      BY <1>3, <3>1 DEF Moved
    <3>3. i2c'.event = 0 /\ Asked' = Asked \ {i2c.event}
      BY <2>4 DEF Finalize, NoJob, Asked
    <3>4. ~Moved'
      BY <3>3, I2cAssumption DEF Moved, Asked
    <3>5. i2c.event \notin Asked /\ Asked' = {} => Asked = {}
      BY <3>3
    <3> QED
      BY <1>1, <1>3, <2>2, <3>2, <3>4, <3>5 DEF Done
  <2>5. i2c.task # TASK_FAILURE \/ i2c.phase \in {SUCCESS, FAILURE}
    BY <1>1, <1>3 DEF IInv, Path
  <2> QED
    BY <2>1, <2>3, <2>4, <2>5, StoredTurn DEF IInv, Goes
<1>4. ASSUME NEW s \in Signals, Returns(s), ~Stored(i2c) PROVE GoesOn(s) /\ Goes /\ Asked' = Asked
  <2>1. GoesOn(s)
    BY <1>4, HandlerGoes DEF IInv
  <2> QED
    BY <2>1 DEF GoesOn, Goes, Asked
<1>5. CASE bus # "failed" /\ Setup
  <2>1. UNCHANGED <<incoming, dma>> /\ i2c.phase = 0
    BY <1>5 DEF Setup, At
  <2>2. Flag'
    BY <1>5, <2>1 DEF Flag
  <2>3. Goes /\ i2c'.phase = 0
    BY <1>4, <1>5 DEF Setup, At, Signals, GoesOn
  <2>4. ~Moved'
    BY <2>3 DEF Moved
  <2> QED
    BY <1>5, <2>2, <2>3, <2>4, GoesOnDone
<1>6. CASE bus # "failed" /\ StartRead
  <2>1. i2c.phase = 1 /\ Reading /\ i2c.task \in 0..3 /\ ~Stored(i2c)
    BY <1>6 DEF StartRead, At
  <2>2. incoming' = incoming /\ incoming # TRUE
    <3>1. dma = "off"
      BY <1>1, <1>6, <2>1 DEF IInv, Streams
    <3>2. incoming' = incoming
      BY <1>6 DEF StartRead
    <3> QED
      BY <1>6, <3>1, <3>2 DEF Flag
  <2>3. /\ Goes /\ i2c'.phase = 1
        /\ \/ i2c'.task = i2c.task
           \/ i2c.task \in {0, 1, 2} /\ i2c'.task = i2c.task + 1
           \/ i2c'.task = 4 /\ dma' = "rx"
    <3>1. ASSUME NEW s \in {CONTINUE, WAIT, LOOP, QUIT_ISR}, Returns(s)
          PROVE  /\ Goes /\ i2c'.phase = 1
                 /\ i2c'.task = IF s \in {CONTINUE, WAIT} THEN i2c.task + 1 ELSE i2c.task
      BY <1>4, <2>1, <3>1 DEF Signals, GoesOn
    <3> QED
      BY <1>6, <2>1, <3>1 DEF StartRead
  <2>4. ~Moved'
    BY <2>1, <2>3 DEF Moved, Goes, Reading
  <2>5. Flag'
    BY <2>1, <2>2 DEF Flag
  <2> QED
    BY <1>6, <2>3, <2>4, <2>5, GoesOnDone
<1>7. CASE bus # "failed" /\ FinishRead
  <2>1. i2c.phase = 1 /\ Reading /\ i2c.task = 4 /\ ~Stored(i2c)
    BY <1>7 DEF FinishRead, At
  <2>2. ASSUME NEW s \in {LOOP, TASK_SUCCESS}, Returns(s)
        PROVE  Goes /\ Asked' = Asked /\ i2c'.phase = 1 /\ i2c'.task = IF s = LOOP THEN 4 ELSE s
    BY <1>4, <2>1, <2>2 DEF Signals, GoesOn
  <2>3. CASE incoming = TRUE
    <3>1. incoming' = FALSE /\ Goes /\ Asked' = Asked
      BY <2>1, <2>2, <2>3, <1>7 DEF FinishRead
    <3>2. i2c.event \in Asked => Moved
      BY <1>7, <2>1, <2>3 DEF Moved, Flag
    <3>3. Moved' => Moved
      BY <3>1, <3>2 DEF Moved, Goes
    <3> QED
      BY <1>7, <3>1, <3>3, GoesOnDone DEF Flag
  <2>4. CASE incoming # TRUE
    <3>1. UNCHANGED <<incoming, dma, bus>> /\ Goes /\ Asked' = Asked /\ i2c'.task = 4 /\ i2c'.phase = 1
      BY <2>1, <2>2, <2>4, <1>7 DEF FinishRead
    <3>2. Moved' => Moved
      BY <2>1, <3>1 DEF Moved, Goes, Reading
    <3> QED
      BY <1>7, <2>4, <3>1, <3>2, GoesOnDone DEF Flag
  <2> QED
    BY <2>3, <2>4
<1>8. CASE bus # "failed" /\ StartWrite
  <2>1. i2c.phase = 1 /\ ~Reading /\ i2c.task \in {0, 1} /\ ~Stored(i2c)
    BY <1>8 DEF StartWrite, At
  <2>2. incoming' = incoming /\ incoming # TRUE
    <3>1. dma = "off"
      BY <1>1, <1>8, <2>1 DEF IInv, Streams
    <3>2. incoming' = incoming
      BY <1>8 DEF StartWrite
    <3> QED
      BY <1>8, <3>1, <3>2 DEF Flag
  <2>3. /\ Goes /\ i2c'.phase = 1
        /\ \/ i2c'.task = i2c.task
           \/ i2c.task = 0 /\ i2c'.task = 1
           \/ i2c'.task = 2 /\ dma' = "tx"
    <3>1. ASSUME NEW s \in {CONTINUE, QUIT_ISR}, Returns(s)
          PROVE  /\ Goes /\ i2c'.phase = 1
                 /\ i2c'.task = IF s = CONTINUE THEN i2c.task + 1 ELSE i2c.task
      BY <1>4, <2>1, <3>1 DEF Signals, GoesOn
    <3> QED
      BY <1>8, <2>1, <3>1 DEF StartWrite
  <2>4. ~Moved'
    BY <2>1, <2>3 DEF Moved, Goes, Reading
  <2>5. Flag'
    BY <2>1, <2>2 DEF Flag
  <2> QED
    BY <1>8, <2>3, <2>4, <2>5, GoesOnDone
<1>9. CASE bus # "failed" /\ FinishWrite
  <2>1. i2c.phase = 1 /\ ~Reading /\ i2c.task \in {2, 3} /\ ~Stored(i2c)
    BY <1>9 DEF FinishWrite, At
  <2>2. ASSUME NEW s \in {CONTINUE, LOOP, TASK_SUCCESS}, Returns(s)
        PROVE  /\ Goes /\ Asked' = Asked /\ i2c'.phase = 1
               /\ s = LOOP => i2c'.task = i2c.task
    BY <1>4, <2>1, <2>2 DEF Signals, GoesOn
  <2>3. CASE i2c.task = 2 /\ incoming = TRUE
    <3>1. incoming' = FALSE /\ Goes /\ Asked' = Asked
      BY <2>1, <2>2, <2>3, <1>9 DEF FinishWrite
    <3>2. i2c.event \in Asked => Moved
      BY <1>9, <2>1, <2>3 DEF Moved, Flag
    <3>3. Moved' => Moved
      BY <3>1, <3>2 DEF Moved, Goes
    <3> QED
      BY <1>9, <3>1, <3>3, GoesOnDone DEF Flag
  <2>4. CASE i2c.task = 2 /\ incoming # TRUE
    <3>1. Returns(LOOP) /\ UNCHANGED <<incoming, dma, bus>>
      <4>1. i2c.task # 3
        BY <2>4
      <4>2. ~incoming => Returns(LOOP) /\ UNCHANGED <<incoming, dma, bus>>
        BY <1>9, <4>1 DEF FinishWrite
      <4> QED
        BY <2>4, <4>2
    <3>2. Goes /\ Asked' = Asked /\ i2c'.task = 2 /\ i2c'.phase = 1
      BY <2>2, <2>4, <3>1
    <3>3. Moved' => Moved
      BY <2>1, <2>4, <3>1, <3>2 DEF Moved, Goes, Reading
    <3> QED
      BY <1>9, <2>4, <3>1, <3>2, <3>3, GoesOnDone DEF Flag
  <2>5. CASE i2c.task = 3
    <3>1. UNCHANGED <<incoming, dma>> /\ Goes /\ Asked' = Asked
      BY <2>1, <2>2, <2>5, <1>9 DEF FinishWrite
    <3>2. Moved' => Moved
      BY <1>9, <2>1, <2>5, <3>1 DEF Moved, Goes
    <3> QED
      BY <1>9, <3>1, <3>2, GoesOnDone DEF Flag
  <2> QED
    BY <2>1, <2>3, <2>4, <2>5
<1>10. CASE bus # "failed" /\ (PublishResponse \/ Succeed)
  <2>1. UNCHANGED <<incoming, dma>> /\ i2c.phase \in {2, 3} /\ Goes /\ Asked' = Asked
    BY <1>4, <1>10 DEF PublishResponse, Succeed, At, deviceVars, Signals
  <2>2. Moved' => Moved
    BY <1>10, <2>1 DEF Moved, Goes
  <2> QED
    BY <1>10, <2>1, <2>2, GoesOnDone DEF Flag
<1>11. CASE HandleError
  BY <1>2, <1>11 DEF HandleError
<1> QED
  BY <1>2, <1>3, <1>5, <1>6, <1>7, <1>8, <1>9, <1>10, <1>11 DEF JobTurn
Bytewise == <<before, cells, target, snapshot, first>>

\* A step that touches neither the driver's job nor a byte, and ends no transfer
LEMMA QuietKeeps ==
  ASSUME KInv, UNCHANGED job, UNCHANGED Bytewise, Flag', Done' => Done
  PROVE  KInv'
<1>1. Ranges'
  BY DEF KInv, Ranges, Bytewise
<1>2. Known'
  <2>1. CASE Done'
    BY <2>1 DEF KInv, Known, Bytewise, Succ
  <2>2. CASE ~Done'
    BY <2>2 DEF KInv, Known, Bytewise, Succ
  <2> QED
    BY <2>1, <2>2
<1> QED
  BY <1>1, <1>2 DEF KInv

\* Outside the turns of its job no transfer comes further but by its stream.
LEMMA StaysDone ==
  ASSUME i2c' = i2c, Asked' = Asked, bus' = "failed" \/ bus # "failed",
         cpu' = "at24c" => cpu = "at24c" \/ bus # "failed",
         dma = "rx" => dma' = "rx", dma = "tx" => dma' = "tx"
  PROVE  Done' => Done
<1>1. Moved' => Moved
  BY DEF Moved, Reading
<1> QED
  BY <1>1 DEF Done

LEMMA TransportKnows ==
  ASSUME IInv, KInv, Transport
  PROVE  KInv'
<1>1. UNCHANGED job /\ UNCHANGED Bytewise
  BY DEF Transport, driverVars, Bytewise
<1>2. SUFFICES Flag' /\ (Done' => Done)
  BY <1>1, QuietKeeps
<1>3. ASSUME NEW e \in Requests, Offer(e) PROVE Flag' /\ (Done' => Done)
  <2>1. /\ bus # "failed" /\ request[e] = "published" /\ cpu = "threads"
        /\ UNCHANGED <<incoming, bus, dma, cpu>>
    BY <1>3 DEF Offer, ThreadsRun, deviceVars
  <2>2. Flag'
    BY <2>1 DEF KInv, Flag
  <2>3. PICK s \in {"accepted", "deferred"} :
          /\ request' = [request EXCEPT ![e] = s]
          /\ s = "accepted" => i2c' = [NoJob EXCEPT !.event = e]
          /\ s = "deferred" => i2c' = i2c
    BY <1>3 DEF Offer
  <2>4. Asked' = Asked
    BY <2>1, <2>3 DEF Asked, IInv, Shape
  <2>5. CASE s = "deferred"
    BY <2>1, <2>2, <2>3, <2>4, <2>5, StaysDone
  <2>6. CASE s = "accepted"
    <3>1. i2c'.phase = 0
      BY <2>3, <2>6 DEF NoJob
    <3>2. ~Moved'
      BY <3>1 DEF Moved
    <3> QED
      BY <2>1, <2>2, <2>4, <3>2 DEF Done
  <2> QED
    BY <2>5, <2>6
<1>4. CASE (\E e \in Requests : Receive(e)) \/ RunInThread \/ Notify \/ BusStep
  <2>1. /\ UNCHANGED <<i2c, request, incoming, dma>> /\ (bus' = "failed" \/ bus # "failed")
        /\ cpu' = "at24c" => cpu = "at24c"
    BY <1>4 DEF Receive, RunInThread, Notify, BusStep, deviceVars, ThreadsRun
  <2>2. Asked' = Asked
    BY <2>1 DEF Asked
  <2>3. Flag'
    BY <2>1 DEF KInv, Flag
  <2> QED
    BY <2>1, <2>2, <2>3, StaysDone
<1>5. CASE DmaInterrupt
  <2>1. /\ UNCHANGED <<i2c, request, bus>> /\ cpu' = "i2c"
        /\ dma \notin {"rx", "tx"} /\ dma' \in {"rx idle", "tx idle"}
    BY <1>5 DEF DmaInterrupt, DmaFlag
  <2>2. Asked' = Asked
    BY <2>1 DEF Asked
  <2>3. Flag'
    BY <2>1 DEF Flag
  <2> QED
    BY <2>1, <2>2, <2>3, StaysDone
<1>6. CASE JobTurn
  BY <1>6, JobTurnMoves DEF KInv
<1> QED
  BY <1>3, <1>4, <1>5, <1>6 DEF Transport

\* What is written is a byte.
LEMMA SuccByte ==
  ASSUME Ranges
  PROVE  /\ Succ \in 0..Bytes - 1
         /\ Succ = before + 1 \/ (before = Bytes - 1 /\ Succ # before + 1)
<1>1. before \in Int /\ 0 <= before /\ before <= Bytes - 1 /\ Bytes \in Nat /\ Bytes > 1
  BY EepromAssumption DEF Ranges
<1>2. CASE before = Bytes - 1
  BY <1>1, <1>2 DEF Succ
<1>3. CASE before # Bytes - 1
  <2>1. (before + 1) % Bytes = before + 1
    BY <1>1, <1>3
  <2> QED
    BY <1>1, <1>3, <2>1 DEF Succ
<1> QED
  BY <1>2, <1>3

\* The stream moves the byte that the driver waits for.
LEMMA TransferKnows ==
  ASSUME IInv, KInv, Transfer, UNCHANGED <<job, snapshot, first, before, asked>>
  PROVE  KInv'
<1>1. /\ UNCHANGED <<i2c, request, cpu, incoming>> /\ bus # "failed" /\ bus' # "failed"
      /\ dma \in {"rx", "tx"} /\ dma' \in {"rx done", "tx done"}
      /\ i2c.event # 0 /\ i2c.event \in Requests
  BY DEF Transfer, DmaStep, IInv, Streams, Shape, JobType
<1>2. Asked' = Asked
  BY <1>1 DEF Asked
<1>3. Flag'
  BY <1>1 DEF Flag
<1>4. CASE TypeOf[i2c.event] = "READ"
  <2>1. dma = "rx" /\ DmaStep("rx")
    BY <1>1, <1>4 DEF Transfer, DmaStep, IInv, Streams, Reading
  <2>2. UNCHANGED Bytewise
    BY <1>4, <2>1 DEF Transfer, DmaStep, Bytewise
  <2>3. i2c.event \notin Asked /\ i2c'.event \notin Asked'
    BY <1>1, <1>2, <1>4 DEF Asked
  <2>4. Done' => Done
    BY <1>1, <1>2, <2>3 DEF Done, Moved
  <2> QED
    BY <1>3, <2>2, <2>4, QuietKeeps
<1>5. CASE TypeOf[i2c.event] # "READ"
  <2>1. i2c.event \in Asked
    BY <1>1, <1>5 DEF Asked, IInv, Occupied
  <2>2. /\ job.event # 0 /\ job.task = 2
        /\ job.phase \in IF TypeOf[i2c.event] = "WRITE" THEN {1} ELSE {0, 2}
    BY <2>1 DEF IInv, Waits
  <2>3. CASE TypeOf[i2c.event] = "WRITE"
    <3>1. dma = "tx" /\ cells' = snapshot.byte /\ target' = target
      BY <1>1, <2>3 DEF Transfer, DmaStep, IInv, Streams, Reading
    <3>2. job.phase = 1
      BY <2>2, <2>3
    <3>3. cells' = Succ /\ Succ' = Succ
      BY <2>2, <3>1, <3>2 DEF KInv, Known, Succ
    <3>4. Known'
      BY <2>2, <3>1, <3>2, <3>3 DEF KInv, Known
    <3>5. Ranges'
      BY <3>3, SuccByte DEF KInv, Ranges
    <3> QED
      BY <1>3, <3>4, <3>5 DEF KInv
  <2>4. CASE TypeOf[i2c.event] # "WRITE"
    <3>1. TypeOf[i2c.event] = "READ_TO_BUFFER"
      BY <1>1, <1>5, <2>4, I2cAssumption
    <3>2. dma = "rx" /\ cells' = cells
      BY <1>1, <2>4 DEF Transfer, DmaStep, IInv, Streams, Reading
    <3>3. target' = [target EXCEPT !.byte = cells]
      BY <3>1, <3>2 DEF Transfer, DmaStep
    <3>4. target'.byte = cells
      BY <3>3 DEF IInv, Shape, BufferType
    <3>5. job.phase \in {0, 2} /\ Succ' = Succ
      BY <2>2, <2>4 DEF Succ
    <3>6. Known'
      BY <2>2, <3>2, <3>4, <3>5 DEF KInv, Known
    <3>7. Ranges'
      BY <3>2 DEF KInv, Ranges
    <3> QED
      BY <1>3, <3>6, <3>7 DEF KInv
  <2> QED
    BY <2>3, <2>4
<1> QED
  BY <1>4, <1>5

LEMMA PublishReadKnows ==
  ASSUME IInv, KInv, NEW e \in Requests, PublishRead(e)
  PROVE  KInv'
<1>1. /\ UNCHANGED <<i2c, incoming, bus, dma, cpu, job>> /\ UNCHANGED Bytewise /\ bus # "failed"
      /\ request[e] = "none" /\ request' = [request EXCEPT ![e] = "published"] /\ TypeOf[e] = "READ"
  BY DEF PublishRead, ThreadsRun, deviceVars, driverVars, Bytewise
<1>2. Asked' = Asked
  BY <1>1 DEF Asked, IInv, Shape
<1>3. Flag'
  BY <1>1 DEF KInv, Flag
<1>4. Done' => Done
  BY <1>1, <1>2, StaysDone
<1> QED
  BY <1>1, <1>3, <1>4, QuietKeeps

\* The ghost takes the byte the diagnosis finds.
LEMMA DiagnoseKnows ==
  ASSUME IInv, KInv, Diagnose
  PROVE  KInv'
<1>1. /\ UNCHANGED <<i2c, request, incoming, bus, dma, cpu>> /\ bus # "failed"
      /\ UNCHANGED <<cells, target, snapshot, first>>
  BY DEF Diagnose, ThreadsRun, deviceVars
<1>2. Flag'
  BY <1>1 DEF KInv, Flag
<1>3. CASE job.event = 0
  <2>1. job' = [NoJob EXCEPT !.event = 1] /\ before' = cells
    BY <1>3 DEF Diagnose
  <2>2. job'.phase = 0 /\ job'.task = 0
    BY <2>1 DEF NoJob
  <2>3. Known'
    BY <1>1, <2>1, <2>2 DEF Known
  <2>4. Ranges'
    BY <1>1, <2>1 DEF KInv, Ranges
  <2> QED
    BY <1>2, <2>3, <2>4 DEF KInv
<1>4. CASE job.event # 0
  <2>1. UNCHANGED job /\ UNCHANGED Bytewise
    BY <1>1, <1>4 DEF Diagnose, Bytewise
  <2>2. Asked' = Asked
    BY <1>1 DEF Asked
  <2>3. Done' => Done
    BY <1>1, <2>2, StaysDone
  <2> QED
    BY <1>2, <2>1, <2>3, QuietKeeps
<1> QED
  BY <1>3, <1>4

LEMMA RunDriverKnows ==
  ASSUME IInv, KInv, RunDriver
  PROVE  KInv'
<1>1. /\ UNCHANGED <<i2c, request, incoming, bus, dma, job>> /\ UNCHANGED Bytewise /\ bus # "failed"
  BY DEF RunDriver, ThreadsRun, deviceVars, driverVars, Bytewise
<1>2. Asked' = Asked
  BY <1>1 DEF Asked
<1>3. Flag'
  BY <1>1 DEF KInv, Flag
<1>4. Done' => Done
  BY <1>1, <1>2, StaysDone
<1> QED
  BY <1>1, <1>3, <1>4, QuietKeeps
-----------------------------------------------------------------------------
\* While the driver executes, what it waited for is done; a turn moves no byte of the
\* EEPROM and touches no stream.
LEMMA DriverKnows ==
  ASSUME IInv, KInv, NEW s, DriverReturns(s)
  PROVE  /\ Done /\ Asked = {} /\ job.event # 0
         /\ Flag' /\ Ranges' /\ UNCHANGED <<i2c, cells, before>> /\ Succ' = Succ
<1>1. cpu = "at24c" /\ UNCHANGED <<i2c, incoming, bus, dma, cells, before>>
  BY DEF DriverReturns, deviceVars
<1>2. Asked = {} /\ Done /\ job.event # 0
  BY <1>1, DriverAlone DEF Done, IInv, Lends
<1>3. Flag' /\ Ranges' /\ Succ' = Succ
  BY <1>1 DEF KInv, Flag, Ranges, Succ
<1> QED
  BY <1>1, <1>2, <1>3

\* A new request is not done.
LEMMA RequestOpens ==
  ASSUME IInv, NEW type \in {"READ_TO_BUFFER", "WRITE"}, Request(type), Asked = {}, i2c' = i2c
  PROVE  ~Done'
<1>1. PICK e \in Requests : /\ TypeOf[e] = type /\ request[e] = "none"
                            /\ request' = [request EXCEPT ![e] = "published"]
  BY DEF Request
<1>2. Asked' = {e}
  BY <1>1 DEF Asked, IInv, Shape
<1>3. i2c.event # e
  BY <1>1, I2cAssumption DEF IInv, Occupied
<1> QED
  BY <1>2, <1>3 DEF Done, Moved

LEMMA TaskReadKnows ==
  ASSUME IInv, KInv, TaskRead
  PROVE  KInv'
<1>1. ~Stored(job) /\ job.phase \in {0, 2} /\ snapshot' = snapshot
  BY DEF TaskRead, DriverAt
<1>2. CASE /\ job.task = 0 /\ first' = (IF job.phase = 2 THEN target ELSE first)
           /\ DriverReturns(CONTINUE)
  <2>1. job'.phase = job.phase /\ job'.task = 1 /\ job'.event = job.event
    BY <1>1, <1>2, DriverHandlerTurn DEF IInv, DriverSignals
  <2>2. /\ Flag' /\ Ranges' /\ UNCHANGED <<cells, before>> /\ Succ' = Succ /\ job.event # 0
    BY <1>2, DriverKnows
  <2>3. Known'
    BY <1>1, <1>2, <2>1, <2>2 DEF KInv, Known
  <2> QED
    BY <2>2, <2>3 DEF KInv
<1>3. CASE /\ job.task = 1 /\ Request("READ_TO_BUFFER") /\ DriverReturns(WAIT)
           /\ UNCHANGED <<target, first>>
  <2>1. job'.phase = job.phase /\ job'.task = 2 /\ job'.event = job.event
    BY <1>1, <1>3, DriverHandlerTurn DEF IInv, DriverSignals
  <2>2. /\ Flag' /\ Ranges' /\ UNCHANGED <<i2c, cells, before>> /\ Succ' = Succ /\ job.event # 0
        /\ Asked = {}
    BY <1>3, DriverKnows
  <2>3. ~Done'
    BY <1>3, <2>2, RequestOpens
  <2>4. Known'
    BY <1>1, <1>3, <2>1, <2>2, <2>3 DEF KInv, Known
  <2> QED
    BY <2>2, <2>4 DEF KInv
<1>4. CASE job.task = 2 /\ DriverReturns(TASK_SUCCESS) /\ UNCHANGED <<target, first>>
  <2>1. job'.phase = job.phase /\ job'.task = TASK_SUCCESS /\ job'.event = job.event
    BY <1>1, <1>4, DriverHandlerTurn DEF IInv, DriverSignals
  <2>2. /\ Done /\ Flag' /\ Ranges' /\ UNCHANGED <<cells, before>> /\ Succ' = Succ /\ job.event # 0
    BY <1>4, DriverKnows
  <2>3. Known'
    BY <1>1, <1>4, <2>1, <2>2 DEF KInv, Known
  <2> QED
    BY <2>2, <2>3 DEF KInv
<1> QED
  BY <1>2, <1>3, <1>4 DEF TaskRead

LEMMA TaskWriteKnows ==
  ASSUME IInv, KInv, TaskWrite
  PROVE  KInv'
<1>1. ~Stored(job) /\ job.phase = 1 /\ UNCHANGED <<target, first>>
  BY DEF TaskWrite, DriverAt
<1>2. CASE /\ job.task = 0 /\ DriverReturns(CONTINUE)
           /\ snapshot' = [state |-> "held", byte |-> (target.byte + 1) % Bytes]
  <2>1. job'.phase = 1 /\ job'.task = 1 /\ job'.event = job.event
    BY <1>1, <1>2, DriverHandlerTurn DEF IInv, DriverSignals
  <2>2. /\ Flag' /\ Ranges' /\ UNCHANGED <<cells, before>> /\ Succ' = Succ /\ job.event # 0
    BY <1>2, DriverKnows
  <2>3. snapshot'.byte = Succ
    BY <1>1, <1>2, <2>2 DEF KInv, Known, Succ
  <2>4. Known'
    BY <1>1, <1>2, <2>1, <2>2, <2>3 DEF KInv, Known
  <2> QED
    BY <2>2, <2>4 DEF KInv
<1>3. CASE job.task = 1 /\ Request("WRITE") /\ DriverReturns(WAIT) /\ UNCHANGED snapshot
  <2>1. job'.phase = 1 /\ job'.task = 2 /\ job'.event = job.event
    BY <1>1, <1>3, DriverHandlerTurn DEF IInv, DriverSignals
  <2>2. /\ Flag' /\ Ranges' /\ UNCHANGED <<i2c, cells, before>> /\ Succ' = Succ /\ job.event # 0
        /\ Asked = {}
    BY <1>3, DriverKnows
  <2>3. ~Done'
    BY <1>3, <2>2, RequestOpens
  <2>4. Known'
    BY <1>1, <1>3, <2>1, <2>2, <2>3 DEF KInv, Known
  <2> QED
    BY <2>2, <2>4 DEF KInv
<1>4. CASE job.task = 2 /\ DriverReturns(TASK_SUCCESS) /\ UNCHANGED snapshot
  <2>1. job'.phase = 1 /\ job'.task = TASK_SUCCESS /\ job'.event = job.event
    BY <1>1, <1>4, DriverHandlerTurn DEF IInv, DriverSignals
  <2>2. /\ Done /\ Flag' /\ Ranges' /\ UNCHANGED <<cells, before>> /\ Succ' = Succ /\ job.event # 0
    BY <1>4, DriverKnows
  <2>3. Known'
    BY <1>1, <1>4, <2>1, <2>2 DEF KInv, Known
  <2> QED
    BY <2>2, <2>3 DEF KInv
<1> QED
  BY <1>2, <1>3, <1>4 DEF TaskWrite

LEMMA CompareKnows ==
  ASSUME IInv, KInv, Compare
  PROVE  KInv'
<1> DEFINE s == IF first.byte + 1 = target.byte THEN SUCCESS ELSE FAILURE
<1>1. ~Stored(job) /\ job.phase = 3 /\ DriverReturns(s)
  BY DEF Compare, DriverAt
<1>2. s \in {SUCCESS, FAILURE} /\ s \in DriverSignals
  BY DEF DriverSignals
<1> HIDE DEF s
<1>3. job'.phase = s /\ job'.event = job.event /\ job'.task = job.task
  <2> DEFINE next == Advance(job, s)
  <2>1. next = [phase |-> s, task |-> job.task, signal |-> s]
    BY <1>1, <1>2 DEF Advance, Stored
  <2>2. ~Finishes(next)
    BY <1>2, <2>1 DEF Finishes
  <2> HIDE DEF next
  <2>3. job' = [job EXCEPT !.phase = next.phase, !.task = next.task]
    BY <1>1, <2>2 DEF DriverReturns, next
  <2> QED
    BY <2>1, <2>3 DEF IInv, Shape
<1>4. /\ Flag' /\ Ranges' /\ UNCHANGED <<cells, before>> /\ job.event # 0
  BY <1>1, DriverKnows
<1>5. cells = Succ /\ first.byte = before /\ target.byte = Succ /\ job.task = 0
  BY <1>1, <1>4 DEF KInv, Known
<1>6. s = SUCCESS => cells = before + 1
  BY <1>5 DEF s
<1>7. s = FAILURE => before = Bytes - 1
  BY <1>5, SuccByte DEF s, KInv
<1>8. Known'
  BY <1>2, <1>3, <1>4, <1>5, <1>6, <1>7 DEF Known
<1> QED
  BY <1>4, <1>8 DEF KInv

LEMMA CleanUpKnows ==
  ASSUME IInv, KInv, CleanUp
  PROVE  KInv'
<1> DEFINE next == Advance(job, SUCCESS)
<1>1. Stored(job) /\ DriverReturns(SUCCESS)
  BY DEF CleanUp
<1>2. /\ Flag' /\ Ranges' /\ UNCHANGED <<cells, before>> /\ Succ' = Succ /\ job.event # 0
  BY <1>1, DriverKnows
<1>3. CASE job.phase \in {SUCCESS, FAILURE}
  <2>1. next.signal = job.phase /\ next.phase = 0
    BY <1>3 DEF Advance
  <2>2. Finishes(next)
    BY <1>3, <2>1 DEF Finishes
  <2> HIDE DEF next
  <2>3. job' = NoJob
    BY <1>1, <2>2 DEF DriverReturns, next
  <2>4. Known'
    BY <2>3 DEF Known, NoJob
  <2> QED
    BY <1>2, <2>4 DEF KInv
<1>4. CASE job.phase \notin {SUCCESS, FAILURE}
  <2>1. job.task = TASK_SUCCESS /\ job.phase \in 0..2
    BY <1>1, <1>2, <1>4 DEF KInv, Known, Stored
  <2>2. next = [phase |-> job.phase + 1, task |-> 0, signal |-> TASK_SUCCESS]
    BY <2>1 DEF Advance
  <2>3. ~Finishes(next)
    BY <2>2 DEF Finishes
  <2> HIDE DEF next
  <2>4. job' = [job EXCEPT !.phase = next.phase, !.task = next.task]
    BY <1>1, <2>3 DEF DriverReturns, next
  <2>5. job'.phase = job.phase + 1 /\ job'.task = 0 /\ job'.event = job.event
    BY <2>2, <2>4 DEF IInv, Shape
  <2>6. UNCHANGED <<target, snapshot, first>>
    BY <1>4 DEF CleanUp
  <2>7. Known'
    <3>1. CASE job.phase = 0
      BY <1>2, <2>1, <2>5, <2>6, <3>1 DEF KInv, Known
    <3>2. CASE job.phase = 1
      BY <1>2, <2>1, <2>5, <2>6, <3>2 DEF KInv, Known
    <3>3. CASE job.phase = 2
      BY <1>2, <2>1, <2>5, <2>6, <3>3 DEF KInv, Known
    <3> QED
      BY <2>1, <3>1, <3>2, <3>3
  <2> QED
    BY <1>2, <2>7 DEF KInv
<1> QED
  BY <1>3, <1>4

LEMMA StepKnows == IInv /\ KInv /\ [Next]_vars => KInv'
<1> SUFFICES ASSUME IInv, KInv, [Next]_vars PROVE KInv'
  OBVIOUS
<1>1. CASE Transport
  BY <1>1, TransportKnows
<1>2. CASE Transfer /\ UNCHANGED <<job, snapshot, first, before, asked>>
  BY <1>2, TransferKnows
<1>3. CASE Diagnose
  BY <1>3, DiagnoseKnows
<1>4. CASE RunDriver
  BY <1>4, RunDriverKnows
<1>5. CASE DriverTurn
  BY <1>5, TaskReadKnows, TaskWriteKnows, CompareKnows, CleanUpKnows DEF DriverTurn
<1>6. ASSUME NEW e \in Requests, PublishRead(e) PROVE KInv'
  BY <1>6, PublishReadKnows
<1>7. CASE UNCHANGED vars
  <2>1. /\ UNCHANGED <<i2c, request, incoming, bus, dma, cpu, job>> /\ UNCHANGED Bytewise
    BY <1>7 DEF vars, i2cVars, deviceVars, driverVars, Bytewise
  <2>2. Asked' = Asked /\ Flag'
    BY <2>1 DEF Asked, KInv, Flag
  <2>3. Done' => Done
    BY <2>1, <2>2 DEF Done, Moved, Reading
  <2> QED
    BY <2>1, <2>2, <2>3, QuietKeeps
<1> QED
  BY <1>1, <1>2, <1>3, <1>4, <1>5, <1>6, <1>7 DEF Next

\* The diagnosis calls the EEPROM good when the byte was incremented, and bad only when
\* the byte was the highest, whatever another actor reads from the bus meanwhile.
THEOREM VerdictIsRight == Spec => []VerdictRight
<1>1. Init => KInv
  BY EepromAssumption DEF Init, I2cInit, NoJob, KInv, Flag, Known, Ranges
<1>2. IInv /\ KInv /\ [Next]_vars => KInv'
  BY StepKnows
<1>3. KInv => VerdictRight
  BY DEF KInv, Known, VerdictRight
<1> QED
  BY <1>1, <1>2, <1>3, EepromConsistent, PTL DEF Spec
-----------------------------------------------------------------------------
\* How far the job's tasks and its buffers go
Limits ==
  /\ i2c.task \in 0..4 \cup {TASK_SUCCESS, TASK_FAILURE}
  /\ buffers \in 0..Cardinality(Requests)

\* The failure of the bus freezes them.
Frozen == bus = "failed" => Limits

\* While the bus is in order the job's own buffer is one more than those in RESPONSEs, and
\* its own event has none yet.
LEMMA LimitsInOrder ==
  ASSUME IInv, Reported, Frozen
  PROVE  Limits
<1>1. CASE bus = "failed"
  BY <1>1 DEF Frozen
<1>2. CASE bus # "failed"
  <2>1. i2c.task \in 0..4 \cup {TASK_SUCCESS, TASK_FAILURE}
    <3>1. i2c.event = 0 => i2c.task = 0
      BY DEF Reported, NoJob
    <3> QED
      BY <1>2, <3>1 DEF IInv, Path
  <2>2. IsFiniteSet(Requests) /\ responses \subseteq Requests
    BY I2cAssumption DEF IInv, Shape
  <2>3. /\ Cardinality(responses) \in Nat /\ Cardinality(Requests) \in Nat
        /\ Cardinality(responses) <= Cardinality(Requests)
    BY <2>2, FS_Subset, FS_CardinalityType
  <2>4. CASE ~Holding
    BY <1>2, <2>1, <2>3, <2>4 DEF IInv, Streams, Limits
  <2>5. CASE Holding
    <3>1. i2c.event \in Requests /\ i2c.event \notin responses
      <4>1. i2c.phase \in {1, 2} /\ (i2c.phase = 2 => i2c.task = 0) /\ i2c.event # 0
        BY <2>5 DEF Holding
      <4> QED
        BY <1>2, <4>1 DEF IInv, Answered, Shape, JobType
    <3>2. responses # Requests
      BY <3>1
    <3>3. Cardinality(responses) # Cardinality(Requests)
      BY <2>2, <3>2, FS_Subset
    <3> QED
      BY <1>2, <2>1, <2>3, <2>5, <3>3 DEF IInv, Streams, Limits
  <2> QED
    BY <2>4, <2>5
<1> QED
  BY <1>1, <1>2

\* Nothing but the report of the error happens to a job on a failed bus.
LEMMA FrozenKept ==
  ASSUME IInv, Reported, Frozen, [Next]_vars
  PROVE  Frozen'
<1> SUFFICES ASSUME bus' = "failed" PROVE Limits'
  BY DEF Frozen
<1>1. Limits
  BY LimitsInOrder
<1>2. CASE UNCHANGED <<i2c, buffers>>
  BY <1>1, <1>2 DEF Limits
<1>3. CASE JobTurn
  <2>1. bus = "failed"
    BY <1>3, JobTurnKeeps
  <2>2. Returns(TASK_FAILURE) /\ buffers' = buffers
    BY <1>3, <2>1 DEF JobTurn, HandleError, TakeBack, Setup, StartRead, FinishRead, StartWrite,
                      FinishWrite, PublishResponse, Succeed, At, deviceVars
  <2>3. i2c'.task \in {0, i2c.task, TASK_SUCCESS, TASK_FAILURE}
    <3>1. CASE Stored(i2c)
      <4>1. Shape
        BY DEF IInv
      <4>2. i2c'.task \in {0, i2c.task} \/ Finalize
        BY <2>2, <3>1, <4>1, StoredTurn
      <4> QED
        BY <4>2 DEF Finalize, NoJob
    <3>2. CASE ~Stored(i2c)
      <4>1. Shape
        BY DEF IInv
      <4> QED
        BY <2>2, <3>2, <4>1, HandlerTurn
    <3> QED
      BY <3>1, <3>2
  <2> QED
    BY <1>1, <2>2, <2>3 DEF Limits
<1>4. CASE Transport /\ ~JobTurn
  <2>1. UNCHANGED <<i2c, buffers>>
    BY <1>4 DEF Transport, Offer, Receive, RunInThread, Notify, DmaInterrupt, BusStep, ThreadsRun,
                deviceVars
  <2> QED
    BY <1>2, <2>1
<1>5. CASE ~Transport
  <2>1. UNCHANGED <<i2c, buffers>>
    BY <1>5 DEF Next, Transfer, DmaStep, Diagnose, RunDriver, DriverTurn, TaskRead, TaskWrite,
                Compare, CleanUp, DriverReturns, PublishRead, deviceVars, vars, i2cVars
  <2> QED
    BY <1>2, <2>1
<1> QED
  BY <1>3, <1>4, <1>5

\* The driver's job has a DIAGNOSE event, and no task after its third.
DriverJob ==
  /\ asked \in 0..MaxDiagnoses
  /\ job.event = 0 => job = NoJob
  /\ job.event # 0 => asked # 0
  /\ job.task \in 0..2 \cup {TASK_SUCCESS, TASK_FAILURE}

\* The bytes of its buffers
Bytely == {target, snapshot, first} \subseteq Buffer

LEMMA DriverJobKept ==
  ASSUME IInv, DriverJob, [Next]_vars
  PROVE  DriverJob'
<1>1. MaxDiagnoses \in Nat
  BY EepromAssumption
<1>2. CASE UNCHANGED <<job, asked>>
  BY <1>2 DEF DriverJob
<1>3. CASE Diagnose
  <2>1. asked < MaxDiagnoses /\ asked' = asked + 1 /\ asked \in Nat
    BY <1>1, <1>3 DEF Diagnose, DriverJob
  <2>2. CASE job.event = 0
    <3>1. job' = [event |-> 1, phase |-> 0, task |-> 0]
      BY <1>3, <2>2 DEF Diagnose, NoJob
    <3>2. job'.event = 1 /\ job'.task = 0
      BY <3>1
    <3> QED
      BY <1>1, <2>1, <3>2 DEF DriverJob
  <2>3. CASE job.event # 0
    <3>1. job' = job
      BY <1>3, <2>3 DEF Diagnose
    <3> QED
      BY <1>1, <2>1, <2>3, <3>1 DEF DriverJob
  <2> QED
    BY <2>2, <2>3
<1>4. ASSUME cpu = "at24c", job.event # 0, asked' = asked,
             \/ job'.event = job.event /\ job'.task \in 0..2 \cup {TASK_SUCCESS, TASK_FAILURE}
             \/ job' = NoJob
      PROVE  DriverJob'
  BY <1>4 DEF DriverJob, NoJob
<1>5. CASE DriverTurn
  <2>1. cpu = "at24c" /\ job.event # 0 /\ asked' = asked
    BY <1>5 DEF DriverTurn, TaskRead, TaskWrite, Compare, CleanUp, DriverAt, DriverReturns, IInv, Lends
  <2>2. Shape
    BY DEF IInv
  <2>3. CASE TaskRead \/ TaskWrite
    <3>1. ~Stored(job) /\ \E s \in {CONTINUE, WAIT, TASK_SUCCESS} :
            DriverReturns(s) /\ (s = CONTINUE => job.task = 0) /\ (s = WAIT => job.task = 1)
      BY <2>3 DEF TaskRead, TaskWrite, DriverAt
    <3>2. PICK s \in {CONTINUE, WAIT, TASK_SUCCESS} :
            DriverReturns(s) /\ (s = CONTINUE => job.task = 0) /\ (s = WAIT => job.task = 1)
      BY <3>1
    <3>3. job'.event = job.event /\ job'.task \in {1, 2, TASK_SUCCESS}
      <4>1. s \in DriverSignals
        BY <3>2 DEF DriverSignals
      <4>2. /\ job'.event = job.event
            /\ s \in {CONTINUE, WAIT} => job'.task = job.task + 1
            /\ s = TASK_SUCCESS => job'.task = s
        BY <2>2, <3>1, <3>2, <4>1, DriverHandlerTurn
      <4> QED
        BY <3>2, <4>2
    <3> QED
      BY <1>4, <2>1, <3>3
  <2>4. CASE Compare
    <3>1. PICK s \in {SUCCESS, FAILURE} : DriverReturns(s)
      BY <2>4 DEF Compare
    <3>2. ~Stored(job)
      BY <2>4 DEF Compare, DriverAt
    <3> DEFINE next == Advance(job, s)
    <3>3. next.task = job.task /\ next.signal = s /\ next.phase = s
      BY <3>2 DEF Advance, Stored
    <3>4. ~Finishes(next)
      BY <3>3 DEF Finishes
    <3> HIDE DEF next
    <3>5. job' = [job EXCEPT !.phase = next.phase, !.task = next.task]
      BY <3>1, <3>4 DEF DriverReturns, next
    <3>6. job'.event = job.event /\ job'.task = job.task
      BY <2>2, <3>3, <3>5 DEF Shape
    <3> QED
      BY <1>4, <2>1, <3>6 DEF DriverJob
  <2>5. CASE CleanUp
    <3> DEFINE next == Advance(job, SUCCESS)
    <3>1. Stored(job) /\ job' = IF Finishes(next) THEN NoJob
                                ELSE [job EXCEPT !.phase = next.phase, !.task = next.task]
      BY <2>5 DEF CleanUp, DriverReturns
    <3>2. next.task \in {0, job.task}
      BY <3>1 DEF Advance, Stored
    <3> HIDE DEF next
    <3>3. job' = NoJob \/ (job'.event = job.event /\ job'.task = next.task)
      BY <2>2, <3>1 DEF Shape
    <3>4. next.task \in 0..2 \cup {TASK_SUCCESS, TASK_FAILURE}
      BY <3>2 DEF DriverJob
    <3> QED
      BY <1>4, <2>1, <3>3, <3>4
  <2> QED
    BY <1>5, <2>3, <2>4, <2>5 DEF DriverTurn
<1>6. CASE ~(Diagnose \/ DriverTurn)
  <2>1. UNCHANGED <<job, asked>>
    BY <1>6 DEF Next, Transport, RunDriver, PublishRead, driverVars, vars
  <2> QED
    BY <1>2, <2>1
<1> QED
  BY <1>3, <1>5, <1>6

\* A buffer gets a byte of the device, the byte after one, or none yet.
LEMMA BytelyKept ==
  ASSUME Ranges, Bytely, [Next]_vars
  PROVE  Bytely'
<1>1. Bytes \in Nat \ {0, 1}
  BY EepromAssumption
<1>2. /\ target \in Buffer /\ snapshot \in Buffer /\ first \in Buffer
      /\ cells \in 0..Bytes
  BY <1>1 DEF Bytely, Ranges
<1>3. \A b \in Buffer : Released(b) \in Buffer
  BY DEF Buffer, Released
<1>4. \A byte \in 0..Bytes : [state |-> "held", byte |-> byte] \in Buffer
                             /\ [target EXCEPT !.byte = byte] \in Buffer
  BY <1>2 DEF Buffer
<1>5. Garbage \in 0..Bytes /\ (target.byte + 1) % Bytes \in 0..Bytes
  <2>1. target.byte \in 0..Bytes
    BY <1>2 DEF Buffer
  <2>2. (target.byte + 1) % Bytes \in 0..Bytes - 1
    BY <1>1, <2>1
  <2> QED
    BY <1>1, <2>2 DEF Garbage
<1> HIDE DEF Buffer
<1>6. target' \in Buffer /\ snapshot' \in Buffer /\ first' \in Buffer
  <2>1. CASE TaskRead
    BY <1>2, <1>4, <1>5, <2>1 DEF TaskRead
  <2>2. CASE TaskWrite
    BY <1>2, <1>4, <1>5, <2>2 DEF TaskWrite
  <2>3. CASE Compare
    BY <1>2, <2>3 DEF Compare
  <2>4. CASE CleanUp
    BY <1>2, <1>3, <2>4 DEF CleanUp
  <2>5. CASE Transfer /\ UNCHANGED <<job, snapshot, first, before, asked>>
    BY <1>2, <1>4, <2>5 DEF Transfer
  <2>6. CASE UNCHANGED <<target, snapshot, first>>
    BY <1>2, <2>6
  <2> QED
    BY <2>1, <2>2, <2>3, <2>4, <2>5, <2>6
    DEF Next, Transport, Diagnose, RunDriver, DriverTurn, PublishRead, driverVars, vars
<1> QED
  BY <1>6 DEF Bytely

Flags == incoming \in BOOLEAN /\ ev_irq \in BOOLEAN /\ isr \in BOOLEAN

Registers ==
  /\ output \in {"none", "held"} /\ source \in {"none", "held", "stale"}
  /\ bus \in {"off", "starting", "started", "addressing", "addressed", "ready", "sending",
              "sent", "failed"}
  /\ dma \in {"off", "rx", "rx done", "rx idle", "tx", "tx done", "tx idle"}
  /\ cpu \in {"threads", "i2c", "at24c"} /\ due \subseteq {"i2c", "at24c"}

LEMMA FlagsKept ==
  ASSUME Flags, [Next]_vars
  PROVE  Flags'
<1>1. /\ incoming' \in {incoming, TRUE, FALSE} /\ ev_irq' \in {ev_irq, TRUE, FALSE}
      /\ isr' \in {isr, TRUE, FALSE}
  <2>1. CASE JobTurn
    BY <2>1 DEF JobTurn, HandleError, TakeBack, Setup, StartRead, FinishRead, StartWrite,
                FinishWrite, PublishResponse, Succeed, Returns, deviceVars
  <2>2. CASE Transport /\ ~JobTurn
    BY <2>2 DEF Transport, Offer, Receive, RunInThread, Notify, DmaInterrupt, BusStep, deviceVars
  <2>3. CASE ~Transport
    BY <2>3 DEF Next, Transfer, DmaStep, Diagnose, RunDriver, DriverTurn, TaskRead, TaskWrite,
                Compare, CleanUp, DriverReturns, PublishRead, deviceVars, vars, i2cVars
  <2> QED
    BY <2>1, <2>2, <2>3
<1> QED
  BY <1>1, Zenon DEF Flags

LEMMA RegistersKept ==
  ASSUME IInv, Registers, [Next]_vars
  PROVE  Registers'
<1> DEFINE Device ==
      /\ output' \in {"none", "held"} /\ source' \in {"none", "held", "stale"}
      /\ bus' \in {"off", "starting", "started", "addressing", "addressed", "ready", "sending",
                   "sent", "failed"}
      /\ dma' \in {"off", "rx", "rx done", "rx idle", "tx", "tx done", "tx idle"}
<1>1. CASE JobTurn
  <2>1. Device
    <3>1. CASE HandleError \/ TakeBack \/ Setup \/ Succeed
      <4>1. /\ bus' \in {bus, "starting", "addressing", "sending"} /\ dma' = dma
            /\ output' = output /\ source' = source
        BY <3>1 DEF HandleError, TakeBack, Setup, Succeed, deviceVars
      <4> QED
        BY <4>1 DEF Registers
    <3>2. CASE StartRead
      <4>1. /\ bus' \in {bus, "starting", "addressing"} /\ dma' \in {dma, "rx"}
            /\ output' \in {output, "held"} /\ source' = source
        BY <3>2 DEF StartRead
      <4> QED
        BY <4>1 DEF Registers
    <3>3. CASE FinishRead
      BY <3>3 DEF FinishRead, Registers
    <3>4. CASE StartWrite
      BY <3>4 DEF StartWrite, Registers
    <3>5. CASE FinishWrite
      <4>1. /\ bus' \in {bus, "off"} /\ dma' \in {dma, "off"}
            /\ output' = output /\ source' \in {source, "stale"}
        BY <3>5 DEF FinishWrite
      <4> QED
        BY <4>1 DEF Registers
    <3>6. CASE PublishResponse
      BY <3>6 DEF PublishResponse, Registers
    <3> QED
      BY <1>1, <3>1, <3>2, <3>3, <3>4, <3>5, <3>6 DEF JobTurn
  <2>2. Turn
    BY <1>1, JobTurnKeeps
  <2>3. cpu' \in {"threads", "i2c"} /\ due' \in {due, due \cup {"i2c"}, due \cup {"at24c"}}
    BY <2>2 DEF Turn, Goes, Finalize
  <2> QED
    BY <2>1, <2>3 DEF Registers
<1>2. CASE Transport /\ ~JobTurn
  <2>1. CASE \E e \in Requests : Offer(e) \/ Receive(e)
    BY <2>1 DEF Offer, Receive, deviceVars, Registers
  <2>2. CASE RunInThread
    BY <2>2 DEF RunInThread, deviceVars, Registers
  <2>3. CASE Notify \/ DmaInterrupt
    BY <2>3 DEF Notify, DmaInterrupt, Registers
  <2>4. CASE BusStep
    BY <2>4 DEF BusStep, Registers
  <2> QED
    BY <1>2, <2>1, <2>2, <2>3, <2>4 DEF Transport
<1>3. CASE Transfer
  BY <1>3 DEF Transfer, DmaStep, Registers
<1>4. CASE DriverTurn
  <2>1. cpu' \in {"threads", "at24c"} /\ UNCHANGED <<output, source, bus, dma, due>>
    BY <1>4 DEF DriverTurn, TaskRead, TaskWrite, Compare, CleanUp, DriverReturns, deviceVars
  <2> QED
    BY <2>1 DEF Registers
<1>5. CASE Diagnose \/ RunDriver \/ \E e \in Requests : PublishRead(e)
  BY <1>5 DEF Diagnose, RunDriver, PublishRead, deviceVars, Registers
<1>6. CASE UNCHANGED vars
  BY <1>6 DEF vars, i2cVars, deviceVars, Registers
<1> QED
  BY <1>1, <1>2, <1>3, <1>4, <1>5, <1>6 DEF Next

\* What the variables of Eeprom can be, in every state: no task after the last, no buffer
\* given back twice nor more of them than requests, no byte out of its range.
THEOREM EepromTypeCorrect == Spec => []TypeOK
<1> DEFINE Types == Frozen /\ DriverJob /\ Bytely /\ Flags /\ Registers
           All == IInv /\ KInv /\ Reported /\ Types
<1>1. Init => All
  <2> SUFFICES ASSUME Init PROVE All
    OBVIOUS
  <2>1. Bytes \in Nat /\ MaxDiagnoses \in Nat
    BY EepromAssumption
  <2>2. KInv
    BY EepromAssumption DEF Init, I2cInit, NoJob, KInv, Flag, Known, Ranges
  <2>3. Reported
    BY DEF Init, I2cInit, Reported, NoJob
  <2>4. Frozen
    BY DEF Init, I2cInit, Frozen
  <2>5. DriverJob
    BY <2>1 DEF Init, DriverJob, NoJob
  <2>6. Bytely
    BY <2>1 DEF Init, NoBuffer, Bytely, Buffer
  <2>7. Flags /\ Registers
    BY DEF Init, I2cInit, Flags, Registers
  <2> QED
    BY <2>2, <2>3, <2>4, <2>5, <2>6, <2>7, Initially
<1>2. All /\ [Next]_vars => All'
  <2> SUFFICES ASSUME All, [Next]_vars PROVE All'
    OBVIOUS
  <2>1. IInv' /\ KInv'
    BY StepKeeps, StepKnows
  <2>2. Reported'
    BY StepServes
  <2>3. Frozen' /\ DriverJob' /\ Bytely'
    BY FrozenKept, DriverJobKept, BytelyKept DEF KInv
  <2>4. Flags' /\ Registers'
    BY FlagsKept, RegistersKept
  <2> QED
    BY <2>1, <2>2, <2>3, <2>4
<1>3. All => TypeOK
  <2> SUFFICES ASSUME All PROVE TypeOK
    OBVIOUS
  <2>1. MaxDiagnoses \in Nat
    BY EepromAssumption
  <2>2. Limits
    BY LimitsInOrder
  <2>3. i2c \in Job
    <3>1. /\ i2c.event \in 0..MaxDiagnoses \cup Requests
          /\ i2c = [event |-> i2c.event, phase |-> i2c.phase, task |-> i2c.task]
      BY <2>1 DEF IInv, Shape, JobType
    <3>2. i2c.phase \in 0..3 \cup {SUCCESS, FAILURE}
      BY DEF Reported, NoJob
    <3>3. i2c.task \in 0..4 \cup {TASK_SUCCESS, TASK_FAILURE}
      BY <2>2 DEF Limits
    <3> QED
      BY <3>1, <3>2, <3>3 DEF Job
  <2>4. job \in Job
    <3>1. job = [event |-> job.event, phase |-> job.phase, task |-> job.task] /\ job.event \in {0, 1}
      BY DEF IInv, Shape
    <3>2. job.event \in 0..MaxDiagnoses
      BY <2>1, <3>1 DEF DriverJob
    <3>3. job.phase \in 0..3 \cup {SUCCESS, FAILURE}
      BY DEF DriverJob, NoJob, KInv, Known
    <3>4. job.task \in 0..4 \cup {TASK_SUCCESS, TASK_FAILURE}
      BY DEF DriverJob
    <3> QED
      BY <3>1, <3>2, <3>3, <3>4 DEF Job
  <2>5. /\ request \in [Requests -> {"none", "published", "deferred", "accepted", "done"}]
        /\ responses \subseteq Requests
    BY DEF IInv, Shape
  <2>6. outcome \in [Requests -> {0, SUCCESS, FAILURE}]
    BY DEF Reported
  <2>7. incoming \in BOOLEAN /\ ev_irq \in BOOLEAN /\ isr \in BOOLEAN
    BY DEF Flags
  <2>8. buffers \in 0..Cardinality(Requests)
    BY <2>2 DEF Limits
  <2> HIDE DEF Types
  <2>9. Registers /\ Bytely /\ DriverJob
    BY DEF Types
  <2> QED
    BY <2>3, <2>4, <2>5, <2>6, <2>7, <2>8, <2>9
    DEF TypeOK, Registers, Bytely, DriverJob, KInv, Ranges
<1> QED
  BY <1>1, <1>2, <1>3, PTL DEF Spec
=============================================================================

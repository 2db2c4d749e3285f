--------------------------- MODULE ActorJobProofs ----------------------------
(***************************************************************************)
(* Proofs about ActorJob, for every number of events and phases and wherever *)
(* the interrupt comes: its type invariant, that it implements JobService,   *)
(* that accepted events are lost to a freed job only, and that responses     *)
(* find their job.                                                           *)
(***************************************************************************)
EXTENDS ActorJob, TLAPS

\* The slot and the job in it belong together.
SlotInv ==
  /\ job.inciting # 0 => slot # 0 /\ fate[job.inciting] = "accepted"
  /\ job.handler = "set" => job.inciting # 0
  /\ job.irq = "on" => job.handler = "set"
  /\ job.task = TASK_FAILURE => job.inciting # 0
  /\ job.phase = LastPhase => job.task # TASK_SUCCESS

\* What the input thread relies on between the steps of its call
CallInv ==
  /\ call.at # "none" => call.event \in Events /\ call.job \in Events
  /\ call.at = "start" => fate[call.event] = "new"
  /\ call.at = "pass" => awaited[call.event] > 0
  /\ call.at = "accepted" /\ call.job = slot => job.inciting # 0

\* Whoever executes the job has one.
RunInv ==
  /\ running # "none" => slot # 0 /\ job.handler = "set"
  /\ job.phase \in {SUCCESS, FAILURE} => running # "none"

\* A job is reported when its phase says so, and only then released.
ReportInv ==
  \A e \in Events :
    /\ fate[e] = "finalized" => report[e] # "none"
    /\ e = job.inciting /\ job.phase \in {SUCCESS, FAILURE} => report[e] # "none"
    /\ report[e] # "none" => \/ fate[e] = "finalized"
                             \/ e = job.inciting /\ job.phase \in {SUCCESS, FAILURE}

IInv == TypeOK /\ SlotInv /\ CallInv /\ RunInv /\ ReportInv

-----------------------------------------------------------------------------
\* Writing its phases keeps a job a job.
LEMMA PhasesKeepJob ==
  ASSUME NEW j \in Jobs, NEW p \in JobPhases, NEW t \in TaskPhases
  PROVE  [j EXCEPT !.phase = p, !.task = t] \in Jobs
BY DEF Jobs

\* So does freeing the room for the incoming event.
LEMMA WaitKeepsJob ==
  ASSUME NEW j \in Jobs, NEW t \in TaskPhases
  PROVE  [j EXCEPT !.task = t, !.incoming = 0] \in Jobs
BY DEF Jobs

-----------------------------------------------------------------------------
USE DEF HALT, CONTINUE, TASK_RETRY, WAIT, QUIT_ISR, LOOP, TASK_SUCCESS,
        TASK_FAILURE, SUCCESS, FAILURE

-----------------------------------------------------------------------------
\* Facts about the records

\* Events are counted from one: 0 stands for NULL.
LEMMA EventsPositive == Events \subseteq Nat \ {0}
BY JobAssumption DEF Events

\* The fields of a job just allocated
LEMMA BlankJob ==
  /\ Blank \in Jobs
  /\ Blank.inciting = 0 /\ Blank.incoming = 0 /\ Blank.handler = "NULL" /\ Blank.irq = "off"
  /\ Blank.phase = 0 /\ Blank.task = 0
BY PhaseAssumption DEF Blank, Jobs, JobPhases, TaskPhases

\* The input thread between two calls
LEMMA NoCallCall == NoCall \in Calls /\ NoCall.at = "none"
BY DEF NoCall, Calls

-----------------------------------------------------------------------------
\* The initial states

\* The invariant holds before the first event.
LEMMA InitInv == Init => IInv
<1> SUFFICES ASSUME Init PROVE IInv
  OBVIOUS
<1>1. TypeOK
  BY BlankJob, NoCallCall, JobAssumption DEF Init, TypeOK
<1>2. SlotInv /\ CallInv /\ RunInv /\ ReportInv
  BY BlankJob, NoCallCall, EventsPositive, PhaseAssumption
     DEF Init, SlotInv, CallInv, RunInv, ReportInv
<1> QED
  BY <1>1, <1>2 DEF IInv

-----------------------------------------------------------------------------
\* The input thread

\* Allocating a job, or finding one there, preserves the invariant.
LEMMA StartInv == ASSUME IInv, NEW e \in Events, Start(e) PROVE IInv'
<1>1. e # 0 /\ slot' \in Events /\ slot' # 0
  BY EventsPositive DEF Start, IInv, TypeOK
<1>2. /\ call' \in Calls /\ call'.at = "start" /\ call'.event = e /\ call'.job = slot'
      /\ fate[e] = "new" /\ running = "none"
  BY <1>1 DEF Start, Calls
<1>3. TypeOK'
  BY <1>1, <1>2, BlankJob DEF IInv, TypeOK, Start
<1>4. SlotInv' /\ RunInv' /\ ReportInv'
  BY <1>1, <1>2, BlankJob, PhaseAssumption, EventsPositive
     DEF IInv, TypeOK, SlotInv, RunInv, ReportInv, Start
<1>5. CallInv'
  BY <1>1, <1>2 DEF IInv, CallInv, Start
<1> QED
  BY <1>3, <1>4, <1>5 DEF IInv

\* Taking a response off the queue preserves the invariant.
LEMMA RespondInv == ASSUME IInv, NEW e \in Events, Respond(e) PROVE IInv'
<1>1. call' \in Calls /\ CallInv'
  BY NoCallCall DEF Respond, IInv, TypeOK, CallInv, Calls
<1>2. TypeOK'
  BY <1>1 DEF IInv, TypeOK, Respond
<1>3. SlotInv' /\ RunInv' /\ ReportInv'
  BY DEF IInv, SlotInv, RunInv, ReportInv, Respond
<1> QED
  BY <1>1, <1>2, <1>3 DEF IInv

\* Storing the event, or deferring it, preserves the invariant.
LEMMA AcceptInv == ASSUME IInv, Accept PROVE IInv'
<1> DEFINE e == call.event
<1>1. call.at = "start" /\ e \in Events /\ e # 0 /\ call.job \in Events /\ fate[e] = "new"
  BY EventsPositive DEF Accept, IInv, CallInv
<1>2. /\ call' \in Calls /\ call'.at \in {"none", "accepted"}
      /\ call'.at = "accepted" => call'.event = e /\ call'.job = call.job
  <2>1. CASE call' = NoCall
    BY <2>1, NoCallCall
  <2>2. CASE call' = [call EXCEPT !.at = "accepted"]
    BY <1>1, <2>2 DEF IInv, TypeOK, Calls
  <2> QED
    BY <2>1, <2>2 DEF Accept
<1>3. job' \in Jobs
  BY <1>1 DEF Accept, IInv, TypeOK, Jobs
<1>4. TypeOK'
  BY <1>1, <1>2, <1>3 DEF IInv, TypeOK, Accept
<1>5. SlotInv'
  BY <1>1, EventsPositive DEF IInv, TypeOK, SlotInv, Accept, Stale, Jobs
<1>6. RunInv' /\ ReportInv'
  BY <1>1, EventsPositive DEF IInv, TypeOK, RunInv, ReportInv, Accept, Stale, Jobs
<1>7. CallInv'
  BY <1>1, <1>2 DEF IInv, TypeOK, CallInv, Accept, Stale, Jobs, NoCall
<1> QED
  BY <1>4, <1>5, <1>6, <1>7 DEF IInv

\* Setting the job's handler preserves the invariant.
LEMMA ScheduleInv == ASSUME IInv, Schedule PROVE IInv'
<1>1. TypeOK'
  BY NoCallCall DEF IInv, TypeOK, Schedule, Jobs
<1>2. SlotInv' /\ CallInv' /\ RunInv' /\ ReportInv'
  BY NoCallCall DEF IInv, TypeOK, SlotInv, CallInv, RunInv, ReportInv, Schedule, Stale, Jobs
<1> QED
  BY <1>1, <1>2 DEF IInv

\* Passing a response to the job preserves the invariant.
LEMMA PassInv == ASSUME IInv, Pass PROVE IInv'
<1>1. call.event \in Events /\ awaited[call.event] > 0
  BY DEF Pass, IInv, CallInv
<1>2. TypeOK'
  BY <1>1, NoCallCall DEF IInv, TypeOK, Pass, Jobs
<1>3. SlotInv' /\ CallInv' /\ RunInv' /\ ReportInv'
  BY <1>1, NoCallCall DEF IInv, TypeOK, SlotInv, CallInv, RunInv, ReportInv, Pass, Stale, Jobs
<1> QED
  BY <1>2, <1>3 DEF IInv

-----------------------------------------------------------------------------
\* The job's thread and its interrupt

\* A due worker that looks for a job preserves the invariant.
LEMMA RunInThreadInv == ASSUME IInv, RunInThread PROVE IInv'
<1>1. TypeOK'
  BY DEF IInv, TypeOK, RunInThread, Jobs
<1>2. SlotInv' /\ CallInv' /\ RunInv' /\ ReportInv'
  BY DEF IInv, TypeOK, SlotInv, CallInv, RunInv, ReportInv, RunInThread, Jobs
<1> QED
  BY <1>1, <1>2 DEF IInv

\* An interrupt that executes the job preserves the invariant.
LEMMA RunInIsrInv == ASSUME IInv, RunInIsr PROVE IInv'
BY DEF IInv, TypeOK, SlotInv, CallInv, RunInv, ReportInv, RunInIsr

\* What actor_job_advance makes of the phases
LEMMA AdvanceResult ==
  ASSUME IInv, running # "none", NEW s \in Choices
  PROVE  /\ Advance(s).phase \in JobPhases /\ Advance(s).task \in TaskPhases
         /\ Advance(s).signal \in JobSignals
         /\ Advance(s).phase = LastPhase => Advance(s).task # TASK_SUCCESS
         /\ Advance(s).phase \in {SUCCESS, FAILURE} => Advance(s).signal = Advance(s).phase
         /\ Advance(s).signal \in {SUCCESS, FAILURE} /\ Advance(s).phase # Advance(s).signal
              => job.phase = Advance(s).signal
         /\ Advance(s).signal \notin {SUCCESS, FAILURE} => job.phase \notin {SUCCESS, FAILURE}
         /\ Advance(s).signal = WAIT => Advance(s).phase = job.phase
         /\ Advance(s).signal \in {TASK_RETRY, LOOP} => retries < MaxRetries
<1>1. job \in Jobs /\ s \in JobSignals
  BY DEF IInv, TypeOK, Choices, JobSignals
<1>2. CASE job.phase \in {SUCCESS, FAILURE}
  BY <1>1, <1>2, PhaseAssumption DEF Advance, Jobs, JobPhases, TaskPhases, JobSignals
<1>3. CASE job.phase \notin {SUCCESS, FAILURE} /\ job.task = TASK_FAILURE
  BY <1>1, <1>3, PhaseAssumption DEF Advance, Jobs, JobPhases, TaskPhases, JobSignals
<1>4. CASE job.phase \notin {SUCCESS, FAILURE} /\ job.task = TASK_SUCCESS
  BY <1>1, <1>4, PhaseAssumption DEF Advance, Jobs, JobPhases, TaskPhases, JobSignals, IInv, SlotInv
<1>5. CASE job.phase \notin {SUCCESS, FAILURE} /\ job.task \notin {TASK_SUCCESS, TASK_FAILURE}
  <2>1. Advance(s) = Obey(s)
    BY <1>5 DEF Advance
  <2>2. s \in {WAIT, CONTINUE} => job.task + 1 \in 0..LastTask
    BY <1>1, <1>5, PhaseAssumption DEF Choices, Jobs, TaskPhases
  <2> QED
    BY <1>1, <1>5, <2>1, <2>2, PhaseAssumption
       DEF Obey, Choices, Jobs, JobPhases, TaskPhases, JobSignals, IInv, SlotInv
<1> QED
  BY <1>2, <1>3, <1>4, <1>5

\* Reporting the outcome, and releasing the job, preserve the invariant.
LEMMA EndsInv ==
  ASSUME IInv, running # "none", NEW s \in Choices, Ends(Advance(s)),
         UNCHANGED call, retries' = retries
  PROVE  IInv'
<1> DEFINE next == Advance(s)
<1>1. /\ job \in Jobs /\ job.inciting \in Events /\ job.inciting # 0 /\ slot # 0
      /\ fate[job.inciting] = "accepted"
  BY EventsPositive DEF IInv, TypeOK, SlotInv, RunInv, Jobs
<1>2. /\ next.phase \in JobPhases /\ next.task \in TaskPhases
      /\ next.phase = LastPhase => next.task # TASK_SUCCESS
      /\ next.phase \in {SUCCESS, FAILURE} => next.signal = next.phase
      /\ next.signal \in {SUCCESS, FAILURE} /\ next.phase # next.signal => job.phase = next.signal
      /\ next.signal \notin {SUCCESS, FAILURE} => job.phase \notin {SUCCESS, FAILURE}
  BY AdvanceResult
<1> HIDE DEF next
<1>3. next.signal \in {SUCCESS, FAILURE, HALT} /\ UNCHANGED <<next_time, awaited>>
  BY DEF Ends, next
<1>4. Outcome(next.signal) \in {"success", "failure", "halted"}
  BY DEF Outcome
<1>5. CASE next.phase = next.signal /\ next.signal # HALT
  <2>1. /\ job' = [job EXCEPT !.phase = next.phase, !.task = next.task]
        /\ UNCHANGED <<fate, slot, running>>
        /\ report' = [report EXCEPT ![job.inciting] = Outcome(next.signal)]
    BY <1>5 DEF Ends, Reported, next
  <2>2. job' \in Jobs
    BY <1>1, <1>2, <2>1, PhasesKeepJob
  <2>3. TypeOK'
    BY <1>1, <1>3, <1>4, <2>1, <2>2 DEF IInv, TypeOK
  <2>4. SlotInv' /\ CallInv' /\ RunInv'
    BY <1>1, <1>2, <1>3, <1>5, <2>1, PhaseAssumption DEF IInv, SlotInv, CallInv, RunInv, Jobs
  <2>5. ReportInv'
    <3>1. job'.inciting = job.inciting /\ job'.phase \in {SUCCESS, FAILURE}
      BY <1>1, <1>3, <1>5, <2>1 DEF Jobs
    <3>2. /\ report'[job.inciting] # "none"
          /\ \A e \in Events \ {job.inciting} : report'[e] = report[e]
      BY <1>1, <1>4, <2>1 DEF IInv, TypeOK
    <3> QED
      BY <1>1, <2>1, <3>1, <3>2 DEF IInv, ReportInv
  <2> QED
    BY <2>3, <2>4, <2>5 DEF IInv
<1>6. CASE next.phase # next.signal \/ next.signal = HALT
  <2>1. /\ fate' = [e \in Events |-> IF e = job.inciting THEN "finalized"
                                     ELSE IF fate[e] = "deferred" THEN "new" ELSE fate[e]]
        /\ slot' = 0 /\ job' = Blank /\ running' = "none"
    BY <1>6 DEF Ends, Finalize, next
  <2>2. \/ next.signal = HALT /\ report' = [report EXCEPT ![job.inciting] = Outcome(next.signal)]
        \/ next.signal # HALT /\ UNCHANGED report
    BY <1>6 DEF Ends, Reported, next
  <2>3. TypeOK'
    BY <1>1, <1>3, <1>4, <2>1, <2>2, BlankJob DEF IInv, TypeOK
  <2>4. SlotInv' /\ CallInv' /\ RunInv'
    BY <1>1, <1>3, <2>1, BlankJob, PhaseAssumption, EventsPositive
       DEF IInv, TypeOK, SlotInv, CallInv, RunInv
  <2>5. ReportInv'
    <3>1. report[job.inciting] # "none" <=> job.phase \in {SUCCESS, FAILURE}
      BY <1>1 DEF IInv, ReportInv
    <3>2. report'[job.inciting] # "none"
      BY <1>1, <1>2, <1>3, <1>4, <1>6, <2>2, <3>1 DEF IInv, TypeOK
    <3>3. \A e \in Events \ {job.inciting} : report'[e] = report[e]
      BY <2>2, <1>1 DEF IInv, TypeOK
    <3>4. /\ fate'[job.inciting] = "finalized"
          /\ \A e \in Events \ {job.inciting} : fate'[e] = "finalized" <=> fate[e] = "finalized"
      BY <1>1, <2>1
    <3>5. job'.inciting = 0 /\ job'.phase = 0
      BY <2>1, BlankJob
    <3> QED
      BY <1>1, <3>2, <3>3, <3>4, <3>5, EventsPositive DEF IInv, ReportInv
  <2> QED
    BY <2>3, <2>4, <2>5 DEF IInv
<1> QED
  BY <1>5, <1>6

\* Going on to the next turn of the loop preserves the invariant.
LEMMA GoesInv ==
  ASSUME IInv, running # "none", NEW s \in Choices, Goes(Advance(s)),
         UNCHANGED call, retries' \in 0..MaxRetries
  PROVE  IInv'
<1> DEFINE next == Advance(s)
<1>1. job \in Jobs /\ job.inciting # 0
  BY DEF IInv, TypeOK, SlotInv, RunInv
<1>2. /\ next.phase \in JobPhases \ {SUCCESS, FAILURE} /\ next.task \in TaskPhases
      /\ next.phase = LastPhase => next.task # TASK_SUCCESS
      /\ job.phase \notin {SUCCESS, FAILURE}
  BY AdvanceResult DEF Goes
<1>3. /\ job' = [job EXCEPT !.phase = next.phase, !.task = next.task]
      /\ UNCHANGED <<slot, running, next_time, fate, report, awaited>>
  BY DEF Goes
<1> HIDE DEF next
<1>4. TypeOK'
  <2>1. job' \in Jobs
    BY <1>1, <1>2, <1>3, PhasesKeepJob
  <2> QED
    BY <1>1, <1>3, <2>1 DEF IInv, TypeOK
<1>5. SlotInv' /\ CallInv' /\ RunInv' /\ ReportInv'
  BY <1>1, <1>2, <1>3 DEF IInv, SlotInv, CallInv, RunInv, ReportInv, Jobs
<1> QED
  BY <1>4, <1>5 DEF IInv

\* Halting to wait for an interrupt or a response preserves the invariant.
LEMMA WaitsInv ==
  ASSUME IInv, running # "none", NEW s \in Choices, Waits(Advance(s)),
         UNCHANGED call, retries' \in 0..MaxRetries
  PROVE  IInv'
<1> DEFINE next == Advance(s)
<1>1. job \in Jobs /\ job.inciting # 0 /\ slot \in Events
  BY DEF IInv, TypeOK, SlotInv, RunInv
<1>2. /\ next.task \in TaskPhases
      /\ job.phase = LastPhase => next.task # TASK_SUCCESS
      /\ job.phase \notin {SUCCESS, FAILURE}
  BY AdvanceResult DEF Waits
<1>3. /\ job' = [job EXCEPT !.task = next.task, !.incoming = 0]
      /\ running' = "none"
      /\ awaited' = awaited \/ awaited' = [awaited EXCEPT ![slot] = @ + 1]
      /\ UNCHANGED <<slot, next_time, fate, report>>
  BY DEF Waits
<1> HIDE DEF next
<1>4. TypeOK'
  <2>1. job' \in Jobs
    BY <1>1, <1>2, <1>3, WaitKeepsJob
  <2>2. awaited' \in [Events -> Nat]
    BY <1>1, <1>3 DEF IInv, TypeOK
  <2> QED
    BY <1>3, <2>1, <2>2 DEF IInv, TypeOK
<1>5. SlotInv' /\ RunInv' /\ ReportInv'
  BY <1>1, <1>2, <1>3 DEF IInv, SlotInv, RunInv, ReportInv, Jobs
<1>6. CallInv'
  BY <1>1, <1>3 DEF IInv, TypeOK, CallInv, Jobs
<1> QED
  BY <1>4, <1>5, <1>6 DEF IInv

\* Halting until the next interrupt preserves the invariant.
LEMMA LoopsInv ==
  ASSUME IInv, running # "none", NEW s \in Choices, Loops(Advance(s)),
         UNCHANGED call, retries' \in 0..MaxRetries
  PROVE  IInv'
<1>1. job.phase \notin {SUCCESS, FAILURE}
  BY AdvanceResult DEF Loops
<1> QED
  BY <1>1 DEF Loops, IInv, TypeOK, SlotInv, CallInv, RunInv, ReportInv

\* Leaving the interrupt for the thread preserves the invariant.
LEMMA QuitsIsrInv ==
  ASSUME IInv, running # "none", NEW s \in Choices, QuitsIsr(Advance(s)),
         UNCHANGED call, retries' \in 0..MaxRetries
  PROVE  IInv'
<1>1. job.phase \notin {SUCCESS, FAILURE}
  BY AdvanceResult DEF QuitsIsr
<1>2. TypeOK'
  BY DEF QuitsIsr, IInv, TypeOK, Jobs
<1>3. SlotInv' /\ CallInv' /\ RunInv' /\ ReportInv'
  BY <1>1 DEF QuitsIsr, IInv, TypeOK, SlotInv, CallInv, RunInv, ReportInv, Jobs
<1> QED
  BY <1>2, <1>3 DEF IInv

\* Any turn of the loop of actor_job_execute preserves the invariant.
LEMMA ExecuteInv == ASSUME IInv, Execute PROVE IInv'
<1>1. running # "none" /\ UNCHANGED call
  BY DEF Execute
<1>2. PICK s \in Choices :
        /\ \/ Ends(Advance(s)) \/ Goes(Advance(s)) \/ Waits(Advance(s))
           \/ Loops(Advance(s)) \/ QuitsIsr(Advance(s))
        /\ retries' = IF Advance(s).signal \in {TASK_RETRY, LOOP} THEN retries + 1 ELSE retries
  BY DEF Execute
<1>3. retries' \in 0..MaxRetries
  <2>1. Advance(s).signal \in {TASK_RETRY, LOOP} => retries < MaxRetries
    BY <1>1, AdvanceResult
  <2> QED
    BY <1>2, <2>1, JobAssumption DEF IInv, TypeOK
<1>4. CASE Ends(Advance(s))
  <2>1. retries' = retries
    BY <1>2, <1>4 DEF Ends
  <2> QED
    BY <1>1, <1>4, <2>1, EndsInv
<1>5. CASE Goes(Advance(s))
  BY <1>1, <1>3, <1>5, GoesInv
<1>6. CASE Waits(Advance(s))
  BY <1>1, <1>3, <1>6, WaitsInv
<1>7. CASE Loops(Advance(s))
  BY <1>1, <1>3, <1>7, LoopsInv
<1>8. CASE QuitsIsr(Advance(s))
  BY <1>1, <1>3, <1>8, QuitsIsrInv
<1> QED
  BY <1>2, <1>4, <1>5, <1>6, <1>7, <1>8

\* Every step preserves the invariant.
LEMMA NextInv == ASSUME IInv, [Next]_vars PROVE IInv'
<1>1. CASE InputThread
  <2>1. ASSUME NEW e \in Events, Start(e) \/ Respond(e) PROVE IInv'
    BY <2>1, StartInv, RespondInv
  <2> QED
    BY <1>1, <2>1, AcceptInv, ScheduleInv, PassInv DEF InputThread
<1>2. CASE UNCHANGED vars
  BY <1>2 DEF vars, IInv, TypeOK, SlotInv, CallInv, RunInv, ReportInv
<1> QED
  BY <1>1, <1>2, RunInThreadInv, RunInIsrInv, ExecuteInv DEF Next

\* The inductive invariant: a job, the slot that holds it, the call that feeds it,
\* whoever executes it and its report stay together (job.c, event.c:53-88).
THEOREM InvariantHolds == Spec => []IInv
BY InitInv, NextInv, PTL DEF Spec

\* job.c:68-134: the counted phases stay within 0..LastPhase and 0..LastTask, where
\* they cannot be mistaken for the signals stored in the same bytes.
THEOREM TypeCorrect == Spec => []TypeOK
<1>1. IInv => TypeOK
  BY DEF IInv
<1> QED
  BY <1>1, InvariantHolds, PTL

-----------------------------------------------------------------------------
\* No step but the store into a freed job loses an accepted event.
LEMMA StepLoses ==
  ASSUME IInv, [Next]_vars, NEW x \in Events, fate'[x] = "accepted", ~Holds(x)'
  PROVE  IF fate[x] = "accepted" THEN ~Holds(x) ELSE call.event = x /\ Stale
<1> USE DEF Holds
<1>1. ASSUME NEW e \in Events, Start(e) \/ Respond(e) PROVE fate[x] = "accepted" /\ ~Holds(x)
  BY <1>1 DEF Start, Respond
<1>2. CASE Accept
  <2>1. /\ call.event \in Events /\ call.event # 0 /\ call.job \in Events /\ call.job # 0
        /\ fate[call.event] = "new" /\ job \in Jobs /\ slot' = slot
    BY <1>2, EventsPositive DEF Accept, IInv, TypeOK, CallInv
  <2>2. CASE job' = job
    <3>1. CASE fate[x] = "accepted"
      BY <2>1, <2>2, <3>1
    <3>2. CASE fate[x] # "accepted"
      <4>1. fate' = [fate EXCEPT ![call.event] = "accepted"]
              \/ fate' = [fate EXCEPT ![call.event] = "deferred"]
        BY <1>2 DEF Accept
      <4>2. x = call.event /\ fate'[x] = "accepted"
        BY <2>1, <3>2, <4>1 DEF IInv, TypeOK
      <4>3. ~(~Stale /\ job.inciting # 0)
        BY <1>2, <2>1, <4>2 DEF Accept, IInv, TypeOK
      <4>4. Stale
        <5>1. SUFFICES ASSUME ~Stale PROVE FALSE
          OBVIOUS
        <5>2. job' = [job EXCEPT !.inciting = call.event] /\ job.inciting = 0
          BY <1>2, <4>3, <5>1 DEF Accept
        <5>3. job'.inciting = call.event
          BY <2>1, <5>2 DEF Jobs
        <5> QED
          BY <2>1, <2>2, <5>2, <5>3
      <4> QED
        BY <3>2, <4>2, <4>4
    <3> QED
      BY <3>1, <3>2
  <2>3. CASE job' # job
    <3>1. ~Stale /\ job.inciting = 0 /\ job' = [job EXCEPT !.inciting = call.event]
          /\ fate' = [fate EXCEPT ![call.event] = "accepted"]
      BY <1>2, <2>3 DEF Accept
    <3>2. job'.inciting = call.event /\ slot' # 0
      BY <2>1, <3>1 DEF Jobs, Stale
    <3>3. x # call.event
      BY <3>2
    <3>4. fate[x] = "accepted" /\ x # 0
      BY <2>1, <3>1, <3>3, EventsPositive DEF IInv, TypeOK
    <3> QED
      BY <3>1, <3>4
  <2> QED
    BY <2>2, <2>3
<1>3. CASE Schedule \/ Pass \/ RunInThread \/ RunInIsr
  <2>1. job'.inciting = job.inciting /\ UNCHANGED <<slot, fate>>
    BY <1>3 DEF Schedule, Pass, RunInThread, RunInIsr, IInv, TypeOK, Jobs
  <2> QED
    BY <2>1
<1>4. CASE Execute
  <2>1. PICK s \in Choices :
          \/ Ends(Advance(s)) \/ Goes(Advance(s)) \/ Waits(Advance(s))
          \/ Loops(Advance(s)) \/ QuitsIsr(Advance(s))
    BY <1>4 DEF Execute
  <2>2. \/ job'.inciting = job.inciting /\ UNCHANGED <<fate, slot>>
        \/ Finalize
    BY <2>1 DEF Ends, Goes, Waits, Loops, QuitsIsr, IInv, TypeOK, Jobs
  <2>3. CASE Finalize
    BY <2>3 DEF Finalize
  <2> QED
    BY <2>2, <2>3
<1>5. CASE UNCHANGED vars
  BY <1>5 DEF vars
<1> QED
  BY <1>1, <1>2, <1>3, <1>4, <1>5 DEF Next, InputThread

\* event.c:53-71: wherever the interrupt comes, an accepted event that is not in the slot
\* was stored in a job that had been freed since the input thread looked, and no other
\* step loses one.
THEOREM LostToFreedJobAlone == Spec => LostToFreedJobOnly
<1>1. IInv /\ [Next]_vars =>
        [\A e \in Events :
           fate'[e] = "accepted" /\ ~Holds(e)' =>
             IF fate[e] = "accepted" THEN ~Holds(e) ELSE call.event = e /\ Stale]_vars
  BY StepLoses
<1> QED
  BY <1>1, InvariantHolds, PTL DEF Spec, LostToFreedJobOnly

-----------------------------------------------------------------------------
\* A response is awaited by the job in the slot, once, and nothing executes that
\* job before the response is there.
AwaitedInv ==
  \A j \in Events : awaited[j] > 0 =>
    /\ awaited[j] = 1 /\ slot = j /\ job.inciting = j /\ j \notin IsrEvents
    /\ next_time = "never" /\ running = "none" /\ call.at # "accepted"

\* The job in the slot is that of the event the slot was allocated for.
OwnInv ==
  /\ slot # 0 => job.inciting \in {0, slot}
  /\ slot # 0 /\ job.inciting = 0 => call.at = "start" /\ call.event = slot

\* The thread takes the job when it is due, the interrupt when it awaits one.
TurnInv ==
  /\ running = "thread" => next_time = "never" /\ call.at = "none"
  /\ running = "isr" => job.inciting \in IsrEvents

\* The job of a call is in the slot or freed; no interrupt frees one that awaits a response.
LinkInv ==
  /\ call.at # "none" => slot \in {0, call.job}
  /\ call.at = "pass" => slot = call.job

ReplyInv == AwaitedInv /\ OwnInv /\ TurnInv /\ LinkInv /\ ResponseForThisJob

\* Nobody awaits anything at first.
LEMMA ReplyInit == Init => ReplyInv
BY NoCallCall DEF Init, ReplyInv, AwaitedInv, OwnInv, TurnInv, LinkInv, ResponseForThisJob

\* What the input thread does leaves a job to its own responses.
LEMMA ReplyToCalls ==
  ASSUME IInv, ReplyInv, InputThread
  PROVE  ReplyInv'
<1>1. ASSUME NEW e \in Events, Start(e) PROVE ReplyInv'
  <2>1. call = NoCall /\ running = "none" /\ UNCHANGED <<next_time, running, awaited>>
        /\ call'.at = "start" /\ call'.event = e /\ call'.job = slot'
    BY <1>1 DEF Start
  <2>2. CASE slot = 0
    <3>1. slot' = e /\ job' = Blank /\ e # 0
      BY <1>1, <2>2, EventsPositive DEF Start
    <3>2. \A j \in Events : ~(awaited[j] > 0)
      BY <2>2, EventsPositive DEF ReplyInv, AwaitedInv
    <3> QED
      BY <2>1, <3>1, <3>2, BlankJob DEF ReplyInv, AwaitedInv, OwnInv, TurnInv, LinkInv, ResponseForThisJob
  <2>3. CASE slot # 0
    <3>1. slot' = slot /\ job' = job /\ job.inciting # 0
      BY <1>1, <2>1, <2>3, NoCallCall DEF Start, ReplyInv, OwnInv
    <3> QED
      BY <2>1, <3>1 DEF ReplyInv, AwaitedInv, OwnInv, TurnInv, LinkInv, ResponseForThisJob
  <2> QED
    BY <2>2, <2>3
<1>2. ASSUME NEW j \in Events, Respond(j) PROVE ReplyInv'
  <2>1. slot = j /\ slot # 0 /\ awaited[j] > 0 /\ call = NoCall
    BY <1>2, EventsPositive DEF Respond, ReplyInv, AwaitedInv
  <2>2. call' = [at |-> "pass", event |-> j, job |-> slot]
        /\ UNCHANGED <<slot, job, next_time, running, awaited>>
    BY <1>2, <2>1 DEF Respond
  <2> QED
    BY <2>1, <2>2, NoCallCall DEF ReplyInv, AwaitedInv, OwnInv, TurnInv, LinkInv, ResponseForThisJob
<1>3. CASE Accept
  <2>1. /\ call.at = "start" /\ call.event \in Events /\ job \in Jobs /\ call \in Calls
        /\ UNCHANGED <<slot, next_time, running, awaited>> /\ running = "none"
    BY <1>3 DEF Accept, IInv, CallInv, TypeOK
  <2>2. CASE ~Stale /\ job.inciting # 0
    <3>1. job' = job /\ call' = NoCall
      BY <1>3, <2>1, <2>2 DEF Accept
    <3> QED
      BY <2>1, <2>2, <3>1, NoCallCall
      DEF ReplyInv, AwaitedInv, OwnInv, TurnInv, LinkInv, ResponseForThisJob
  <2>3. CASE ~Stale /\ job.inciting = 0
    <3>1. /\ job' = [job EXCEPT !.inciting = call.event] /\ slot # 0
          /\ call' = [call EXCEPT !.at = "accepted"]
      BY <1>3, <2>1, <2>3, EventsPositive DEF Accept, Stale, IInv, CallInv
    <3>2. job'.inciting = slot /\ job'.incoming = job.incoming
      BY <2>1, <2>3, <3>1 DEF Jobs, ReplyInv, OwnInv
    <3>3. \A j \in Events : ~(awaited[j] > 0)
      BY <2>3, EventsPositive DEF ReplyInv, AwaitedInv
    <3>4. call'.job = slot /\ call'.at = "accepted"
      BY <2>1, <2>3, <3>1 DEF Stale, Calls
    <3> QED
      BY <2>1, <3>1, <3>2, <3>3, <3>4
      DEF ReplyInv, AwaitedInv, OwnInv, TurnInv, LinkInv, ResponseForThisJob
  <2>4. CASE Stale
    <3>1. slot = 0 /\ job' = job /\ call'.at = "accepted"
      BY <1>3, <2>1, <2>4 DEF Accept, Stale, ReplyInv, LinkInv, Calls
    <3>2. \A j \in Events : ~(awaited[j] > 0)
      BY <3>1, EventsPositive DEF ReplyInv, AwaitedInv
    <3> QED
      BY <2>1, <3>1, <3>2 DEF ReplyInv, AwaitedInv, OwnInv, TurnInv, LinkInv, ResponseForThisJob
  <2> QED
    BY <2>2, <2>3, <2>4
<1>4. CASE Schedule
  <2>1. /\ call.at = "accepted" /\ call' = NoCall /\ running = "none"
        /\ UNCHANGED <<slot, running, awaited>> /\ job \in Jobs
        /\ job' = job \/ job' = [job EXCEPT !.handler = "set"]
    BY <1>4 DEF Schedule, IInv, TypeOK
  <2>2. job'.inciting = job.inciting /\ job'.incoming = job.incoming
    BY <2>1 DEF Jobs
  <2> QED
    BY <2>1, <2>2, NoCallCall DEF ReplyInv, AwaitedInv, OwnInv, TurnInv, LinkInv, ResponseForThisJob
<1>5. CASE Pass
  <2>1. /\ call.at = "pass" /\ call.event \in Events /\ awaited[call.event] > 0 /\ ~Stale
        /\ running = "none" /\ call' = NoCall /\ UNCHANGED <<slot, running>>
        /\ job \in Jobs /\ awaited \in [Events -> Nat]
    BY <1>5 DEF Pass, Stale, ReplyInv, LinkInv, IInv, CallInv, TypeOK
  <2>2. call.event = slot /\ awaited[slot] = 1 /\ slot # 0 /\ job.inciting = slot
    BY <2>1, EventsPositive DEF ReplyInv, AwaitedInv
  <2>3. CASE job.incoming # 0
    <3>1. UNCHANGED <<job, next_time, awaited>>
      BY <1>5, <2>1, <2>3 DEF Pass
    <3> QED
      BY <2>1, <3>1, NoCallCall DEF ReplyInv, AwaitedInv, OwnInv, TurnInv, LinkInv, ResponseForThisJob
  <2>4. CASE job.incoming = 0
    <3>1. job' = [job EXCEPT !.incoming = slot] /\ awaited' = [awaited EXCEPT ![slot] = @ - 1]
      BY <1>5, <2>1, <2>2, <2>4 DEF Pass
    <3>2. job'.inciting = job.inciting /\ job'.incoming = slot
      BY <2>1, <3>1 DEF Jobs
    <3>3. \A j \in Events : ~(awaited'[j] > 0)
      BY <2>1, <2>2, <3>1 DEF ReplyInv, AwaitedInv
    <3> QED
      BY <2>1, <2>2, <3>2, <3>3, NoCallCall
      DEF ReplyInv, AwaitedInv, OwnInv, TurnInv, LinkInv, ResponseForThisJob
  <2> QED
    BY <2>3, <2>4
<1> QED
  BY <1>1, <1>2, <1>3, <1>4, <1>5 DEF InputThread

\* A job is executed when its response is there, and awaits the next one alone.
LEMMA ReplyToJob ==
  ASSUME IInv, ReplyInv, RunInThread \/ RunInIsr \/ Execute
  PROVE  ReplyInv'
<1>1. CASE RunInThread
  <2>1. /\ next_time = "now" /\ next_time' = "never" /\ running = "none" /\ call = NoCall
        /\ UNCHANGED <<slot, call, awaited>> /\ running' \in {"none", "thread"} /\ job \in Jobs
        /\ job' = job \/ job' = [job EXCEPT !.irq = "on"]
    BY <1>1 DEF RunInThread, IInv, TypeOK
  <2>2. job'.inciting = job.inciting /\ job'.incoming = job.incoming
    BY <2>1 DEF Jobs
  <2> QED
    BY <2>1, <2>2, NoCallCall DEF ReplyInv, AwaitedInv, OwnInv, TurnInv, LinkInv, ResponseForThisJob
<1>2. CASE RunInIsr
  BY <1>2 DEF RunInIsr, ReplyInv, AwaitedInv, OwnInv, TurnInv, LinkInv, ResponseForThisJob
<1>3. CASE Execute
  <2>1. PICK s \in Choices :
          \/ Ends(Advance(s)) \/ Goes(Advance(s)) \/ Waits(Advance(s))
          \/ Loops(Advance(s)) \/ QuitsIsr(Advance(s))
    BY <1>3 DEF Execute
  <2>2. /\ running # "none" /\ call' = call /\ slot # 0 /\ slot \in Events
        /\ job \in Jobs /\ awaited \in [Events -> Nat] /\ running \in {"none", "thread", "isr"}
        /\ job.inciting # 0
    BY <1>3 DEF Execute, IInv, SlotInv, RunInv, TypeOK
  <2>3. /\ job.inciting = slot /\ \A j \in Events : ~(awaited[j] > 0)
        /\ call.at # "pass"
    BY <2>2 DEF ReplyInv, AwaitedInv, OwnInv, IInv, CallInv
  <2>4. CASE Finalize /\ UNCHANGED <<next_time, awaited>>
    BY <2>2, <2>3, <2>4, BlankJob
    DEF Finalize, ReplyInv, AwaitedInv, OwnInv, TurnInv, LinkInv, ResponseForThisJob
  <2>5. CASE /\ UNCHANGED <<slot, awaited>> /\ running' \in {"none", running}
             /\ running' # "none" => next_time' = next_time
             /\ job'.inciting = job.inciting /\ job'.incoming = job.incoming
    BY <2>2, <2>3, <2>5 DEF ReplyInv, AwaitedInv, OwnInv, TurnInv, LinkInv, ResponseForThisJob
  <2>6. CASE Waits(Advance(s))
    <3>1. /\ job' = [job EXCEPT !.task = Advance(s).task, !.incoming = 0]
          /\ running' = "none" /\ UNCHANGED <<slot, next_time>>
          /\ awaited' = IF job.inciting \in IsrEvents THEN awaited
                        ELSE [awaited EXCEPT ![slot] = @ + 1]
      BY <2>6 DEF Waits
    <3>2. job'.inciting = job.inciting /\ job'.incoming = 0
      BY <2>2, <3>1 DEF Jobs
    <3>3. CASE job.inciting \in IsrEvents
      BY <2>2, <2>3, <3>1, <3>2, <3>3
      DEF ReplyInv, AwaitedInv, OwnInv, TurnInv, LinkInv, ResponseForThisJob
    <3>4. CASE job.inciting \notin IsrEvents
      <4>1. running = "thread" /\ next_time = "never"
        BY <2>2, <3>4 DEF ReplyInv, TurnInv
      <4>2. \A j \in Events : awaited'[j] > 0 => j = slot /\ awaited'[j] = 1
        BY <2>2, <2>3, <3>1, <3>4
      <4> QED
        BY <2>2, <2>3, <3>1, <3>2, <3>4, <4>1, <4>2
        DEF ReplyInv, AwaitedInv, OwnInv, TurnInv, LinkInv, ResponseForThisJob
    <3> QED
      BY <3>3, <3>4
  <2>7. CASE Ends(Advance(s)) \/ Goes(Advance(s))
    <3>1. \/ Finalize /\ UNCHANGED <<next_time, awaited>>
          \/ /\ job' = [job EXCEPT !.phase = Advance(s).phase, !.task = Advance(s).task]
             /\ UNCHANGED <<slot, running, next_time, awaited>>
      BY <2>7 DEF Ends, Goes
    <3>2. ASSUME job' = [job EXCEPT !.phase = Advance(s).phase, !.task = Advance(s).task]
          PROVE  job'.inciting = job.inciting /\ job'.incoming = job.incoming
      BY <2>2, <3>2 DEF Jobs
    <3> QED
      BY <2>4, <2>5, <3>1, <3>2
  <2>8. CASE Loops(Advance(s)) \/ QuitsIsr(Advance(s))
    <3>1. /\ UNCHANGED <<slot, awaited>> /\ running' = "none"
          /\ job' = job \/ job' = [job EXCEPT !.irq = "off"]
      BY <2>8 DEF Loops, QuitsIsr
    <3>2. job'.inciting = job.inciting /\ job'.incoming = job.incoming
      BY <2>2, <3>1 DEF Jobs
    <3> QED
      BY <2>5, <3>1, <3>2
  <2> QED
    BY <2>1, <2>6, <2>7, <2>8
<1> QED
  BY <1>1, <1>2, <1>3

\* w25.c:175-177: the response a job finds in incoming_event is its own, wherever the
\* interrupt comes: it ends only jobs that await no response.
THEOREM ResponsesFindTheirJob == Spec => []ResponseForThisJob
<1>1. IInv /\ ReplyInv /\ [Next]_vars => ReplyInv'
  <2> SUFFICES ASSUME IInv, ReplyInv, [Next]_vars PROVE ReplyInv'
    OBVIOUS
  <2>1. CASE UNCHANGED vars
    BY <2>1 DEF vars, ReplyInv, AwaitedInv, OwnInv, TurnInv, LinkInv, ResponseForThisJob
  <2> QED
    BY <2>1, ReplyToCalls, ReplyToJob DEF Next
<1>2. ReplyInv => ResponseForThisJob
  BY DEF ReplyInv
<1> QED
  BY <1>1, <1>2, ReplyInit, InvariantHolds, PTL DEF Spec

-----------------------------------------------------------------------------
\* The refinement

\* What Advance says of failed tasks
LEMMA AdvanceTasks ==
  ASSUME IInv, running # "none", NEW s \in Choices
  PROVE  /\ Advance(s).signal \notin {SUCCESS, FAILURE} => job.task # TASK_FAILURE
         /\ Advance(s).signal = WAIT => Advance(s).task # TASK_FAILURE
         /\ Advance(s).signal = SUCCESS /\ Advance(s).phase = SUCCESS => job.task # TASK_FAILURE
         /\ Advance(s).signal \in {SUCCESS, FAILURE} /\ Advance(s).phase = Advance(s).signal
              => Advance(s).task = job.task /\ job.phase \notin {SUCCESS, FAILURE}
<1>1. job \in Jobs /\ s \in JobSignals
  BY DEF IInv, TypeOK, Choices, JobSignals
<1>2. CASE job.phase \in {SUCCESS, FAILURE}
  BY <1>1, <1>2 DEF Advance
<1>3. CASE job.phase \notin {SUCCESS, FAILURE} /\ job.task \in {TASK_SUCCESS, TASK_FAILURE}
  BY <1>1, <1>3, PhaseAssumption DEF Advance, Jobs, JobPhases
<1>4. CASE job.phase \notin {SUCCESS, FAILURE} /\ job.task \notin {TASK_SUCCESS, TASK_FAILURE}
  <2>1. Advance(s) = Obey(s)
    BY <1>4 DEF Advance
  <2>2. s = WAIT => job.task \in 0..(LastTask - 1)
    BY <1>1, <1>4, PhaseAssumption DEF Choices, Jobs, TaskPhases
  <2> QED
    BY <1>1, <1>4, <2>1, <2>2, PhaseAssumption DEF Obey, JobSignals
<1> QED
  BY <1>2, <1>3, <1>4

\* The service starts in its initial state.
LEMMA RefinesInit == Init => Service!Init
BY BlankJob DEF Init, Service!Init

\* Nothing the service sees changes as long as these stay.
LEMMA Stutter ==
  ASSUME job'.inciting = job.inciting, UNCHANGED report,
         job'.task = TASK_FAILURE <=> job.task = TASK_FAILURE,
         \A e \in Events : fate'[e] = "finalized" <=> fate[e] = "finalized"
  PROVE  UNCHANGED Service!vars
BY DEF Service!vars

\* The end of a job is a report, a release or both at once.
LEMMA RefinesEnds ==
  ASSUME IInv, running # "none", NEW s \in Choices, Ends(Advance(s))
  PROVE  [Service!Next]_(Service!vars)
<1> DEFINE next == Advance(s)
           current == job.inciting
<1>0. job \in Jobs /\ current \in Events /\ current # 0 /\ fate[current] = "accepted"
  BY EventsPositive DEF IInv, TypeOK, SlotInv, RunInv, Jobs
<1>1. /\ report[current] # "none" => job.phase \in {SUCCESS, FAILURE}
      /\ job.phase \in {SUCCESS, FAILURE} => report[current] # "none"
  BY <1>0 DEF IInv, ReportInv
<1>2. CASE next.phase = next.signal /\ next.signal # HALT
  <2>1. /\ job' = [job EXCEPT !.phase = next.phase, !.task = next.task]
        /\ report' = [report EXCEPT ![current] = Outcome(next.signal)]
        /\ UNCHANGED fate
        /\ next.signal \in {SUCCESS, FAILURE}
    BY <1>2 DEF Ends, Reported
  <2>2. /\ next.task = job.task /\ report[current] = "none"
        /\ next.signal = SUCCESS => job.task # TASK_FAILURE
    BY <1>0, <1>1, <1>2, <2>1, AdvanceTasks
  <2>3. job'.inciting = current /\ job'.task = job.task
    BY <1>0, <2>1, <2>2 DEF Jobs
  <2>4. Service!Report(Outcome(next.signal)) /\ Outcome(next.signal) \in {"success", "failure"}
    BY <1>0, <2>1, <2>2, <2>3 DEF Service!Report, Outcome
  <2> QED
    BY <2>4 DEF Service!Next
<1>3. CASE next.phase # next.signal \/ next.signal = HALT
  <2>1. /\ fate' = [e \in Events |-> IF e = current THEN "finalized"
                                     ELSE IF fate[e] = "deferred" THEN "new" ELSE fate[e]]
        /\ job' = Blank
    BY <1>3 DEF Ends, Finalize
  <2>2. /\ {e \in Events : fate'[e] = "finalized"}
             = {e \in Events : fate[e] = "finalized"} \cup {current}
        /\ job'.inciting = 0 /\ job'.task # TASK_FAILURE
    BY <1>0, <2>1, BlankJob
  <2>3. CASE next.signal = HALT
    <3>1. report' = [report EXCEPT ![current] = "halted"] /\ report[current] = "none"
      BY <1>1, <2>3, AdvanceResult DEF Ends, Reported, Outcome
    <3>2. Service!Halt
      BY <1>0, <2>2, <3>1 DEF Service!Halt
    <3> QED
      BY <3>2 DEF Service!Next
  <2>4. CASE next.signal # HALT
    <3>1. UNCHANGED report /\ report[current] # "none"
      BY <1>1, <1>3, <2>4, AdvanceResult DEF Ends
    <3>2. Service!Release
      BY <1>0, <2>2, <3>1 DEF Service!Release
    <3> QED
      BY <3>2 DEF Service!Next
  <2> QED
    BY <2>3, <2>4
<1> QED
  BY <1>2, <1>3

\* A turn of the loop is a step of the service or nothing to it.
LEMMA RefinesExecute ==
  ASSUME IInv, Execute
  PROVE  [Service!Next]_(Service!vars)
<1>1. running # "none" /\ job \in Jobs /\ job.inciting # 0
  BY DEF Execute, IInv, TypeOK, SlotInv, RunInv
<1>2. PICK s \in Choices : \/ Ends(Advance(s)) \/ Goes(Advance(s)) \/ Waits(Advance(s))
                           \/ Loops(Advance(s)) \/ QuitsIsr(Advance(s))
  BY DEF Execute
<1>3. CASE Ends(Advance(s))
  BY <1>1, <1>3, RefinesEnds
<1>4. CASE Goes(Advance(s))
  <2>1. /\ job'.inciting = job.inciting /\ job'.task = Advance(s).task
        /\ UNCHANGED <<fate, report>>
    BY <1>1, <1>4 DEF Goes, Jobs
  <2>2. job.task # TASK_FAILURE /\ job.phase \notin {SUCCESS, FAILURE}
    BY <1>1, <1>4, AdvanceTasks, AdvanceResult DEF Goes
  <2>3. CASE job'.task = TASK_FAILURE
    <3>1. job.inciting \in Events /\ report[job.inciting] = "none"
      BY <1>1, <2>2 DEF IInv, SlotInv, ReportInv, Jobs
    <3>2. Service!TaskFails
      BY <1>1, <2>1, <2>3, <3>1 DEF Service!TaskFails
    <3> QED
      BY <3>2 DEF Service!Next
  <2>4. CASE job'.task # TASK_FAILURE
    BY <2>1, <2>2, <2>4, Stutter
  <2> QED
    BY <2>3, <2>4
<1>5. CASE Waits(Advance(s))
  <2>1. /\ job'.inciting = job.inciting /\ job'.task = Advance(s).task
        /\ UNCHANGED <<fate, report>>
    BY <1>1, <1>5 DEF Waits, Jobs
  <2>2. job.task # TASK_FAILURE /\ job'.task # TASK_FAILURE
    BY <1>1, <1>5, <2>1, AdvanceTasks DEF Waits
  <2> QED
    BY <2>1, <2>2, Stutter
<1>6. CASE Loops(Advance(s)) \/ QuitsIsr(Advance(s))
  <2>1. /\ job'.inciting = job.inciting /\ job'.task = job.task
        /\ UNCHANGED <<fate, report>>
    BY <1>1, <1>6 DEF Loops, QuitsIsr, Jobs
  <2> QED
    BY <2>1, Stutter
<1> QED
  BY <1>2, <1>3, <1>4, <1>5, <1>6

\* Storing the event is where the service accepts it.
LEMMA RefinesAccept ==
  ASSUME IInv, Accept
  PROVE  [Service!Next]_(Service!vars)
<1> DEFINE e == call.event
<1>1. job \in Jobs /\ e \in Events /\ e # 0 /\ fate[e] = "new" /\ UNCHANGED report
  BY EventsPositive DEF Accept, IInv, TypeOK, CallInv
<1>2. {x \in Events : fate'[x] = "finalized"} = {x \in Events : fate[x] = "finalized"}
  BY <1>1 DEF Accept, IInv, TypeOK
<1>3. CASE Stale \/ job.inciting # 0
  <2>1. job' = job
    BY <1>3 DEF Accept
  <2> QED
    BY <1>1, <1>2, <2>1 DEF Service!vars
<1>4. CASE ~Stale /\ job.inciting = 0
  <2>1. job'.inciting = e /\ job'.task = job.task
    BY <1>1, <1>4 DEF Accept, Jobs
  <2>2. Service!Accept(e)
    BY <1>1, <1>2, <1>4, <2>1 DEF Service!Accept
  <2> QED
    BY <1>1, <2>2 DEF Service!Next
<1> QED
  BY <1>3, <1>4

\* Allocating the job is nothing to the service.
LEMMA RefinesStart ==
  ASSUME IInv, NEW e \in Events, Start(e)
  PROVE  UNCHANGED Service!vars
<1>1. CASE slot = 0
  <2>1. job' = Blank /\ UNCHANGED <<fate, report>>
    BY <1>1 DEF Start
  <2>2. job.inciting = 0 /\ job.task # TASK_FAILURE
    BY <1>1 DEF IInv, SlotInv
  <2> QED
    BY <2>1, <2>2, BlankJob, Stutter
<1>2. CASE slot # 0
  BY <1>2 DEF Start, Service!vars
<1> QED
  BY <1>1, <1>2

\* Every step is a step of the service or nothing to it.
LEMMA RefinesStep ==
  ASSUME IInv, [Next]_vars
  PROVE  [Service!Next]_(Service!vars)
<1>1. ASSUME NEW e \in Events, Respond(e) PROVE UNCHANGED Service!vars
  BY <1>1 DEF Respond, Service!vars
<1>2. ASSUME Schedule \/ Pass \/ RunInThread \/ RunInIsr PROVE UNCHANGED Service!vars
  <2>1. /\ job'.inciting = job.inciting /\ job'.task = job.task
        /\ UNCHANGED <<fate, report>>
    BY <1>2 DEF Schedule, Pass, RunInThread, RunInIsr, IInv, TypeOK, Jobs
  <2> QED
    BY <2>1, Stutter
<1>3. CASE UNCHANGED vars
  BY <1>3 DEF vars, Service!vars
<1> QED
  BY <1>1, <1>2, <1>3, RefinesStart, RefinesAccept, RefinesExecute DEF Next, InputThread

\* job.c implements the job service, for every number of events and phases and
\* wherever the interrupt comes
THEOREM JobImplementsService == Spec => ServiceSpec
BY RefinesInit, RefinesStep, InvariantHolds, PTL DEF Spec, ServiceSpec, Service!Spec
=============================================================================

----------------------------- MODULE ActorThread -----------------------------
(***************************************************************************)
(* The event loop every shared thread runs (actor_rtos thread.c), with the *)
(* way an actor accepts, defers or refuses an event (event.c) and catches  *)
(* up once it is free again (actor.c).  A thread dispatches its current    *)
(* event to workers, requeues what busy actors deferred, shifts its queue, *)
(* and sleeps on its single notification slot.  Each step of that loop is  *)
(* an action: threads, interrupts and finishing actors interleave between. *)
(*                                                                         *)
(* No class of this repository has a worker in the catch-up thread, so that *)
(* node->catchup is NULL: what the input thread does when an actor defers is *)
(* undefined, and modelled by its outcomes.                                 *)
(*                                                                         *)
(* Time is abstract: the alarm that bounds a sleep (60 s) may ring whenever *)
(* a thread sleeps.  What actors do with an event they hold is not modelled.*)
(***************************************************************************)
EXTENDS Integers, Sequences, FiniteSets

CONSTANTS
  Threads,        \* the threads that run actor_thread_execute
  Actors,         \* the actors with a worker in these threads
  Home,           \* the thread in which each actor takes events
  Listeners,      \* per thread, those subscribed to broadcasts, in the order of the workers
  None,           \* NULL
  Input,          \* node->input, whose workers a finishing actor consults
  QueueSize,      \* the queue_size each thread was created with
  Policy,         \* how each actor takes events: "handle", "accept", "receive"
  Targets,        \* the consumers events are published for; None: broadcast
  Buffered,       \* do events carry an actor_buffer_t?
  MaxEvents,      \* bound: the number of events ever published
  MaxReschedules  \* bound: the number of RESCHEDULE notifications

ASSUME ThreadAssumption ==
  /\ Home \in [Actors -> Threads]
  /\ Listeners \in [Threads -> Seq(Actors)]
  /\ \A t \in Threads : \A k \in DOMAIN Listeners[t] : Home[Listeners[t][k]] = t
  /\ None \notin Actors \cup Threads
  /\ QueueSize \in [Threads -> Nat \ {0}]
  /\ Policy \in [Actors -> {"handle", "accept", "receive"}]
  /\ Targets \subseteq Actors \cup {None}
  /\ Buffered \in BOOLEAN
  /\ MaxEvents \in Nat /\ MaxReschedules \in Nat

VARIABLES
  pc,          \* where each thread is in its loop
  event,       \* the loop's local event
  previous,    \* its status when the loop began: previous_event_status
  todo,        \* the actors whose workers are still to be called, the current one first
  deferred,    \* the local deferred_count
  queue, note, \* the thread's queue and notification slot
  announcing,  \* the publishers, of each thread, that have sent but not notified yet
  catchup,     \* worker->catchup, per thread and actor
  slot,        \* the event an actor is busy with, 0 when it is idle
  fate,        \* ghost: what became of each event
  taken,       \* ghost: how often each event was stored as HANDLED by an actor
  users,       \* buffer->users of the buffer each event carries
  stopped,     \* a fault stopped the program
  reschedules  \* ghost: RESCHEDULE notifications so far

loop == <<pc, event, previous, todo, deferred>>
mail == <<queue, note, announcing>>
actors == <<catchup, slot, taken, users>>
vars == <<loop, mail, actors, fate, reschedules, stopped>>

Ids == 1..MaxEvents
Statuses == {"WAITING", "RECEIVED", "ADDRESSED", "HANDLED", "DEFERRED"}
Events == [id : 0..MaxEvents, status : Statuses, consumer : Actors \cup {None}]

\* An alarm, or the zeroed event that actor_event_finalize leaves: nothing here
\* tells them apart, since no actor stores or defers either.
NoEvent == [id |-> 0, status |-> "WAITING", consumer |-> None]

\* actor_thread_get_catchup_thread: a thread keeps what is deferred, the input
\* thread passes it to node->catchup, which is NULL
CatchupOf(t) == IF t = Input THEN None ELSE t

\* A bug to catch: a queue takes one event more than it has room for
FullTooLate(t) == Len(queue[t]) > QueueSize[t]

\* xQueueSend fails at once
Full(t) == Len(queue[t]) >= QueueSize[t]

\* An actor is busy with the event
Held(i) == \E a \in Actors : slot[a] = i

-----------------------------------------------------------------------------
\* A bug to catch: the actor that takes an event does not become its consumer
StampUnclaimed(e, a, status) == [e EXCEPT !.status = status]

\* actor_event_set_status: an actor that takes or defers a buffered event owns
\* it, and uses its buffer unless it already did when the event was deferred.
Stamp(e, a, status) ==
  IF Buffered /\ status \in {"HANDLED", "DEFERRED"}
  THEN [e EXCEPT !.status = status, !.consumer = a]
  ELSE [e EXCEPT !.status = status]

\* A bug to catch: a deferred event's buffer is used once more when it is handled
UsesOfEveryTime(e, status) ==
  IF Buffered /\ status \in {"RECEIVED", "HANDLED", "DEFERRED"} THEN 1 ELSE 0

UsesOf(e, status) ==
  IF Buffered /\ status \in {"RECEIVED", "HANDLED", "DEFERRED"} /\ e.status # "DEFERRED"
  THEN 1 ELSE 0

ReadyStatus(a) == IF Policy[a] = "receive" THEN "RECEIVED" ELSE "HANDLED"

\* A bug to catch: a busy actor claims to have handled what it only refused
BusyStatusSwapped(a) == ReadyStatus(a)

BusyStatus(a) == CASE Policy[a] = "handle"  -> "DEFERRED"
                   [] Policy[a] = "accept"  -> "ADDRESSED"
                   [] Policy[a] = "receive" -> "RECEIVED"

\* The top of the loop: the event e is about to be dispatched, to its consumer
\* or to every subscribed actor
Begin(t, e) ==
  /\ pc' = [pc EXCEPT ![t] = "dispatch"]
  /\ event' = [event EXCEPT ![t] = e]
  /\ previous' = [previous EXCEPT ![t] = e.status]
  /\ todo' = [todo EXCEPT ![t] =
        IF e.id = 0 THEN <<>>
        ELSE IF e.consumer # None THEN <<e.consumer>>
        ELSE Listeners[t]]
  /\ UNCHANGED deferred

Goto(t, at) == pc' = [pc EXCEPT ![t] = at]

-----------------------------------------------------------------------------
\* actor_thread_publish_generic sends to the queue of the thread that serves the
\* target, ...
Publish(t, target) ==
  LET unpublished == {i \in Ids : fate[i] = "unpublished"} IN
  /\ ~stopped
  /\ target # None => Home[target] = t
  /\ \E id \in unpublished :
       /\ \A i \in unpublished : id <= i
       /\ IF Full(t)
          THEN /\ fate' = [fate EXCEPT ![id] = "rejected"]
               /\ UNCHANGED <<queue, announcing>>
          ELSE /\ fate' = [fate EXCEPT ![id] = "pending"]
               /\ queue' = [queue EXCEPT ![t] =
                     Append(@, [id |-> id, status |-> "WAITING", consumer |-> target])]
               /\ announcing' = [announcing EXCEPT ![t] = @ + 1]
  /\ UNCHANGED <<loop, note, actors, reschedules, stopped>>

\* A bug to catch: a publisher does not overwrite a pending notification
AnnounceKeeps(t) ==
  /\ ~stopped /\ announcing[t] > 0
  /\ announcing' = [announcing EXCEPT ![t] = @ - 1]
  /\ note' = [note EXCEPT ![t] = IF @ = "none" THEN "EVENT" ELSE @]
  /\ UNCHANGED <<loop, queue, actors, fate, reschedules, stopped>>

\* ... then notifies the thread, whatever notification is pending.  Threads and
\* interrupts that publish overlap.
Announce(t) ==
  /\ ~stopped /\ announcing[t] > 0
  /\ announcing' = [announcing EXCEPT ![t] = @ - 1]
  /\ note' = [note EXCEPT ![t] = "EVENT"]
  /\ UNCHANGED <<loop, queue, actors, fate, reschedules, stopped>>

\* actor_thread_schedule: RESCHEDULE does not overwrite a pending notification
Reschedule(t) ==
  /\ ~stopped /\ reschedules < MaxReschedules
  /\ reschedules' = reschedules + 1
  /\ note' = [note EXCEPT ![t] = IF @ = "none" THEN "RESCHEDULE" ELSE @]
  /\ UNCHANGED <<loop, queue, announcing, actors, fate, stopped>>

\* actor_event_accept_and_process_generic, called by the next actor's worker:
\* is its destination idle?
Offer(t) ==
  /\ pc[t] = "dispatch" /\ todo[t] # <<>>
  /\ LET a == Head(todo[t])
         e == event[t]
     IN  IF slot[a] = 0
         THEN Goto(t, "store") /\ UNCHANGED <<event, users>>
         ELSE /\ Goto(t, "busy")
              /\ event' = [event EXCEPT ![t] = Stamp(e, a, BusyStatus(a))]
              /\ users' = [users EXCEPT ![e.id] = @ + UsesOf(e, BusyStatus(a))]
  /\ UNCHANGED <<previous, todo, deferred, mail, catchup, slot, taken, fate, reschedules, stopped>>

\* actor_thread_event_dispatch: go on to the next worker, or stop broadcasting
NextWorker(t) ==
  /\ todo' = [todo EXCEPT ![t] = IF event'[t].consumer # None THEN <<>> ELSE Tail(@)]
  /\ Goto(t, "dispatch")

\* It was: mark the event ready and store it
Store(t) ==
  /\ pc[t] = "store"
  /\ LET a == Head(todo[t])
         e == event[t]
     IN  /\ event' = [event EXCEPT ![t] = Stamp(e, a, ReadyStatus(a))]
         /\ users' = [users EXCEPT ![e.id] = @ + UsesOf(e, ReadyStatus(a))]
         /\ slot' = [slot EXCEPT ![a] = e.id]
         /\ taken' = [taken EXCEPT ![e.id] = IF ReadyStatus(a) = "HANDLED" THEN @ + 1 ELSE @]
  /\ NextWorker(t)
  /\ UNCHANGED <<previous, deferred, mail, catchup, fate, reschedules, stopped>>

\* It was not: the worker will have events to catch up with
MarkBusy(t) ==
  /\ pc[t] = "busy"
  /\ catchup' = [catchup EXCEPT ![t][Head(todo[t])] = t]
  /\ UNCHANGED event
  /\ NextWorker(t)
  /\ UNCHANGED <<previous, deferred, mail, slot, taken, users, fate, reschedules, stopped>>

EndAs(id, what) == fate' = [i \in Ids |-> IF i = id THEN what ELSE fate[i]]

\* actor_thread_event_requeue, status WAITING: nobody listens to the event
RequeueUnheard(t) ==
  /\ event[t].status = "WAITING"
  /\ EndAs(event[t].id, "unheard")
  /\ event' = [event EXCEPT ![t] = NoEvent]
  /\ UNCHANGED <<deferred, queue, stopped>>

\* ... status DEFERRED or ADDRESSED: the event goes to the end of the queue
RequeueDeferred(t) ==
  LET e == [event[t] EXCEPT !.status = "DEFERRED"] IN
  /\ CatchupOf(t) = t /\ event[t].status \in {"DEFERRED", "ADDRESSED"}
  /\ event' = [event EXCEPT ![t] = e]
  /\ IF Full(t)
     THEN /\ EndAs(e.id, "dropped")
          /\ UNCHANGED <<deferred, queue>>
     ELSE /\ queue' = [queue EXCEPT ![t] = Append(@, e)]
          /\ deferred' = [deferred EXCEPT ![t] = IF previous[t] # "DEFERRED" THEN @ + 1 ELSE @]
          /\ UNCHANGED fate
  /\ UNCHANGED stopped

\* ... or to node->catchup->queue, read through NULL: what is found there has no
\* room, keeps what nobody will read, or makes the program fault
RequeueOffloaded(t) ==
  /\ CatchupOf(t) = None /\ event[t].status \in {"DEFERRED", "ADDRESSED"}
  /\ event' = [event EXCEPT ![t].status = "WAITING"]
  /\ EndAs(event[t].id, "lost")
  /\ stopped' \in BOOLEAN
  /\ UNCHANGED <<deferred, queue>>

\* An event that was merely received, by actors too busy to keep it, is gone
Ignored(t) == event[t].status = "RECEIVED" /\ fate[event[t].id] = "pending" /\ ~Held(event[t].id)

\* A bug to catch: handled deferred events stay on the count
RequeueTakenUncounted(t) ==
  /\ event[t].status \in {"HANDLED", "RECEIVED"}
  /\ IF Ignored(t) THEN EndAs(event[t].id, "ignored") ELSE UNCHANGED fate
  /\ UNCHANGED <<deferred, event, queue, stopped>>

\* ... status HANDLED or RECEIVED: a deferred event that is handled is counted off
RequeueTaken(t) ==
  /\ event[t].status \in {"HANDLED", "RECEIVED"}
  /\ deferred' = [deferred EXCEPT ![t] =
        IF event[t].status = "HANDLED" /\ previous[t] = "DEFERRED" THEN @ - 1 ELSE @]
  /\ IF Ignored(t) THEN EndAs(event[t].id, "ignored") ELSE UNCHANGED fate
  /\ UNCHANGED <<event, queue, stopped>>

Requeue(t) ==
  /\ pc[t] = "dispatch" /\ todo[t] = <<>>
  /\ RequeueUnheard(t) \/ RequeueDeferred(t) \/ RequeueOffloaded(t) \/ RequeueTaken(t)
  /\ Goto(t, "shift")
  /\ UNCHANGED <<previous, todo, note, announcing, actors, reschedules>>

\* A bug to catch: the loop sleeps as soon as anything is deferred
NothingToShiftIfDeferred(t) == queue[t] = <<>> \/ deferred[t] > 0

\* Should the loop go to sleep: is there nothing, or nothing but deferred events?
NothingToShift(t) ==
  queue[t] = <<>> \/ (deferred[t] > 0 /\ deferred[t] = Len(queue[t]))

\* actor_thread_event_queue_shift takes the next event ...
Shift(t) ==
  /\ pc[t] = "shift" /\ ~NothingToShift(t)
  /\ Begin(t, Head(queue[t]))
  /\ queue' = [queue EXCEPT ![t] = Tail(@)]
  /\ UNCHANGED <<note, announcing, actors, fate, reschedules, stopped>>

\* ... or the thread goes to wait in actor_thread_event_await
Sleep(t) ==
  /\ pc[t] = "shift" /\ NothingToShift(t)
  /\ Goto(t, "await")
  /\ UNCHANGED <<event, previous, todo, deferred, mail, actors, fate, reschedules, stopped>>

\* actor_thread_event_await, woken by a published event.  A thread whose queue
\* was drained already sleeps on.
WakeByEvent(t) ==
  /\ pc[t] = "await" /\ note[t] = "EVENT"
  /\ note' = [note EXCEPT ![t] = "none"]
  /\ IF queue[t] = <<>>
     THEN UNCHANGED <<loop, queue>>
     ELSE /\ Begin(t, Head(queue[t]))
          /\ queue' = [queue EXCEPT ![t] = Tail(@)]
  /\ UNCHANGED <<announcing, actors, fate, reschedules, stopped>>

\* ... RESCHEDULE: the time was changed, sleep on
WakeByReschedule(t) ==
  /\ pc[t] = "await" /\ note[t] = "RESCHEDULE"
  /\ note' = [note EXCEPT ![t] = "none"]
  /\ UNCHANGED <<loop, queue, announcing, actors, fate, reschedules, stopped>>

\* ... no notification came in time: an alarm event is broadcast
WakeByAlarm(t) ==
  /\ pc[t] = "await" /\ note[t] = "none"
  /\ Begin(t, NoEvent)
  /\ UNCHANGED <<mail, actors, fate, reschedules, stopped>>

\* An actor is done with the event it holds: actor_event_finalize releases the
\* buffer, then actor_worker_catchup notifies the catch-up thread if the input
\* thread's worker had to defer.  There is none: the task of NULL is notified,
\* which has no effect that shows here or makes the program fault.
\* Interrupts are disabled, or it runs in one: threads see it as one step.
Finish(a) ==
  /\ ~stopped /\ slot[a] # 0
  /\ slot' = [slot EXCEPT ![a] = 0]
  /\ fate' = [fate EXCEPT ![slot[a]] = "finished"]
  /\ users' = [users EXCEPT ![slot[a]] = IF Buffered THEN @ - 1 ELSE @]
  /\ IF Input \in Threads /\ catchup[Input][a] # None
     THEN catchup' = [catchup EXCEPT ![Input][a] = None] /\ stopped' \in BOOLEAN
     ELSE UNCHANGED <<catchup, stopped>>
  /\ UNCHANGED <<loop, mail, taken, reschedules>>

-----------------------------------------------------------------------------
\* actor_thread_execute before its loop: an alarm event is dispatched first
Init ==
  /\ pc = [t \in Threads |-> "dispatch"]
  /\ event = [t \in Threads |-> NoEvent]
  /\ previous = [t \in Threads |-> "WAITING"]
  /\ todo = [t \in Threads |-> <<>>]
  /\ deferred = [t \in Threads |-> 0]
  /\ queue = [t \in Threads |-> <<>>]
  /\ note = [t \in Threads |-> "none"]
  /\ announcing = [t \in Threads |-> 0]
  /\ catchup = [t \in Threads |-> [a \in Actors |-> None]]
  /\ slot = [a \in Actors |-> 0]
  /\ fate = [i \in Ids |-> "unpublished"]
  /\ taken = [i \in Ids |-> 0]
  /\ users = [i \in Ids |-> 0]
  /\ reschedules = 0
  /\ stopped = FALSE

Dispatch(t) == Offer(t) \/ Store(t) \/ MarkBusy(t) \/ Requeue(t)
Wake(t) == WakeByEvent(t) \/ WakeByReschedule(t) \/ WakeByAlarm(t)
Loop(t) == ~stopped /\ (Dispatch(t) \/ Shift(t) \/ Sleep(t) \/ Wake(t))

Next ==
  \/ \E t \in Threads, target \in Targets : Publish(t, target)
  \/ \E t \in Threads : Announce(t) \/ Reschedule(t)
  \/ \E t \in Threads : Loop(t)
  \/ \E a \in Actors : Finish(a)

Spec == Init /\ [][Next]_vars

\* FreeRTOS schedules every ready thread, no sleep is longer than 60 s, and
\* hardware or job eventually lets an actor finish what it holds.
FairSpec == /\ Spec
            /\ \A t \in Threads : WF_vars(Loop(t)) /\ WF_vars(Announce(t))
            /\ \A a \in Actors : WF_vars(Finish(a))
-----------------------------------------------------------------------------
Fates == {"unpublished", "pending", "rejected", "dropped", "lost", "ignored", "unheard", "finished"}

TypeOK ==
  /\ pc \in [Threads -> {"dispatch", "store", "busy", "shift", "await"}]
  /\ event \in [Threads -> Events]
  /\ previous \in [Threads -> Statuses]
  /\ todo \in [Threads -> Seq(Actors)]
  /\ deferred \in [Threads -> Int]
  /\ queue \in [Threads -> Seq(Events)]
  /\ \A t \in Threads : Len(queue[t]) <= QueueSize[t]
  /\ note \in [Threads -> {"none", "EVENT", "RESCHEDULE"}]
  /\ announcing \in [Threads -> Nat]
  /\ catchup \in [Threads -> [Actors -> Threads \cup {None}]]
  /\ slot \in [Actors -> 0..MaxEvents]
  /\ fate \in [Ids -> Fates]
  /\ taken \in [Ids -> Nat]
  /\ users \in [Ids -> Int]
  /\ reschedules \in 0..MaxReschedules
  /\ stopped \in BOOLEAN

InQueue(i) == \E t \in Threads : \E k \in DOMAIN queue[t] : queue[t][k].id = i
InDispatch(i) == \E t \in Threads : pc[t] \in {"dispatch", "store", "busy"} /\ event[t].id = i

\* README.md:108 "events are never lost", as far as it holds: an event that the
\* queue accepted is in a queue, being dispatched or held by an actor, until it is
\* finished, found to have no listener, received by busy actors only, dropped at a
\* full queue or lost for want of a catch-up thread.  No interleaving of threads,
\* publishers and finishing actors makes it disappear in any other way.
NoEventVanishes ==
  \A i \in Ids : fate[i] = "pending" => InQueue(i) \/ InDispatch(i) \/ Held(i)

\* README.md:108 "This ensures input bus is never blocked and events are never
\* lost", thread.c:217 "input thread off-loads its deferred events to a queue of a
\* `catchup` thread": a deferred event is kept somewhere.
NoEventLost == \A i \in Ids : fate[i] # "lost"

\* event.h:50-51: an event one actor handled is never stored by an actor again,
\* neither by another one nor by the same one from a copy left somewhere.
HandledOnce == \A i \in Ids : taken[i] <= 1

\* thread.c:41, 176-190: deferred_count counts the deferred events in the
\* thread's own queue, so the loop sleeps exactly when nothing else is there.
Count(t) == Cardinality({k \in DOMAIN queue[t] : queue[t][k].status = "DEFERRED"})
DeferredCountExact == \A t \in Threads : pc[t] \in {"shift", "await"} => deferred[t] = Count(t)

\* README.md:62-63: once an event is finished, its buffer has no users left.
BufferReleased ==
  \A i \in Ids : fate[i] = "finished" /\ ~InQueue(i) /\ ~InDispatch(i) /\ ~Held(i) => users[i] = 0

HasFresh(t) == \E k \in DOMAIN queue[t] : queue[t][k].status = "WAITING"

\* thread.c:242, 346-347: a thread does not sleep on a fresh event unless a
\* notification of it is pending or about to be sent, although publishers overlap
\* and share the one notification slot with RESCHEDULE.  The alarm that ends every
\* sleep in the end is not what wakes it.
NoWakeupLost ==
  \A t \in Threads : pc[t] = "await" /\ HasFresh(t) => note[t] = "EVENT" \/ announcing[t] > 0

\* thread.c:236-247: no fresh event stays in a queue for good, whatever
\* notifications were overwritten: the thread gets to it in the end.
FreshEventsDispatched ==
  \A i \in Ids : []<>~(\E t \in Threads : \E k \in DOMAIN queue[t] :
                         queue[t][k].id = i /\ queue[t][k].status = "WAITING")
=============================================================================

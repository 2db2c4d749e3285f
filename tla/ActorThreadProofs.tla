-------------------------- MODULE ActorThreadProofs ---------------------------
(***************************************************************************)
(* Proofs about ActorThread, for any threads, actors, queues and events.    *)
(***************************************************************************)
EXTENDS ActorThread, SequenceTheorems, TLAPS

\* Between the test of its destination and the next worker an event has a worker.
Working == \A t \in Threads : pc[t] \in {"store", "busy"} => todo[t] # <<>>

\* The actors of a thread, and the events that are for one of them or for all.
ActorsOf(t) == {a \in Actors : Home[a] = t}
EventsOf(t) == {e \in Events : e.consumer # None => Home[e.consumer] = t}

\* A thread is concerned with its own actors only.
AtHome ==
  \A t \in Threads : /\ event[t] \in EventsOf(t) /\ queue[t] \in Seq(EventsOf(t))
                     /\ todo[t] \in Seq(ActorsOf(t))

\* An event that is about to be stored finds its actor idle: no other thread serves it.
StoreAlone == \A t \in Threads : pc[t] = "store" => slot[Head(todo[t])] = 0

\* A queue holds no event that an actor has taken.
QueuedOpen ==
  \A t \in Threads : \A k \in DOMAIN queue[t] : queue[t][k].status \in {"WAITING", "DEFERRED"}

\* An event that a loop takes for handled is with an actor, or was finished since.
TakenIsHeld ==
  \A t \in Threads, i \in Ids :
    event[t].id = i /\ event[t].status = "HANDLED" =>
      Held(i) \/ fate[i] \notin {"unpublished", "pending"}

TInv == TypeOK /\ Working
IInv == StoreAlone /\ QueuedOpen /\ TakenIsHeld /\ NoEventVanishes

-----------------------------------------------------------------------------
\* What an alarm or a finalized event leaves in the loop is an event.
LEMMA NoEventIsEvent == NoEvent \in Events
BY ThreadAssumption DEF NoEvent, Events, Statuses

\* Stamping an event changes its status, never which event it is.
LEMMA StampType ==
  ASSUME NEW e \in Events, NEW a \in Actors, NEW status \in Statuses
  PROVE  Stamp(e, a, status) \in Events /\ Stamp(e, a, status).id = e.id
         /\ Stamp(e, a, status).status = status
BY DEF Stamp, Events

\* An idle actor takes an event; a busy one refuses it or merely receives it.
LEMMA StatusType ==
  ASSUME NEW a \in Actors
  PROVE  /\ ReadyStatus(a) \in {"RECEIVED", "HANDLED"}
         /\ BusyStatus(a) \in {"DEFERRED", "ADDRESSED", "RECEIVED"}
<1>1. Policy[a] \in {"handle", "accept", "receive"}
  BY ThreadAssumption
<1>2. ReadyStatus(a) \in {"RECEIVED", "HANDLED"}
  BY DEF ReadyStatus
<1>3. CASE Policy[a] = "handle"
  BY <1>2, <1>3 DEF BusyStatus
<1>4. CASE Policy[a] = "accept"
  BY <1>2, <1>4 DEF BusyStatus
<1>5. CASE Policy[a] = "receive"
  BY <1>2, <1>5 DEF BusyStatus
<1> QED
  BY <1>1, <1>3, <1>4, <1>5

\* A stamp uses a buffer once or not at all.
LEMMA UsesType == \A e, status : UsesOf(e, status) \in {0, 1}
BY DEF UsesOf

\* Counting up the users of some event's buffer leaves counts of all of them.
LEMMA CountedType ==
  ASSUME NEW f \in [Ids -> Int], NEW i, NEW n \in Int
  PROVE  [f EXCEPT ![i] = @ + n] \in [Ids -> Int]
<1>1. CASE i \in Ids
  BY <1>1
<1>2. CASE i \notin Ids
  BY <1>2
<1> QED
  BY <1>1, <1>2

\* The loop begins with an event: its workers are actors.
LEMMA BeginType ==
  ASSUME TypeOK, NEW t \in Threads, NEW e \in Events, Begin(t, e)
  PROVE  /\ pc' = [pc EXCEPT ![t] = "dispatch"] /\ event' = [event EXCEPT ![t] = e]
         /\ previous' \in [Threads -> Statuses] /\ deferred' = deferred
         /\ todo' \in [Threads -> Seq(Actors)] /\ \A u \in Threads : u # t => todo'[u] = todo[u]
         /\ todo'[t] \in {<<>>, <<e.consumer>>, Listeners[t]}
         /\ todo'[t] = <<e.consumer>> => e.consumer # None
<1> DEFINE list == IF e.id = 0 THEN <<>> ELSE IF e.consumer # None THEN <<e.consumer>> ELSE Listeners[t]
<1>1. e.status \in Statuses /\ e.consumer \in Actors \cup {None}
  BY DEF Events
<1>2. list \in Seq(Actors)
  <2>1. <<>> \in Seq(Actors) /\ Listeners[t] \in Seq(Actors)
    BY ThreadAssumption, EmptySeq
  <2>2. ASSUME e.consumer # None PROVE <<e.consumer>> \in Seq(Actors)
    BY <1>1, <2>2
  <2> QED
    BY <2>1, <2>2
<1>3. todo' = [todo EXCEPT ![t] = list]
  BY DEF Begin
<1>4. list \in {<<>>, <<e.consumer>>, Listeners[t]} /\ (list = <<e.consumer>> => e.consumer # None)
  <2>1. ASSUME e.consumer = None, list = <<e.consumer>> PROVE FALSE
    <3> HIDE DEF list
    <3>1. list \in Seq(Actors) /\ list[1] = None /\ Len(list) = 1
      BY <1>2, <2>1
    <3>2. list[1] \in Actors
      BY <3>1, ElementOfSeq
    <3> QED
      BY <3>1, <3>2, ThreadAssumption
  <2> QED
    BY <2>1
<1> HIDE DEF list
<1>5. /\ pc' = [pc EXCEPT ![t] = "dispatch"] /\ event' = [event EXCEPT ![t] = e]
      /\ previous' = [previous EXCEPT ![t] = e.status] /\ deferred' = deferred
  BY DEF Begin
<1>6. previous' \in [Threads -> Statuses] /\ todo' \in [Threads -> Seq(Actors)]
  BY <1>1, <1>2, <1>3, <1>5 DEF TypeOK
<1>7. todo'[t] = list /\ \A u \in Threads : u # t => todo'[u] = todo[u]
  BY <1>3 DEF TypeOK
<1> QED
  BY <1>4, <1>5, <1>6, <1>7

-----------------------------------------------------------------------------
\* The loops start with an alarm and empty queues.
LEMMA InitiallyTyped == Init => TInv
<1> SUFFICES ASSUME Init PROVE TInv
  OBVIOUS
<1>1. event \in [Threads -> Events] /\ "WAITING" \in Statuses
  BY NoEventIsEvent DEF Init, Statuses
<1>2. todo \in [Threads -> Seq(Actors)] /\ queue \in [Threads -> Seq(Events)]
  BY EmptySeq DEF Init
<1>3. \A t \in Threads : Len(queue[t]) <= QueueSize[t]
  BY ThreadAssumption DEF Init
<1>4. MaxEvents \in Nat /\ MaxReschedules \in Nat
  BY ThreadAssumption
<1>5. /\ fate \in [Ids -> Fates] /\ stopped \in BOOLEAN
      /\ catchup \in [Threads -> [Actors -> Threads \cup {None}]]
  BY DEF Init, Fates
<1>6. /\ slot \in [Actors -> 0..MaxEvents] /\ reschedules \in 0..MaxReschedules
      /\ taken \in [Ids -> Nat] /\ users \in [Ids -> Int]
      /\ announcing \in [Threads -> Nat] /\ deferred \in [Threads -> Int]
  BY <1>4 DEF Init
<1>7. TypeOK
  BY <1>1, <1>2, <1>3, <1>5, <1>6 DEF Init, TypeOK
<1> QED
  BY <1>7 DEF TInv, Working, Init

\* A queue takes an event it has room for.
LEMMA AppendType ==
  ASSUME TypeOK, NEW t \in Threads, NEW e \in Events, ~Full(t),
         queue' = [queue EXCEPT ![t] = Append(@, e)]
  PROVE  /\ queue' \in [Threads -> Seq(Events)]
         /\ \A u \in Threads : Len(queue'[u]) <= QueueSize[u]
         /\ DOMAIN (queue'[t]) = 1..Len(queue[t]) + 1 /\ DOMAIN (queue[t]) = 1..Len(queue[t])
         /\ Len(queue[t]) \in Nat /\ queue'[t][Len(queue[t]) + 1] = e
         /\ \A k \in 1..Len(queue[t]) : queue'[t][k] = queue[t][k]
         /\ \A u \in Threads : u # t => queue'[u] = queue[u]
<1>1. queue[t] \in Seq(Events) /\ Len(queue[t]) \in Nat /\ QueueSize[t] \in Nat
  BY LenProperties, ThreadAssumption DEF TypeOK
<1>2. /\ Append(queue[t], e) \in Seq(Events) /\ Len(Append(queue[t], e)) = Len(queue[t]) + 1
      /\ Append(queue[t], e)[Len(queue[t]) + 1] = e
      /\ \A k \in 1..Len(queue[t]) : Append(queue[t], e)[k] = queue[t][k]
  BY <1>1, AppendProperties
<1>3. queue'[t] = Append(queue[t], e) /\ \A u \in Threads : u # t => queue'[u] = queue[u]
  BY DEF TypeOK
<1>4. queue' \in [Threads -> Seq(Events)]
  BY <1>2 DEF TypeOK
<1>5. Len(queue[t]) + 1 <= QueueSize[t]
  BY <1>1 DEF Full
<1>6. \A u \in Threads : Len(queue'[u]) <= QueueSize[u]
  BY <1>2, <1>3, <1>5 DEF TypeOK
<1>7. DOMAIN (queue'[t]) = 1..Len(queue[t]) + 1 /\ DOMAIN (queue[t]) = 1..Len(queue[t])
  BY <1>1, <1>2, <1>3, LenProperties
<1> QED
  BY <1>1, <1>2, <1>3, <1>4, <1>6, <1>7

\* An event comes off the front of a queue.
LEMMA TailType ==
  ASSUME TypeOK, NEW t \in Threads, queue[t] # <<>>, queue' = [queue EXCEPT ![t] = Tail(@)]
  PROVE  /\ queue' \in [Threads -> Seq(Events)] /\ Head(queue[t]) \in Events
         /\ \A u \in Threads : Len(queue'[u]) <= QueueSize[u]
         /\ Len(queue[t]) \in Nat \ {0} /\ Head(queue[t]) = queue[t][1]
         /\ DOMAIN (queue'[t]) = 1..Len(queue[t]) - 1 /\ DOMAIN (queue[t]) = 1..Len(queue[t])
         /\ \A k \in 1..Len(queue[t]) - 1 : queue'[t][k] = queue[t][k + 1]
         /\ \A u \in Threads : u # t => queue'[u] = queue[u]
<1>1. queue[t] \in Seq(Events) /\ QueueSize[t] \in Nat /\ Len(queue[t]) <= QueueSize[t]
  BY ThreadAssumption DEF TypeOK
<1>2. /\ Head(queue[t]) \in Events /\ Tail(queue[t]) \in Seq(Events)
      /\ Len(Tail(queue[t])) = Len(queue[t]) - 1
      /\ \A k \in 1..Len(Tail(queue[t])) : Tail(queue[t])[k] = queue[t][k + 1]
  BY <1>1, HeadTailProperties
<1>3. Len(queue[t]) \in Nat \ {0} /\ Head(queue[t]) = queue[t][1]
  BY <1>1, EmptySeq
<1>4. queue'[t] = Tail(queue[t]) /\ \A u \in Threads : u # t => queue'[u] = queue[u]
  BY DEF TypeOK
<1>5. queue' \in [Threads -> Seq(Events)]
  BY <1>2 DEF TypeOK
<1>6. \A u \in Threads : Len(queue'[u]) <= QueueSize[u]
  <2>1. Len(queue'[t]) <= QueueSize[t]
    BY <1>1, <1>2, <1>3, <1>4
  <2> QED
    BY <1>4, <2>1 DEF TypeOK
<1>7. DOMAIN (queue'[t]) = 1..Len(queue[t]) - 1 /\ DOMAIN (queue[t]) = 1..Len(queue[t])
  BY <1>1, <1>2, <1>4, LenProperties
<1> QED
  BY <1>2, <1>3, <1>4, <1>5, <1>6, <1>7

\* The list of workers gets shorter by the first.
LEMMA NextWorkerType ==
  ASSUME TypeOK, NEW t \in Threads, todo[t] # <<>>, NextWorker(t)
  PROVE  /\ todo' \in [Threads -> Seq(Actors)] /\ pc' = [pc EXCEPT ![t] = "dispatch"]
         /\ \A u \in Threads : u # t => todo'[u] = todo[u]
<1>1. Tail(todo[t]) \in Seq(Actors) /\ <<>> \in Seq(Actors)
  BY HeadTailProperties, EmptySeq DEF TypeOK
<1> QED
  BY <1>1 DEF TypeOK, NextWorker, Goto

\* The worker an event is offered to next belongs to an actor.
LEMMA FirstWorker ==
  ASSUME TypeOK, NEW t \in Threads, todo[t] # <<>>
  PROVE  Head(todo[t]) \in Actors
BY HeadTailProperties DEF TypeOK

\* actor_thread_publish_generic: a full queue takes nothing.
LEMMA PublishTyped ==
  ASSUME TInv, NEW t \in Threads, NEW target \in Targets, Publish(t, target)
  PROVE  TInv'
<1>1. PICK id \in {i \in Ids : fate[i] = "unpublished"} :
        IF Full(t)
        THEN /\ fate' = [fate EXCEPT ![id] = "rejected"]
             /\ UNCHANGED <<queue, announcing>>
        ELSE /\ fate' = [fate EXCEPT ![id] = "pending"]
             /\ queue' = [queue EXCEPT ![t] =
                   Append(@, [id |-> id, status |-> "WAITING", consumer |-> target])]
             /\ announcing' = [announcing EXCEPT ![t] = @ + 1]
  BY DEF Publish
<1> DEFINE e == [id |-> id, status |-> "WAITING", consumer |-> target]
<1>2. e \in Events /\ UNCHANGED <<loop, note, actors, reschedules, stopped>>
  BY ThreadAssumption DEF Events, Statuses, Ids, Publish
<1>3. CASE Full(t)
  BY <1>1, <1>2, <1>3 DEF TInv, TypeOK, Working, loop, actors, Fates
<1>4. CASE ~Full(t)
  <2>1. queue' = [queue EXCEPT ![t] = Append(@, e)]
    BY <1>1, <1>4
  <2> HIDE DEF e
  <2>2. queue' \in [Threads -> Seq(Events)] /\ \A u \in Threads : Len(queue'[u]) <= QueueSize[u]
    BY <1>2, <1>4, <2>1, AppendType DEF TInv
  <2>3. fate' = [fate EXCEPT ![id] = "pending"] /\ announcing' = [announcing EXCEPT ![t] = @ + 1]
    BY <1>1, <1>4
  <2> QED
    BY <1>2, <2>2, <2>3 DEF TInv, TypeOK, Working, loop, actors, Fates
<1> QED
  BY <1>3, <1>4

\* Notifications leave the queues alone.
LEMMA NotifyTyped ==
  ASSUME TInv, NEW t \in Threads, Announce(t) \/ Reschedule(t)
  PROVE  TInv'
<1>1. CASE Announce(t)
  BY <1>1 DEF Announce, TInv, TypeOK, Working, loop, actors
<1>2. CASE Reschedule(t)
  <2>1. reschedules' \in 0..MaxReschedules
    BY <1>2, ThreadAssumption DEF Reschedule, TInv, TypeOK
  <2> QED
    BY <1>2, <2>1 DEF Reschedule, TInv, TypeOK, Working, loop, actors
<1> QED
  BY <1>1, <1>2

\* Offering an event to its next actor.
LEMMA OfferTyped ==
  ASSUME TInv, NEW t \in Threads, Offer(t)
  PROVE  TInv'
<1> DEFINE a == Head(todo[t])
           e == event[t]
<1>1. a \in Actors /\ e \in Events /\ todo[t] # <<>>
  BY FirstWorker DEF Offer, TInv, TypeOK
<1>2. UNCHANGED <<previous, todo, deferred, mail, catchup, slot, taken, fate, reschedules, stopped>>
  BY DEF Offer
<1>3. CASE slot[a] = 0
  BY <1>1, <1>2, <1>3 DEF Offer, Goto, TInv, TypeOK, Working, mail
<1>4. CASE slot[a] # 0
  <2>1. /\ pc' = [pc EXCEPT ![t] = "busy"]
        /\ event' = [event EXCEPT ![t] = Stamp(e, a, BusyStatus(a))]
        /\ users' = [users EXCEPT ![e.id] = @ + UsesOf(e, BusyStatus(a))]
    BY <1>4 DEF Offer, Goto
  <2>2. Stamp(e, a, BusyStatus(a)) \in Events
    BY <1>1, StampType, StatusType DEF Statuses
  <2>3. users' \in [Ids -> Int]
    <3>1. UsesOf(e, BusyStatus(a)) \in Int /\ users \in [Ids -> Int]
      BY UsesType DEF TInv, TypeOK
    <3> QED
      BY <2>1, <3>1, CountedType
  <2> QED
    BY <1>1, <1>2, <2>1, <2>2, <2>3 DEF TInv, TypeOK, Working, mail
<1> QED
  BY <1>3, <1>4

\* Storing an event in an idle actor.
LEMMA StoreTyped ==
  ASSUME TInv, NEW t \in Threads, Store(t)
  PROVE  TInv'
<1> DEFINE a == Head(todo[t])
           e == event[t]
<1>1. a \in Actors /\ e \in Events /\ todo[t] # <<>>
  BY FirstWorker DEF Store, TInv, TypeOK, Working
<1>2. /\ event' = [event EXCEPT ![t] = Stamp(e, a, ReadyStatus(a))]
      /\ users' = [users EXCEPT ![e.id] = @ + UsesOf(e, ReadyStatus(a))]
      /\ slot' = [slot EXCEPT ![a] = e.id]
      /\ taken' = [taken EXCEPT ![e.id] = IF ReadyStatus(a) = "HANDLED" THEN @ + 1 ELSE @]
      /\ NextWorker(t)
      /\ UNCHANGED <<previous, deferred, mail, catchup, fate, reschedules, stopped>>
  BY DEF Store
<1>3. /\ todo' \in [Threads -> Seq(Actors)] /\ pc' = [pc EXCEPT ![t] = "dispatch"]
      /\ \A u \in Threads : u # t => todo'[u] = todo[u]
  BY <1>1, <1>2, NextWorkerType DEF TInv
<1>4. Stamp(e, a, ReadyStatus(a)) \in Events
  BY <1>1, StampType, StatusType DEF Statuses
<1>5. users' \in [Ids -> Int] /\ taken' \in [Ids -> Nat]
  <2>1. UsesOf(e, ReadyStatus(a)) \in Int /\ users \in [Ids -> Int]
    BY UsesType DEF TInv, TypeOK
  <2>2. users' \in [Ids -> Int]
    BY <1>2, <2>1, CountedType
  <2>3. CASE e.id \in Ids
    BY <1>2, <2>2, <2>3 DEF TInv, TypeOK
  <2>4. CASE e.id \notin Ids
    BY <1>2, <2>2, <2>4 DEF TInv, TypeOK
  <2> QED
    BY <2>3, <2>4
<1>6. e.id \in 0..MaxEvents
  BY <1>1 DEF Events
<1> QED
  BY <1>1, <1>2, <1>3, <1>4, <1>5, <1>6 DEF TInv, TypeOK, Working, mail

\* Noting that an actor will have to catch up.
LEMMA MarkBusyTyped ==
  ASSUME TInv, NEW t \in Threads, MarkBusy(t)
  PROVE  TInv'
<1>1. Head(todo[t]) \in Actors /\ todo[t] # <<>>
  BY FirstWorker DEF MarkBusy, TInv, Working
<1>2. /\ todo' \in [Threads -> Seq(Actors)] /\ pc' = [pc EXCEPT ![t] = "dispatch"]
      /\ \A u \in Threads : u # t => todo'[u] = todo[u]
  BY <1>1, NextWorkerType DEF MarkBusy, TInv
<1>3. catchup' \in [Threads -> [Actors -> Threads \cup {None}]]
  BY <1>1 DEF MarkBusy, TInv, TypeOK
<1> QED
  BY <1>1, <1>2, <1>3 DEF MarkBusy, TInv, TypeOK, Working, mail

\* actor_thread_event_requeue, whatever the event's status.
LEMMA RequeueTyped ==
  ASSUME TInv, NEW t \in Threads, Requeue(t)
  PROVE  TInv'
<1>1. /\ pc' = [pc EXCEPT ![t] = "shift"]
      /\ UNCHANGED <<previous, todo, note, announcing, actors, reschedules>>
  BY DEF Requeue, Goto
<1>2. \A id, what : what \in Fates /\ EndAs(id, what) => fate' \in [Ids -> Fates]
  BY DEF EndAs, TInv, TypeOK
<1>3. CASE RequeueUnheard(t)
  <2>1. fate' \in [Ids -> Fates]
    BY <1>2, <1>3 DEF RequeueUnheard, Fates
  <2> QED
    BY <1>1, <1>3, <2>1, NoEventIsEvent DEF RequeueUnheard, TInv, TypeOK, Working, actors
<1>4. CASE RequeueDeferred(t)
  <2> DEFINE e == [event[t] EXCEPT !.status = "DEFERRED"]
  <2>1. e \in Events
    <3>1. event[t] \in Events
      BY DEF TInv, TypeOK
    <3> QED
      BY <3>1 DEF Statuses, Events
  <2>2. event' = [event EXCEPT ![t] = e] /\ stopped' = stopped
    BY <1>4 DEF RequeueDeferred
  <2>3. CASE Full(t)
    <3>1. EndAs(e.id, "dropped") /\ UNCHANGED <<deferred, queue>>
      BY <1>4, <2>3 DEF RequeueDeferred
    <3>2. fate' \in [Ids -> Fates]
      BY <1>2, <3>1 DEF Fates
    <3> QED
      BY <1>1, <2>1, <2>2, <3>1, <3>2 DEF TInv, TypeOK, Working, actors
  <2>4. CASE ~Full(t)
    <3>1. /\ queue' = [queue EXCEPT ![t] = Append(@, e)] /\ fate' = fate
          /\ deferred' = [deferred EXCEPT ![t] = IF previous[t] # "DEFERRED" THEN @ + 1 ELSE @]
      BY <1>4, <2>4 DEF RequeueDeferred
    <3> HIDE DEF e
    <3>2. queue' \in [Threads -> Seq(Events)] /\ \A u \in Threads : Len(queue'[u]) <= QueueSize[u]
      BY <2>1, <2>4, <3>1, AppendType DEF TInv
    <3>3. deferred' \in [Threads -> Int]
      BY <3>1 DEF TInv, TypeOK
    <3> QED
      BY <1>1, <2>1, <2>2, <3>1, <3>2, <3>3 DEF TInv, TypeOK, Working, actors
  <2> QED
    BY <2>3, <2>4
<1>5. CASE RequeueOffloaded(t)
  <2>1. fate' \in [Ids -> Fates]
    BY <1>2, <1>5 DEF RequeueOffloaded, Fates
  <2>2. [event[t] EXCEPT !.status = "WAITING"] \in Events
    <3>1. event[t] \in Events
      BY DEF TInv, TypeOK
    <3> QED
      BY <3>1 DEF Statuses, Events
  <2>3. event' = [event EXCEPT ![t] = [event[t] EXCEPT !.status = "WAITING"]]
    BY <1>5 DEF RequeueOffloaded, TInv, TypeOK
  <2> QED
    BY <1>1, <1>5, <2>1, <2>2, <2>3 DEF RequeueOffloaded, TInv, TypeOK, Working, actors
<1>6. CASE RequeueTaken(t)
  <2>1. deferred' \in [Threads -> Int]
    BY <1>6 DEF RequeueTaken, TInv, TypeOK
  <2>2. fate' \in [Ids -> Fates]
    BY <1>2, <1>6 DEF RequeueTaken, Fates, TInv, TypeOK
  <2> QED
    BY <1>1, <1>6, <2>1, <2>2 DEF RequeueTaken, TInv, TypeOK, Working, actors
<1> QED
  BY <1>3, <1>4, <1>5, <1>6 DEF Requeue

\* The loop turns to the next event of its queue.
LEMMA TurnTyped ==
  ASSUME TInv, NEW t \in Threads, queue[t] # <<>>,
         Begin(t, Head(queue[t])), queue' = [queue EXCEPT ![t] = Tail(@)],
         note' \in [Threads -> {"none", "EVENT", "RESCHEDULE"}],
         UNCHANGED <<announcing, actors, fate, reschedules, stopped>>
  PROVE  TInv'
<1>1. /\ queue' \in [Threads -> Seq(Events)] /\ Head(queue[t]) \in Events
      /\ \A u \in Threads : Len(queue'[u]) <= QueueSize[u]
  BY TailType DEF TInv
<1>2. /\ pc' = [pc EXCEPT ![t] = "dispatch"] /\ event' = [event EXCEPT ![t] = Head(queue[t])]
      /\ previous' \in [Threads -> Statuses] /\ deferred' = deferred
      /\ todo' \in [Threads -> Seq(Actors)] /\ \A u \in Threads : u # t => todo'[u] = todo[u]
  BY <1>1, BeginType DEF TInv
<1> QED
  BY <1>1, <1>2 DEF TInv, TypeOK, Working, actors

\* ... or to the event it has, or an alarm.
LEMMA ReturnTyped ==
  ASSUME TInv, NEW t \in Threads, NEW e \in Events, Begin(t, e),
         note' \in [Threads -> {"none", "EVENT", "RESCHEDULE"}],
         UNCHANGED <<queue, announcing, actors, fate, reschedules, stopped>>
  PROVE  TInv'
<1>1. /\ pc' = [pc EXCEPT ![t] = "dispatch"] /\ event' = [event EXCEPT ![t] = e]
      /\ previous' \in [Threads -> Statuses] /\ deferred' = deferred
      /\ todo' \in [Threads -> Seq(Actors)] /\ \A u \in Threads : u # t => todo'[u] = todo[u]
  BY BeginType DEF TInv
<1> QED
  BY <1>1 DEF TInv, TypeOK, Working, actors

\* Taking the next event off the queue, or going to sleep.
LEMMA ShiftTyped ==
  ASSUME TInv, NEW t \in Threads, Shift(t) \/ Sleep(t)
  PROVE  TInv'
<1>1. CASE Shift(t)
  <2>1. /\ queue[t] # <<>> /\ Begin(t, Head(queue[t])) /\ queue' = [queue EXCEPT ![t] = Tail(@)]
        /\ UNCHANGED <<note, announcing, actors, fate, reschedules, stopped>>
    BY <1>1 DEF Shift, NothingToShift
  <2> QED
    BY <2>1, TurnTyped DEF TInv, TypeOK
<1>2. CASE Sleep(t)
  BY <1>2 DEF Sleep, Goto, TInv, TypeOK, Working, mail, actors
<1> QED
  BY <1>1, <1>2

\* Waking up, for each reason there is.
LEMMA WakeTyped ==
  ASSUME TInv, NEW t \in Threads, Wake(t)
  PROVE  TInv'
<1>1. [note EXCEPT ![t] = "none"] \in [Threads -> {"none", "EVENT", "RESCHEDULE"}]
  BY DEF TInv, TypeOK
<1>2. CASE WakeByEvent(t)
  <2>1. CASE queue[t] = <<>>
    BY <1>1, <1>2, <2>1 DEF WakeByEvent, TInv, TypeOK, Working, loop, actors
  <2>2. CASE queue[t] # <<>>
    <3>1. /\ Begin(t, Head(queue[t])) /\ queue' = [queue EXCEPT ![t] = Tail(@)]
          /\ note' = [note EXCEPT ![t] = "none"]
          /\ UNCHANGED <<announcing, actors, fate, reschedules, stopped>>
      BY <1>2, <2>2 DEF WakeByEvent
    <3> QED
      BY <1>1, <2>2, <3>1, TurnTyped
  <2> QED
    BY <2>1, <2>2
<1>4. CASE WakeByReschedule(t)
  BY <1>1, <1>4 DEF WakeByReschedule, TInv, TypeOK, Working, loop, actors
<1>5. CASE WakeByAlarm(t)
  <2>1. /\ Begin(t, NoEvent) /\ note' = note
        /\ UNCHANGED <<queue, announcing, actors, fate, reschedules, stopped>>
    BY <1>5 DEF WakeByAlarm, mail
  <2> QED
    BY <2>1, NoEventIsEvent, ReturnTyped DEF TInv, TypeOK
<1> QED
  BY <1>2, <1>4, <1>5 DEF Wake

\* An actor finishes the event it holds.
LEMMA FinishTyped ==
  ASSUME TInv, NEW a \in Actors, Finish(a)
  PROVE  TInv'
<1>1. slot' = [slot EXCEPT ![a] = 0] /\ 0 \in 0..MaxEvents /\ slot[a] \in Ids
  BY ThreadAssumption DEF Finish, TInv, TypeOK, Ids
<1>2. fate' = [fate EXCEPT ![slot[a]] = "finished"] /\ UNCHANGED <<loop, mail, taken, reschedules>>
  BY DEF Finish
<1>3. users' \in [Ids -> Int]
  BY <1>1 DEF Finish, TInv, TypeOK
<1>4. catchup' \in [Threads -> [Actors -> Threads \cup {None}]] /\ stopped' \in BOOLEAN
  <2>1. CASE Input \in Threads /\ catchup[Input][a] # None
    <3>1. catchup' = [catchup EXCEPT ![Input][a] = None] /\ stopped' \in BOOLEAN
      BY <2>1 DEF Finish
    <3>2. catchup[Input] \in [Actors -> Threads \cup {None}]
      BY <2>1 DEF TInv, TypeOK
    <3> QED
      BY <2>1, <3>1, <3>2 DEF TInv, TypeOK
  <2>2. CASE ~(Input \in Threads /\ catchup[Input][a] # None)
    <3>1. catchup' = catchup /\ stopped' = stopped
      BY <2>2 DEF Finish
    <3> QED
      BY <3>1 DEF TInv, TypeOK
  <2> QED
    BY <2>1, <2>2
<1>5. fate' \in [Ids -> Fates]
  BY <1>1, <1>2 DEF TInv, TypeOK, Fates
<1> QED
  BY <1>1, <1>2, <1>3, <1>4, <1>5 DEF TInv, TypeOK, Working, loop, mail

\* Every step keeps queues, loops and actors typed.
LEMMA StepTyped == TInv /\ [Next]_vars => TInv'
<1> SUFFICES ASSUME TInv, [Next]_vars PROVE TInv'
  OBVIOUS
<1>1. ASSUME NEW t \in Threads, NEW target \in Targets, Publish(t, target) PROVE TInv'
  BY <1>1, PublishTyped
<1>2. ASSUME NEW t \in Threads, Announce(t) \/ Reschedule(t) PROVE TInv'
  BY <1>2, NotifyTyped
<1>3. ASSUME NEW t \in Threads, Loop(t) PROVE TInv'
  BY <1>3, OfferTyped, StoreTyped, MarkBusyTyped, RequeueTyped, ShiftTyped, WakeTyped
  DEF Loop, Dispatch
<1>4. ASSUME NEW a \in Actors, Finish(a) PROVE TInv'
  BY <1>4, FinishTyped
<1>5. CASE UNCHANGED vars
  BY <1>5 DEF vars, loop, mail, actors, TInv, TypeOK, Working
<1> QED
  BY <1>1, <1>2, <1>3, <1>4, <1>5 DEF Next

\* They are typed throughout.
LEMMA Typed == Spec => []TInv
BY InitiallyTyped, StepTyped, PTL DEF Spec

\* Queues stay within the size they were created with, and everything a loop, a queue or
\* an actor holds is an event, whatever threads, actors and policies there are.
THEOREM TypeCorrect == Spec => []TypeOK
<1>1. TInv => TypeOK
  BY DEF TInv
<1> QED
  BY <1>1, Typed, PTL

-----------------------------------------------------------------------------
\* The subscribers of a thread are its own.
LEMMA ListenersAtHome == \A t \in Threads : Listeners[t] \in Seq(ActorsOf(t))
<1> SUFFICES ASSUME NEW t \in Threads PROVE Listeners[t] \in Seq(ActorsOf(t))
  OBVIOUS
<1>1. Listeners[t] \in Seq(Actors) /\ \A k \in DOMAIN Listeners[t] : Home[Listeners[t][k]] = t
  BY ThreadAssumption
<1>2. /\ Len(Listeners[t]) \in Nat /\ DOMAIN Listeners[t] = 1..Len(Listeners[t])
      /\ Listeners[t] = [k \in 1..Len(Listeners[t]) |-> Listeners[t][k]]
      /\ \A k \in 1..Len(Listeners[t]) : Listeners[t][k] \in Actors
  BY <1>1, LenProperties, ElementOfSeq
<1>3. \A k \in 1..Len(Listeners[t]) : Listeners[t][k] \in ActorsOf(t)
  BY <1>1, <1>2 DEF ActorsOf
<1> QED
  BY <1>2, <1>3

\* A step of one thread leaves the others what they have.
LEMMA OthersAtHome ==
  ASSUME AtHome, NEW t \in Threads,
         \A u \in Threads : u # t => event'[u] = event[u] /\ queue'[u] = queue[u] /\ todo'[u] = todo[u],
         event'[t] \in EventsOf(t), queue'[t] \in Seq(EventsOf(t)), todo'[t] \in Seq(ActorsOf(t))
  PROVE  AtHome'
<1> SUFFICES ASSUME NEW u \in Threads
             PROVE  event'[u] \in EventsOf(u) /\ queue'[u] \in Seq(EventsOf(u)) /\ todo'[u] \in Seq(ActorsOf(u))
  BY DEF AtHome, EventsOf, ActorsOf
<1> QED
  BY DEF AtHome

\* An event at home is dispatched at home.
LEMMA BeginAtHome ==
  ASSUME TInv, AtHome, NEW t \in Threads, NEW e \in Events, Begin(t, e), e \in EventsOf(t),
         queue'[t] \in Seq(EventsOf(t)), \A u \in Threads : u # t => queue'[u] = queue[u]
  PROVE  AtHome'
<1>1. /\ event' = [event EXCEPT ![t] = e] /\ \A u \in Threads : u # t => todo'[u] = todo[u]
      /\ todo'[t] \in {<<>>, <<e.consumer>>, Listeners[t]}
      /\ todo'[t] = <<e.consumer>> => e.consumer # None
  BY BeginType DEF TInv
<1>2. todo'[t] = <<e.consumer>> => e.consumer \in ActorsOf(t)
  BY <1>1 DEF EventsOf, ActorsOf, Events
<1>3. <<>> \in Seq(ActorsOf(t)) /\ \A a \in ActorsOf(t) : <<a>> \in Seq(ActorsOf(t))
  BY EmptySeq
<1>4. todo'[t] \in Seq(ActorsOf(t))
  BY <1>1, <1>2, <1>3, ListenersAtHome
<1> QED
  BY <1>1, <1>4, OthersAtHome DEF TInv, TypeOK

\* The first actor of a thread's list and what is stamped with it are at home.
LEMMA StampAtHome ==
  ASSUME TInv, AtHome, NEW t \in Threads, todo[t] # <<>>, NEW status \in Statuses
  PROVE  /\ Head(todo[t]) \in ActorsOf(t) /\ Tail(todo[t]) \in Seq(ActorsOf(t))
         /\ Stamp(event[t], Head(todo[t]), status) \in EventsOf(t)
<1>1. Head(todo[t]) \in ActorsOf(t) /\ Tail(todo[t]) \in Seq(ActorsOf(t))
  <2>1. todo[t] \in Seq(ActorsOf(t))
    BY DEF AtHome
  <2> QED
    BY <2>1, HeadTailProperties
<1>2. event[t] \in Events /\ event[t] \in EventsOf(t)
  BY DEF AtHome, TInv, TypeOK
<1> HIDE DEF ActorsOf
<1>3. Stamp(event[t], Head(todo[t]), status) \in Events
  BY <1>1, <1>2, StampType DEF ActorsOf
<1>4. Stamp(event[t], Head(todo[t]), status).consumer \in {event[t].consumer, Head(todo[t])}
  BY <1>2 DEF Stamp, Events
<1>5. Home[Head(todo[t])] = t
  BY <1>1 DEF ActorsOf
<1> QED
  BY <1>1, <1>2, <1>3, <1>4, <1>5 DEF EventsOf

\* Every step of the loop keeps a thread to its own actors.
LEMMA LoopAtHome ==
  ASSUME TInv, AtHome, NEW t \in Threads, Loop(t)
  PROVE  AtHome'
<1>1. event[t] \in EventsOf(t) /\ queue[t] \in Seq(EventsOf(t)) /\ todo[t] \in Seq(ActorsOf(t))
      /\ event[t] \in Events /\ event \in [Threads -> Events]
  BY DEF AtHome, TInv, TypeOK
<1>2. CASE Offer(t)
  <2>1. todo[t] # <<>> /\ UNCHANGED <<queue, todo>>
    BY <1>2 DEF Offer, mail
  <2>2. BusyStatus(Head(todo[t])) \in Statuses
    BY <2>1, FirstWorker, StatusType DEF TInv, Statuses
  <2>3. \/ event' = event
        \/ event' = [event EXCEPT ![t] = Stamp(event[t], Head(todo[t]), BusyStatus(Head(todo[t])))]
    BY <1>2 DEF Offer
  <2>4. event'[t] \in EventsOf(t) /\ \A u \in Threads : u # t => event'[u] = event[u]
    BY <1>1, <2>1, <2>2, <2>3, StampAtHome
  <2> QED
    BY <1>1, <2>1, <2>4, OthersAtHome
<1>3. CASE Store(t) \/ MarkBusy(t)
  <2>1. todo[t] # <<>> /\ queue' = queue /\ NextWorker(t)
    BY <1>3 DEF Store, MarkBusy, mail, TInv, Working
  <2>2. ReadyStatus(Head(todo[t])) \in Statuses
    BY <2>1, FirstWorker, StatusType DEF TInv, Statuses
  <2>3. \/ event' = event
        \/ event' = [event EXCEPT ![t] = Stamp(event[t], Head(todo[t]), ReadyStatus(Head(todo[t])))]
    BY <1>3 DEF Store, MarkBusy
  <2>4. event'[t] \in EventsOf(t) /\ \A u \in Threads : u # t => event'[u] = event[u]
    BY <1>1, <2>1, <2>2, <2>3, StampAtHome
  <2>5. Tail(todo[t]) \in Seq(ActorsOf(t)) /\ <<>> \in Seq(ActorsOf(t))
    BY <2>1, <2>2, StampAtHome, EmptySeq
  <2>6. todo'[t] \in Seq(ActorsOf(t)) /\ \A u \in Threads : u # t => todo'[u] = todo[u]
    BY <2>1, <2>5 DEF NextWorker, TInv, TypeOK
  <2> QED
    BY <1>1, <2>1, <2>4, <2>6, OthersAtHome
<1>4. CASE Requeue(t)
  <2>1. todo' = todo
    BY <1>4 DEF Requeue
  <2>2. /\ event'[t] \in EventsOf(t) /\ \A u \in Threads : u # t => event'[u] = event[u]
        /\ queue' = queue \/ queue' = [queue EXCEPT ![t] = Append(@, event'[t])]
    <3>1. NoEvent \in EventsOf(t)
      BY NoEventIsEvent DEF NoEvent, EventsOf
    <3>2. \A status \in Statuses : [event[t] EXCEPT !.status = status] \in EventsOf(t)
      BY <1>1 DEF EventsOf, Events
    <3>3. CASE RequeueUnheard(t)
      BY <1>1, <3>1, <3>3 DEF RequeueUnheard
    <3>4. CASE RequeueDeferred(t)
      BY <1>1, <3>2, <3>4 DEF RequeueDeferred, Statuses
    <3>5. CASE RequeueOffloaded(t)
      BY <1>1, <3>2, <3>5 DEF RequeueOffloaded, Statuses
    <3>6. CASE RequeueTaken(t)
      BY <1>1, <3>6 DEF RequeueTaken
    <3> QED
      BY <1>4, <3>3, <3>4, <3>5, <3>6 DEF Requeue
  <2>3. Append(queue[t], event'[t]) \in Seq(EventsOf(t))
    BY <1>1, <2>2, AppendProperties
  <2>4. queue'[t] \in Seq(EventsOf(t)) /\ \A u \in Threads : u # t => queue'[u] = queue[u]
    BY <1>1, <2>2, <2>3 DEF TInv, TypeOK
  <2> QED
    BY <1>1, <2>1, <2>2, <2>4, OthersAtHome
<1>5. CASE (Shift(t) \/ WakeByEvent(t)) /\ queue[t] # <<>>
  <2>1. Begin(t, Head(queue[t])) /\ queue' = [queue EXCEPT ![t] = Tail(@)]
    BY <1>5 DEF Shift, WakeByEvent
  <2>2. Head(queue[t]) \in EventsOf(t) /\ Tail(queue[t]) \in Seq(EventsOf(t)) /\ Head(queue[t]) \in Events
    BY <1>1, <1>5, HeadTailProperties DEF EventsOf
  <2> QED
    BY <2>1, <2>2, BeginAtHome DEF TInv, TypeOK
<1>6. CASE WakeByAlarm(t)
  <2>1. Begin(t, NoEvent) /\ queue' = queue
    BY <1>6 DEF WakeByAlarm, mail
  <2>2. NoEvent \in Events /\ NoEvent \in EventsOf(t)
    BY NoEventIsEvent DEF NoEvent, EventsOf
  <2> QED
    BY <1>1, <2>1, <2>2, BeginAtHome
<1>7. CASE Sleep(t) \/ WakeByReschedule(t) \/ (WakeByEvent(t) /\ queue[t] = <<>>)
  <2>1. UNCHANGED <<event, queue, todo>>
    BY <1>7 DEF Sleep, WakeByReschedule, WakeByEvent, loop, mail
  <2> QED
    BY <1>1, <2>1, OthersAtHome
<1>8. Shift(t) => queue[t] # <<>>
  BY DEF Shift, NothingToShift
<1> QED
  BY <1>2, <1>3, <1>4, <1>5, <1>6, <1>7, <1>8 DEF Loop, Dispatch, Wake

\* An event is published to the thread of its target.
LEMMA PublishAtHome ==
  ASSUME TInv, AtHome, NEW t \in Threads, NEW target \in Targets, Publish(t, target)
  PROVE  AtHome'
<1>1. PICK id \in Ids : \/ queue' = queue
                        \/ queue' = [queue EXCEPT ![t] =
                             Append(@, [id |-> id, status |-> "WAITING", consumer |-> target])]
  BY DEF Publish
<1>2. event' = event /\ todo' = todo
  BY DEF Publish, loop
<1> DEFINE e == [id |-> id, status |-> "WAITING", consumer |-> target]
<1>3. e \in Events
  BY ThreadAssumption DEF Events, Statuses, Ids
<1>4. e \in EventsOf(t)
  BY <1>3 DEF EventsOf, Publish
<1>5. queue' = queue \/ queue' = [queue EXCEPT ![t] = Append(@, e)]
  BY <1>1
<1> HIDE DEF e
<1>6. queue[t] \in Seq(EventsOf(t)) /\ Append(queue[t], e) \in Seq(EventsOf(t))
  BY <1>4, AppendProperties DEF AtHome
<1>7. queue'[t] \in Seq(EventsOf(t)) /\ \A u \in Threads : u # t => queue'[u] = queue[u]
  BY <1>5, <1>6 DEF TInv, TypeOK
<1> QED
  BY <1>2, <1>7, OthersAtHome DEF AtHome

\* Every step keeps threads to their own actors.
LEMMA StepAtHome == TInv /\ AtHome /\ [Next]_vars => AtHome'
<1> SUFFICES ASSUME TInv, AtHome, [Next]_vars PROVE AtHome'
  OBVIOUS
<1>1. CASE UNCHANGED <<event, queue, todo>>
  BY <1>1 DEF AtHome, EventsOf, ActorsOf
<1>2. ASSUME NEW t \in Threads, Announce(t) \/ Reschedule(t) PROVE UNCHANGED <<event, queue, todo>>
  BY <1>2 DEF Announce, Reschedule, loop
<1>3. ASSUME NEW a \in Actors, Finish(a) PROVE UNCHANGED <<event, queue, todo>>
  BY <1>3 DEF Finish, loop, mail
<1>4. CASE UNCHANGED vars
  BY <1>1, <1>4 DEF vars, loop, mail
<1> QED
  BY <1>1, <1>2, <1>3, <1>4, LoopAtHome, PublishAtHome DEF Next

\* At first there is nothing that could be for another thread.
LEMMA InitiallyAtHome == Init => AtHome
<1> SUFFICES ASSUME Init, NEW t \in Threads
             PROVE  event[t] \in EventsOf(t) /\ queue[t] \in Seq(EventsOf(t)) /\ todo[t] \in Seq(ActorsOf(t))
  BY DEF AtHome
<1>1. event[t] = NoEvent /\ queue[t] = <<>> /\ todo[t] = <<>>
  BY DEF Init
<1>2. NoEvent \in EventsOf(t)
  BY NoEventIsEvent DEF NoEvent, EventsOf
<1> QED
  BY <1>1, <1>2, EmptySeq

-----------------------------------------------------------------------------
\* At first there is no event to lose.
LEMMA InitiallyKept == Init => IInv
<1> SUFFICES ASSUME Init PROVE IInv
  OBVIOUS
<1>1. StoreAlone /\ NoEventVanishes
  BY DEF Init, StoreAlone, NoEventVanishes
<1>2. QueuedOpen
  BY DEF Init, QueuedOpen
<1>3. TakenIsHeld
  BY DEF Init, TakenIsHeld, NoEvent, Ids
<1> QED
  BY <1>1, <1>2, <1>3 DEF IInv

\* An event that joins a queue leaves the others there.
LEMMA AppendKeeps ==
  ASSUME TypeOK, QueuedOpen, NEW t \in Threads, NEW e \in Events, ~Full(t),
         queue' = [queue EXCEPT ![t] = Append(@, e)], e.status \in {"WAITING", "DEFERRED"}
  PROVE  QueuedOpen' /\ \A i \in Ids : InQueue(i) \/ e.id = i => InQueue(i)'
<1>1. /\ DOMAIN (queue'[t]) = 1..Len(queue[t]) + 1 /\ DOMAIN (queue[t]) = 1..Len(queue[t])
      /\ Len(queue[t]) \in Nat /\ queue'[t][Len(queue[t]) + 1] = e
      /\ \A k \in 1..Len(queue[t]) : queue'[t][k] = queue[t][k]
      /\ \A u \in Threads : u # t => queue'[u] = queue[u]
  BY AppendType
<1>2. QueuedOpen'
  <2> SUFFICES ASSUME NEW u \in Threads, NEW k \in DOMAIN (queue'[u])
               PROVE  queue'[u][k].status \in {"WAITING", "DEFERRED"}
    BY DEF QueuedOpen
  <2>1. CASE u = t
    <3>1. CASE k = Len(queue[t]) + 1
      BY <1>1, <2>1, <3>1
    <3>2. CASE k # Len(queue[t]) + 1
      <4>1. k \in DOMAIN (queue[t]) /\ queue'[t][k] = queue[t][k]
        BY <1>1, <2>1, <3>2
      <4> QED
        BY <2>1, <4>1 DEF QueuedOpen
    <3> QED
      BY <3>1, <3>2
  <2>2. CASE u # t
    <3>1. queue'[u] = queue[u]
      BY <1>1, <2>2
    <3> QED
      BY <3>1 DEF QueuedOpen
  <2> QED
    BY <2>1, <2>2
<1>3. ASSUME NEW i \in Ids, e.id = i PROVE InQueue(i)'
  <2>1. Len(queue[t]) + 1 \in DOMAIN (queue'[t])
    BY <1>1
  <2> QED
    BY <1>1, <1>3, <2>1 DEF InQueue
<1>4. ASSUME NEW i \in Ids, InQueue(i) PROVE InQueue(i)'
  <2> PICK u \in Threads : \E k \in DOMAIN queue[u] : queue[u][k].id = i
    BY <1>4 DEF InQueue
  <2>1. PICK k \in DOMAIN queue[u] : queue[u][k].id = i
    OBVIOUS
  <2>2. CASE u = t
    <3>1. k \in DOMAIN (queue'[t]) /\ queue'[t][k] = queue[t][k]
      BY <1>1, <2>1, <2>2
    <3> QED
      BY <2>1, <2>2, <3>1 DEF InQueue
  <2>3. CASE u # t
    <3>1. queue'[u] = queue[u]
      BY <1>1, <2>3
    <3> QED
      BY <2>1, <3>1 DEF InQueue
  <2> QED
    BY <2>2, <2>3
<1> QED
  BY <1>2, <1>3, <1>4

\* An event that leaves a queue is the only one that does.
LEMMA TailKeeps ==
  ASSUME TypeOK, QueuedOpen, NEW t \in Threads, queue[t] # <<>>,
         queue' = [queue EXCEPT ![t] = Tail(@)]
  PROVE  /\ QueuedOpen' /\ Head(queue[t]).status \in {"WAITING", "DEFERRED"}
         /\ \A i \in Ids : InQueue(i) => InQueue(i)' \/ Head(queue[t]).id = i
<1>1. /\ Len(queue[t]) \in Nat \ {0} /\ Head(queue[t]) = queue[t][1]
      /\ DOMAIN (queue'[t]) = 1..Len(queue[t]) - 1 /\ DOMAIN (queue[t]) = 1..Len(queue[t])
      /\ \A k \in 1..Len(queue[t]) - 1 : queue'[t][k] = queue[t][k + 1]
      /\ \A u \in Threads : u # t => queue'[u] = queue[u]
  BY TailType
<1>2. QueuedOpen'
  <2> SUFFICES ASSUME NEW u \in Threads, NEW k \in DOMAIN (queue'[u])
               PROVE  queue'[u][k].status \in {"WAITING", "DEFERRED"}
    BY DEF QueuedOpen
  <2>1. CASE u = t
    <3>1. k + 1 \in DOMAIN (queue[t]) /\ queue'[t][k] = queue[t][k + 1]
      BY <1>1, <2>1
    <3> QED
      BY <2>1, <3>1 DEF QueuedOpen
  <2>2. CASE u # t
    <3>1. queue'[u] = queue[u]
      BY <1>1, <2>2
    <3> QED
      BY <3>1 DEF QueuedOpen
  <2> QED
    BY <2>1, <2>2
<1>3. Head(queue[t]).status \in {"WAITING", "DEFERRED"}
  <2>1. 1 \in DOMAIN (queue[t])
    BY <1>1
  <2> QED
    BY <1>1, <2>1 DEF QueuedOpen
<1>4. ASSUME NEW i \in Ids, InQueue(i), Head(queue[t]).id # i PROVE InQueue(i)'
  <2> PICK u \in Threads : \E k \in DOMAIN queue[u] : queue[u][k].id = i
    BY <1>4 DEF InQueue
  <2>1. PICK k \in DOMAIN queue[u] : queue[u][k].id = i
    OBVIOUS
  <2>2. CASE u = t
    <3>1. k # 1
      BY <1>1, <1>4, <2>1, <2>2
    <3>2. k - 1 \in DOMAIN (queue'[t]) /\ queue'[t][k - 1] = queue[t][(k - 1) + 1] /\ (k - 1) + 1 = k
      BY <1>1, <2>1, <2>2, <3>1
    <3> QED
      BY <2>1, <2>2, <3>2 DEF InQueue
  <2>3. CASE u # t
    <3>1. queue'[u] = queue[u]
      BY <1>1, <2>3
    <3> QED
      BY <2>1, <3>1 DEF InQueue
  <2> QED
    BY <2>2, <2>3
<1> QED
  BY <1>2, <1>3, <1>4

\* A published event is in the queue or rejected.
LEMMA PublishKeeps ==
  ASSUME TInv, IInv, NEW t \in Threads, NEW target \in Targets, Publish(t, target)
  PROVE  IInv'
<1>1. PICK id \in {i \in Ids : fate[i] = "unpublished"} :
        IF Full(t)
        THEN /\ fate' = [fate EXCEPT ![id] = "rejected"]
             /\ UNCHANGED <<queue, announcing>>
        ELSE /\ fate' = [fate EXCEPT ![id] = "pending"]
             /\ queue' = [queue EXCEPT ![t] =
                   Append(@, [id |-> id, status |-> "WAITING", consumer |-> target])]
             /\ announcing' = [announcing EXCEPT ![t] = @ + 1]
  BY DEF Publish
<1> DEFINE e == [id |-> id, status |-> "WAITING", consumer |-> target]
<1>2. e \in Events /\ e.id = id /\ e.status = "WAITING"
  BY ThreadAssumption DEF Events, Statuses, Ids
<1>3. pc' = pc /\ event' = event /\ todo' = todo /\ slot' = slot
  BY DEF Publish, loop, actors
<1>4. StoreAlone'
  BY <1>3 DEF IInv, StoreAlone
<1>5. TakenIsHeld'
  <2> SUFFICES ASSUME NEW u \in Threads, NEW i \in Ids, event[u].id = i,
                      event[u].status = "HANDLED", ~Held(i)
               PROVE  fate'[i] \notin {"unpublished", "pending"}
    BY <1>3 DEF TakenIsHeld, Held
  <2>1. fate[i] \notin {"unpublished", "pending"}
    BY DEF IInv, TakenIsHeld
  <2> QED
    BY <1>1, <2>1 DEF TInv, TypeOK
<1>6. QueuedOpen' /\ NoEventVanishes'
  <2>1. \A i \in Ids : (InDispatch(i) => InDispatch(i)') /\ (Held(i) => Held(i)')
    BY <1>3 DEF InDispatch, Held
  <2>2. \A i \in Ids : i # id => fate'[i] = fate[i]
    BY <1>1 DEF TInv, TypeOK
  <2>3. CASE Full(t)
    <3>1. queue' = queue /\ fate'[id] = "rejected"
      BY <1>1, <2>3 DEF TInv, TypeOK
    <3> QED
      BY <2>1, <2>2, <3>1 DEF IInv, QueuedOpen, NoEventVanishes, InQueue
  <2>4. CASE ~Full(t)
    <3>1. queue' = [queue EXCEPT ![t] = Append(@, e)]
      BY <1>1, <2>4
    <3> HIDE DEF e
    <3>2. QueuedOpen' /\ \A i \in Ids : InQueue(i) \/ e.id = i => InQueue(i)'
      BY <1>2, <2>4, <3>1, AppendKeeps DEF TInv, IInv
    <3> QED
      BY <1>2, <2>1, <2>2, <3>2 DEF IInv, NoEventVanishes
  <2> QED
    BY <2>3, <2>4
<1> QED
  BY <1>4, <1>5, <1>6 DEF IInv

\* An event that is offered stays with the loop, refused or about to be stored.
LEMMA OfferKeeps ==
  ASSUME TInv, IInv, NEW t \in Threads, Offer(t)
  PROVE  IInv'
<1> DEFINE a == Head(todo[t])
           e == event[t]
<1>1. a \in Actors /\ e \in Events
  BY FirstWorker DEF Offer, TInv, TypeOK
<1>2. UNCHANGED <<todo, queue, slot, fate>> /\ pc[t] = "dispatch"
  BY DEF Offer, mail
<1>3. /\ \A u \in Threads : u # t => pc'[u] = pc[u] /\ event'[u] = event[u]
      /\ pc'[t] \in {"store", "busy"} /\ (pc'[t] = "store" => slot[a] = 0)
      /\ event'[t].id = e.id
      /\ event'[t] = e \/ event'[t].status # "HANDLED"
  <2>1. CASE slot[a] = 0
    BY <2>1 DEF Offer, Goto, TInv, TypeOK
  <2>2. CASE slot[a] # 0
    <3>1. /\ pc' = [pc EXCEPT ![t] = "busy"]
          /\ event' = [event EXCEPT ![t] = Stamp(e, a, BusyStatus(a))]
      BY <2>2 DEF Offer, Goto
    <3>2. BusyStatus(a) \in Statuses /\ BusyStatus(a) # "HANDLED"
      BY <1>1, StatusType DEF Statuses
    <3>3. /\ Stamp(e, a, BusyStatus(a)).id = e.id
          /\ Stamp(e, a, BusyStatus(a)).status = BusyStatus(a)
      BY <1>1, <3>2, StampType
    <3> QED
      BY <3>1, <3>2, <3>3 DEF TInv, TypeOK
  <2> QED
    BY <2>1, <2>2
<1>4. StoreAlone'
  BY <1>2, <1>3 DEF IInv, StoreAlone
<1>5. QueuedOpen'
  BY <1>2 DEF IInv, QueuedOpen
<1>6. TakenIsHeld'
  BY <1>2, <1>3 DEF IInv, TakenIsHeld, Held
<1>7. NoEventVanishes'
  BY <1>2, <1>3 DEF IInv, NoEventVanishes, InQueue, InDispatch, Held
<1> QED
  BY <1>4, <1>5, <1>6, <1>7 DEF IInv

\* An event that is stored is with its actor, which held none.
LEMMA StoreKeeps ==
  ASSUME TInv, AtHome, IInv, NEW t \in Threads, Store(t)
  PROVE  IInv'
<1> DEFINE a == Head(todo[t])
           e == event[t]
<1>1. a \in Actors /\ e \in Events /\ todo[t] # <<>> /\ slot[a] = 0
  BY FirstWorker DEF Store, TInv, TypeOK, Working, IInv, StoreAlone
<1>2. /\ event' = [event EXCEPT ![t] = Stamp(e, a, ReadyStatus(a))]
      /\ slot' = [slot EXCEPT ![a] = e.id] /\ queue' = queue /\ fate' = fate
      /\ pc' = [pc EXCEPT ![t] = "dispatch"] /\ \A u \in Threads : u # t => todo'[u] = todo[u]
  BY <1>1, NextWorkerType DEF Store, mail, TInv
<1>3. Stamp(e, a, ReadyStatus(a)).id = e.id
  <2>1. ReadyStatus(a) \in Statuses
    BY <1>1, StatusType DEF Statuses
  <2> QED
    BY <1>1, <2>1, StampType
<1>4. \A i \in Ids : Held(i) => Held(i)'
  BY <1>1, <1>2 DEF Held, Ids, TInv, TypeOK
<1>5. \A i \in Ids : e.id = i => Held(i)'
  BY <1>1, <1>2 DEF Held, TInv, TypeOK
<1>6. StoreAlone'
  <2> SUFFICES ASSUME NEW u \in Threads, pc'[u] = "store" PROVE slot'[Head(todo'[u])] = 0
    BY DEF StoreAlone
  <2>1. u # t /\ pc[u] = "store" /\ todo'[u] = todo[u]
    BY <1>2 DEF TInv, TypeOK
  <2>2. todo[u] # <<>> /\ todo[u] \in Seq(ActorsOf(u)) /\ todo[t] \in Seq(ActorsOf(t))
    BY <2>1 DEF AtHome, TInv, Working
  <2>3. Head(todo[u]) \in ActorsOf(u) /\ a \in ActorsOf(t)
    BY <1>1, <2>2, HeadTailProperties
  <2>4. Head(todo[u]) # a /\ Head(todo[u]) \in Actors
    BY <2>1, <2>3 DEF ActorsOf
  <2> QED
    BY <1>2, <2>1, <2>4 DEF IInv, StoreAlone, TInv, TypeOK
<1>7. QueuedOpen'
  BY <1>2 DEF IInv, QueuedOpen
<1>8. TakenIsHeld'
  <2> SUFFICES ASSUME NEW u \in Threads, NEW i \in Ids, event'[u].id = i,
                      event'[u].status = "HANDLED"
               PROVE  Held(i)' \/ fate'[i] \notin {"unpublished", "pending"}
    BY DEF TakenIsHeld
  <2>1. CASE u = t
    BY <1>2, <1>3, <1>5, <2>1 DEF TInv, TypeOK
  <2>2. CASE u # t
    <3>1. event'[u] = event[u]
      BY <1>2, <2>2 DEF TInv, TypeOK
    <3> QED
      BY <1>2, <1>4, <3>1 DEF IInv, TakenIsHeld
  <2> QED
    BY <2>1, <2>2
<1>9. NoEventVanishes'
  <2>1. ASSUME NEW i \in Ids, InDispatch(i) PROVE InDispatch(i)'
    BY <1>2, <1>3, <2>1 DEF InDispatch, TInv, TypeOK
  <2>2. \A i \in Ids : InQueue(i) => InQueue(i)'
    BY <1>2 DEF InQueue
  <2> QED
    BY <1>2, <1>4, <2>1, <2>2 DEF IInv, NoEventVanishes
<1> QED
  BY <1>6, <1>7, <1>8, <1>9 DEF IInv

\* An event that was refused stays with the loop.
LEMMA MarkBusyKeeps ==
  ASSUME TInv, IInv, NEW t \in Threads, MarkBusy(t)
  PROVE  IInv'
<1>1. todo[t] # <<>>
  BY DEF MarkBusy, TInv, Working
<1>2. /\ event' = event /\ slot' = slot /\ queue' = queue /\ fate' = fate
      /\ pc' = [pc EXCEPT ![t] = "dispatch"] /\ \A u \in Threads : u # t => todo'[u] = todo[u]
      /\ pc[t] = "busy"
  BY <1>1, NextWorkerType DEF MarkBusy, mail, TInv
<1>3. StoreAlone'
  BY <1>2 DEF IInv, StoreAlone, TInv, TypeOK
<1>4. QueuedOpen' /\ TakenIsHeld'
  BY <1>2 DEF IInv, QueuedOpen, TakenIsHeld, Held
<1>5. NoEventVanishes'
  BY <1>2 DEF IInv, NoEventVanishes, InQueue, InDispatch, Held, TInv, TypeOK
<1> QED
  BY <1>3, <1>4, <1>5 DEF IInv

\* A thread that is through with its event may leave it once the event is elsewhere.
LEMMA LeaveKeeps ==
  ASSUME TInv, NoEventVanishes, NEW t \in Threads, slot' = slot,
         \A u \in Threads : u # t => pc'[u] = pc[u] /\ event'[u] = event[u],
         \A i \in Ids : InQueue(i) => InQueue(i)',
         \A i \in Ids : fate'[i] = "pending" => fate[i] = "pending",
         \A i \in Ids : event[t].id = i /\ fate'[i] = "pending" => InQueue(i)' \/ Held(i)
  PROVE  NoEventVanishes'
<1> SUFFICES ASSUME NEW i \in Ids, fate'[i] = "pending"
             PROVE  InQueue(i)' \/ InDispatch(i)' \/ Held(i)'
  BY DEF NoEventVanishes
<1>1. InQueue(i) \/ InDispatch(i) \/ Held(i)
  BY DEF NoEventVanishes
<1>2. Held(i) => Held(i)'
  BY DEF Held
<1>3. CASE InDispatch(i)
  <2>1. PICK u \in Threads : pc[u] \in {"dispatch", "store", "busy"} /\ event[u].id = i
    BY <1>3 DEF InDispatch
  <2>2. CASE u = t
    BY <1>2, <2>1, <2>2
  <2>3. CASE u # t
    BY <2>1, <2>3 DEF InDispatch
  <2> QED
    BY <2>2, <2>3
<1> QED
  BY <1>1, <1>2, <1>3

\* A thread whose event is not handled, and ends some events, takes none.
LEMMA EndKeepsTaken ==
  ASSUME TInv, IInv, NEW t \in Threads, slot' = slot, NEW e, event' = [event EXCEPT ![t] = e],
         e.status # "HANDLED", NEW end \in Fates \ {"unpublished", "pending"},
         \A i \in Ids : fate'[i] = fate[i] \/ fate'[i] = end
  PROVE  TakenIsHeld'
<1> SUFFICES ASSUME NEW u \in Threads, NEW i \in Ids, event'[u].id = i, event'[u].status = "HANDLED"
             PROVE  Held(i)' \/ fate'[i] \notin {"unpublished", "pending"}
  BY DEF TakenIsHeld
<1>1. u # t /\ event'[u] = event[u]
  BY DEF TInv, TypeOK
<1>2. Held(i) \/ fate[i] \notin {"unpublished", "pending"}
  BY <1>1 DEF IInv, TakenIsHeld
<1> QED
  BY <1>2 DEF Held

\* An event the loop is through with is in a queue or with an actor, or has ended.
LEMMA RequeueKeeps ==
  ASSUME TInv, IInv, NEW t \in Threads, Requeue(t)
  PROVE  IInv'
<1>1. pc' = [pc EXCEPT ![t] = "shift"] /\ todo' = todo /\ slot' = slot
  BY DEF Requeue, Goto, actors
<1>2. StoreAlone'
  BY <1>1 DEF IInv, StoreAlone, TInv, TypeOK
<1>3. CASE RequeueUnheard(t)
  <2>1. /\ event' = [event EXCEPT ![t] = NoEvent] /\ queue' = queue
        /\ fate' = [i \in Ids |-> IF i = event[t].id THEN "unheard" ELSE fate[i]]
    BY <1>3 DEF RequeueUnheard, EndAs
  <2>2. QueuedOpen'
    BY <2>1 DEF IInv, QueuedOpen
  <2>3. TakenIsHeld'
    <3> SUFFICES ASSUME NEW u \in Threads, NEW i \in Ids, event'[u].id = i,
                        event'[u].status = "HANDLED"
                 PROVE  Held(i)' \/ fate'[i] \notin {"unpublished", "pending"}
      BY DEF TakenIsHeld
    <3>1. u # t /\ event'[u] = event[u]
      BY <2>1 DEF TInv, TypeOK, NoEvent
    <3>2. Held(i) \/ fate[i] \notin {"unpublished", "pending"}
      BY <3>1 DEF IInv, TakenIsHeld
    <3> QED
      BY <1>1, <2>1, <3>2 DEF Held
  <2>4. NoEventVanishes'
    <3>1. /\ \A i \in Ids : fate'[i] = "pending" => fate[i] = "pending"
          /\ \A i \in Ids : event[t].id = i => fate'[i] # "pending"
      BY <2>1
    <3>2. \A i \in Ids : InQueue(i) => InQueue(i)'
      BY <2>1 DEF InQueue
    <3>3. \A u \in Threads : u # t => pc'[u] = pc[u] /\ event'[u] = event[u]
      BY <1>1, <2>1 DEF TInv, TypeOK
    <3> QED
      BY <1>1, <3>1, <3>2, <3>3, LeaveKeeps DEF IInv
  <2> QED
    BY <1>2, <2>2, <2>3, <2>4 DEF IInv
<1>4. CASE RequeueDeferred(t)
  <2> DEFINE e == [event[t] EXCEPT !.status = "DEFERRED"]
  <2>2. e \in Events /\ e.status = "DEFERRED" /\ e.id = event[t].id
    <3>1. event[t] \in Events
      BY DEF TInv, TypeOK
    <3> QED
      BY <3>1 DEF Statuses, Events
  <2>3. event' = [event EXCEPT ![t] = e]
    BY <1>4 DEF RequeueDeferred
  <2>4. \/ Full(t) /\ EndAs(e.id, "dropped") /\ queue' = queue
        \/ ~Full(t) /\ fate' = fate /\ queue' = [queue EXCEPT ![t] = Append(@, e)]
    BY <1>4 DEF RequeueDeferred
  <2> HIDE DEF e
  <2>5. \A u \in Threads : u # t => pc'[u] = pc[u] /\ event'[u] = event[u]
    BY <1>1, <2>3 DEF TInv, TypeOK
  <2>6. \A i \in Ids : fate'[i] = fate[i] \/ fate'[i] = "dropped"
    BY <2>4 DEF EndAs, TInv, TypeOK
  <2>7. TakenIsHeld'
    <3>1. "dropped" \in Fates \ {"unpublished", "pending"} /\ e.status # "HANDLED"
      BY <2>2 DEF Fates
    <3> QED
      BY <1>1, <2>3, <2>6, <3>1, EndKeepsTaken
  <2>8. QueuedOpen' /\ NoEventVanishes'
    <3>1. CASE Full(t)
      <4>1. EndAs(e.id, "dropped") /\ queue' = queue
        BY <2>4, <3>1
      <4>2. \A i \in Ids : event[t].id = i => fate'[i] # "pending"
        BY <2>2, <4>1 DEF EndAs
      <4>3. QueuedOpen' /\ \A i \in Ids : InQueue(i) => InQueue(i)'
        BY <4>1 DEF IInv, QueuedOpen, InQueue
      <4> QED
        BY <1>1, <2>5, <2>6, <4>2, <4>3, LeaveKeeps DEF IInv
    <3>2. CASE ~Full(t)
      <4>1. QueuedOpen' /\ \A i \in Ids : InQueue(i) \/ e.id = i => InQueue(i)'
        BY <2>2, <2>4, <3>2, AppendKeeps DEF TInv, IInv
      <4> QED
        BY <1>1, <2>2, <2>5, <2>6, <4>1, LeaveKeeps DEF IInv
    <3> QED
      BY <3>1, <3>2
  <2> QED
    BY <1>2, <2>7, <2>8 DEF IInv
<1>5. CASE RequeueOffloaded(t)
  <2> DEFINE e == [event[t] EXCEPT !.status = "WAITING"]
  <2>1. event' = [event EXCEPT ![t] = e] /\ queue' = queue /\ EndAs(event[t].id, "lost")
    BY <1>5 DEF RequeueOffloaded, TInv, TypeOK
  <2>2. e.status = "WAITING"
    <3>1. event[t] \in Events
      BY DEF TInv, TypeOK
    <3> QED
      BY <3>1 DEF Events
  <2> HIDE DEF e
  <2>3. \A i \in Ids : fate'[i] = fate[i] \/ fate'[i] = "lost"
    BY <2>1 DEF EndAs
  <2>4. TakenIsHeld'
    <3>1. "lost" \in Fates \ {"unpublished", "pending"} /\ e.status # "HANDLED"
      BY <2>2 DEF Fates
    <3> QED
      BY <1>1, <2>1, <2>3, <3>1, EndKeepsTaken
  <2>5. QueuedOpen'
    BY <2>1 DEF IInv, QueuedOpen
  <2>6. NoEventVanishes'
    <3>1. \A i \in Ids : event[t].id = i => fate'[i] # "pending"
      BY <2>1 DEF EndAs
    <3>2. \A i \in Ids : InQueue(i) => InQueue(i)'
      BY <2>1 DEF InQueue
    <3>3. \A u \in Threads : u # t => pc'[u] = pc[u] /\ event'[u] = event[u]
      BY <1>1, <2>1 DEF TInv, TypeOK
    <3> QED
      BY <1>1, <2>3, <3>1, <3>2, <3>3, LeaveKeeps DEF IInv
  <2> QED
    BY <1>2, <2>4, <2>5, <2>6 DEF IInv
<1>6. CASE RequeueTaken(t)
  <2>1. event' = event /\ queue' = queue /\ event[t].status \in {"HANDLED", "RECEIVED"}
    BY <1>6 DEF RequeueTaken
  <2>2. /\ \A i \in Ids : fate'[i] = fate[i] \/ fate'[i] = "ignored"
        /\ \A i \in Ids : event[t].id = i /\ event[t].status = "RECEIVED" /\ fate'[i] = "pending" => Held(i)
    <3>1. CASE Ignored(t)
      BY <1>6, <3>1 DEF RequeueTaken, EndAs
    <3>2. CASE ~Ignored(t)
      BY <1>6, <3>2 DEF RequeueTaken, Ignored
    <3> QED
      BY <3>1, <3>2
  <2>3. QueuedOpen'
    BY <1>1, <2>1 DEF IInv, QueuedOpen
  <2>4. TakenIsHeld'
    <3> SUFFICES ASSUME NEW u \in Threads, NEW i \in Ids, event[u].id = i, event[u].status = "HANDLED"
                 PROVE  Held(i)' \/ fate'[i] \notin {"unpublished", "pending"}
      BY <2>1 DEF TakenIsHeld
    <3>1. Held(i) \/ fate[i] \notin {"unpublished", "pending"}
      BY DEF IInv, TakenIsHeld
    <3> QED
      BY <1>1, <2>2, <3>1 DEF Held
  <2>5. NoEventVanishes'
    <3>1. \A i \in Ids : event[t].id = i /\ fate'[i] = "pending" => Held(i)
      BY <2>1, <2>2 DEF IInv, TakenIsHeld
    <3>2. \A i \in Ids : InQueue(i) => InQueue(i)'
      BY <2>1 DEF InQueue
    <3>3. \A u \in Threads : u # t => pc'[u] = pc[u] /\ event'[u] = event[u]
      BY <1>1, <2>1 DEF TInv, TypeOK
    <3> QED
      BY <1>1, <2>2, <3>1, <3>2, <3>3, LeaveKeeps DEF IInv
  <2> QED
    BY <1>2, <2>3, <2>4, <2>5 DEF IInv
<1> QED
  BY <1>3, <1>4, <1>5, <1>6 DEF Requeue

\* The loop turns to another event, which is not one an actor has taken, unless it was there before.
LEMMA BeginKeeps ==
  ASSUME TInv, IInv, NEW t \in Threads, NEW e \in Events, Begin(t, e), QueuedOpen',
         pc[t] \in {"shift", "await"}, e = event[t] \/ e.status \in {"WAITING", "DEFERRED"},
         slot' = slot, fate' = fate, \A i \in Ids : InQueue(i) => InQueue(i)' \/ e.id = i
  PROVE  IInv'
<1>1. /\ pc' = [pc EXCEPT ![t] = "dispatch"] /\ event' = [event EXCEPT ![t] = e]
      /\ \A u \in Threads : u # t => todo'[u] = todo[u]
  BY BeginType DEF TInv
<1>2. StoreAlone'
  BY <1>1 DEF IInv, StoreAlone, TInv, TypeOK
<1>3. TakenIsHeld'
  BY <1>1 DEF IInv, TakenIsHeld, Held, TInv, TypeOK
<1>4. NoEventVanishes'
  <2> SUFFICES ASSUME NEW i \in Ids, fate[i] = "pending"
               PROVE  InQueue(i)' \/ InDispatch(i)' \/ Held(i)'
    BY DEF NoEventVanishes
  <2>1. InQueue(i) \/ InDispatch(i) \/ Held(i)
    BY DEF IInv, NoEventVanishes
  <2>2. e.id = i => InDispatch(i)'
    BY <1>1 DEF InDispatch, TInv, TypeOK
  <2>3. InDispatch(i) => InDispatch(i)'
    BY <1>1 DEF InDispatch, TInv, TypeOK
  <2>4. Held(i) => Held(i)'
    BY DEF Held
  <2> QED
    BY <2>1, <2>2, <2>3, <2>4
<1> QED
  BY <1>2, <1>3, <1>4 DEF IInv

\* An event that comes off the queue is dispatched.
LEMMA ShiftKeeps ==
  ASSUME TInv, IInv, NEW t \in Threads, Shift(t) \/ WakeByEvent(t), queue[t] # <<>>
  PROVE  IInv'
<1>1. /\ Begin(t, Head(queue[t])) /\ queue' = [queue EXCEPT ![t] = Tail(@)]
      /\ slot' = slot /\ fate' = fate /\ pc[t] \in {"shift", "await"}
  BY DEF Shift, WakeByEvent, actors
<1>2. Head(queue[t]) \in Events
  BY <1>1, TailType DEF TInv
<1>3. /\ QueuedOpen' /\ Head(queue[t]).status \in {"WAITING", "DEFERRED"}
      /\ \A i \in Ids : InQueue(i) => InQueue(i)' \/ Head(queue[t]).id = i
  BY <1>1, TailKeeps DEF TInv, IInv
<1> QED
  BY <1>1, <1>2, <1>3, BeginKeeps

\* Waking up dispatches the event at hand or the next one.
LEMMA WakeKeeps ==
  ASSUME TInv, IInv, NEW t \in Threads, Wake(t)
  PROVE  IInv'
<1>1. CASE WakeByEvent(t)
  <2>1. CASE queue[t] = <<>>
    BY <1>1, <2>1 DEF WakeByEvent, loop, actors, IInv, StoreAlone, QueuedOpen, TakenIsHeld,
                      NoEventVanishes, InQueue, InDispatch, Held
  <2> QED
    BY <1>1, <2>1, ShiftKeeps
<1>3. CASE WakeByReschedule(t)
  BY <1>3 DEF WakeByReschedule, loop, actors, IInv, StoreAlone, QueuedOpen, TakenIsHeld,
              NoEventVanishes, InQueue, InDispatch, Held
<1>4. CASE WakeByAlarm(t)
  <2>1. /\ Begin(t, NoEvent) /\ queue' = queue /\ slot' = slot /\ fate' = fate /\ pc[t] = "await"
    BY <1>4 DEF WakeByAlarm, mail, actors
  <2>2. QueuedOpen' /\ \A i \in Ids : InQueue(i) => InQueue(i)'
    BY <2>1 DEF IInv, QueuedOpen, InQueue
  <2>3. NoEvent \in Events /\ NoEvent.status = "WAITING"
    BY NoEventIsEvent DEF NoEvent
  <2> QED
    BY <2>1, <2>2, <2>3, BeginKeeps
<1> QED
  BY <1>1, <1>3, <1>4 DEF Wake

\* A thread falls asleep without an event of its own.
LEMMA SleepKeeps ==
  ASSUME TInv, IInv, NEW t \in Threads, Sleep(t)
  PROVE  IInv'
<1>1. /\ pc' = [pc EXCEPT ![t] = "await"] /\ pc[t] = "shift"
      /\ UNCHANGED <<event, todo, queue, slot, fate>>
  BY DEF Sleep, Goto, mail, actors
<1>2. StoreAlone'
  BY <1>1 DEF IInv, StoreAlone, TInv, TypeOK
<1>3. QueuedOpen' /\ TakenIsHeld'
  BY <1>1 DEF IInv, QueuedOpen, TakenIsHeld, Held
<1>4. NoEventVanishes'
  BY <1>1 DEF IInv, NoEventVanishes, InQueue, InDispatch, Held, TInv, TypeOK
<1> QED
  BY <1>2, <1>3, <1>4 DEF IInv

\* An event an actor lets go of is finished.
LEMMA FinishKeeps ==
  ASSUME TInv, IInv, NEW a \in Actors, Finish(a)
  PROVE  IInv'
<1>1. /\ slot' = [slot EXCEPT ![a] = 0] /\ fate' = [fate EXCEPT ![slot[a]] = "finished"]
      /\ UNCHANGED <<pc, event, todo, queue>>
  BY DEF Finish, loop, mail
<1>2. ASSUME NEW i \in Ids, Held(i) PROVE Held(i)' \/ fate'[i] = "finished"
  BY <1>1, <1>2 DEF Held, TInv, TypeOK
<1>3. \A i \in Ids : fate'[i] = fate[i] \/ fate'[i] = "finished"
  BY <1>1 DEF TInv, TypeOK
<1>4. StoreAlone'
  <2> SUFFICES ASSUME NEW t \in Threads, pc[t] = "store"
               PROVE  slot'[Head(todo[t])] = 0
    BY <1>1 DEF IInv, StoreAlone
  <2>1. Head(todo[t]) \in Actors
    BY FirstWorker DEF TInv, Working
  <2> QED
    BY <1>1, <2>1 DEF IInv, StoreAlone, TInv, TypeOK
<1>5. QueuedOpen'
  BY <1>1 DEF IInv, QueuedOpen
<1>6. TakenIsHeld'
  <2> SUFFICES ASSUME NEW t \in Threads, NEW i \in Ids, event[t].id = i,
                      event[t].status = "HANDLED"
               PROVE  Held(i)' \/ fate'[i] \notin {"unpublished", "pending"}
    BY <1>1 DEF TakenIsHeld
  <2>1. Held(i) \/ fate[i] \notin {"unpublished", "pending"}
    BY DEF IInv, TakenIsHeld
  <2> QED
    BY <1>2, <1>3, <2>1
<1>7. NoEventVanishes'
  <2>1. \A i \in Ids : (InQueue(i) => InQueue(i)') /\ (InDispatch(i) => InDispatch(i)')
    BY <1>1 DEF InQueue, InDispatch
  <2> QED
    BY <1>2, <1>3, <2>1 DEF IInv, NoEventVanishes
<1> QED
  BY <1>4, <1>5, <1>6, <1>7 DEF IInv

\* No step loses an event.
LEMMA StepKeeps == TInv /\ AtHome /\ IInv /\ [Next]_vars => IInv'
<1> SUFFICES ASSUME TInv, AtHome, IInv, [Next]_vars PROVE IInv'
  OBVIOUS
<1>1. ASSUME NEW t \in Threads, NEW target \in Targets, Publish(t, target) PROVE IInv'
  BY <1>1, PublishKeeps
<1>2. ASSUME NEW t \in Threads, Announce(t) \/ Reschedule(t) PROVE IInv'
  BY <1>2 DEF Announce, Reschedule, loop, actors, IInv, StoreAlone, QueuedOpen, TakenIsHeld,
              NoEventVanishes, InQueue, InDispatch, Held
<1>3. ASSUME NEW t \in Threads, Loop(t) PROVE IInv'
  <2>1. CASE Offer(t) \/ Store(t)
    BY <2>1, OfferKeeps, StoreKeeps
  <2>2. CASE MarkBusy(t) \/ Requeue(t) \/ Sleep(t) \/ Wake(t)
    BY <2>2, MarkBusyKeeps, RequeueKeeps, SleepKeeps, WakeKeeps
  <2>3. CASE Shift(t)
    BY <2>3, ShiftKeeps DEF Shift, NothingToShift
  <2> QED
    BY <1>3, <2>1, <2>2, <2>3 DEF Loop, Dispatch
<1>4. ASSUME NEW a \in Actors, Finish(a) PROVE IInv'
  BY <1>4, FinishKeeps
<1>5. CASE UNCHANGED vars
  BY <1>5 DEF vars, loop, mail, actors, IInv, StoreAlone, QueuedOpen, TakenIsHeld,
              NoEventVanishes, InQueue, InDispatch, Held
<1> QED
  BY <1>1, <1>2, <1>3, <1>4, <1>5 DEF Next

\* README.md:108 "events are never lost", as far as it holds: whatever threads, actors,
\* policies and queues there are, an event that a queue accepted is somewhere until it is
\* finished, found to have no listener, received by busy actors only, dropped at a full
\* queue, or lost by the input thread for want of a catch-up thread.
THEOREM NoAcceptedEventVanishes == Spec => []NoEventVanishes
<1>1. Init => TInv /\ AtHome /\ IInv
  BY InitiallyTyped, InitiallyAtHome, InitiallyKept
<1>2. TInv /\ AtHome /\ IInv /\ [Next]_vars => (TInv /\ AtHome /\ IInv)'
  BY StepTyped, StepAtHome, StepKeeps
<1>3. TInv /\ AtHome /\ IInv => NoEventVanishes
  BY DEF IInv
<1> QED
  BY <1>1, <1>2, <1>3, PTL DEF Spec
=============================================================================

--------------------------- MODULE EventPlaceProofs ----------------------------
(***************************************************************************)
(* Proofs about where events are: whether a thread keeps what it defers in   *)
(* its own queue or is the input thread, a buffered event is in one place at *)
(* a time and handled once, and the buffer of a finished event has no users  *)
(* left.                                                                     *)
(***************************************************************************)
EXTENDS ActorThreadProofs

Dispatching(t) == pc[t] \in {"dispatch", "store", "busy"}

\* An alarm is dispatched to nobody and never queued.
AlarmsPass ==
  /\ \A t \in Threads : Dispatching(t) /\ event[t].id = 0 =>
       todo[t] = <<>> /\ event[t].status = "WAITING"
  /\ \A t \in Threads : \A k \in DOMAIN queue[t] : queue[t][k].id \in Ids

\* An event is in one place of one queue, or being dispatched by one thread.
QueuedOnce ==
  \A t, u \in Threads : \A k \in DOMAIN queue[t], l \in DOMAIN queue[u] :
    queue[t][k].id = queue[u][l].id => t = u /\ k = l

DispatchedOnce ==
  \A t \in Threads, i \in Ids : Dispatching(t) /\ event[t].id = i =>
    ~InQueue(i) /\ \A u \in Threads : u # t /\ Dispatching(u) => event[u].id # i

\* Nothing is known of an event that was not published yet.
Fresh ==
  \A i \in Ids : fate[i] = "unpublished" => ~InQueue(i) /\ ~InDispatch(i) /\ taken[i] = 0

\* An event that an actor has handled is not offered to another one.
TakenOnce ==
  \A i \in Ids : taken[i] # 0 =>
    /\ taken[i] = 1 /\ ~InQueue(i)
    /\ \A t \in Threads : Dispatching(t) /\ event[t].id = i =>
         todo[t] = <<>> /\ event[t].status = "HANDLED"

OInv == AlarmsPass /\ QueuedOnce /\ DispatchedOnce /\ Fresh /\ TakenOnce

-----------------------------------------------------------------------------
\* There are no events at first.
LEMMA InitiallyOnce == Init => OInv
<1> SUFFICES ASSUME Init PROVE OInv
  OBVIOUS
<1>1. \A t \in Threads : DOMAIN queue[t] = {} /\ event[t] = NoEvent /\ todo[t] = <<>>
  BY DEF Init
<1>2. NoEvent.id = 0 /\ NoEvent.status = "WAITING" /\ 0 \notin Ids
  BY DEF NoEvent, Ids
<1>3. \A i \in Ids : ~InQueue(i) /\ ~InDispatch(i)
  BY <1>1, <1>2 DEF InQueue, InDispatch
<1>4. AlarmsPass
  BY <1>1, <1>2 DEF Init, AlarmsPass
<1>5. QueuedOnce /\ DispatchedOnce
  BY <1>1, <1>2 DEF QueuedOnce, DispatchedOnce
<1>6. Fresh /\ TakenOnce
  BY <1>3 DEF Init, Fresh, TakenOnce
<1> QED
  BY <1>4, <1>5, <1>6 DEF OInv

\* An event that is in no queue joins one.
LEMMA AppendOnce ==
  ASSUME TypeOK, AlarmsPass, QueuedOnce, NEW t \in Threads, NEW e \in Events, ~Full(t),
         queue' = [queue EXCEPT ![t] = Append(@, e)], e.id \in Ids, ~InQueue(e.id)
  PROVE  /\ QueuedOnce' /\ \A u \in Threads : \A k \in DOMAIN (queue'[u]) : queue'[u][k].id \in Ids
         /\ \A i \in Ids : InQueue(i)' => InQueue(i) \/ e.id = i
<1>1. /\ DOMAIN (queue'[t]) = 1..Len(queue[t]) + 1 /\ DOMAIN (queue[t]) = 1..Len(queue[t])
      /\ Len(queue[t]) \in Nat /\ queue'[t][Len(queue[t]) + 1] = e
      /\ \A k \in 1..Len(queue[t]) : queue'[t][k] = queue[t][k]
      /\ \A u \in Threads : u # t => queue'[u] = queue[u]
  BY AppendType
<1>2. ASSUME NEW u \in Threads, NEW k \in DOMAIN (queue'[u])
      PROVE  \/ k \in DOMAIN queue[u] /\ queue'[u][k] = queue[u][k]
             \/ u = t /\ k = Len(queue[t]) + 1 /\ queue'[u][k] = e
  <2>1. CASE u = t
    <3>1. CASE k = Len(queue[t]) + 1
      BY <1>1, <2>1, <3>1
    <3>2. CASE k # Len(queue[t]) + 1
      BY <1>1, <2>1, <3>2
    <3> QED
      BY <3>1, <3>2
  <2>2. CASE u # t
    BY <1>1, <2>2
  <2> QED
    BY <2>1, <2>2
<1>3. ASSUME NEW u \in Threads, NEW k \in DOMAIN (queue'[u]) PROVE queue'[u][k].id \in Ids
  BY <1>2, <1>3 DEF AlarmsPass
<1>4. ASSUME NEW i \in Ids, InQueue(i)' PROVE InQueue(i) \/ e.id = i
  <2> PICK u \in Threads : \E k \in DOMAIN (queue'[u]) : queue'[u][k].id = i
    BY <1>4 DEF InQueue
  <2>1. PICK k \in DOMAIN (queue'[u]) : queue'[u][k].id = i
    OBVIOUS
  <2> QED
    BY <1>2, <2>1 DEF InQueue
<1>5. QueuedOnce'
  <2> SUFFICES ASSUME NEW u \in Threads, NEW v \in Threads, NEW k \in DOMAIN (queue'[u]),
                      NEW l \in DOMAIN (queue'[v]), queue'[u][k].id = queue'[v][l].id
               PROVE  u = v /\ k = l
    BY DEF QueuedOnce
  <2>1. \/ k \in DOMAIN queue[u] /\ queue'[u][k] = queue[u][k]
        \/ u = t /\ k = Len(queue[t]) + 1 /\ queue'[u][k] = e
    BY <1>2
  <2>2. \/ l \in DOMAIN queue[v] /\ queue'[v][l] = queue[v][l]
        \/ v = t /\ l = Len(queue[t]) + 1 /\ queue'[v][l] = e
    BY <1>2
  <2> QED
    BY <2>1, <2>2 DEF QueuedOnce, InQueue
<1> QED
  BY <1>3, <1>4, <1>5

\* The event that leaves a queue is in none afterwards.
LEMMA TailOnce ==
  ASSUME TypeOK, AlarmsPass, QueuedOnce, NEW t \in Threads, queue[t] # <<>>,
         queue' = [queue EXCEPT ![t] = Tail(@)]
  PROVE  /\ QueuedOnce' /\ \A u \in Threads : \A k \in DOMAIN (queue'[u]) : queue'[u][k].id \in Ids
         /\ Head(queue[t]).id \in Ids /\ InQueue(Head(queue[t]).id)
         /\ \A i \in Ids : InQueue(i)' => InQueue(i) /\ Head(queue[t]).id # i
<1>1. /\ Len(queue[t]) \in Nat \ {0} /\ Head(queue[t]) = queue[t][1]
      /\ DOMAIN (queue'[t]) = 1..Len(queue[t]) - 1 /\ DOMAIN (queue[t]) = 1..Len(queue[t])
      /\ \A k \in 1..Len(queue[t]) - 1 : queue'[t][k] = queue[t][k + 1]
      /\ \A u \in Threads : u # t => queue'[u] = queue[u]
  BY TailType
<1> DEFINE was(u, k) == IF u = t THEN k + 1 ELSE k
<1>2. ASSUME NEW u \in Threads, NEW k \in DOMAIN (queue'[u])
      PROVE  /\ was(u, k) \in DOMAIN queue[u] /\ queue'[u][k] = queue[u][was(u, k)]
             /\ u = t => was(u, k) # 1 /\ k \in Nat
  <2>1. CASE u = t
    <3>1. k \in 1..Len(queue[t]) - 1
      BY <1>1, <2>1
    <3>2. k + 1 \in 1..Len(queue[t]) /\ k + 1 # 1 /\ k \in Nat
      BY <1>1, <3>1
    <3> QED
      BY <1>1, <2>1, <3>1, <3>2
  <2>2. CASE u # t
    BY <1>1, <2>2
  <2> QED
    BY <2>1, <2>2
<1> HIDE DEF was
<1>3. 1 \in DOMAIN queue[t]
  BY <1>1
<1>4. ASSUME NEW u \in Threads, NEW k \in DOMAIN (queue'[u]) PROVE queue'[u][k].id \in Ids
  BY <1>2, <1>4 DEF AlarmsPass
<1>5. Head(queue[t]).id \in Ids /\ InQueue(Head(queue[t]).id)
  BY <1>1, <1>3 DEF AlarmsPass, InQueue
<1>6. ASSUME NEW i \in Ids, InQueue(i)' PROVE InQueue(i) /\ Head(queue[t]).id # i
  <2> PICK u \in Threads : \E k \in DOMAIN (queue'[u]) : queue'[u][k].id = i
    BY <1>6 DEF InQueue
  <2>1. PICK k \in DOMAIN (queue'[u]) : queue'[u][k].id = i
    OBVIOUS
  <2>2. was(u, k) \in DOMAIN queue[u] /\ queue[u][was(u, k)].id = i /\ (u = t => was(u, k) # 1)
    BY <1>2, <2>1
  <2>3. InQueue(i)
    BY <2>2 DEF InQueue
  <2>4. queue[t][1].id # i
    BY <1>3, <2>2 DEF QueuedOnce
  <2> QED
    BY <1>1, <2>3, <2>4
<1>7. QueuedOnce'
  <2> SUFFICES ASSUME NEW u \in Threads, NEW v \in Threads, NEW k \in DOMAIN (queue'[u]),
                      NEW l \in DOMAIN (queue'[v]), queue'[u][k].id = queue'[v][l].id
               PROVE  u = v /\ k = l
    BY DEF QueuedOnce
  <2>1. /\ was(u, k) \in DOMAIN queue[u] /\ queue'[u][k] = queue[u][was(u, k)]
        /\ was(v, l) \in DOMAIN queue[v] /\ queue'[v][l] = queue[v][was(v, l)]
    BY <1>2
  <2>2. u = v /\ was(u, k) = was(v, l)
    BY <2>1 DEF QueuedOnce
  <2>3. u = t => k \in Nat /\ l \in Nat
    BY <1>2, <2>2
  <2> QED
    BY <2>2, <2>3 DEF was
<1> QED
  BY <1>4, <1>5, <1>6, <1>7

-----------------------------------------------------------------------------
\* A published event is new to the queue it joins.
LEMMA PublishOnce ==
  ASSUME TInv, OInv, NEW t \in Threads, NEW target \in Targets, Publish(t, target)
  PROVE  OInv'
<1>1. PICK id \in {i \in Ids : fate[i] = "unpublished"} :
        IF Full(t)
        THEN /\ fate' = [fate EXCEPT ![id] = "rejected"]
             /\ UNCHANGED <<queue, announcing>>
        ELSE /\ fate' = [fate EXCEPT ![id] = "pending"]
             /\ queue' = [queue EXCEPT ![t] =
                   Append(@, [id |-> id, status |-> "WAITING", consumer |-> target])]
             /\ announcing' = [announcing EXCEPT ![t] = @ + 1]
  BY DEF Publish
<1> DEFINE e == [id |-> id, status |-> "WAITING", consumer |-> target]
<1>2. e \in Events /\ e.id = id /\ id \in Ids
  BY ThreadAssumption DEF Events, Statuses, Ids
<1>3. UNCHANGED <<pc, event, todo, note, taken>>
  BY DEF Publish, loop, actors
<1>4. ~InQueue(id) /\ ~InDispatch(id) /\ taken[id] = 0
  BY <1>1 DEF OInv, Fresh
<1>5. \A i \in Ids : fate'[i] = "unpublished" => fate[i] = "unpublished" /\ i # id
  BY <1>1 DEF TInv, TypeOK
<1>6. /\ QueuedOnce' /\ \A u \in Threads : \A k \in DOMAIN (queue'[u]) : queue'[u][k].id \in Ids
      /\ \A i \in Ids : InQueue(i)' => InQueue(i) \/ id = i
  <2>1. CASE Full(t)
    <3>1. queue' = queue
      BY <1>1, <2>1
    <3> QED
      BY <3>1 DEF OInv, QueuedOnce, AlarmsPass, InQueue
  <2>2. CASE ~Full(t)
    <3>1. queue' = [queue EXCEPT ![t] = Append(@, e)]
      BY <1>1, <2>2
    <3> HIDE DEF e
    <3> QED
      BY <1>2, <1>4, <2>2, <3>1, AppendOnce DEF TInv, OInv
  <2> QED
    BY <2>1, <2>2
<1>7. \A u \in Threads : Dispatching(u) => event[u].id # id
  BY <1>4 DEF InDispatch, Dispatching
<1>8. AlarmsPass'
  BY <1>3, <1>6 DEF OInv, AlarmsPass, Dispatching
<1>9. DispatchedOnce'
  BY <1>3, <1>6, <1>7 DEF OInv, DispatchedOnce, Dispatching
<1>10. Fresh'
  BY <1>3, <1>5, <1>6 DEF OInv, Fresh, InDispatch
<1>11. TakenOnce'
  BY <1>3, <1>4, <1>6 DEF OInv, TakenOnce, Dispatching
<1> QED
  BY <1>6, <1>8, <1>9, <1>10, <1>11 DEF OInv

\* What a loop that dispatches does to its event leaves it where it is.
LEMMA DispatchOnce ==
  ASSUME TInv, OInv, NEW t \in Threads, pc[t] \in {"dispatch", "store", "busy"},
         todo[t] # <<>>, event[t].id \in Ids,
         pc'[t] \in {"dispatch", "store", "busy"}, event'[t].id = event[t].id,
         \A u \in Threads : u # t => pc'[u] = pc[u] /\ event'[u] = event[u] /\ todo'[u] = todo[u],
         UNCHANGED <<note, queue, fate>>,
         \A i \in Ids : taken'[i] = taken[i]
                        \/ /\ i = event[t].id /\ taken'[i] = taken[i] + 1
                           /\ todo'[t] = <<>> /\ event'[t].status = "HANDLED"
  PROVE  OInv'
<1>1. QueuedOnce'
  BY DEF OInv, QueuedOnce
<1>2. \A i \in Ids : InQueue(i)' <=> InQueue(i)
  BY DEF InQueue
<1>3. \A u \in Threads : Dispatching(u)' = Dispatching(u) /\ event'[u].id = event[u].id
  BY DEF Dispatching
<1>4. AlarmsPass'
  <2>1. \A u \in Threads : \A k \in DOMAIN (queue'[u]) : queue'[u][k].id \in Ids
    BY DEF OInv, AlarmsPass
  <2>2. ASSUME NEW u \in Threads, Dispatching(u)', event'[u].id = 0
        PROVE  todo'[u] = <<>> /\ event'[u].status = "WAITING"
    <3>1. u # t
      BY <2>2 DEF Ids
    <3> QED
      BY <1>3, <2>2, <3>1 DEF OInv, AlarmsPass
  <2> QED
    BY <2>1, <2>2 DEF AlarmsPass
<1>5. DispatchedOnce'
  BY <1>2, <1>3 DEF OInv, DispatchedOnce
<1>6. Fresh'
  <2>1. \A i \in Ids : InDispatch(i)' <=> InDispatch(i)
    BY <1>3 DEF InDispatch, Dispatching
  <2>2. \A i \in Ids : fate[i] = "unpublished" => event[t].id # i
    BY DEF OInv, Fresh, InDispatch
  <2> QED
    BY <1>2, <2>1, <2>2 DEF OInv, Fresh
<1>7. TakenOnce'
  <2> SUFFICES ASSUME NEW i \in Ids, taken'[i] # 0
               PROVE  /\ taken'[i] = 1 /\ ~InQueue(i)'
                      /\ \A u \in Threads : Dispatching(u)' /\ event'[u].id = i =>
                           todo'[u] = <<>> /\ event'[u].status = "HANDLED"
    BY DEF TakenOnce
  <2>1. CASE i = event[t].id
    <3>1. taken[i] = 0
      BY <2>1 DEF OInv, TakenOnce, Dispatching
    <3>2. taken'[i] = 1 /\ todo'[t] = <<>> /\ event'[t].status = "HANDLED"
      BY <2>1, <3>1
    <3>3. ~InQueue(i)' /\ \A u \in Threads : u # t /\ Dispatching(u)' => event'[u].id # i
      BY <1>2, <1>3, <2>1 DEF OInv, DispatchedOnce, Dispatching
    <3> QED
      BY <3>2, <3>3
  <2>2. CASE i # event[t].id
    BY <1>2, <1>3, <2>2 DEF OInv, TakenOnce
  <2> QED
    BY <2>1, <2>2
<1> QED
  BY <1>1, <1>4, <1>5, <1>6, <1>7 DEF OInv

\* Dispatching an event: an actor that takes it is its consumer, and the last to be offered it.
LEMMA OfferOnce ==
  ASSUME Buffered, TInv, OInv, NEW t \in Threads, Offer(t) \/ Store(t) \/ MarkBusy(t)
  PROVE  OInv'
<1> DEFINE a == Head(todo[t])
           e == event[t]
<1>1. /\ todo[t] # <<>> /\ Dispatching(t) /\ a \in Actors /\ e \in Events
      /\ pc[t] \in {"dispatch", "store", "busy"}
  BY FirstWorker DEF Offer, Store, MarkBusy, TInv, Working, TypeOK, Dispatching
<1>2. e.id \in Ids
  BY <1>1 DEF OInv, AlarmsPass, Events, Ids
<1>3. ReadyStatus(a) \in Statuses /\ BusyStatus(a) \in Statuses
  BY <1>1, StatusType DEF Statuses
<1>4. CASE Offer(t)
  <2>1. /\ UNCHANGED <<todo, note, queue, fate, taken>>
        /\ \/ /\ pc' = [pc EXCEPT ![t] = "store"]
              /\ event' = event
           \/ /\ pc' = [pc EXCEPT ![t] = "busy"]
              /\ event' = [event EXCEPT ![t] = Stamp(e, a, BusyStatus(a))]
    <3>1. CASE slot[a] = 0
      BY <1>4, <3>1 DEF Offer, Goto, mail
    <3>2. CASE slot[a] # 0
      BY <1>4, <3>2 DEF Offer, Goto, mail
    <3> QED
      BY <3>1, <3>2
  <2>2. Stamp(e, a, BusyStatus(a)).id = e.id
    BY <1>1, <1>3, StampType
  <2>3. /\ pc'[t] \in {"dispatch", "store", "busy"} /\ event'[t].id = event[t].id
        /\ \A u \in Threads : u # t => pc'[u] = pc[u] /\ event'[u] = event[u] /\ todo'[u] = todo[u]
    BY <2>1, <2>2 DEF TInv, TypeOK
  <2> QED
    BY <1>1, <1>2, <2>1, <2>3, DispatchOnce
<1>5. CASE Store(t)
  <2>1. /\ event' = [event EXCEPT ![t] = Stamp(e, a, ReadyStatus(a))] /\ NextWorker(t)
        /\ taken' = [taken EXCEPT ![e.id] = IF ReadyStatus(a) = "HANDLED" THEN @ + 1 ELSE @]
        /\ UNCHANGED <<note, queue, fate>>
    BY <1>5 DEF Store, mail
  <2>2. /\ Stamp(e, a, ReadyStatus(a)).id = e.id
        /\ Stamp(e, a, ReadyStatus(a)).status = ReadyStatus(a)
    BY <1>1, <1>3, StampType
  <2>3. ReadyStatus(a) = "HANDLED" => Stamp(e, a, ReadyStatus(a)).consumer = a
    BY <1>1 DEF Stamp, Events
  <2>4. /\ pc' = [pc EXCEPT ![t] = "dispatch"]
        /\ todo' = [todo EXCEPT ![t] = IF event'[t].consumer # None THEN <<>> ELSE Tail(@)]
    BY <2>1 DEF NextWorker, Goto
  <2>5. a # None
    BY <1>1, ThreadAssumption
  <2>6. /\ event'[t] = Stamp(e, a, ReadyStatus(a)) /\ pc'[t] = "dispatch"
        /\ todo'[t] = IF event'[t].consumer # None THEN <<>> ELSE Tail(todo[t])
        /\ \A u \in Threads : u # t => pc'[u] = pc[u] /\ event'[u] = event[u] /\ todo'[u] = todo[u]
    BY <2>1, <2>4 DEF TInv, TypeOK
  <2>7. \A i \in Ids : taken'[i] = taken[i]
                        \/ /\ i = event[t].id /\ taken'[i] = taken[i] + 1
                           /\ todo'[t] = <<>> /\ event'[t].status = "HANDLED"
    <3>1. CASE ReadyStatus(a) = "HANDLED"
      <4>1. todo'[t] = <<>> /\ event'[t].status = "HANDLED"
        BY <2>2, <2>3, <2>5, <2>6, <3>1
      <4>2. \A i \in Ids : taken'[i] = IF i = e.id THEN taken[i] + 1 ELSE taken[i]
        BY <2>1, <3>1 DEF TInv, TypeOK
      <4> QED
        BY <4>1, <4>2
    <3>2. CASE ReadyStatus(a) # "HANDLED"
      BY <2>1, <3>2 DEF TInv, TypeOK
    <3> QED
      BY <3>1, <3>2
  <2> QED
    BY <1>1, <1>2, <2>1, <2>2, <2>6, <2>7, DispatchOnce
<1>6. CASE MarkBusy(t)
  <2>1. /\ event' = event /\ NextWorker(t) /\ UNCHANGED <<note, queue, fate, taken>>
    BY <1>6 DEF MarkBusy, mail
  <2>2. /\ pc'[t] = "dispatch"
        /\ \A u \in Threads : u # t => pc'[u] = pc[u] /\ todo'[u] = todo[u]
    BY <2>1 DEF NextWorker, Goto, TInv, TypeOK
  <2> QED
    BY <1>1, <1>2, <2>1, <2>2, DispatchOnce
<1> QED
  BY <1>4, <1>5, <1>6

\* The loop is through with its event, which is in a queue again only if nobody took it.
LEMMA RequeueOnce ==
  ASSUME TInv, OInv, NEW t \in Threads, Requeue(t)
  PROVE  OInv'
<1>1. /\ pc' = [pc EXCEPT ![t] = "shift"] /\ Dispatching(t)
      /\ UNCHANGED <<todo, note, taken>>
  BY DEF Requeue, Goto, actors, Dispatching
<1>2. \A u \in Threads : u # t => event'[u] = event[u]
  BY DEF Requeue, RequeueUnheard, RequeueDeferred, RequeueOffloaded, RequeueTaken, EndAs, TInv, TypeOK
<1>3. \A i \in Ids : fate'[i] = "unpublished" => fate[i] = "unpublished"
  BY DEF Requeue, RequeueUnheard, RequeueDeferred, RequeueOffloaded, RequeueTaken, EndAs, TInv, TypeOK
<1>4. ~Dispatching(t)' /\ \A u \in Threads : u # t => Dispatching(u)' = Dispatching(u)
  BY <1>1 DEF Dispatching, TInv, TypeOK
<1>5. /\ QueuedOnce' /\ \A u \in Threads : \A k \in DOMAIN (queue'[u]) : queue'[u][k].id \in Ids
      /\ \A i \in Ids : InQueue(i)' => \/ InQueue(i)
                                       \/ event[t].id = i /\ event[t].status \in {"DEFERRED", "ADDRESSED"}
  <2>1. CASE queue' = queue
    BY <2>1 DEF OInv, QueuedOnce, AlarmsPass, InQueue
  <2>2. CASE RequeueDeferred(t) /\ queue' # queue
    <3> DEFINE e == [event[t] EXCEPT !.status = "DEFERRED"]
    <3>2. e \in Events /\ e.id = event[t].id
      <4>1. event[t] \in Events
        BY DEF TInv, TypeOK
      <4> QED
        BY <4>1 DEF Events, Statuses
    <3>3. /\ ~Full(t) /\ queue' = [queue EXCEPT ![t] = Append(@, e)]
          /\ event[t].status \in {"DEFERRED", "ADDRESSED"}
      BY <2>2 DEF RequeueDeferred
    <3>4. e.id \in Ids /\ ~InQueue(e.id)
      <4>1. event[t].id # 0
        BY <1>1, <3>3 DEF OInv, AlarmsPass
      <4>2. event[t].id \in Ids
        BY <4>1 DEF TInv, TypeOK, Events, Ids
      <4> QED
        BY <1>1, <3>2, <4>2 DEF OInv, DispatchedOnce
    <3> HIDE DEF e
    <3> QED
      BY <3>2, <3>3, <3>4, AppendOnce DEF TInv, OInv
  <2>3. RequeueUnheard(t) \/ RequeueOffloaded(t) \/ RequeueTaken(t) => queue' = queue
    BY DEF RequeueUnheard, RequeueOffloaded, RequeueTaken
  <2> QED
    BY <2>1, <2>2, <2>3 DEF Requeue
<1>6. AlarmsPass'
  BY <1>1, <1>2, <1>4, <1>5 DEF OInv, AlarmsPass
<1>7. DispatchedOnce'
  <2> SUFFICES ASSUME NEW u \in Threads, NEW i \in Ids, Dispatching(u)', event'[u].id = i
               PROVE  ~InQueue(i)' /\ \A v \in Threads : v # u /\ Dispatching(v)' => event'[v].id # i
    BY DEF DispatchedOnce
  <2>1. u # t /\ Dispatching(u) /\ event[u].id = i
    BY <1>2, <1>4
  <2>2. ~InQueue(i) /\ \A v \in Threads : v # u /\ Dispatching(v) => event[v].id # i
    BY <2>1 DEF OInv, DispatchedOnce
  <2> QED
    BY <1>1, <1>2, <1>4, <1>5, <2>1, <2>2
<1>8. Fresh'
  <2>1. \A i \in Ids : InDispatch(i)' => InDispatch(i)
    BY <1>2, <1>4 DEF InDispatch, Dispatching
  <2>2. \A i \in Ids : fate[i] = "unpublished" => event[t].id # i
    BY <1>1 DEF OInv, Fresh, InDispatch, Dispatching
  <2> QED
    BY <1>1, <1>3, <1>5, <2>1, <2>2 DEF OInv, Fresh
<1>9. TakenOnce'
  BY <1>1, <1>2, <1>4, <1>5 DEF OInv, TakenOnce
<1> QED
  BY <1>5, <1>6, <1>7, <1>8, <1>9 DEF OInv

\* The loop turns to the next event of its queue, which is nowhere else.
LEMMA TurnOnce ==
  ASSUME TInv, OInv, NEW t \in Threads, queue[t] # <<>>, pc[t] \in {"shift", "await"},
         Begin(t, Head(queue[t])), queue' = [queue EXCEPT ![t] = Tail(@)],
         UNCHANGED <<fate, taken>>
  PROVE  OInv'
<1> DEFINE h == Head(queue[t])
<1>1. /\ pc' = [pc EXCEPT ![t] = "dispatch"] /\ event' = [event EXCEPT ![t] = h]
      /\ \A u \in Threads : u # t => todo'[u] = todo[u]
  BY TailType, BeginType DEF TInv
<1>2. /\ QueuedOnce' /\ \A u \in Threads : \A k \in DOMAIN (queue'[u]) : queue'[u][k].id \in Ids
      /\ h.id \in Ids /\ InQueue(h.id)
      /\ \A i \in Ids : InQueue(i)' => InQueue(i) /\ h.id # i
  BY TailOnce DEF TInv, OInv
<1> HIDE DEF h
<1>3. /\ ~Dispatching(t) /\ Dispatching(t)' /\ event'[t] = h
      /\ \A u \in Threads : u # t => Dispatching(u)' = Dispatching(u) /\ event'[u] = event[u]
  BY <1>1 DEF Dispatching, TInv, TypeOK
<1>4. h.id # 0 /\ taken[h.id] = 0 /\ fate[h.id] # "unpublished"
      /\ \A u \in Threads : Dispatching(u) => event[u].id # h.id
  BY <1>2 DEF OInv, TakenOnce, Fresh, DispatchedOnce, Ids
<1>5. AlarmsPass'
  BY <1>1, <1>2, <1>3, <1>4 DEF OInv, AlarmsPass
<1>6. DispatchedOnce'
  <2> SUFFICES ASSUME NEW u \in Threads, NEW i \in Ids, Dispatching(u)', event'[u].id = i
               PROVE  ~InQueue(i)' /\ \A v \in Threads : v # u /\ Dispatching(v)' => event'[v].id # i
    BY DEF DispatchedOnce
  <2>1. CASE u = t
    BY <1>2, <1>3, <1>4, <2>1
  <2>2. CASE u # t
    BY <1>2, <1>3, <1>4, <2>2 DEF OInv, DispatchedOnce
  <2> QED
    BY <2>1, <2>2
<1>7. Fresh'
  <2>1. \A i \in Ids : InDispatch(i)' => InDispatch(i) \/ i = h.id
    BY <1>3 DEF InDispatch, Dispatching
  <2> QED
    BY <1>2, <1>4, <2>1 DEF OInv, Fresh
<1>8. TakenOnce'
  <2> SUFFICES ASSUME NEW i \in Ids, taken[i] # 0
               PROVE  /\ taken[i] = 1 /\ ~InQueue(i)'
                      /\ \A u \in Threads : Dispatching(u)' /\ event'[u].id = i =>
                           todo'[u] = <<>> /\ event'[u].status = "HANDLED"
    BY DEF TakenOnce
  <2> QED
    BY <1>1, <1>2, <1>3, <1>4 DEF OInv, TakenOnce
<1> QED
  BY <1>2, <1>5, <1>6, <1>7, <1>8 DEF OInv

\* A thread that wakes up dispatches an alarm or the next event.
LEMMA WakeOnce ==
  ASSUME TInv, OInv, NEW t \in Threads, Shift(t) \/ Sleep(t) \/ Wake(t)
  PROVE  OInv'
<1>1. ASSUME Shift(t) \/ WakeByEvent(t), queue[t] # <<>> PROVE OInv'
  <2>1. /\ Begin(t, Head(queue[t])) /\ queue' = [queue EXCEPT ![t] = Tail(@)]
        /\ pc[t] \in {"shift", "await"} /\ UNCHANGED <<fate, taken>>
    BY <1>1 DEF Shift, WakeByEvent, actors
  <2> QED
    BY <1>1, <2>1, TurnOnce
<1>2. ASSUME UNCHANGED <<event, todo, queue, fate, taken>>,
             \A u \in Threads : Dispatching(u)' = Dispatching(u)
      PROVE  OInv'
  BY <1>2 DEF OInv, AlarmsPass, QueuedOnce, DispatchedOnce, Fresh, TakenOnce, InQueue, InDispatch,
              Dispatching
<1>3. CASE WakeByEvent(t) /\ queue[t] = <<>>
  BY <1>2, <1>3 DEF WakeByEvent, loop, actors, OInv, Dispatching, TInv, TypeOK
<1>4. CASE WakeByReschedule(t)
  BY <1>2, <1>4 DEF WakeByReschedule, loop, actors, OInv, Dispatching, TInv, TypeOK
<1>5. CASE Sleep(t)
  BY <1>2, <1>5 DEF Sleep, Goto, mail, actors, OInv, Dispatching, TInv, TypeOK
<1>7. CASE WakeByAlarm(t)
  <2>1. /\ pc[t] = "await" /\ Begin(t, NoEvent) /\ UNCHANGED <<note, queue, fate, taken>>
    BY <1>7 DEF WakeByAlarm, mail, actors
  <2>2. NoEvent.id = 0 /\ NoEvent.status = "WAITING" /\ 0 \notin Ids
    BY DEF NoEvent, Ids
  <2>3. /\ ~Dispatching(t) /\ event'[t] = NoEvent /\ todo'[t] = <<>>
        /\ \A u \in Threads : u # t =>
             Dispatching(u)' = Dispatching(u) /\ event'[u] = event[u] /\ todo'[u] = todo[u]
    BY <2>1, <2>2 DEF Begin, Dispatching, TInv, TypeOK
  <2>4. \A i \in Ids : (InQueue(i)' <=> InQueue(i)) /\ (InDispatch(i)' => InDispatch(i))
    BY <2>1, <2>2, <2>3 DEF InQueue, InDispatch, Dispatching
  <2>5. AlarmsPass' /\ QueuedOnce'
    BY <2>1, <2>2, <2>3 DEF OInv, AlarmsPass, QueuedOnce
  <2>6. DispatchedOnce'
    BY <2>2, <2>3, <2>4 DEF OInv, DispatchedOnce
  <2>7. Fresh'
    BY <2>1, <2>4 DEF OInv, Fresh
  <2>8. TakenOnce'
    BY <2>1, <2>2, <2>3, <2>4 DEF OInv, TakenOnce
  <2> QED
    BY <2>5, <2>6, <2>7, <2>8 DEF OInv
<1>8. Shift(t) => queue[t] # <<>>
  BY DEF Shift, NothingToShift
<1> QED
  BY <1>1, <1>3, <1>4, <1>5, <1>7, <1>8 DEF Wake

\* Every step keeps events in one place.
LEMMA StepOnce ==
  ASSUME Buffered, TInv, OInv, [Next]_vars
  PROVE  OInv'
<1>1. ASSUME NEW t \in Threads, NEW target \in Targets, Publish(t, target) PROVE OInv'
  BY <1>1, PublishOnce
<1>2. ASSUME UNCHANGED <<pc, event, todo, queue, taken>>,
             \A i \in Ids : fate'[i] = "unpublished" => fate[i] = "unpublished"
      PROVE  OInv'
  BY <1>2 DEF OInv, AlarmsPass, QueuedOnce, DispatchedOnce, Fresh, TakenOnce, InQueue, InDispatch,
              Dispatching
<1>3. ASSUME NEW t \in Threads, Announce(t) \/ Reschedule(t) PROVE OInv'
  BY <1>2, <1>3 DEF Announce, Reschedule, loop, actors
<1>4. ASSUME NEW t \in Threads, Loop(t) PROVE OInv'
  BY <1>4, OfferOnce, RequeueOnce, WakeOnce DEF Loop, Dispatch
<1>5. ASSUME NEW a \in Actors, Finish(a) PROVE OInv'
  <2>1. /\ UNCHANGED <<pc, event, todo, queue, taken>>
        /\ fate' = [fate EXCEPT ![slot[a]] = "finished"]
    BY <1>5 DEF Finish, loop, mail
  <2> QED
    BY <1>2, <2>1 DEF OInv, TInv, TypeOK
<1>6. CASE UNCHANGED vars
  BY <1>2, <1>6 DEF vars, loop, mail, actors, OInv
<1> QED
  BY <1>1, <1>3, <1>4, <1>5, <1>6 DEF Next

\* event.h:50-51: whatever threads, actors and policies there are, a buffered event that
\* an actor has handled is never stored by an actor again.
THEOREM EventsHandledOnce ==
  ASSUME Buffered
  PROVE  Spec => []HandledOnce
<1>1. Init => TInv /\ OInv
  BY InitiallyTyped, InitiallyOnce
<1>2. TInv /\ OInv /\ [Next]_vars => (TInv /\ OInv)'
  BY StepTyped, StepOnce
<1>3. TInv /\ OInv => HandledOnce
  <2> SUFFICES ASSUME TInv, OInv, NEW i \in Ids
               PROVE  taken[i] <= 1
    BY DEF HandledOnce, Ids
  <2>1. taken[i] \in Nat
    BY DEF TInv, TypeOK, Ids
  <2>2. taken[i] = 0 \/ taken[i] = 1
    BY <2>1 DEF OInv, TakenOnce
  <2> QED
    BY <2>2
<1> QED
  BY <1>1, <1>2, <1>3, PTL DEF Spec
-----------------------------------------------------------------------------
\* How often a buffer is used by the one copy of an event that no actor took yet
Use(status) == IF status = "DEFERRED" THEN 1 ELSE 0

QueuedUses ==
  \A i \in Ids, t \in Threads : \A k \in DOMAIN queue[t] : queue[t][k].id = i =>
    queue[t][k].status \in {"WAITING", "DEFERRED"} /\ users[i] = Use(queue[t][k].status)

DispatchedUses ==
  \A i \in Ids, t \in Threads : Dispatching(t) /\ event[t].id = i /\ taken[i] = 0 =>
    event[t].status \in {"WAITING", "DEFERRED"} /\ users[i] = Use(event[t].status)

\* One actor holds an event that was taken and uses its buffer until it is finished.
HeldUses ==
  \A i \in Ids, a \in Actors : slot[a] = i =>
    taken[i] # 0 /\ users[i] = 1 /\ \A b \in Actors : slot[b] = i => b = a

FinishedUses == \A i \in Ids : fate[i] = "finished" => taken[i] # 0 /\ users[i] = 0

UnusedFirst == \A i \in Ids : fate[i] = "unpublished" => users[i] = 0

UInv == QueuedUses /\ DispatchedUses /\ HeldUses /\ FinishedUses /\ UnusedFirst

\* There are no events at first, and no buffers in use.
LEMMA InitiallyUnused == Init => UInv
<1> SUFFICES ASSUME Init PROVE UInv
  OBVIOUS
<1>1. /\ \A t \in Threads : DOMAIN queue[t] = {} /\ event[t].id = 0
      /\ \A a \in Actors : slot[a] = 0
      /\ \A i \in Ids : i # 0 /\ fate[i] = "unpublished" /\ users[i] = 0
  BY DEF Init, NoEvent, Ids
<1> QED
  BY <1>1 DEF UInv, QueuedUses, DispatchedUses, HeldUses, FinishedUses, UnusedFirst

\* What is in a queue that an event has joined was there before, or is that event.
LEMMA AppendContents ==
  ASSUME TypeOK, NEW t \in Threads, NEW e \in Events, ~Full(t),
         queue' = [queue EXCEPT ![t] = Append(@, e)],
         NEW u \in Threads, NEW k \in DOMAIN (queue'[u])
  PROVE  queue'[u][k] = e \/ \E l \in DOMAIN queue[u] : queue'[u][k] = queue[u][l]
<1>1. /\ DOMAIN (queue'[t]) = 1..Len(queue[t]) + 1 /\ DOMAIN (queue[t]) = 1..Len(queue[t])
      /\ Len(queue[t]) \in Nat /\ queue'[t][Len(queue[t]) + 1] = e
      /\ \A l \in 1..Len(queue[t]) : queue'[t][l] = queue[t][l]
      /\ \A v \in Threads : v # t => queue'[v] = queue[v]
  BY AppendType
<1>2. CASE u = t /\ k # Len(queue[t]) + 1
  BY <1>1, <1>2
<1> QED
  BY <1>1, <1>2

\* What is in a queue that an event has left was there before.
LEMMA TailContents ==
  ASSUME TypeOK, NEW t \in Threads, queue[t] # <<>>, queue' = [queue EXCEPT ![t] = Tail(@)],
         NEW u \in Threads, NEW k \in DOMAIN (queue'[u])
  PROVE  \E l \in DOMAIN queue[u] : queue'[u][k] = queue[u][l]
<1>1. /\ Len(queue[t]) \in Nat \ {0} /\ DOMAIN (queue[t]) = 1..Len(queue[t])
      /\ DOMAIN (queue'[t]) = 1..Len(queue[t]) - 1
      /\ \A l \in 1..Len(queue[t]) - 1 : queue'[t][l] = queue[t][l + 1]
      /\ \A v \in Threads : v # t => queue'[v] = queue[v]
  BY TailType
<1>2. CASE u = t
  <2>1. k + 1 \in DOMAIN queue[u] /\ queue'[u][k] = queue[u][k + 1]
    BY <1>1, <1>2
  <2> QED
    BY <2>1
<1> QED
  BY <1>1, <1>2

-----------------------------------------------------------------------------
\* Steps that move no event use no buffer.
LEMMA QuietUses ==
  ASSUME UInv, UNCHANGED <<queue, event, taken, users, slot, fate>>,
         \A t \in Threads : Dispatching(t)' => Dispatching(t)
  PROVE  UInv'
BY DEF UInv, QueuedUses, DispatchedUses, HeldUses, FinishedUses, UnusedFirst

\* The buffer of a published event is not in use.
LEMMA PublishUses ==
  ASSUME TInv, UInv, NEW t \in Threads, NEW target \in Targets, Publish(t, target)
  PROVE  UInv'
<1>1. PICK id \in {i \in Ids : fate[i] = "unpublished"} :
        IF Full(t)
        THEN /\ fate' = [fate EXCEPT ![id] = "rejected"]
             /\ UNCHANGED <<queue, announcing>>
        ELSE /\ fate' = [fate EXCEPT ![id] = "pending"]
             /\ queue' = [queue EXCEPT ![t] =
                   Append(@, [id |-> id, status |-> "WAITING", consumer |-> target])]
             /\ announcing' = [announcing EXCEPT ![t] = @ + 1]
  BY DEF Publish
<1> DEFINE e == [id |-> id, status |-> "WAITING", consumer |-> target]
<1>2. e \in Events /\ e.id = id /\ e.status = "WAITING"
  BY ThreadAssumption DEF Events, Statuses, Ids
<1>3. UNCHANGED <<pc, event, taken, users, slot>>
  BY DEF Publish, loop, actors
<1>4. users[id] = 0
  BY <1>1 DEF UInv, UnusedFirst
<1>5. \A i \in Ids : /\ fate'[i] = "unpublished" => fate[i] = "unpublished"
                     /\ fate'[i] = "finished" => fate[i] = "finished"
  BY <1>1 DEF TInv, TypeOK
<1>6. QueuedUses'
  <2>1. CASE Full(t)
    BY <1>1, <1>3, <2>1 DEF UInv, QueuedUses
  <2>2. CASE ~Full(t)
    <3>1. queue' = [queue EXCEPT ![t] = Append(@, e)]
      BY <1>1, <2>2
    <3> HIDE DEF e
    <3> SUFFICES ASSUME NEW i \in Ids, NEW u \in Threads, NEW k \in DOMAIN (queue'[u]),
                        queue'[u][k].id = i
                 PROVE  /\ queue'[u][k].status \in {"WAITING", "DEFERRED"}
                        /\ users'[i] = Use(queue'[u][k].status)
      BY DEF QueuedUses
    <3>2. queue'[u][k] = e \/ \E l \in DOMAIN queue[u] : queue'[u][k] = queue[u][l]
      BY <1>2, <2>2, <3>1, AppendContents DEF TInv
    <3> QED
      BY <1>2, <1>3, <1>4, <3>2 DEF UInv, QueuedUses, Use
  <2> QED
    BY <2>1, <2>2
<1>7. DispatchedUses' /\ HeldUses'
  BY <1>3 DEF UInv, DispatchedUses, HeldUses, Dispatching
<1>8. FinishedUses' /\ UnusedFirst'
  BY <1>3, <1>5 DEF UInv, FinishedUses, UnusedFirst
<1> QED
  BY <1>6, <1>7, <1>8 DEF UInv

\* An event that is offered to an actor is nowhere else, and counted as its status says.
LEMMA OfferedUses ==
  ASSUME TInv, OInv, UInv, NEW t \in Threads, Dispatching(t), todo[t] # <<>>
  PROVE  LET i == event[t].id IN
         /\ i \in Ids /\ taken[i] = 0 /\ ~InQueue(i)
         /\ event[t].status \in {"WAITING", "DEFERRED"} /\ users[i] = Use(event[t].status)
         /\ \A u \in Threads : u # t /\ Dispatching(u) => event[u].id # i
         /\ fate[i] \notin {"unpublished", "finished"} /\ \A a \in Actors : slot[a] # i
<1> DEFINE i == event[t].id
<1>1. i \in Ids
  BY DEF OInv, AlarmsPass, TInv, TypeOK, Events, Ids
<1>2. taken[i] = 0
  BY <1>1 DEF OInv, TakenOnce
<1>3. fate[i] # "unpublished"
  BY <1>1 DEF OInv, Fresh, InDispatch, Dispatching
<1>4. fate[i] # "finished" /\ \A a \in Actors : slot[a] # i
  BY <1>1, <1>2 DEF UInv, FinishedUses, HeldUses
<1>5. event[t].status \in {"WAITING", "DEFERRED"} /\ users[i] = Use(event[t].status)
  BY <1>1, <1>2 DEF UInv, DispatchedUses
<1> QED
  BY <1>1, <1>2, <1>3, <1>4, <1>5 DEF OInv, DispatchedOnce

\* Deferring or handling an event leaves its buffer used once.
LEMMA UsedOnce ==
  ASSUME Buffered, NEW e, e.status \in {"WAITING", "DEFERRED"}, NEW s \in {"HANDLED", "DEFERRED"}
  PROVE  Use(e.status) + UsesOf(e, s) = 1
BY DEF Use, UsesOf

\* A busy actor defers the event, and uses its buffer.
LEMMA OfferUses ==
  ASSUME Buffered, \A a \in Actors : Policy[a] = "handle",
         TInv, OInv, UInv, NEW t \in Threads, Offer(t)
  PROVE  UInv'
<1> DEFINE a == Head(todo[t])
           e == event[t]
           i == event[t].id
<1>1. a \in Actors /\ BusyStatus(a) = "DEFERRED" /\ e \in Events
  BY FirstWorker DEF Offer, BusyStatus, TInv, TypeOK
<1>2. Dispatching(t) /\ todo[t] # <<>>
  BY DEF Offer, Dispatching
<1>3. /\ i \in Ids /\ taken[i] = 0 /\ ~InQueue(i)
      /\ e.status \in {"WAITING", "DEFERRED"} /\ users[i] = Use(e.status)
      /\ \A u \in Threads : u # t /\ Dispatching(u) => event[u].id # i
      /\ fate[i] \notin {"unpublished", "finished"} /\ \A b \in Actors : slot[b] # i
  BY <1>2, OfferedUses
<1>4. UNCHANGED <<queue, taken, slot, fate>> /\ \A u \in Threads : Dispatching(u)' => Dispatching(u)
  BY <1>2 DEF Offer, mail, Goto, Dispatching, TInv, TypeOK
<1>5. CASE slot[a] = 0
  BY <1>4, <1>5, QuietUses DEF Offer
<1>6. CASE slot[a] # 0
  <2>1. /\ event' = [event EXCEPT ![t] = Stamp(e, a, "DEFERRED")]
        /\ users' = [users EXCEPT ![i] = @ + UsesOf(e, "DEFERRED")]
    BY <1>1, <1>6 DEF Offer
  <2>2. Stamp(e, a, "DEFERRED").id = i /\ Stamp(e, a, "DEFERRED").status = "DEFERRED"
    BY <1>1, StampType DEF Statuses
  <2>3. users'[i] = 1 /\ \A j \in Ids : j # i => users'[j] = users[j]
    BY <1>3, <2>1, UsedOnce DEF TInv, TypeOK
  <2>4. /\ event'[t].id = i /\ event'[t].status = "DEFERRED"
        /\ \A u \in Threads : u # t => event'[u] = event[u]
    BY <2>1, <2>2 DEF TInv, TypeOK
  <2> HIDE DEF i, e, a
  <2>5. QueuedUses'
    BY <1>3, <1>4, <2>3 DEF UInv, QueuedUses, InQueue
  <2>6. DispatchedUses'
    <3> SUFFICES ASSUME NEW j \in Ids, NEW u \in Threads, Dispatching(u)', event'[u].id = j, taken[j] = 0
                 PROVE  /\ event'[u].status \in {"WAITING", "DEFERRED"}
                        /\ users'[j] = Use(event'[u].status)
      BY <1>4 DEF DispatchedUses
    <3>1. CASE u = t
      BY <2>3, <2>4, <3>1 DEF Use
    <3>2. CASE u # t
      BY <1>3, <1>4, <2>3, <2>4, <3>2 DEF UInv, DispatchedUses
    <3> QED
      BY <3>1, <3>2
  <2>7. HeldUses' /\ FinishedUses' /\ UnusedFirst'
    BY <1>3, <1>4, <2>3 DEF UInv, HeldUses, FinishedUses, UnusedFirst
  <2> QED
    BY <2>5, <2>6, <2>7 DEF UInv
<1> QED
  BY <1>5, <1>6

\* The actor that stores an event uses its buffer, once though it was deferred before.
LEMMA StoreUses ==
  ASSUME Buffered, \A a \in Actors : Policy[a] = "handle",
         TInv, OInv, UInv, NEW t \in Threads, Store(t)
  PROVE  UInv'
<1> DEFINE a == Head(todo[t])
           e == event[t]
           i == event[t].id
<1>1. todo[t] # <<>> /\ Dispatching(t)
  BY DEF Store, Dispatching, TInv, Working
<1>2. a \in Actors /\ ReadyStatus(a) = "HANDLED" /\ e \in Events
  BY <1>1, FirstWorker DEF ReadyStatus, TInv, TypeOK
<1>3. /\ i \in Ids /\ taken[i] = 0 /\ ~InQueue(i)
      /\ e.status \in {"WAITING", "DEFERRED"} /\ users[i] = Use(e.status)
      /\ \A u \in Threads : u # t /\ Dispatching(u) => event[u].id # i
      /\ fate[i] \notin {"unpublished", "finished"} /\ \A b \in Actors : slot[b] # i
  BY <1>1, OfferedUses
<1>4. UNCHANGED <<queue, fate>> /\ NextWorker(t)
      /\ event' = [event EXCEPT ![t] = Stamp(e, a, "HANDLED")]
      /\ users' = [users EXCEPT ![i] = @ + UsesOf(e, "HANDLED")]
      /\ slot' = [slot EXCEPT ![a] = i] /\ taken' = [taken EXCEPT ![i] = @ + 1]
  BY <1>2 DEF Store, mail
<1>5. \A u \in Threads : u # t => event'[u] = event[u] /\ (Dispatching(u)' => Dispatching(u))
  BY <1>4 DEF NextWorker, Goto, Dispatching, TInv, TypeOK
<1>6. Stamp(e, a, "HANDLED").id = i
  BY <1>2, StampType DEF Statuses
<1>7. event'[t].id = i
  BY <1>4, <1>6 DEF TInv, TypeOK
<1>8. users'[i] = 1 /\ \A j \in Ids : j # i => users'[j] = users[j]
  BY <1>3, <1>4, UsedOnce DEF TInv, TypeOK
<1>9. taken'[i] # 0 /\ \A j \in Ids : j # i => taken'[j] = taken[j]
  BY <1>3, <1>4 DEF TInv, TypeOK
<1>10. slot'[a] = i /\ \A b \in Actors : b # a => slot'[b] = slot[b]
  BY <1>2, <1>4 DEF TInv, TypeOK
<1> HIDE DEF i, e, a
<1>11. QueuedUses'
  BY <1>3, <1>4, <1>8 DEF UInv, QueuedUses, InQueue
<1>12. DispatchedUses'
  <2> SUFFICES ASSUME NEW j \in Ids, NEW u \in Threads, Dispatching(u)', event'[u].id = j, taken'[j] = 0
               PROVE  /\ event'[u].status \in {"WAITING", "DEFERRED"}
                      /\ users'[j] = Use(event'[u].status)
    BY DEF DispatchedUses
  <2>1. j # i /\ u # t
    BY <1>7, <1>9
  <2> QED
    BY <1>5, <1>8, <1>9, <2>1 DEF UInv, DispatchedUses
<1>13. HeldUses'
  <2> SUFFICES ASSUME NEW j \in Ids, NEW b \in Actors, slot'[b] = j
               PROVE  taken'[j] # 0 /\ users'[j] = 1 /\ \A c \in Actors : slot'[c] = j => c = b
    BY DEF HeldUses
  <2>1. CASE b = a
    BY <1>3, <1>8, <1>9, <1>10, <2>1
  <2>2. CASE b # a
    <3>1. slot[b] = j /\ j # i
      BY <1>3, <1>10, <2>2
    <3> QED
      BY <1>8, <1>9, <1>10, <3>1 DEF UInv, HeldUses
  <2> QED
    BY <2>1, <2>2
<1>14. FinishedUses' /\ UnusedFirst'
  BY <1>3, <1>4, <1>8, <1>9 DEF UInv, FinishedUses, UnusedFirst
<1> QED
  BY <1>11, <1>12, <1>13, <1>14 DEF UInv

\* An event that is put back into the queue was deferred, its buffer used.
LEMMA RequeueUses ==
  ASSUME TInv, OInv, UInv, NEW t \in Threads, Requeue(t)
  PROVE  UInv'
<1>1. Dispatching(t) /\ UNCHANGED <<taken, users, slot>> /\ pc' = [pc EXCEPT ![t] = "shift"]
  BY DEF Requeue, Goto, actors, Dispatching
<1>2. ~Dispatching(t)' /\ \A u \in Threads : u # t => Dispatching(u)' = Dispatching(u)
  BY <1>1 DEF Dispatching, TInv, TypeOK
<1>3. \A u \in Threads : u # t => event'[u] = event[u]
  BY DEF Requeue, RequeueUnheard, RequeueDeferred, RequeueOffloaded, RequeueTaken, EndAs, TInv, TypeOK
<1>4. \A i \in Ids : /\ fate'[i] = "unpublished" => fate[i] = "unpublished"
                     /\ fate'[i] = "finished" => fate[i] = "finished"
  BY DEF Requeue, RequeueUnheard, RequeueDeferred, RequeueOffloaded, RequeueTaken, EndAs, TInv, TypeOK
<1>5. QueuedUses'
  <2>1. CASE queue' = queue
    BY <1>1, <2>1 DEF UInv, QueuedUses
  <2>2. CASE RequeueDeferred(t) /\ queue' # queue
    <3> DEFINE e == [event[t] EXCEPT !.status = "DEFERRED"]
    <3>1. ~Full(t) /\ queue' = [queue EXCEPT ![t] = Append(@, e)]
          /\ event[t].status \in {"DEFERRED", "ADDRESSED"}
      BY <2>2 DEF RequeueDeferred
    <3>2. event[t] \in Events
      BY DEF TInv, TypeOK
    <3>3. e \in Events /\ e.id = event[t].id /\ e.status = "DEFERRED"
      BY <3>2 DEF Events, Statuses
    <3>4. e.id \in Ids
      BY <1>1, <3>1, <3>2, <3>3 DEF OInv, AlarmsPass, Events, Ids
    <3>5. taken[e.id] = 0
      BY <1>1, <3>1, <3>3, <3>4 DEF OInv, TakenOnce
    <3>6. users[e.id] = 1
      <4>1. event[t].status \in {"WAITING", "DEFERRED"} /\ users[e.id] = Use(event[t].status)
        BY <1>1, <3>3, <3>4, <3>5 DEF UInv, DispatchedUses
      <4> QED
        BY <3>1, <4>1 DEF Use
    <3> HIDE DEF e
    <3> SUFFICES ASSUME NEW i \in Ids, NEW u \in Threads, NEW k \in DOMAIN (queue'[u]),
                        queue'[u][k].id = i
                 PROVE  /\ queue'[u][k].status \in {"WAITING", "DEFERRED"}
                        /\ users'[i] = Use(queue'[u][k].status)
      BY DEF QueuedUses
    <3>7. queue'[u][k] = e \/ \E l \in DOMAIN queue[u] : queue'[u][k] = queue[u][l]
      BY <3>1, <3>3, AppendContents DEF TInv
    <3> QED
      BY <1>1, <3>3, <3>6, <3>7 DEF UInv, QueuedUses, Use
  <2>3. RequeueUnheard(t) \/ RequeueOffloaded(t) \/ RequeueTaken(t) => queue' = queue
    BY DEF RequeueUnheard, RequeueOffloaded, RequeueTaken
  <2> QED
    BY <2>1, <2>2, <2>3 DEF Requeue
<1>6. DispatchedUses'
  BY <1>1, <1>2, <1>3 DEF UInv, DispatchedUses
<1>7. HeldUses' /\ FinishedUses' /\ UnusedFirst'
  BY <1>1, <1>4 DEF UInv, HeldUses, FinishedUses, UnusedFirst
<1> QED
  BY <1>5, <1>6, <1>7 DEF UInv

\* An event taken from the queue is counted as it was there.
LEMMA TurnUses ==
  ASSUME TInv, OInv, UInv, NEW t \in Threads, queue[t] # <<>>, pc[t] \in {"shift", "await"},
         Begin(t, Head(queue[t])), queue' = [queue EXCEPT ![t] = Tail(@)],
         UNCHANGED <<fate, taken, users, slot>>
  PROVE  UInv'
<1> DEFINE h == Head(queue[t])
<1>1. pc' = [pc EXCEPT ![t] = "dispatch"] /\ event' = [event EXCEPT ![t] = h]
  BY TailType, BeginType DEF TInv
<1>2. h = queue[t][1] /\ 1 \in DOMAIN queue[t]
  <2>1. /\ Len(queue[t]) \in Nat \ {0} /\ h = queue[t][1]
        /\ DOMAIN (queue[t]) = 1..Len(queue[t])
    BY TailType DEF TInv
  <2> QED
    BY <2>1
<1>3. \A i \in Ids : h.id = i => h.status \in {"WAITING", "DEFERRED"} /\ users[i] = Use(h.status)
  BY <1>2 DEF UInv, QueuedUses
<1> HIDE DEF h
<1>4. /\ event'[t] = h
      /\ \A u \in Threads : u # t => Dispatching(u)' = Dispatching(u) /\ event'[u] = event[u]
  BY <1>1 DEF Dispatching, TInv, TypeOK
<1>5. QueuedUses'
  <2> SUFFICES ASSUME NEW i \in Ids, NEW u \in Threads, NEW k \in DOMAIN (queue'[u]),
                      queue'[u][k].id = i
               PROVE  /\ queue'[u][k].status \in {"WAITING", "DEFERRED"}
                      /\ users'[i] = Use(queue'[u][k].status)
    BY DEF QueuedUses
  <2>1. \E l \in DOMAIN queue[u] : queue'[u][k] = queue[u][l]
    BY TailContents DEF TInv
  <2> QED
    BY <2>1 DEF UInv, QueuedUses
<1>6. DispatchedUses'
  <2> SUFFICES ASSUME NEW i \in Ids, NEW u \in Threads, Dispatching(u)', event'[u].id = i, taken[i] = 0
               PROVE  /\ event'[u].status \in {"WAITING", "DEFERRED"}
                      /\ users[i] = Use(event'[u].status)
    BY DEF DispatchedUses
  <2>1. CASE u = t
    BY <1>3, <1>4, <2>1
  <2>2. CASE u # t
    BY <1>4, <2>2 DEF UInv, DispatchedUses
  <2> QED
    BY <2>1, <2>2
<1>7. HeldUses' /\ FinishedUses' /\ UnusedFirst'
  BY DEF UInv, HeldUses, FinishedUses, UnusedFirst
<1> QED
  BY <1>5, <1>6, <1>7 DEF UInv

\* A thread that wakes up dispatches an alarm, which has no buffer, or the next event.
LEMMA WakeUses ==
  ASSUME TInv, OInv, UInv, NEW t \in Threads, Shift(t) \/ Sleep(t) \/ Wake(t)
  PROVE  UInv'
<1>1. ASSUME Shift(t) \/ WakeByEvent(t), queue[t] # <<>> PROVE UInv'
  <2>1. /\ Begin(t, Head(queue[t])) /\ queue' = [queue EXCEPT ![t] = Tail(@)]
        /\ pc[t] \in {"shift", "await"} /\ UNCHANGED <<fate, taken, users, slot>>
    BY <1>1 DEF Shift, WakeByEvent, actors
  <2> QED
    BY <1>1, <2>1, TurnUses
<1>2. CASE WakeByEvent(t) /\ queue[t] = <<>>
  BY <1>2, QuietUses DEF WakeByEvent, loop, actors, Dispatching
<1>3. CASE WakeByReschedule(t)
  BY <1>3, QuietUses DEF WakeByReschedule, loop, actors, Dispatching
<1>4. CASE Sleep(t)
  <2>1. \A u \in Threads : Dispatching(u)' => Dispatching(u)
    BY <1>4 DEF Sleep, Goto, Dispatching, TInv, TypeOK
  <2> QED
    BY <1>4, <2>1, QuietUses DEF Sleep, mail, actors
<1>6. CASE WakeByAlarm(t)
  <2>1. /\ pc[t] = "await" /\ Begin(t, NoEvent) /\ UNCHANGED <<queue, fate, taken, users, slot>>
    BY <1>6 DEF WakeByAlarm, mail, actors
  <2>2. NoEvent.id = 0 /\ 0 \notin Ids
    BY DEF NoEvent, Ids
  <2>3. /\ event'[t] = NoEvent
        /\ \A u \in Threads : u # t => Dispatching(u)' = Dispatching(u) /\ event'[u] = event[u]
    BY <2>1 DEF Begin, Dispatching, TInv, TypeOK
  <2>4. DispatchedUses'
    BY <2>1, <2>2, <2>3 DEF UInv, DispatchedUses
  <2> QED
    BY <2>1, <2>4 DEF UInv, QueuedUses, HeldUses, FinishedUses, UnusedFirst
<1>7. Shift(t) => queue[t] # <<>>
  BY DEF Shift, NothingToShift
<1> QED
  BY <1>1, <1>2, <1>3, <1>4, <1>6, <1>7 DEF Wake

\* The actor that is done with an event was the last to use its buffer.
LEMMA FinishUses ==
  ASSUME Buffered, TInv, OInv, UInv, NEW a \in Actors, Finish(a)
  PROVE  UInv'
<1> DEFINE i == slot[a]
<1>1. i \in Ids
  BY DEF Finish, TInv, TypeOK, Ids
<1>2. /\ UNCHANGED <<pc, event, queue, taken>>
      /\ slot' = [slot EXCEPT ![a] = 0] /\ fate' = [fate EXCEPT ![i] = "finished"]
      /\ users' = [users EXCEPT ![i] = @ - 1]
  BY DEF Finish, loop, mail
<1>3. taken[i] # 0 /\ users[i] = 1 /\ \A b \in Actors : slot[b] = i => b = a
  BY <1>1 DEF UInv, HeldUses
<1>4. ~InQueue(i)
  BY <1>1, <1>3 DEF OInv, TakenOnce
<1>5. users'[i] = 0 /\ \A j \in Ids : j # i => users'[j] = users[j]
  BY <1>1, <1>2, <1>3 DEF TInv, TypeOK
<1>6. fate'[i] = "finished" /\ \A j \in Ids : j # i => fate'[j] = fate[j]
  BY <1>1, <1>2 DEF TInv, TypeOK
<1>7. slot'[a] = 0 /\ \A b \in Actors : b # a => slot'[b] = slot[b]
  BY <1>2 DEF TInv, TypeOK
<1>8. 0 \notin Ids
  BY DEF Ids
<1> HIDE DEF i
<1>9. QueuedUses'
  BY <1>2, <1>4, <1>5 DEF UInv, QueuedUses, InQueue
<1>10. DispatchedUses'
  BY <1>2, <1>3, <1>5 DEF UInv, DispatchedUses, Dispatching
<1>11. HeldUses'
  BY <1>2, <1>3, <1>5, <1>7, <1>8 DEF UInv, HeldUses
<1>12. FinishedUses' /\ UnusedFirst'
  BY <1>2, <1>3, <1>5, <1>6 DEF UInv, FinishedUses, UnusedFirst
<1> QED
  BY <1>9, <1>10, <1>11, <1>12 DEF UInv

\* Every step keeps the counts of buffers.
LEMMA StepUses ==
  ASSUME Buffered, \A a \in Actors : Policy[a] = "handle",
         TInv, OInv, UInv, [Next]_vars
  PROVE  UInv'
<1>1. ASSUME NEW t \in Threads, NEW target \in Targets, Publish(t, target) PROVE UInv'
  BY <1>1, PublishUses
<1>2. ASSUME NEW t \in Threads, Announce(t) \/ Reschedule(t) PROVE UInv'
  BY <1>2, QuietUses DEF Announce, Reschedule, loop, actors, Dispatching
<1>3. ASSUME NEW t \in Threads, MarkBusy(t) PROVE UInv'
  <2>1. \A u \in Threads : Dispatching(u)' => Dispatching(u)
    BY <1>3 DEF MarkBusy, NextWorker, Goto, Dispatching, TInv, TypeOK
  <2> QED
    BY <1>3, <2>1, QuietUses DEF MarkBusy, mail
<1>4. ASSUME NEW t \in Threads, Loop(t) PROVE UInv'
  BY <1>3, <1>4, OfferUses, StoreUses, RequeueUses, WakeUses DEF Loop, Dispatch
<1>5. ASSUME NEW a \in Actors, Finish(a) PROVE UInv'
  BY <1>5, FinishUses
<1>6. CASE UNCHANGED vars
  BY <1>6, QuietUses DEF vars, loop, mail, actors, Dispatching
<1> QED
  BY <1>1, <1>2, <1>4, <1>5, <1>6 DEF Next

\* README.md:62-63: the buffer of a finished event has no users left, however often the
\* event was deferred, if every actor handles what it takes.
THEOREM BuffersReleased ==
  ASSUME Buffered, \A a \in Actors : Policy[a] = "handle"
  PROVE  Spec => []BufferReleased
<1> DEFINE Inv == TInv /\ OInv /\ UInv
<1>1. Init => Inv
  BY InitiallyTyped, InitiallyOnce, InitiallyUnused
<1>2. Inv /\ [Next]_vars => Inv'
  BY StepTyped, StepOnce, StepUses
<1>3. Inv => BufferReleased
  BY DEF UInv, FinishedUses, BufferReleased
<1> QED
  BY <1>1, <1>2, <1>3, PTL DEF Spec
=============================================================================

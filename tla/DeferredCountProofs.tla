------------------------- MODULE DeferredCountProofs --------------------------
(***************************************************************************)
(* Proofs about the count of deferred events that each thread keeps: it is *)
(* exact as long as no event is dropped at a full queue, whose place in the *)
(* count is never given back (thread.c:176-190).                           *)
(***************************************************************************)
EXTENDS EventPlaceProofs, FiniteSetTheorems, FunctionTheorems

Deferreds(s) == {k \in DOMAIN s : s[k].status = "DEFERRED"}

\* An event that was deferred before stays on the count until the loop is through with it.
Owed(t) == IF Dispatching(t) THEN Use(previous[t]) ELSE 0

Counted == \A t \in Threads : deferred[t] = Cardinality(Deferreds(queue[t])) + Owed(t)

\* No status becomes WAITING again while an event is dispatched.
NeverFresh == \A t \in Threads : Dispatching(t) /\ event[t].status = "WAITING" => previous[t] # "DEFERRED"

\* An event that was dropped is nowhere.
Gone == \A i \in Ids : fate[i] = "dropped" => ~InQueue(i) /\ ~InDispatch(i) /\ taken[i] = 0

NoneDropped == \A i \in Ids : fate[i] # "dropped"

\* A thread without a queue to catch up with keeps nothing that was deferred.
KeepsNone ==
  \A t \in Threads : CatchupOf(t) = None =>
    /\ Dispatching(t) => previous[t] # "DEFERRED"
    /\ \A k \in DOMAIN queue[t] : queue[t][k].status # "DEFERRED"

CInv == NeverFresh /\ KeepsNone /\ Gone /\ (NoneDropped => Counted)

-----------------------------------------------------------------------------
\* A deferred event that joins a queue makes one more.
LEMMA CountAppended ==
  ASSUME NEW s \in Seq(Events), NEW e \in Events
  PROVE  /\ Cardinality(Deferreds(Append(s, e))) = Cardinality(Deferreds(s)) + Use(e.status)
         /\ Cardinality(Deferreds(s)) \in Nat
<1> DEFINE n == Len(s)
           a == Append(s, e)
<1>1. n \in Nat /\ DOMAIN s = 1..n
  BY LenProperties
<1>2. DOMAIN a = 1..n + 1 /\ a[n + 1] = e /\ \A k \in 1..n : a[k] = s[k]
  BY AppendProperties, LenProperties
<1> HIDE DEF n, a
<1>3. IsFiniteSet(Deferreds(s)) /\ n + 1 \notin Deferreds(s)
  <2>1. IsFiniteSet(1..n)
    BY <1>1, FS_Interval
  <2>2. Deferreds(s) \in SUBSET (1..n)
    BY <1>1 DEF Deferreds
  <2> QED
    BY <1>1, <2>1, <2>2, FS_Subset
<1>4. Cardinality(Deferreds(s)) \in Nat
  BY <1>3, FS_CardinalityType
<1>5. CASE e.status = "DEFERRED"
  <2>1. Deferreds(a) = Deferreds(s) \cup {n + 1}
    BY <1>1, <1>2, <1>5 DEF Deferreds
  <2>2. Cardinality(Deferreds(s) \cup {n + 1}) = Cardinality(Deferreds(s)) + 1
    BY <1>3, FS_AddElement
  <2> QED
    BY <1>4, <1>5, <2>1, <2>2 DEF Use, a
<1>6. CASE e.status # "DEFERRED"
  <2>1. Deferreds(a) = Deferreds(s)
    BY <1>1, <1>2, <1>6 DEF Deferreds
  <2> QED
    BY <1>4, <1>6, <2>1 DEF Use, a
<1> QED
  BY <1>5, <1>6

\* One that leaves a queue makes one less.
LEMMA CountTaken ==
  ASSUME NEW s \in Seq(Events), s # <<>>
  PROVE  /\ Cardinality(Deferreds(s)) = Cardinality(Deferreds(Tail(s))) + Use(Head(s).status)
         /\ Cardinality(Deferreds(Tail(s))) \in Nat
<1> DEFINE n == Len(s)
           b == Tail(s)
           Rest == Deferreds(s) \ {1}
           f == [k \in Deferreds(b) |-> k + 1]
<1>1. n \in Nat \ {0} /\ DOMAIN s = 1..n /\ Head(s) = s[1]
  BY LenProperties, EmptySeq
<1>2. DOMAIN b = 1..n - 1 /\ \A k \in 1..n - 1 : b[k] = s[k + 1]
  <2>1. b \in Seq(Events) /\ Len(b) = n - 1 /\ \A k \in 1..Len(b) : b[k] = s[k + 1]
    BY HeadTailProperties
  <2> QED
    BY <2>1, LenProperties
<1> HIDE DEF n, b
<1>3. IsFiniteSet(Deferreds(s)) /\ IsFiniteSet(Deferreds(b))
  <2>1. IsFiniteSet(1..n) /\ IsFiniteSet(1..n - 1)
    BY <1>1, FS_Interval
  <2>2. Deferreds(s) \in SUBSET (1..n) /\ Deferreds(b) \in SUBSET (1..n - 1)
    BY <1>1, <1>2 DEF Deferreds
  <2> QED
    BY <2>1, <2>2, FS_Subset
<1>4. Cardinality(Deferreds(s)) \in Nat /\ Cardinality(Deferreds(b)) \in Nat
  BY <1>3, FS_CardinalityType
<1>5. f \in Bijection(Deferreds(b), Rest)
  <2>1. \A k \in Deferreds(b) : k \in 1..n - 1 /\ k + 1 \in Rest
    BY <1>1, <1>2 DEF Deferreds
  <2>2. f \in [Deferreds(b) -> Rest]
    BY <2>1
  <2>3. \A k, l \in Deferreds(b) : f[k] = f[l] => k = l
    BY <2>1
  <2>4. ASSUME NEW m \in Rest PROVE \E k \in Deferreds(b) : f[k] = m
    <3>1. m \in 2..n /\ s[m].status = "DEFERRED"
      BY <1>1 DEF Deferreds
    <3>2. m - 1 \in 1..n - 1 /\ (m - 1) + 1 = m
      BY <1>1, <3>1
    <3>3. m - 1 \in Deferreds(b)
      BY <1>2, <3>1, <3>2 DEF Deferreds
    <3> QED
      BY <3>2, <3>3
  <2> HIDE DEF f, Rest
  <2> QED
    BY <2>2, <2>3, <2>4, Fun_IsBij
<1>6. Cardinality(Rest) = Cardinality(Deferreds(b))
  <2> HIDE DEF f
  <2>1. ExistsBijection(Deferreds(b), Rest)
    BY <1>5 DEF ExistsBijection
  <2> HIDE DEF Rest
  <2> QED
    BY <1>3, <2>1, FS_Bijection
<1>7. Cardinality(Rest) = IF 1 \in Deferreds(s) THEN Cardinality(Deferreds(s)) - 1
                                                ELSE Cardinality(Deferreds(s))
  BY <1>3, FS_RemoveElement
<1>8. 1 \in Deferreds(s) <=> Head(s).status = "DEFERRED"
  BY <1>1 DEF Deferreds
<1> QED
  BY <1>4, <1>6, <1>7, <1>8 DEF Use, b

-----------------------------------------------------------------------------
\* Queues are empty at first and nothing is counted.
LEMMA InitiallyCounted == Init => CInv
<1> SUFFICES ASSUME Init PROVE CInv
  OBVIOUS
<1>1. \A t \in Threads : queue[t] = <<>> /\ deferred[t] = 0 /\ previous[t] = "WAITING"
  BY DEF Init
<1>2. Deferreds(<<>>) = {}
  BY DEF Deferreds
<1>3. \A t \in Threads : Cardinality(Deferreds(queue[t])) = 0 /\ Owed(t) = 0
  BY <1>1, <1>2, FS_EmptySet DEF Owed, Use
<1>4. Counted /\ NeverFresh /\ KeepsNone
  BY <1>1, <1>3 DEF Counted, NeverFresh, KeepsNone
<1>5. Gone
  BY DEF Init, Gone
<1> QED
  BY <1>4, <1>5 DEF CInv

\* Steps that neither begin nor end the dispatch of an event.
LEMMA QuietCounted ==
  ASSUME TInv, CInv, UNCHANGED <<queue, previous, deferred, fate, taken>>,
         \A t \in Threads : /\ Dispatching(t)' = Dispatching(t)
                            /\ event'[t].id = event[t].id
                            /\ event'[t].status = "WAITING" => event[t].status = "WAITING"
  PROVE  CInv'
<1>1. \A i \in Ids : (InQueue(i)' <=> InQueue(i)) /\ (InDispatch(i)' <=> InDispatch(i))
  BY DEF InQueue, InDispatch, Dispatching
<1>2. NeverFresh' /\ KeepsNone' /\ Gone'
  BY <1>1 DEF CInv, NeverFresh, KeepsNone, CatchupOf, Gone
<1>3. Counted => Counted'
  BY DEF Counted, Owed
<1>4. NoneDropped' => NoneDropped
  BY DEF NoneDropped
<1> QED
  BY <1>2, <1>3, <1>4 DEF CInv

\* A published event is not deferred.
LEMMA PublishCounted ==
  ASSUME TInv, OInv, CInv, NEW t \in Threads, NEW target \in Targets, Publish(t, target)
  PROVE  CInv'
<1>1. PICK id \in {i \in Ids : fate[i] = "unpublished"} :
        IF Full(t)
        THEN /\ fate' = [fate EXCEPT ![id] = "rejected"]
             /\ UNCHANGED <<queue, announcing>>
        ELSE /\ fate' = [fate EXCEPT ![id] = "pending"]
             /\ queue' = [queue EXCEPT ![t] =
                   Append(@, [id |-> id, status |-> "WAITING", consumer |-> target])]
             /\ announcing' = [announcing EXCEPT ![t] = @ + 1]
  BY DEF Publish
<1> DEFINE e == [id |-> id, status |-> "WAITING", consumer |-> target]
<1>2. e \in Events /\ e.id = id /\ e.status = "WAITING"
  BY ThreadAssumption DEF Events, Statuses, Ids
<1>3. UNCHANGED <<pc, event, previous, deferred, taken>>
  BY DEF Publish, loop, actors
<1>4. \A i \in Ids : fate'[i] = "dropped" <=> fate[i] = "dropped"
  BY <1>1 DEF TInv, TypeOK
<1>5. fate[id] # "dropped"
  BY <1>1
<1>6. CASE Full(t)
  <2>1. queue' = queue
    BY <1>1, <1>6
  <2>2. \A i \in Ids : (InQueue(i)' <=> InQueue(i)) /\ (InDispatch(i)' <=> InDispatch(i))
    BY <1>3, <2>1 DEF InQueue, InDispatch
  <2> QED
    BY <1>3, <1>4, <2>1, <2>2 DEF CInv, NeverFresh, KeepsNone, CatchupOf, Gone, NoneDropped, Counted,
                                  Owed, Dispatching
<1>7. CASE ~Full(t)
  <2>1. queue' = [queue EXCEPT ![t] = Append(@, e)]
    BY <1>1, <1>7
  <2> HIDE DEF e
  <2>2. \A i \in Ids : InQueue(i)' => InQueue(i) \/ i = id
    BY <1>2, <1>7, <2>1, AppendContents DEF TInv, InQueue
  <2>3. \A i \in Ids : InDispatch(i)' <=> InDispatch(i)
    BY <1>3 DEF InDispatch
  <2>4. NeverFresh' /\ Gone'
    BY <1>3, <1>4, <1>5, <2>2, <2>3 DEF CInv, NeverFresh, Gone, Dispatching
  <2>9. KeepsNone'
    <3> SUFFICES ASSUME NEW u \in Threads, CatchupOf(u) = None
                 PROVE  /\ Dispatching(u)' => previous'[u] # "DEFERRED"
                        /\ \A k \in DOMAIN (queue'[u]) : queue'[u][k].status # "DEFERRED"
      BY DEF KeepsNone, CatchupOf
    <3>1. \A k \in DOMAIN (queue'[u]) :
            queue'[u][k] = e \/ \E l \in DOMAIN queue[u] : queue'[u][k] = queue[u][l]
      BY <1>2, <1>7, <2>1, AppendContents DEF TInv
    <3> QED
      BY <1>2, <1>3, <3>1 DEF CInv, KeepsNone, Dispatching
  <2>5. Cardinality(Deferreds(queue'[t])) = Cardinality(Deferreds(queue[t]))
    <3>1. queue'[t] = Append(queue[t], e) /\ queue[t] \in Seq(Events) /\ Use(e.status) = 0
      BY <1>2, <2>1 DEF TInv, TypeOK, Use
    <3> QED
      BY <1>2, <3>1, CountAppended
  <2>6. \A u \in Threads : u # t => queue'[u] = queue[u]
    BY <2>1 DEF TInv, TypeOK
  <2>7. Counted => Counted'
    <3> SUFFICES ASSUME Counted, NEW u \in Threads
                 PROVE  deferred'[u] = Cardinality(Deferreds(queue'[u])) + Owed(u)'
      BY DEF Counted
    <3>1. Owed(u)' = Owed(u) /\ Cardinality(Deferreds(queue'[u])) = Cardinality(Deferreds(queue[u]))
      BY <1>3, <2>5, <2>6 DEF Owed, Dispatching
    <3> QED
      BY <1>3, <3>1 DEF Counted
  <2>8. NoneDropped' => NoneDropped
    BY <1>4 DEF NoneDropped
  <2> QED
    BY <2>4, <2>7, <2>8, <2>9 DEF CInv
<1> QED
  BY <1>6, <1>7

\* Offering, storing and deferring leave the queues and the count alone.
LEMMA OfferCounted ==
  ASSUME Buffered, \A a \in Actors : Policy[a] = "handle",
         TInv, OInv, UInv, CInv, NEW t \in Threads, Offer(t) \/ Store(t) \/ MarkBusy(t)
  PROVE  CInv'
<1> DEFINE a == Head(todo[t])
           e == event[t]
<1>1. /\ todo[t] # <<>> /\ Dispatching(t) /\ a \in Actors /\ e \in Events
      /\ UNCHANGED <<queue, previous, deferred, fate>>
  BY FirstWorker DEF Offer, Store, MarkBusy, TInv, Working, TypeOK, Dispatching, mail
<1>2. ReadyStatus(a) = "HANDLED" /\ BusyStatus(a) = "DEFERRED"
  BY <1>1 DEF ReadyStatus, BusyStatus
<1>3. /\ e.id \in Ids /\ fate[e.id] # "dropped"
      /\ \A u \in Threads : u # t => (Dispatching(u)' <=> Dispatching(u))
      /\ Dispatching(t)'
  <2>1. e.id \in Ids
    BY <1>1, OfferedUses
  <2>2. fate[e.id] # "dropped"
    BY <1>1, <2>1 DEF CInv, Gone, InDispatch, Dispatching
  <2> QED
    BY <2>1, <2>2 DEF Offer, Store, MarkBusy, NextWorker, Goto, Dispatching, TInv, TypeOK
<1>4. /\ \A u \in Threads : u # t => event'[u] = event[u]
      /\ event'[t].id = e.id /\ (event'[t].status = "WAITING" => e.status = "WAITING")
  <2>1. \/ event' = event
        \/ \E s \in {"HANDLED", "DEFERRED"} : event' = [event EXCEPT ![t] = Stamp(e, a, s)]
    <3>1. CASE Offer(t) /\ slot[a] = 0
      BY <3>1 DEF Offer
    <3>2. CASE Offer(t) /\ slot[a] # 0
      BY <1>2, <3>2 DEF Offer
    <3>3. CASE Store(t)
      BY <1>2, <3>3 DEF Store
    <3>4. CASE MarkBusy(t)
      BY <3>4 DEF MarkBusy
    <3> QED
      BY <3>1, <3>2, <3>3, <3>4
  <2>2. ASSUME NEW s \in {"HANDLED", "DEFERRED"}
        PROVE  Stamp(e, a, s).id = e.id /\ Stamp(e, a, s).status = s
    <3>1. s \in Statuses
      BY DEF Statuses
    <3> QED
      BY <1>1, <3>1, StampType
  <2> QED
    BY <2>1, <2>2 DEF TInv, TypeOK
<1>5. \A i \in Ids : i # e.id => taken'[i] = taken[i]
  BY DEF Offer, Store, MarkBusy, TInv, TypeOK
<1> HIDE DEF e, a
<1>6. \A i \in Ids : (InQueue(i)' <=> InQueue(i)) /\ (InDispatch(i)' => InDispatch(i) \/ i = e.id)
  BY <1>1, <1>3, <1>4 DEF InQueue, InDispatch, Dispatching
<1>7. Gone'
  BY <1>1, <1>3, <1>5, <1>6 DEF CInv, Gone
<1>8. NeverFresh' /\ KeepsNone'
  <2>1. NeverFresh'
    BY <1>1, <1>3, <1>4 DEF CInv, NeverFresh, e
  <2>2. KeepsNone'
    BY <1>1, <1>3 DEF CInv, KeepsNone, CatchupOf
  <2> QED
    BY <2>1, <2>2
<1>9. Counted => Counted'
  <2> SUFFICES ASSUME Counted, NEW u \in Threads
               PROVE  deferred'[u] = Cardinality(Deferreds(queue'[u])) + Owed(u)'
    BY DEF Counted
  <2>1. Owed(u)' = Owed(u)
    BY <1>1, <1>3 DEF Owed
  <2> QED
    BY <1>1, <2>1 DEF Counted
<1>10. NoneDropped' => NoneDropped
  BY <1>1 DEF NoneDropped
<1> QED
  BY <1>7, <1>8, <1>9, <1>10 DEF CInv

\* The end of a dispatch: a deferred event is counted once, a handled one no more.
LEMMA RequeueCounted ==
  ASSUME TInv, OInv, UInv, CInv, NEW t \in Threads, Requeue(t)
  PROVE  CInv'
<1> DEFINE e == event[t]
<1>1. /\ Dispatching(t) /\ UNCHANGED <<previous, taken>> /\ pc' = [pc EXCEPT ![t] = "shift"]
      /\ e \in Events
  BY DEF Requeue, Goto, actors, Dispatching, TInv, TypeOK
<1>2. ~Dispatching(t)' /\ \A u \in Threads : u # t => Dispatching(u)' = Dispatching(u)
  BY <1>1 DEF Dispatching, TInv, TypeOK
<1>3. \A u \in Threads : u # t => event'[u] = event[u] /\ queue'[u] = queue[u] /\ deferred'[u] = deferred[u]
  BY DEF Requeue, RequeueUnheard, RequeueDeferred, RequeueOffloaded, RequeueTaken, TInv, TypeOK
<1>4. NeverFresh'
  BY <1>1, <1>2, <1>3 DEF CInv, NeverFresh
<1>5. e.id \in Ids => fate[e.id] # "dropped"
  BY <1>1 DEF CInv, Gone, InDispatch, Dispatching
<1>6. \A i \in Ids : InDispatch(i)' => InDispatch(i) /\ i # e.id
  <2> SUFFICES ASSUME NEW i \in Ids, NEW u \in Threads, Dispatching(u)', event'[u].id = i
               PROVE  InDispatch(i) /\ i # e.id
    BY DEF InDispatch, Dispatching
  <2>1. u # t /\ Dispatching(u) /\ event[u].id = i
    BY <1>2, <1>3
  <2> QED
    BY <1>1, <2>1 DEF OInv, DispatchedOnce, InDispatch, Dispatching
<1>7. Owed(t) = Use(previous[t]) /\ Owed(t)' = 0 /\ \A u \in Threads : u # t => Owed(u)' = Owed(u)
  BY <1>1, <1>2 DEF Owed
<1>8. queue[t] \in Seq(Events) /\ deferred[t] \in Int /\ deferred \in [Threads -> Int]
  BY DEF TInv, TypeOK
<1>9. ASSUME NoneDropped => (Counted => deferred'[t] = Cardinality(Deferreds(queue'[t]))),
             NoneDropped' => NoneDropped
      PROVE  NoneDropped' => Counted'
  <2> SUFFICES ASSUME NoneDropped, Counted, NEW u \in Threads
               PROVE  deferred'[u] = Cardinality(Deferreds(queue'[u])) + Owed(u)'
    BY <1>9 DEF Counted, CInv
  <2>1. CASE u = t
    <3>1. deferred'[t] = Cardinality(Deferreds(queue'[t])) /\ deferred'[t] \in Int
      BY <1>8, <1>9 DEF Requeue, RequeueUnheard, RequeueDeferred, RequeueOffloaded, RequeueTaken
    <3> QED
      BY <1>7, <2>1, <3>1
  <2>2. CASE u # t
    BY <1>3, <1>7, <2>2 DEF Counted
  <2> QED
    BY <2>1, <2>2
<1>13. queue' = queue => KeepsNone'
  BY <1>1, <1>2 DEF CInv, KeepsNone, CatchupOf
<1>10. CASE RequeueUnheard(t)
  <2>1. /\ UNCHANGED <<deferred, queue>> /\ e.status = "WAITING"
        /\ fate' = [i \in Ids |-> IF i = e.id THEN "unheard" ELSE fate[i]]
    BY <1>10 DEF RequeueUnheard, EndAs
  <2>2. Use(previous[t]) = 0
    BY <1>1, <2>1 DEF CInv, NeverFresh, Use
  <2>3. Counted => deferred'[t] = Cardinality(Deferreds(queue'[t]))
    <3>1. Cardinality(Deferreds(queue[t])) \in Nat
      BY <1>1, <1>8, CountAppended
    <3> QED
      BY <1>7, <2>1, <2>2, <3>1 DEF Counted
  <2>4. (NoneDropped' => NoneDropped) /\ Gone'
    <3>1. \A i \in Ids : fate'[i] = "dropped" <=> fate[i] = "dropped"
      BY <1>5, <2>1
    <3>2. \A i \in Ids : InQueue(i)' <=> InQueue(i)
      BY <2>1 DEF InQueue
    <3> QED
      BY <1>1, <1>6, <3>1, <3>2 DEF NoneDropped, CInv, Gone
  <2>5. KeepsNone'
    BY <1>13, <2>1
  <2> QED
    BY <1>4, <1>9, <2>3, <2>4, <2>5 DEF CInv
<1>11. CASE RequeueTaken(t)
  <2>2. e.status = "HANDLED"
    <3>1. e.id \in Ids
      BY <1>1, <1>11 DEF RequeueTaken, OInv, AlarmsPass, Events, Ids
    <3> QED
      BY <1>1, <1>11, <3>1 DEF RequeueTaken, UInv, DispatchedUses, OInv, TakenOnce
  <2>1. /\ UNCHANGED <<queue, fate>>
        /\ deferred' = [deferred EXCEPT ![t] =
              IF e.status = "HANDLED" /\ previous[t] = "DEFERRED" THEN @ - 1 ELSE @]
    BY <1>11, <2>2 DEF RequeueTaken, Ignored
  <2>3. Counted => deferred'[t] = Cardinality(Deferreds(queue'[t]))
    <3>1. Cardinality(Deferreds(queue[t])) \in Nat
      BY <1>1, <1>8, CountAppended
    <3>2. deferred'[t] = deferred[t] - Use(previous[t])
      BY <1>8, <2>1, <2>2 DEF Use
    <3>3. Use(previous[t]) \in Nat
      BY DEF Use
    <3> QED
      BY <1>7, <2>1, <3>1, <3>2, <3>3 DEF Counted
  <2>4. (NoneDropped' => NoneDropped) /\ Gone'
    BY <1>1, <1>6, <2>1 DEF NoneDropped, CInv, Gone, InQueue
  <2> QED
    BY <1>4, <1>9, <1>13, <2>1, <2>3, <2>4 DEF CInv
<1>14. CASE RequeueOffloaded(t)
  <2>1. /\ UNCHANGED <<queue, deferred>> /\ CatchupOf(t) = None
        /\ fate' = [i \in Ids |-> IF i = e.id THEN "lost" ELSE fate[i]]
    BY <1>14 DEF RequeueOffloaded, EndAs
  <2>2. Use(previous[t]) = 0
    BY <1>1, <2>1 DEF CInv, KeepsNone, Use
  <2>3. Counted => deferred'[t] = Cardinality(Deferreds(queue'[t]))
    <3>1. Cardinality(Deferreds(queue[t])) \in Nat
      BY <1>1, <1>8, CountAppended
    <3> QED
      BY <1>7, <2>1, <2>2, <3>1 DEF Counted
  <2>4. (NoneDropped' => NoneDropped) /\ Gone'
    <3>1. \A i \in Ids : fate'[i] = "dropped" <=> fate[i] = "dropped"
      BY <1>5, <2>1
    <3>2. \A i \in Ids : InQueue(i)' <=> InQueue(i)
      BY <2>1 DEF InQueue
    <3> QED
      BY <1>1, <1>6, <3>1, <3>2 DEF NoneDropped, CInv, Gone
  <2> QED
    BY <1>4, <1>9, <1>13, <2>1, <2>3, <2>4 DEF CInv
<1>12. CASE RequeueDeferred(t)
  <2> DEFINE d == [e EXCEPT !.status = "DEFERRED"]
  <2>1. /\ e.status \in {"DEFERRED", "ADDRESSED"} /\ CatchupOf(t) # None
        /\ IF Full(t)
           THEN /\ fate' = [i \in Ids |-> IF i = e.id THEN "dropped" ELSE fate[i]]
                /\ UNCHANGED <<deferred, queue>>
           ELSE /\ queue' = [queue EXCEPT ![t] = Append(@, d)]
                /\ deferred' = [deferred EXCEPT ![t] = IF previous[t] # "DEFERRED" THEN @ + 1 ELSE @]
                /\ UNCHANGED fate
    <3>1. d.id = e.id
      BY <1>1 DEF Events
    <3> QED
      BY <1>12, <3>1, ThreadAssumption DEF RequeueDeferred, EndAs
  <2>2. d \in Events /\ d.id = e.id /\ d.status = "DEFERRED"
    BY <1>1 DEF Events, Statuses
  <2>3. e.id \in Ids
    BY <1>1, <2>1 DEF OInv, AlarmsPass, Events, Ids
  <2> HIDE DEF d
  <2>4. ~InQueue(e.id) /\ taken[e.id] = 0
    BY <1>1, <2>1, <2>3 DEF OInv, DispatchedOnce, TakenOnce
  <2>5. CASE Full(t)
    <3>1. fate' = [i \in Ids |-> IF i = e.id THEN "dropped" ELSE fate[i]] /\ queue' = queue
      BY <2>1, <2>5
    <3>2. ~NoneDropped'
      BY <2>3, <3>1 DEF NoneDropped, TInv, TypeOK
    <3>3. \A i \in Ids : (InQueue(i)' <=> InQueue(i)) /\ (i # e.id => fate'[i] = fate[i])
      BY <3>1 DEF InQueue, TInv, TypeOK
    <3>4. Gone'
      BY <1>1, <1>6, <2>4, <3>3 DEF CInv, Gone
    <3> QED
      BY <1>4, <1>13, <3>1, <3>2, <3>4 DEF CInv
  <2>6. CASE ~Full(t)
    <3>1. /\ queue' = [queue EXCEPT ![t] = Append(@, d)] /\ fate' = fate
          /\ deferred' = [deferred EXCEPT ![t] = IF previous[t] # "DEFERRED" THEN @ + 1 ELSE @]
      BY <2>1, <2>6
    <3>2. \A i \in Ids : InQueue(i)' => InQueue(i) \/ i = e.id
      BY <2>2, <2>6, <3>1, AppendContents DEF TInv, InQueue
    <3>3. Gone' /\ (NoneDropped' => NoneDropped)
      BY <1>1, <1>5, <1>6, <3>1, <3>2 DEF CInv, Gone, NoneDropped
    <3>4. Counted => deferred'[t] = Cardinality(Deferreds(queue'[t]))
      <4>1. queue'[t] = Append(queue[t], d) /\ Use(d.status) = 1
        BY <1>8, <2>2, <3>1 DEF Use, TInv, TypeOK
      <4>2. /\ Cardinality(Deferreds(queue'[t])) = Cardinality(Deferreds(queue[t])) + 1
            /\ Cardinality(Deferreds(queue[t])) \in Nat
        BY <1>8, <2>2, <4>1, CountAppended
      <4>3. deferred'[t] = IF previous[t] # "DEFERRED" THEN deferred[t] + 1 ELSE deferred[t]
        BY <1>8, <3>1
      <4> QED
        BY <1>7, <4>2, <4>3 DEF Counted, Use
    <3>5. KeepsNone'
      <4>1. \A u \in Threads : CatchupOf(u) = None => u # t
        BY <2>1
      <4> QED
        BY <1>1, <1>2, <1>3, <4>1 DEF CInv, KeepsNone, CatchupOf
    <3> QED
      BY <1>4, <1>9, <3>3, <3>4, <3>5 DEF CInv
  <2> QED
    BY <2>5, <2>6
<1> QED
  BY <1>10, <1>11, <1>12, <1>14 DEF Requeue

\* The next event of the queue stays on the count while it is dispatched.
LEMMA TurnCounted ==
  ASSUME TInv, OInv, CInv, NEW t \in Threads, queue[t] # <<>>, pc[t] \in {"shift", "await"},
         Begin(t, Head(queue[t])), queue' = [queue EXCEPT ![t] = Tail(@)],
         UNCHANGED <<fate, taken>>
  PROVE  CInv'
<1> DEFINE h == Head(queue[t])
<1>1. /\ pc' = [pc EXCEPT ![t] = "dispatch"] /\ event' = [event EXCEPT ![t] = h]
      /\ previous' = [previous EXCEPT ![t] = h.status] /\ deferred' = deferred
  BY DEF Begin
<1>2. InQueue(h.id) /\ h.id \in Ids
  BY TailOnce DEF TInv, OInv
<1>3. \A i \in Ids : InQueue(i)' => InQueue(i)
  BY TailOnce DEF TInv, OInv
<1>4. /\ Cardinality(Deferreds(queue[t])) = Cardinality(Deferreds(queue'[t])) + Use(h.status)
      /\ Cardinality(Deferreds(queue'[t])) \in Nat
  <2>1. queue[t] \in Seq(Events) /\ queue'[t] = Tail(queue[t])
    BY DEF TInv, TypeOK
  <2> QED
    BY <2>1, CountTaken
<1> HIDE DEF h
<1>5. /\ event'[t] = h /\ previous'[t] = h.status /\ ~Dispatching(t) /\ Dispatching(t)'
      /\ \A u \in Threads : u # t => /\ Dispatching(u)' = Dispatching(u) /\ event'[u] = event[u]
                                     /\ previous'[u] = previous[u] /\ queue'[u] = queue[u]
  BY <1>1 DEF Dispatching, TInv, TypeOK
<1>6. NeverFresh'
  BY <1>5 DEF CInv, NeverFresh
<1>11. KeepsNone'
  <2> SUFFICES ASSUME NEW u \in Threads, CatchupOf(u) = None
               PROVE  /\ Dispatching(u)' => previous'[u] # "DEFERRED"
                      /\ \A k \in DOMAIN (queue'[u]) : queue'[u][k].status # "DEFERRED"
    BY DEF KeepsNone, CatchupOf
  <2>1. \A k \in DOMAIN (queue'[u]) : \E l \in DOMAIN queue[u] : queue'[u][k] = queue[u][l]
    BY TailContents DEF TInv
  <2>2. \A k \in DOMAIN queue[u] : queue[u][k].status # "DEFERRED"
    BY DEF CInv, KeepsNone
  <2>3. u = t => h.status # "DEFERRED"
    <3>1. h = queue[t][1] /\ 1 \in DOMAIN queue[t]
      BY EmptySeq, LenProperties DEF h, TInv, TypeOK
    <3> QED
      BY <2>2, <3>1
  <2> QED
    BY <1>5, <2>1, <2>2, <2>3 DEF CInv, KeepsNone
<1>7. \A i \in Ids : InDispatch(i)' => InDispatch(i) \/ i = h.id
  BY <1>5 DEF InDispatch, Dispatching
<1>8. Gone'
  BY <1>2, <1>3, <1>7 DEF CInv, Gone
<1>9. Counted => Counted'
  <2> SUFFICES ASSUME Counted, NEW u \in Threads
               PROVE  deferred'[u] = Cardinality(Deferreds(queue'[u])) + Owed(u)'
    BY DEF Counted
  <2>1. CASE u = t
    <3>1. Owed(t) = 0 /\ Owed(t)' = Use(h.status) /\ Use(h.status) \in Nat
      BY <1>5 DEF Owed, Use
    <3> QED
      BY <1>1, <1>4, <2>1, <3>1 DEF Counted
  <2>2. CASE u # t
    BY <1>1, <1>5, <2>2 DEF Counted, Owed
  <2> QED
    BY <2>1, <2>2
<1>10. NoneDropped' => NoneDropped
  BY DEF NoneDropped
<1> QED
  BY <1>6, <1>8, <1>9, <1>10, <1>11 DEF CInv

\* A thread that wakes up dispatches an alarm, which was never deferred, or the next event.
LEMMA WakeCounted ==
  ASSUME TInv, OInv, CInv, NEW t \in Threads, Shift(t) \/ Sleep(t) \/ Wake(t)
  PROVE  CInv'
<1>1. ASSUME Shift(t) \/ WakeByEvent(t), queue[t] # <<>> PROVE CInv'
  <2>1. /\ Begin(t, Head(queue[t])) /\ queue' = [queue EXCEPT ![t] = Tail(@)]
        /\ pc[t] \in {"shift", "await"} /\ UNCHANGED <<fate, taken>>
    BY <1>1 DEF Shift, WakeByEvent, actors
  <2> QED
    BY <1>1, <2>1, TurnCounted
<1>2. CASE WakeByEvent(t) /\ queue[t] = <<>>
  BY <1>2, QuietCounted DEF WakeByEvent, loop, actors, Dispatching
<1>3. CASE WakeByReschedule(t)
  BY <1>3, QuietCounted DEF WakeByReschedule, loop, actors, Dispatching
<1>4. CASE Sleep(t)
  <2>1. \A u \in Threads : Dispatching(u)' = Dispatching(u)
    BY <1>4 DEF Sleep, Goto, Dispatching, TInv, TypeOK
  <2> QED
    BY <1>4, <2>1, QuietCounted DEF Sleep, mail, actors
<1>6. CASE WakeByAlarm(t)
  <2>1. pc[t] = "await" /\ Begin(t, NoEvent) /\ UNCHANGED <<queue, fate, taken>>
    BY <1>6 DEF WakeByAlarm, mail, actors
  <2>2. NoEvent.id = 0 /\ NoEvent.status = "WAITING" /\ 0 \notin Ids
    BY DEF NoEvent, Ids
  <2>3. /\ event'[t] = NoEvent /\ previous'[t] = "WAITING" /\ deferred' = deferred /\ ~Dispatching(t)
        /\ \A u \in Threads : u # t => /\ Dispatching(u)' = Dispatching(u) /\ event'[u] = event[u]
                                       /\ previous'[u] = previous[u]
    BY <2>1, <2>2 DEF Begin, Dispatching, TInv, TypeOK
  <2>4. \A i \in Ids : (InQueue(i)' <=> InQueue(i)) /\ (InDispatch(i)' => InDispatch(i))
    BY <2>1, <2>2, <2>3 DEF InQueue, InDispatch, Dispatching
  <2>5. NeverFresh' /\ KeepsNone' /\ Gone'
    BY <2>1, <2>3, <2>4 DEF CInv, NeverFresh, KeepsNone, CatchupOf, Gone
  <2>6. \A u \in Threads : Owed(u)' = Owed(u)
    BY <2>3 DEF Owed, Use
  <2>7. (Counted => Counted') /\ (NoneDropped' => NoneDropped)
    BY <2>1, <2>3, <2>6 DEF Counted, NoneDropped
  <2> QED
    BY <2>5, <2>7 DEF CInv
<1>7. Shift(t) => queue[t] # <<>>
  BY DEF Shift, NothingToShift
<1> QED
  BY <1>1, <1>2, <1>3, <1>4, <1>6, <1>7 DEF Wake

\* Every step keeps the count exact, or drops an event.
LEMMA StepCounted ==
  ASSUME Buffered, \A a \in Actors : Policy[a] = "handle",
         TInv, OInv, UInv, CInv, [Next]_vars
  PROVE  CInv'
<1>1. ASSUME NEW t \in Threads, NEW target \in Targets, Publish(t, target) PROVE CInv'
  BY <1>1, PublishCounted
<1>2. ASSUME NEW t \in Threads, Announce(t) \/ Reschedule(t) PROVE CInv'
  BY <1>2, QuietCounted DEF Announce, Reschedule, loop, actors, Dispatching
<1>3. ASSUME NEW t \in Threads, Loop(t) PROVE CInv'
  BY <1>3, OfferCounted, RequeueCounted, WakeCounted DEF Loop, Dispatch
<1>4. ASSUME NEW a \in Actors, Finish(a) PROVE CInv'
  <2>1. slot[a] \in Ids /\ fate' = [fate EXCEPT ![slot[a]] = "finished"]
        /\ UNCHANGED <<loop, queue, taken>>
    BY <1>4 DEF Finish, mail, TInv, TypeOK, Ids
  <2>2. fate[slot[a]] # "dropped"
    BY <2>1 DEF UInv, HeldUses, CInv, Gone
  <2>3. \A i \in Ids : fate'[i] = "dropped" <=> fate[i] = "dropped"
    BY <2>1, <2>2 DEF TInv, TypeOK
  <2>4. \A i \in Ids : (InQueue(i)' <=> InQueue(i)) /\ (InDispatch(i)' <=> InDispatch(i))
    BY <2>1 DEF loop, InQueue, InDispatch
  <2>5. NeverFresh' /\ KeepsNone' /\ Gone' /\ (Counted => Counted')
    BY <2>1, <2>3, <2>4 DEF loop, CInv, NeverFresh, KeepsNone, CatchupOf, Gone, Counted, Owed, Dispatching
  <2> QED
    BY <2>3, <2>5 DEF CInv, NoneDropped
<1>5. CASE UNCHANGED vars
  BY <1>5, QuietCounted DEF vars, loop, mail, actors, Dispatching
<1> QED
  BY <1>1, <1>2, <1>3, <1>4, <1>5 DEF Next

\* A dropped event stays dropped.
LEMMA StepDrops ==
  ASSUME TInv, UInv, CInv, [Next]_vars, NoneDropped' PROVE NoneDropped
<1> SUFFICES ASSUME NEW i \in Ids, fate[i] = "dropped" PROVE fate'[i] = "dropped"
  BY DEF NoneDropped
<1>1. ~InDispatch(i) /\ taken[i] = 0
  BY DEF CInv, Gone
<1>2. ASSUME NEW t \in Threads, NEW target \in Targets, Publish(t, target) PROVE fate'[i] = "dropped"
  BY <1>2 DEF Publish, TInv, TypeOK
<1>3. ASSUME NEW t \in Threads, Announce(t) \/ Reschedule(t) PROVE fate'[i] = "dropped"
  BY <1>3 DEF Announce, Reschedule
<1>4. ASSUME NEW t \in Threads, Requeue(t) PROVE fate'[i] = "dropped"
  <2>1. event[t].id # i /\ event[t] \in Events
    BY <1>1, <1>4 DEF Requeue, InDispatch, TInv, TypeOK
  <2>2. [event[t] EXCEPT !.status = "DEFERRED"].id = event[t].id
    BY <2>1 DEF Events
  <2> QED
    BY <1>4, <2>1, <2>2 DEF Requeue, RequeueUnheard, RequeueDeferred, RequeueOffloaded, RequeueTaken, EndAs
<1>5. ASSUME NEW t \in Threads, Loop(t) PROVE fate'[i] = "dropped"
  BY <1>4, <1>5 DEF Loop, Dispatch, Offer, Store, MarkBusy, Shift, Sleep, Wake,
                    WakeByEvent, WakeByReschedule, WakeByAlarm
<1>6. ASSUME NEW a \in Actors, Finish(a) PROVE fate'[i] = "dropped"
  <2>1. slot[a] # i
    BY <1>1 DEF UInv, HeldUses
  <2> QED
    BY <1>6, <2>1 DEF Finish, TInv, TypeOK
<1>7. CASE UNCHANGED vars
  BY <1>7 DEF vars
<1> QED
  BY <1>2, <1>3, <1>5, <1>6, <1>7 DEF Next

\* Whenever the loop decides whether to sleep, the count is that of the queue.
LEMMA CountedIsExact ==
  ASSUME TInv, Counted PROVE DeferredCountExact
<1> SUFFICES ASSUME NEW t \in Threads, pc[t] \in {"shift", "await"}
             PROVE  deferred[t] = Count(t)
  BY DEF DeferredCountExact
<1>1. Owed(t) = 0 /\ Count(t) = Cardinality(Deferreds(queue[t])) /\ queue[t] \in Seq(Events)
  BY DEF Owed, Dispatching, Count, Deferreds, TInv, TypeOK
<1>2. Cardinality(Deferreds(queue[t])) \in Nat
  BY <1>1, NoEventIsEvent, CountAppended
<1> QED
  BY <1>1, <1>2 DEF Counted

\* thread.c:41, 176-190: until an event is dropped at a full queue, deferred_count is the
\* number of deferred events in the queue whenever the loop decides whether to sleep.
THEOREM DeferredCountIsExact ==
  ASSUME Buffered, \A a \in Actors : Policy[a] = "handle"
  PROVE  Spec => [](NoneDropped => DeferredCountExact)
<1> DEFINE Inv == TInv /\ OInv /\ UInv /\ CInv
<1>1. Init => Inv
  BY InitiallyTyped, InitiallyOnce, InitiallyUnused, InitiallyCounted
<1>2. Inv /\ [Next]_vars => Inv'
  BY StepTyped, StepOnce, StepUses, StepCounted
<1>3. Inv => (NoneDropped => DeferredCountExact)
  BY CountedIsExact DEF CInv
<1> QED
  BY <1>1, <1>2, <1>3, PTL DEF Spec

-----------------------------------------------------------------------------
\* A queue that holds as many deferred events as events holds no fresh one.
LEMMA AllDeferred ==
  ASSUME NEW s \in Seq(Events), Len(s) = Cardinality(Deferreds(s)), NEW k \in DOMAIN s
  PROVE  s[k].status = "DEFERRED"
<1>1. Len(s) \in Nat /\ DOMAIN s = 1..Len(s)
  BY LenProperties
<1>2. IsFiniteSet(1..Len(s)) /\ Cardinality(1..Len(s)) = Len(s)
  BY <1>1, FS_Interval
<1>3. Deferreds(s) \in SUBSET (1..Len(s))
  BY <1>1 DEF Deferreds
<1>4. Deferreds(s) = 1..Len(s)
  BY <1>2, <1>3, FS_Subset
<1> QED
  BY <1>1, <1>4 DEF Deferreds

\* A thread that goes to sleep leaves no fresh event behind.
LEMMA SleepsOnDeferred ==
  ASSUME TInv, DeferredCountExact, NEW t \in Threads, Sleep(t)
  PROVE  ~HasFresh(t)
<1>1. queue[t] \in Seq(Events) /\ deferred[t] = Cardinality(Deferreds(queue[t]))
  BY DEF Sleep, DeferredCountExact, Count, Deferreds, TInv, TypeOK
<1>2. CASE queue[t] = <<>>
  BY <1>2 DEF HasFresh
<1>3. CASE deferred[t] = Len(queue[t])
  BY <1>1, <1>3, AllDeferred DEF HasFresh
<1> QED
  BY <1>2, <1>3 DEF Sleep, NothingToShift

\* No step makes a sleeping thread miss the notification of a fresh event.
LEMMA StepWakes ==
  ASSUME TInv, DeferredCountExact, NoWakeupLost, [Next]_vars
  PROVE  NoWakeupLost'
<1> SUFFICES ASSUME NEW u \in Threads, pc'[u] = "await", HasFresh(u)'
             PROVE  note'[u] = "EVENT" \/ announcing'[u] > 0
  BY DEF NoWakeupLost
<1>1. ASSUME queue'[u] = queue[u], pc'[u] = pc[u] PROVE note[u] = "EVENT" \/ announcing[u] > 0
  BY <1>1 DEF NoWakeupLost, HasFresh
<1>2. note \in [Threads -> {"none", "EVENT", "RESCHEDULE"}] /\ announcing \in [Threads -> Nat]
      /\ pc \in [Threads -> {"dispatch", "store", "busy", "shift", "await"}]
      /\ queue \in [Threads -> Seq(Events)]
  BY DEF TInv, TypeOK
<1>3. ASSUME NEW t \in Threads, NEW target \in Targets, Publish(t, target)
      PROVE  note'[u] = "EVENT" \/ announcing'[u] > 0
  <2>1. pc' = pc /\ note' = note
    BY <1>3 DEF Publish, loop
  <2>2. \/ UNCHANGED <<queue, announcing>>
        \/ /\ announcing' = [announcing EXCEPT ![t] = @ + 1]
           /\ \E e : queue' = [queue EXCEPT ![t] = Append(@, e)]
    <3>1. CASE Full(t)
      BY <1>3, <3>1 DEF Publish
    <3>2. CASE ~Full(t)
      BY <1>3, <3>2 DEF Publish
    <3> QED
      BY <3>1, <3>2
  <2>3. CASE UNCHANGED <<queue, announcing>>
    BY <1>1, <2>1, <2>3
  <2>4. CASE u = t /\ announcing' = [announcing EXCEPT ![t] = @ + 1]
    BY <1>2, <2>4
  <2>5. CASE /\ u # t /\ announcing' = [announcing EXCEPT ![t] = @ + 1]
             /\ \E e : queue' = [queue EXCEPT ![t] = Append(@, e)]
    <3>1. queue'[u] = queue[u] /\ announcing'[u] = announcing[u]
      BY <1>2, <2>5
    <3> QED
      BY <1>1, <2>1, <3>1
  <2> QED
    BY <2>2, <2>3, <2>4, <2>5
<1>4. ASSUME NEW t \in Threads, Announce(t) \/ Reschedule(t)
      PROVE  note'[u] = "EVENT" \/ announcing'[u] > 0
  <2>1. queue' = queue /\ pc' = pc
    BY <1>4 DEF Announce, Reschedule, loop
  <2> QED
    BY <1>1, <1>2, <1>4, <2>1 DEF Announce, Reschedule
<1>5. ASSUME NEW t \in Threads, Loop(t), t # u PROVE note'[u] = "EVENT" \/ announcing'[u] > 0
  <2>1. queue'[u] = queue[u] /\ pc'[u] = pc[u] /\ note'[u] = note[u] /\ announcing' = announcing
    <3>1. CASE Offer(t) \/ Store(t) \/ MarkBusy(t)
      BY <1>2, <1>5, <3>1 DEF Offer, Store, MarkBusy, NextWorker, Goto, mail
    <3>2. CASE Requeue(t)
      BY <1>2, <1>5, <3>2 DEF Requeue, RequeueUnheard, RequeueDeferred, RequeueOffloaded, RequeueTaken, Goto
    <3>3. CASE Shift(t) \/ Sleep(t)
      BY <1>2, <1>5, <3>3 DEF Shift, Sleep, Begin, Goto, mail
    <3>4. CASE Wake(t)
      BY <1>2, <1>5, <3>4 DEF Wake, WakeByEvent, WakeByReschedule, WakeByAlarm, Begin, loop, mail
    <3> QED
      BY <1>5, <3>1, <3>2, <3>3, <3>4 DEF Loop, Dispatch
  <2> QED
    BY <1>1, <2>1
<1>6. CASE Loop(u)
  <2>1. ~(Offer(u) \/ Store(u) \/ MarkBusy(u) \/ Requeue(u) \/ Shift(u))
    BY <1>2 DEF Offer, Store, MarkBusy, Requeue, Shift, Begin, NextWorker, Goto
  <2>2. CASE Sleep(u)
    BY <2>2, SleepsOnDeferred DEF Sleep, mail, HasFresh
  <2>3. CASE WakeByEvent(u)
    <3>1. queue[u] = <<>> /\ queue' = queue
      BY <1>2, <2>3 DEF WakeByEvent, Begin
    <3> QED
      BY <3>1 DEF HasFresh
  <2>4. CASE WakeByReschedule(u)
    BY <1>1, <2>4 DEF WakeByReschedule, loop
  <2>5. ~WakeByAlarm(u)
    BY <1>2 DEF WakeByAlarm, Begin
  <2> QED
    BY <1>6, <2>1, <2>2, <2>3, <2>4, <2>5 DEF Loop, Dispatch, Wake
<1>7. ASSUME NEW a \in Actors, Finish(a) PROVE note'[u] = "EVENT" \/ announcing'[u] > 0
  BY <1>1, <1>7 DEF Finish, loop, mail
<1>8. CASE UNCHANGED vars
  BY <1>1, <1>8 DEF vars, loop, mail
<1> QED
  BY <1>3, <1>4, <1>5, <1>6, <1>7, <1>8 DEF Next

\* thread.c:236-247, 346-347: however publishers overlap and share the notification slot
\* with RESCHEDULE, a thread never sleeps on a fresh event without a notification of it,
\* until an event is dropped at a full queue and the count of deferred events goes stale.
THEOREM NoWakeupIsLost ==
  ASSUME Buffered, \A a \in Actors : Policy[a] = "handle"
  PROVE  Spec => [](NoneDropped => NoWakeupLost)
<1> DEFINE Inv == TInv /\ OInv /\ UInv /\ CInv /\ (NoneDropped => NoWakeupLost)
<1>1. Init => Inv
  <2>1. Init => NoWakeupLost
    BY DEF Init, NoWakeupLost
  <2> QED
    BY <2>1, InitiallyTyped, InitiallyOnce, InitiallyUnused, InitiallyCounted
<1>2. Inv /\ [Next]_vars => Inv'
  <2> SUFFICES ASSUME Inv, [Next]_vars PROVE Inv'
    OBVIOUS
  <2>1. TInv' /\ OInv' /\ UInv' /\ CInv'
    BY StepTyped, StepOnce, StepUses, StepCounted
  <2>2. NoneDropped' => NoneDropped
    BY StepDrops
  <2>3. NoneDropped => DeferredCountExact
    BY CountedIsExact DEF CInv
  <2> QED
    BY <2>1, <2>2, <2>3, StepWakes
<1> QED
  BY <1>1, <1>2, PTL DEF Spec
=============================================================================

----------------------------- MODULE TimerProofs ------------------------------
(***************************************************************************)
(* Proofs about Timer, for any pairs, table size, period, word and delays. *)
(***************************************************************************)
EXTENDS Timer, SequenceTheorems, WellFoundedInduction, TLAPS

-----------------------------------------------------------------------------
\* A set of natural numbers that is not empty has a least member.
LEMMA LeastNat ==
  ASSUME NEW S, S \subseteq Nat, S # {}
  PROVE  \E m \in S : \A n \in S : m <= n
<1>1. PICK m \in S : \A n \in S : ~(<<n, m>> \in OpToRel(<, Nat))
  BY WFMin, NatLessThanWellFounded, Zenon
<1>2. ASSUME NEW n \in S, n < m PROVE <<n, m>> \in OpToRel(<, Nat)
  BY <1>2, Zenon DEF OpToRel
<1>3. ASSUME NEW n \in S PROVE m <= n
  <2>1. m \in Nat /\ n \in Nat /\ ~(n < m)
    BY <1>1, <1>2
  <2> QED
    BY <2>1
<1> QED
  BY <1>3

\* Arithmetic of the program's words
LEMMA U32Type == \A x \in Int : U32(x) \in Ticks
BY TimerAssumption DEF U32, Ticks

\* ... and of their signed reading
LEMMA S32Type == \A x \in Int : S32(x) \in Int /\ -Word <= S32(x)
BY TimerAssumption, U32Type DEF S32, Ticks

\* The choice of a subscription is an armed one of least distance, if there is any.
LEMMA ClosestSlotIs ==
  ASSUME NEW table \in [SlotIds -> [actor : Pairs \cup {Free}, time : Ticks]], NEW next \in Ticks
  PROVE  LET d(i) == S32(table[i].time - next)
             C == {i \in SlotIds : table[i].actor # Free /\ d(i) < (Word \div 2) - 1}
         IN  \/ C = {} /\ ClosestSlot(table, next) = 0
             \/ ClosestSlot(table, next) \in C /\ \A j \in C : d(ClosestSlot(table, next)) <= d(j)
<1> DEFINE d(i) == S32(table[i].time - next)
           C == {i \in SlotIds : table[i].actor # Free /\ d(i) < (Word \div 2) - 1}
           closest == CHOOSE i \in C : \A j \in C : d(i) < d(j) \/ (d(i) = d(j) /\ i <= j)
<1>1. \A i \in SlotIds : d(i) \in Int /\ -Word <= d(i)
  BY S32Type DEF Ticks
<1>2. ASSUME C # {} PROVE closest \in C /\ \A j \in C : d(closest) <= d(j)
  <2> DEFINE D == {d(i) + Word : i \in C}
  <2>1. D \subseteq Nat /\ D # {}
    BY <1>1, <1>2, TimerAssumption
  <2>2. PICK m \in D : \A n \in D : m <= n
    BY <2>1, LeastNat, Zenon
  <2> DEFINE E == {i \in C : d(i) + Word = m}
  <2>3. E \subseteq Nat /\ E # {}
    BY <2>2 DEF SlotIds
  <2>4. PICK i \in E : \A j \in E : i <= j
    BY <2>3, LeastNat, Zenon
  <2>5. \A j \in C : d(i) < d(j) \/ (d(i) = d(j) /\ i <= j)
    <3> SUFFICES ASSUME NEW j \in C PROVE d(i) < d(j) \/ (d(i) = d(j) /\ i <= j)
      OBVIOUS
    <3>1. d(i) + Word <= d(j) + Word /\ d(i) \in Int /\ d(j) \in Int /\ Word \in Nat
      BY <1>1, <2>2, <2>4, TimerAssumption
    <3>2. d(i) = d(j) => i <= j
      BY <2>4
    <3> HIDE DEF d
    <3> QED
      BY <3>1, <3>2
  <2> HIDE DEF C, d
  <2>6. closest \in C /\ \A j \in C : d(closest) < d(j) \/ (d(closest) = d(j) /\ closest <= j)
    BY <2>4, <2>5
  <2>7. \A j \in C : d(j) \in Int
    BY <1>1 DEF C
  <2> QED
    BY <2>6, <2>7
<1>3. ClosestSlot(table, next) = IF C = {} THEN 0 ELSE closest
  BY DEF ClosestSlot
<1> HIDE DEF C, closest, d
<1>4. \/ C = {} /\ ClosestSlot(table, next) = 0
      \/ ClosestSlot(table, next) \in C /\ \A j \in C : d(ClosestSlot(table, next)) <= d(j)
  BY <1>2, <1>3
<1> QED
  BY <1>4 DEF C, d

\* It is a slot of the table, and armed.
LEMMA ClosestSlotType ==
  ASSUME NEW table \in [SlotIds -> [actor : Pairs \cup {Free}, time : Ticks]], NEW next \in Ticks
  PROVE  /\ ClosestSlot(table, next) \in SlotIds \cup {0}
         /\ ClosestSlot(table, next) # 0 => table[ClosestSlot(table, next)].actor # Free
<1>1. 0 \notin SlotIds
  BY DEF SlotIds
<1> QED
  BY <1>1, ClosestSlotIs

\* The pair gets its own slot, or a vacant one only when it has none.
LEMMA SlotForType ==
  ASSUME NEW p \in Pairs
  PROVE  \/ SlotFor(p) = 0
         \/ SlotFor(p) \in SlotIds /\ subs[SlotFor(p)].actor = p
         \/ SlotFor(p) \in SlotIds /\ subs[SlotFor(p)].actor = Free /\ ~Armed(p)
<1> DEFINE least(S) == CHOOSE i \in S : \A j \in S : i <= j
           mine == {i \in SlotIds : subs[i].actor = p}
           vacant == {i \in SlotIds : subs[i].actor = Free}
<1>1. ASSUME NEW S, S \subseteq SlotIds, S # {} PROVE least(S) \in S
  <2>1. S \subseteq Nat /\ S # {}
    BY <1>1 DEF SlotIds
  <2>2. \E i \in S : \A j \in S : i <= j
    BY <2>1, LeastNat, Zenon
  <2> QED
    BY <2>2
<1>2. SlotFor(p) = IF mine # {} THEN least(mine) ELSE IF vacant # {} THEN least(vacant) ELSE 0
  BY DEF SlotFor
<1>3. mine # {} => least(mine) \in mine
  BY <1>1
<1>4. vacant # {} => least(vacant) \in vacant
  BY <1>1
<1> HIDE DEF least
<1>5. CASE mine # {}
  BY <1>2, <1>3, <1>5
<1>6. CASE mine = {}
  BY <1>2, <1>4, <1>6 DEF Armed
<1> QED
  BY <1>5, <1>6

-----------------------------------------------------------------------------
\* Stacks of calls
StackOK(s) == s \in Seq(FrameSet) /\ \A k \in 1..Len(s) : FrameOK(s[k])

\* No call comes to its store that was not there before.
StoresKept ==
  \A k \in 1..Len(stack') :
    stack'[k].pc = "store" => k \in 1..Len(stack) /\ stack'[k] = stack[k]

\* FrameOK of every call, by its number or by the domain of the stack
LEMMA StackTyped ==
  ASSUME stack \in Seq(FrameSet)
  PROVE  StackOK(stack) <=> \A i \in DOMAIN stack : FrameOK(stack[i])
BY LenProperties DEF StackOK

\* Pushing a call keeps the others.
LEMMA PushType ==
  ASSUME NEW s, StackOK(s), NEW f \in FrameSet, FrameOK(f)
  PROVE  /\ StackOK(Append(s, f)) /\ Append(s, f) # <<>> /\ Len(s) \in Nat
         /\ Len(Append(s, f)) = Len(s) + 1 /\ Append(s, f)[Len(s) + 1] = f
         /\ \A k \in 1..Len(s) : Append(s, f)[k] = s[k]
<1>1. /\ Append(s, f) \in Seq(FrameSet) /\ Append(s, f) # <<>> /\ Len(s) \in Nat
      /\ Len(Append(s, f)) = Len(s) + 1 /\ Append(s, f)[Len(s) + 1] = f
      /\ \A k \in 1..Len(s) : Append(s, f)[k] = s[k]
  BY AppendProperties, LenProperties DEF StackOK
<1>2. ASSUME NEW k \in 1..(Len(s) + 1) PROVE FrameOK(Append(s, f)[k])
  <2>1. k \in 1..Len(s) \/ k = Len(s) + 1
    BY <1>1
  <2> QED
    BY <1>1, <2>1 DEF StackOK
<1> QED
  BY <1>1, <1>2 DEF StackOK

\* Popping the innermost call keeps the others.
LEMMA PopType ==
  ASSUME StackOK(stack), stack # <<>>
  PROVE  /\ StackOK(Below) /\ Len(stack) \in Nat \ {0} /\ Len(Below) = Len(stack) - 1
         /\ Top \in FrameSet /\ FrameOK(Top)
         /\ \A k \in 1..Len(Below) : Below[k] = stack[k]
<1>1. Len(stack) \in Nat \ {0}
  BY EmptySeq DEF StackOK
<1>2. \A k \in 1..Len(stack) : stack[k] \in FrameSet /\ FrameOK(stack[k])
  BY <1>1, ElementOfSeq DEF StackOK
<1>3. /\ Below \in Seq(FrameSet)
      /\ Len(Below) = IF 1 <= Len(stack) - 1 THEN (Len(stack) - 1) - 1 + 1 ELSE 0
      /\ \A k \in 1..((Len(stack) - 1) - 1 + 1) : Below[k] = stack[1 + k - 1]
  <2>1. \A k \in 1..(Len(stack) - 1) : stack[k] \in FrameSet
    BY <1>1, <1>2
  <2>2. 1 \in Int /\ Len(stack) - 1 \in Int
    BY <1>1
  <2> QED
    BY <2>1, <2>2, SubSeqProperties DEF Below
<1>4. Len(Below) = Len(stack) - 1 /\ \A k \in 1..Len(Below) : Below[k] = stack[k]
  <2> DEFINE n == Len(stack)
  <2>1. n \in Nat \ {0} /\ Len(Below) = IF 1 <= n - 1 THEN (n - 1) - 1 + 1 ELSE 0
    BY <1>1, <1>3, Zenon
  <2> HIDE DEF n
  <2>2. Len(Below) = n - 1
    BY <2>1
  <2>3. Len(Below) = Len(stack) - 1
    BY <2>2 DEF n
  <2>4. ASSUME NEW k \in 1..Len(Below) PROVE Below[k] = stack[k]
    <3>1. k \in 1..((Len(stack) - 1) - 1 + 1) /\ 1 + k - 1 = k
      BY <1>1, <2>3
    <3>2. Below[k] = stack[1 + k - 1]
      BY <1>3, <3>1
    <3> QED
      BY <3>1, <3>2
  <2> QED
    BY <2>3, <2>4
<1>5. Top \in FrameSet /\ FrameOK(Top)
  BY <1>1, <1>2 DEF Top
<1>6. \A k \in 1..Len(Below) : FrameOK(Below[k])
  BY <1>1, <1>2, <1>4
<1> QED
  BY <1>1, <1>3, <1>4, <1>5, <1>6 DEF StackOK

Pcs == {"advance", "notify", "schedule", "find", "store"}

\* A call that goes on leaves the calls around it alone.
LEMMA GotoType ==
  ASSUME StackOK(stack), stack # <<>>, NEW at \in Pcs, NEW i \in 1..(Slots + 1), Goto(at, i),
         at \in {"find", "store"} => Top.op = "timeout", at = "store" => i \in SlotIds
  PROVE  /\ StackOK(stack') /\ stack' # <<>> /\ Len(stack') = Len(stack)
         /\ Top'.pc = at /\ Top'.slot = i /\ Top'.pair = Top.pair
         /\ \A k \in 1..(Len(stack) - 1) : stack'[k] = stack[k]
         /\ at # "store" => StoresKept
<1> DEFINE f == [Top EXCEPT !.pc = at, !.slot = i]
<1>1. Top \in FrameSet /\ FrameOK(Top) /\ StackOK(Below) /\ Len(stack) \in Nat \ {0}
      /\ Len(Below) = Len(stack) - 1 /\ \A k \in 1..Len(Below) : Below[k] = stack[k]
  BY PopType
<1>2. f \in FrameSet /\ f.pc = at /\ f.slot = i /\ f.pair = Top.pair /\ f.op = Top.op
      /\ f.timeout = Top.timeout
  BY <1>1 DEF FrameSet, Pcs
<1>3. FrameOK(f)
  BY <1>1, <1>2 DEF FrameOK
<1>4. stack' = Append(Below, f)
  BY DEF Goto
<1> HIDE DEF f
<1>5. /\ StackOK(stack') /\ stack' # <<>> /\ Len(stack') = Len(stack)
      /\ stack'[Len(stack')] = f
      /\ \A k \in 1..(Len(stack) - 1) : stack'[k] = stack[k]
  <2>1. /\ StackOK(stack') /\ stack' # <<>> /\ Len(stack') = Len(Below) + 1
        /\ stack'[Len(Below) + 1] = f
        /\ \A k \in 1..Len(Below) : stack'[k] = Below[k]
    BY <1>1, <1>2, <1>3, <1>4, PushType
  <2>2. Len(Below) + 1 = Len(stack)
    BY <1>1
  <2> QED
    BY <1>1, <2>1, <2>2
<1>6. Top' = f
  BY <1>5 DEF Top
<1>7. ASSUME at # "store" PROVE StoresKept
  <2> SUFFICES ASSUME NEW k \in 1..Len(stack'), stack'[k].pc = "store"
               PROVE  k \in 1..Len(stack) /\ stack'[k] = stack[k]
    BY DEF StoresKept
  <2>1. k # Len(stack')
    BY <1>2, <1>5, <1>7
  <2> QED
    BY <1>1, <1>5, <2>1
<1> QED
  BY <1>2, <1>5, <1>6, <1>7

\* A call just made is one.
LEMMA FrameType ==
  ASSUME NEW ctx \in {"thread", "timer", "dma"}, NEW op \in {"interrupt", "timeout"},
         NEW p \in Pairs \cup {Free}, NEW t \in Timeouts \cup {0}, NEW elapsed \in Ticks,
         op = "timeout" => p \in Pairs /\ t \in Timeouts
  PROVE  /\ Frame(ctx, op, p, t, elapsed) \in FrameSet /\ FrameOK(Frame(ctx, op, p, t, elapsed))
         /\ Frame(ctx, op, p, t, elapsed).pc = "advance"
BY TimerAssumption DEF Frame, FrameSet, FrameOK

\* So is one of module_timer_timeout, with the ticks it read off the counter.
LEMMA TimeoutCallType ==
  ASSUME TypeOK, NEW ctx \in {"thread", "timer", "dma"}, NEW p \in Pairs, NEW t \in Timeouts
  PROVE  /\ TimeoutCall(ctx, p, t) \in FrameSet /\ FrameOK(TimeoutCall(ctx, p, t))
         /\ TimeoutCall(ctx, p, t).pc = "advance"
<1>1. U32(cnt - (Period - next_tick)) \in Ticks
  BY U32Type, TimerAssumption DEF TypeOK
<1> QED
  BY <1>1, FrameType DEF TimeoutCall

-----------------------------------------------------------------------------
\* The clock and the table

\* timer_schedule keeps the plan within a period and the counter within its range.
LEMMA ScheduleType ==
  ASSUME TypeOK, NEW scheduled \in Ticks, NEW target \in Ticks, Schedule(scheduled, target)
  PROVE  /\ next_time' \in Ticks /\ next_tick' \in 0..Period /\ cnt' \in 0..Period
         /\ current_time' \in Ticks
<1> DEFINE next == IF scheduled > target THEN target ELSE scheduled
           diff == U32(next - current_time)
<1>1. /\ next_time' = next /\ current_time' = current_time
      /\ next_tick' = IF diff < Period THEN diff ELSE Period
      /\ cnt' = IF diff < Period THEN Period - diff ELSE cnt
  BY DEF Schedule
<1>2. next \in Ticks /\ diff \in Ticks
  <2>1. next \in Ticks
    OBVIOUS
  <2> HIDE DEF next
  <2>2. next - current_time \in Int
    BY <2>1, TimerAssumption DEF TypeOK, Ticks
  <2> QED
    BY <2>1, <2>2, U32Type
<1> HIDE DEF next, diff
<1>3. diff \in Nat /\ Period \in Nat /\ cnt \in 0..Period /\ current_time \in Ticks
  BY <1>2, TimerAssumption DEF Ticks, TypeOK
<1> QED
  BY <1>1, <1>2, <1>3

Table == [SlotIds -> [actor : Pairs \cup {Free}, time : Ticks]]

\* A table with a slot vacated is a table.
LEMMA VacateType ==
  ASSUME NEW table \in Table, NEW i
  PROVE  [table EXCEPT ![i] = Vacant] \in Table
<1>1. Vacant \in [actor : Pairs \cup {Free}, time : Ticks]
  BY TimerAssumption DEF Vacant, Ticks
<1> QED
  BY <1>1 DEF Table

\* The values timer_stop_counting stores
LEMMA NeverType == Never \in Ticks /\ Period \in 0..Period /\ 0 \in 0..Period
BY TimerAssumption DEF Never, Ticks

\* A call begins.
LEMMA PushKeeps ==
  ASSUME StackOK(stack), NEW f \in FrameSet, FrameOK(f), f.pc # "store",
         stack' = Append(stack, f)
  PROVE  StackOK(stack') /\ StoresKept
<1>1. /\ StackOK(stack') /\ Len(stack) \in Nat /\ Len(stack') = Len(stack) + 1
      /\ stack'[Len(stack) + 1] = f /\ \A k \in 1..Len(stack) : stack'[k] = stack[k]
  BY PushType
<1>2. ASSUME NEW k \in 1..Len(stack'), stack'[k].pc = "store"
      PROVE  k \in 1..Len(stack) /\ stack'[k] = stack[k]
  BY <1>1, <1>2
<1> QED
  BY <1>1, <1>2 DEF StoresKept

\* The innermost call returns.
LEMMA ReturnType ==
  ASSUME StackOK(stack), stack # <<>>, stack' = Below
  PROVE  StackOK(stack') /\ StoresKept
<1>1. StackOK(stack') /\ Len(stack) \in Nat \ {0} /\ Len(stack') = Len(stack) - 1
      /\ \A k \in 1..Len(stack') : stack'[k] = stack[k]
  BY PopType
<1> QED
  BY <1>1 DEF StoresKept

\* A call ends where timer_advance does, or goes on to find a slot.
LEMMA AdvanceReturnsType ==
  ASSUME StackOK(stack), stack # <<>>, AdvanceReturns
  PROVE  StackOK(stack') /\ StoresKept
<1>1. CASE Top.op = "timeout"
  <2>1. Goto("find", 1) /\ 1 \in 1..(Slots + 1) /\ "find" \in Pcs /\ "find" # "store"
    BY <1>1, TimerAssumption DEF AdvanceReturns, Pcs
  <2> QED
    BY <1>1, <2>1, GotoType
<1>2. CASE Top.op # "timeout"
  BY <1>2, ReturnType DEF AdvanceReturns
<1> QED
  BY <1>1, <1>2

-----------------------------------------------------------------------------
\* The type invariant, with the calls counted from one
TInv ==
  /\ phase \in {"IDLE", "RUNNING"} /\ cnt \in 0..Period /\ uif \in BOOLEAN
  /\ current_time \in Ticks /\ next_time \in Ticks /\ next_tick \in 0..Period
  /\ subs \in Table /\ StackOK(stack) /\ due \in [Pairs -> Int] /\ clears \in 0..MaxClears

\* It is the type invariant.
LEMMA TInvIsType == TInv <=> TypeOK
<1>1. stack \in Seq(FrameSet) => (StackOK(stack) <=> \A i \in DOMAIN stack : FrameOK(stack[i]))
  BY StackTyped
<1>2. StackOK(stack) => stack \in Seq(FrameSet)
  BY DEF StackOK
<1> QED
  BY <1>1, <1>2 DEF TInv, TypeOK, Table

\* A pair that a call is about to store is in no other slot than the call's.
Chosen ==
  \A k \in 1..Len(stack) : stack[k].pc = "store" =>
    \A j \in SlotIds : subs[j].actor = stack[k].pair => j = stack[k].slot

SInv == Chosen /\ OneAlarmPerPair

\* No two calls for one pair are both between the search for its slot and the store.
StoresApart ==
  \A i, j \in 1..Len(stack) :
    /\ stack[i].pc = "store" /\ stack[j].pc = "store"
    /\ stack[i].pair = stack[j].pair
    => i = j

\* A step that sets no alarm and finds no slot keeps the pairs apart.
LEMMA KeepsApart ==
  ASSUME TInv', SInv, StoresKept, \A j \in SlotIds : subs'[j].actor \in {subs[j].actor, Free}
  PROVE  SInv'
<1>1. ASSUME NEW k \in 1..Len(stack'), stack'[k].pc = "store",
             NEW j \in SlotIds, subs'[j].actor = stack'[k].pair
      PROVE  j = stack'[k].slot
  <2>1. k \in 1..Len(stack) /\ stack'[k] = stack[k]
    BY <1>1 DEF StoresKept
  <2>2. stack'[k].pair \in Pairs
    BY <1>1 DEF TInv, StackOK, FrameOK
  <2>3. subs[j].actor = stack[k].pair
    BY <1>1, <2>1, <2>2, TimerAssumption
  <2> QED
    BY <1>1, <2>1, <2>3 DEF SInv, Chosen
<1>2. OneAlarmPerPair'
  BY DEF SInv, OneAlarmPerPair
<1> QED
  BY <1>1, <1>2 DEF SInv, Chosen

\* No call is in progress and no alarm is set at first.
LEMMA InitiallyAlone == Init => TInv /\ SInv
<1> SUFFICES ASSUME Init PROVE TInv /\ SInv
  OBVIOUS
<1>1. /\ phase = "IDLE" /\ cnt = 0 /\ uif = FALSE /\ current_time \in StartTimes
      /\ next_time = Never /\ next_tick = Period /\ subs = [i \in SlotIds |-> Vacant]
      /\ stack = <<>> /\ due = [p \in Pairs |-> 0] /\ clears = 0
  BY DEF Init
<1>2. current_time \in Ticks /\ clears \in 0..MaxClears
  BY <1>1, TimerAssumption DEF Ticks
<1>3. StackOK(stack) /\ Len(stack) = 0
  BY <1>1, EmptySeq DEF StackOK
<1>4. subs \in Table /\ \A i \in SlotIds : subs[i].actor = Free
  BY <1>1, TimerAssumption DEF Table, Vacant, Ticks
<1>5. TInv
  <2>1. cnt \in 0..Period /\ next_time \in Ticks /\ next_tick \in 0..Period
    BY <1>1, NeverType
  <2>2. due \in [Pairs -> Int] /\ phase \in {"IDLE", "RUNNING"}
    BY <1>1
  <2>3. uif \in BOOLEAN
    BY <1>1, Zenon
  <2> QED
    BY <1>2, <1>3, <1>4, <2>1, <2>2, <2>3 DEF TInv
<1>6. SInv
  BY <1>3, <1>4 DEF SInv, Chosen, OneAlarmPerPair
<1> QED
  BY <1>5, <1>6

\* A tick counts.
LEMMA TickInv ==
  ASSUME TInv, Tick
  PROVE  TInv' /\ (SInv => SInv')
<1>1. /\ UNCHANGED <<phase, current_time, next_time, next_tick, subs, stack, clears>>
  BY DEF Tick
<1>2. due' \in [Pairs -> Int]
  BY TimerAssumption DEF Tick, TInv
<1>3. cnt' \in 0..Period /\ uif' \in BOOLEAN
  <2>1. CASE phase = "RUNNING"
    <3>1. cnt' = (IF cnt >= Period THEN 0 ELSE cnt + 1) /\ uif' = (uif \/ cnt >= Period)
      BY <2>1 DEF Tick
    <3>2. cnt' \in 0..Period
      BY <3>1, TimerAssumption DEF TInv
    <3>3. uif' \in BOOLEAN
      BY <3>1, Zenon
    <3> QED
      BY <3>2, <3>3
  <2>2. CASE phase # "RUNNING"
    BY <2>2 DEF Tick, TInv
  <2> QED
    BY <2>1, <2>2
<1>4. TInv'
  BY <1>1, <1>2, <1>3 DEF TInv
<1>5. ASSUME SInv PROVE SInv'
  BY <1>1, <1>5 DEF SInv, Chosen, OneAlarmPerPair
<1> QED
  BY <1>4, <1>5

\* The timer's interrupt begins a call of its own.
LEMMA InterruptInv ==
  ASSUME TInv, Interrupt
  PROVE  TInv' /\ (SInv => SInv')
<1> DEFINE f == Frame("timer", "interrupt", Free, 0, next_tick)
<1>1. /\ uif' = FALSE /\ stack' = Append(stack, f) /\ UNCHANGED <<phase, clock, subs, due, clears>>
  BY DEF Interrupt
<1>2. f \in FrameSet /\ FrameOK(f) /\ f.pc = "advance"
  <2>1. next_tick \in Ticks
    BY TimerAssumption DEF TInv, Ticks
  <2> QED
    BY <2>1, FrameType
<1> HIDE DEF f
<1>3. StackOK(stack') /\ StoresKept
  BY <1>1, <1>2, PushKeeps DEF TInv
<1>4. TInv'
  BY <1>1, <1>3 DEF TInv, clock
<1>5. ASSUME SInv PROVE SInv'
  BY <1>1, <1>3, <1>4, <1>5, KeepsApart
<1> QED
  BY <1>4, <1>5

\* A thread or an interrupt begins to set an alarm.
LEMMA TimeoutInv ==
  ASSUME TInv, NEW ctx \in Callers, NEW p \in Pairs, NEW t \in Timeouts, Timeout(ctx, p, t)
  PROVE  TInv' /\ (SInv => SInv')
<1> DEFINE f == TimeoutCall(ctx, p, t)
<1>1. /\ stack' = Append(stack, f) /\ UNCHANGED <<phase, clock, uif, subs, due, clears>>
  BY DEF Timeout
<1>2. f \in FrameSet /\ FrameOK(f) /\ f.pc = "advance"
  BY TInvIsType, TimeoutCallType DEF Callers
<1> HIDE DEF f
<1>3. StackOK(stack') /\ StoresKept
  BY <1>1, <1>2, PushKeeps DEF TInv
<1>4. TInv'
  BY <1>1, <1>3 DEF TInv, clock
<1>5. ASSUME SInv PROVE SInv'
  BY <1>1, <1>3, <1>4, <1>5, KeepsApart
<1> QED
  BY <1>4, <1>5

\* module_timer_clear vacates a slot.
LEMMA ClearInv ==
  ASSUME TInv, NEW ctx \in Callers, NEW p \in Pairs, Clear(ctx, p)
  PROVE  TInv' /\ (SInv => SInv')
<1> DEFINE i == SlotFor(p)
           table == [subs EXCEPT ![i] = Vacant]
           next == ClosestSlot(table, next_time)
<1>1. /\ i # 0 /\ subs' = table /\ due' = [due EXCEPT ![p] = 0] /\ clears' = clears + 1
      /\ IF next_time = subs[i].time /\ next # 0
         THEN Schedule(next_time, table[next].time) ELSE UNCHANGED clock
      /\ UNCHANGED <<phase, uif, stack>> /\ clears < MaxClears
  BY DEF Clear
<1>2. table \in Table
  BY VacateType DEF TInv
<1>3. next \in SlotIds \cup {0}
  BY <1>2, ClosestSlotType DEF Table, TInv
<1> HIDE DEF table, next
<1>4. next_time' \in Ticks /\ next_tick' \in 0..Period /\ cnt' \in 0..Period /\ current_time' \in Ticks
  <2>1. CASE next_time = subs[i].time /\ next # 0
    <3>1. table[next].time \in Ticks /\ next_time \in Ticks
      BY <1>2, <1>3, <2>1 DEF Table, TInv
    <3> QED
      BY <1>1, <2>1, <3>1, TInvIsType, ScheduleType
  <2>2. CASE ~(next_time = subs[i].time /\ next # 0)
    BY <1>1, <2>2 DEF clock, TInv
  <2> QED
    BY <2>1, <2>2
<1>5. due' \in [Pairs -> Int] /\ clears' \in 0..MaxClears
  BY <1>1, TimerAssumption DEF TInv
<1>6. TInv'
  BY <1>1, <1>2, <1>4, <1>5 DEF TInv
<1>7. ASSUME SInv PROVE SInv'
  <2>1. StoresKept
    BY <1>1 DEF StoresKept
  <2>2. \A j \in SlotIds : subs'[j].actor \in {subs[j].actor, Free}
    BY <1>1 DEF table, TInv, Table, Vacant
  <2> QED
    BY <1>6, <1>7, <2>1, <2>2, KeepsApart
<1> QED
  BY <1>6, <1>7

\* timer_advance accounts for the ticks a call has read.
LEMMA AdvanceInv ==
  ASSUME TInv, Advance
  PROVE  TInv' /\ (SInv => SInv')
<1>1. /\ At("advance") /\ stack # <<>> /\ phase' = "RUNNING" /\ cnt' = 0
      /\ current_time' = U32(current_time + Top.elapsed)
      /\ UNCHANGED <<uif, next_time, next_tick, subs, due, clears>>
      /\ Goto("notify", 1) \/ Goto("schedule", 1)
  BY DEF Advance, At
<1>2. Top \in FrameSet
  BY <1>1, PopType DEF TInv
<1>3. current_time' \in Ticks
  <2>1. current_time + Top.elapsed \in Int
    BY <1>2, TimerAssumption DEF TInv, FrameSet, Ticks
  <2> QED
    BY <1>1, <2>1, U32Type
<1>4. StackOK(stack') /\ StoresKept
  BY <1>1, GotoType, TimerAssumption DEF TInv, Pcs
<1>5. TInv'
  BY <1>1, <1>3, <1>4, NeverType DEF TInv
<1>6. ASSUME SInv PROVE SInv'
  BY <1>1, <1>4, <1>5, <1>6, KeepsApart
<1> QED
  BY <1>5, <1>6

\* An alarm rings: its slot is vacant, and its actor may set it anew.
LEMMA DeliverInv ==
  ASSUME TInv, NEW p \in Pairs, Deliver(p)
  PROVE  TInv' /\ (SInv => SInv')
<1>1. PICK i \in Expired(Top.slot) :
        /\ subs' = [subs EXCEPT ![i] = Vacant]
        /\ LET loop == [Top EXCEPT !.slot = i + 1]
               rearm == {TimeoutCall(Top.ctx, p, t) : t \in Timeouts}
           IN  \/ stack' = Append(Below, loop)
               \/ RearmInCallback /\ \E call \in rearm : stack' = Below \o <<loop, call>>
  BY DEF Deliver
<1> DEFINE loop == [Top EXCEPT !.slot = i + 1]
<1>2. /\ stack # <<>> /\ Top.pc = "notify" /\ due' = [due EXCEPT ![p] = 0]
      /\ UNCHANGED <<phase, clock, uif, clears>>
  BY DEF Deliver, At
<1>3. /\ Top \in FrameSet /\ FrameOK(Top) /\ StackOK(Below) /\ Len(Below) \in Nat
      /\ Len(Below) = Len(stack) - 1 /\ Len(stack) \in Nat \ {0}
      /\ \A k \in 1..Len(Below) : Below[k] = stack[k]
  BY <1>2, PopType DEF TInv
<1>4. i \in SlotIds
  BY DEF Expired
<1>5. loop \in FrameSet /\ FrameOK(loop) /\ loop.pc = "notify"
  <2>1. i + 1 \in 1..(Slots + 1)
    BY <1>4, TimerAssumption DEF SlotIds
  <2> QED
    BY <1>2, <1>3, <2>1 DEF FrameSet, FrameOK
<1> DEFINE looped == Append(Below, loop)
<1> HIDE DEF loop
<1>6. /\ StackOK(looped) /\ Len(looped) = Len(Below) + 1 /\ looped[Len(Below) + 1] = loop
      /\ \A k \in 1..Len(Below) : looped[k] = Below[k]
  BY <1>3, <1>5, PushType
<1> HIDE DEF looped
<1>7. \A k \in 1..Len(looped) : looped[k].pc = "store" =>
        k \in 1..Len(stack) /\ looped[k] = stack[k]
  <2> SUFFICES ASSUME NEW k \in 1..Len(looped), looped[k].pc = "store"
               PROVE  k \in 1..Len(stack) /\ looped[k] = stack[k]
    OBVIOUS
  <2>1. k # Len(Below) + 1
    BY <1>5, <1>6
  <2> QED
    BY <1>3, <1>6, <2>1
<1>8. StackOK(stack') /\ StoresKept
  <2>1. CASE stack' = looped
    BY <1>6, <1>7, <2>1 DEF StoresKept
  <2>2. CASE \E t \in Timeouts : stack' = Below \o <<loop, TimeoutCall(Top.ctx, p, t)>>
    <3>1. PICK t \in Timeouts : stack' = Below \o <<loop, TimeoutCall(Top.ctx, p, t)>>
      BY <2>2
    <3> DEFINE f == TimeoutCall(Top.ctx, p, t)
    <3>2. f \in FrameSet /\ FrameOK(f) /\ f.pc = "advance"
      <4>1. Top.ctx \in {"thread", "timer", "dma"}
        BY <1>3 DEF FrameSet
      <4> QED
        BY <4>1, TInvIsType, TimeoutCallType
    <3> HIDE DEF f
    <3>3. stack' = Append(looped, f)
      BY <1>3, <1>5, <3>1, <3>2 DEF looped, f, StackOK
    <3>4. /\ StackOK(stack') /\ Len(stack') = Len(looped) + 1 /\ Len(looped) \in Nat
          /\ stack'[Len(looped) + 1] = f /\ \A k \in 1..Len(looped) : stack'[k] = looped[k]
      BY <1>6, <3>2, <3>3, PushType
    <3>5. ASSUME NEW k \in 1..Len(stack'), stack'[k].pc = "store"
          PROVE  k \in 1..Len(stack) /\ stack'[k] = stack[k]
      <4>1. k \in 1..Len(looped)
        BY <3>2, <3>4, <3>5
      <4> QED
        BY <1>7, <3>4, <3>5, <4>1
    <3> QED
      BY <3>4, <3>5 DEF StoresKept
  <2>3. stack' = looped \/ \E t \in Timeouts : stack' = Below \o <<loop, TimeoutCall(Top.ctx, p, t)>>
    BY <1>1 DEF looped, loop
  <2> QED
    BY <2>1, <2>2, <2>3
<1>9. TInv'
  <2>1. subs' \in Table
    BY <1>1, VacateType DEF TInv
  <2>2. due' \in [Pairs -> Int]
    BY <1>2 DEF TInv
  <2> QED
    BY <1>2, <1>8, <2>1, <2>2 DEF TInv, clock
<1>10. ASSUME SInv PROVE SInv'
  <2>1. \A j \in SlotIds : subs'[j].actor \in {subs[j].actor, Free}
    BY <1>1 DEF TInv, Table, Vacant
  <2> QED
    BY <1>8, <1>9, <1>10, <2>1, KeepsApart
<1> QED
  BY <1>9, <1>10

\* timer_notify is through with the table.
LEMMA NotifiedInv ==
  ASSUME TInv, Notified
  PROVE  TInv' /\ (SInv => SInv')
<1> DEFINE next == ClosestSlot(subs, next_time)
<1>1. /\ stack # <<>> /\ AdvanceReturns /\ UNCHANGED <<uif, subs, due, clears>>
      /\ IF next = 0 THEN StopCounting
         ELSE Schedule(subs[next].time, subs[next].time) /\ UNCHANGED phase
  BY DEF Notified, At
<1>2. next \in SlotIds \cup {0}
  BY ClosestSlotType DEF TInv, Table
<1> HIDE DEF next
<1>3. /\ next_time' \in Ticks /\ next_tick' \in 0..Period /\ cnt' \in 0..Period
      /\ current_time' \in Ticks /\ phase' \in {"IDLE", "RUNNING"}
  <2>1. CASE next = 0
    BY <1>1, <2>1, NeverType DEF StopCounting, TInv
  <2>2. CASE next # 0
    <3>1. subs[next].time \in Ticks
      BY <1>2, <2>2 DEF TInv, Table
    <3>2. Schedule(subs[next].time, subs[next].time) /\ phase' = phase
      BY <1>1, <2>2
    <3> QED
      BY <3>1, <3>2, TInvIsType, ScheduleType DEF TInv
  <2> QED
    BY <2>1, <2>2
<1>4. StackOK(stack') /\ StoresKept
  BY <1>1, AdvanceReturnsType DEF TInv
<1>5. TInv'
  BY <1>1, <1>3, <1>4 DEF TInv
<1>6. ASSUME SInv PROVE SInv'
  BY <1>1, <1>4, <1>5, <1>6, KeepsApart
<1> QED
  BY <1>5, <1>6

\* No alarm was due.
LEMMA RescheduleInv ==
  ASSUME TInv, Reschedule
  PROVE  TInv' /\ (SInv => SInv')
<1>1. /\ stack # <<>> /\ AdvanceReturns /\ UNCHANGED <<phase, uif, subs, due, clears>>
      /\ Schedule(next_time, next_time)
  BY DEF Reschedule, At
<1>2. /\ next_time' \in Ticks /\ next_tick' \in 0..Period /\ cnt' \in 0..Period
      /\ current_time' \in Ticks
  BY <1>1, TInvIsType, ScheduleType DEF TInv
<1>3. StackOK(stack') /\ StoresKept
  BY <1>1, AdvanceReturnsType DEF TInv
<1>4. TInv'
  BY <1>1, <1>2, <1>3 DEF TInv
<1>5. ASSUME SInv PROVE SInv'
  BY <1>1, <1>3, <1>4, <1>5, KeepsApart
<1> QED
  BY <1>4, <1>5

\* The slot found is the pair's own, or vacant and the pair has none.
LEMMA FindInv ==
  ASSUME TInv, Find
  PROVE  TInv' /\ (SInv => SInv')
<1> DEFINE i == SlotFor(Top.pair)
<1>1. /\ stack # <<>> /\ Top.pc = "find" /\ IF i = 0 THEN stack' = Below ELSE Goto("store", i)
      /\ UNCHANGED <<phase, clock, uif, subs, due, clears>>
  BY DEF Find, At
<1>2. Top \in FrameSet /\ FrameOK(Top) /\ Top.op = "timeout" /\ Top.pair \in Pairs
  BY <1>1, PopType DEF TInv, FrameOK
<1>3. \/ i = 0
      \/ i \in SlotIds /\ subs[i].actor = Top.pair
      \/ i \in SlotIds /\ subs[i].actor = Free /\ ~Armed(Top.pair)
  BY <1>2, SlotForType
<1> HIDE DEF i
<1>4. CASE i = 0
  <2>1. StackOK(stack') /\ StoresKept
    BY <1>1, <1>4, ReturnType DEF TInv
  <2>2. TInv'
    BY <1>1, <2>1 DEF TInv, clock
  <2>3. ASSUME SInv PROVE SInv'
    BY <1>1, <2>1, <2>2, <2>3, KeepsApart
  <2> QED
    BY <2>2, <2>3
<1>5. CASE i # 0
  <2>1. i \in SlotIds /\ i \in 1..(Slots + 1)
    BY <1>3, <1>5, TimerAssumption DEF SlotIds
  <2>2. /\ StackOK(stack') /\ Len(stack') = Len(stack) /\ Top'.slot = i /\ Top'.pair = Top.pair
        /\ \A k \in 1..(Len(stack) - 1) : stack'[k] = stack[k]
    BY <1>1, <1>2, <1>5, <2>1, GotoType DEF TInv, Pcs
  <2>3. TInv'
    BY <1>1, <2>2 DEF TInv, clock
  <2>4. ASSUME SInv PROVE SInv'
    <3>1. ASSUME NEW j \in SlotIds, subs[j].actor = Top.pair PROVE j = i
      <4>1. Top.pair # Free
        BY <1>2, TimerAssumption
      <4> QED
        BY <1>3, <1>5, <2>4, <3>1, <4>1 DEF SInv, OneAlarmPerPair, Armed
    <3>2. ASSUME NEW k \in 1..Len(stack'), stack'[k].pc = "store",
                 NEW j \in SlotIds, subs'[j].actor = stack'[k].pair
          PROVE  j = stack'[k].slot
      <4>1. Len(stack) \in Nat
        BY DEF TInv, StackOK
      <4>2. CASE k = Len(stack)
        BY <1>1, <2>2, <3>1, <3>2, <4>2 DEF Top
      <4>3. CASE k # Len(stack)
        <5>1. k \in 1..Len(stack) /\ stack'[k] = stack[k] /\ subs' = subs
          BY <1>1, <2>2, <3>2, <4>1, <4>3
        <5> QED
          BY <2>4, <3>2, <5>1 DEF SInv, Chosen
      <4> QED
        BY <4>2, <4>3
    <3> QED
      BY <1>1, <2>4, <3>2 DEF SInv, Chosen, OneAlarmPerPair
  <2> QED
    BY <2>3, <2>4
<1> QED
  BY <1>4, <1>5

\* Storing in that slot leaves the pair one alarm.
LEMMA StoreInv ==
  ASSUME TInv, Store
  PROVE  TInv' /\ (SInv /\ StoresApart => SInv')
<1> DEFINE i == Top.slot
           time == U32(current_time + Top.timeout)
           table == [subs EXCEPT ![i] = [actor |-> Top.pair, time |-> time]]
           next == ClosestSlot(table, next_time)
           target == IF subs[i].time # 0 /\ subs[i].time <= time /\ next # 0
                     THEN table[next].time ELSE time
<1>1. /\ stack # <<>> /\ Top.pc = "store" /\ stack' = Below /\ subs' = table
      /\ due' = [due EXCEPT ![Top.pair] = Top.timeout]
      /\ Schedule(next_time, target) \/ UNCHANGED clock
      /\ UNCHANGED <<phase, uif, clears>>
  BY DEF Store, At
<1>2. /\ Top \in FrameSet /\ FrameOK(Top) /\ Top.pair \in Pairs /\ Top.timeout \in Timeouts
      /\ i \in SlotIds /\ Len(stack) \in Nat \ {0} /\ Top = stack[Len(stack)]
      /\ Len(Below) = Len(stack) - 1
  BY <1>1, PopType DEF TInv, FrameOK, Top
<1>3. Top.timeout \in Int /\ time \in Ticks
  <2> HIDE DEF i
  <2>1. Top.timeout \in Int
    <3>1. \A t \in Timeouts : t \in Int
      BY TimerAssumption
    <3> QED
      BY <1>2, <3>1
  <2>2. current_time + Top.timeout \in Int
    BY <2>1, TimerAssumption DEF TInv, Ticks
  <2> QED
    BY <2>1, <2>2, U32Type
<1>4. table \in Table
  BY <1>2, <1>3 DEF Table, TInv
<1>5. next \in SlotIds \cup {0}
  BY <1>4, ClosestSlotType DEF Table, TInv
<1>6. target \in Ticks
  BY <1>3, <1>4, <1>5 DEF Table
<1> HIDE DEF target, next
<1>7. /\ next_time' \in Ticks /\ next_tick' \in 0..Period /\ cnt' \in 0..Period
      /\ current_time' \in Ticks
  BY <1>1, <1>6, TInvIsType, ScheduleType DEF TInv, clock
<1>8. StackOK(stack') /\ StoresKept
  BY <1>1, ReturnType DEF TInv
<1>9. TInv'
  <2>1. due' \in [Pairs -> Int]
    BY <1>1, <1>3 DEF TInv
  <2> HIDE DEF table
  <2> QED
    BY <1>1, <1>4, <1>7, <1>8, <2>1 DEF TInv
<1>10. ASSUME SInv, StoresApart PROVE SInv'
  <2>1. \A j \in SlotIds : subs'[j].actor = IF j = i THEN Top.pair ELSE subs[j].actor
    BY <1>1 DEF TInv, Table
  <2>2. \A j \in SlotIds : subs[j].actor = Top.pair => j = i
    BY <1>1, <1>2, <1>10 DEF SInv, Chosen
  <2>3. OneAlarmPerPair'
    BY <2>1, <2>2, <1>10 DEF SInv, OneAlarmPerPair
  <2>4. ASSUME NEW k \in 1..Len(stack'), stack'[k].pc = "store",
               NEW j \in SlotIds, subs'[j].actor = stack'[k].pair
        PROVE  j = stack'[k].slot
    <3>1. k \in 1..Len(stack) /\ stack'[k] = stack[k] /\ k # Len(stack)
      BY <1>1, <1>2, <1>8, <2>4 DEF StoresKept
    <3>2. stack[k].pair # Top.pair
      BY <1>1, <1>2, <1>10, <2>4, <3>1 DEF StoresApart
    <3>3. subs[j].actor = stack[k].pair
      BY <2>1, <2>4, <3>1, <3>2
    <3> QED
      BY <1>10, <2>4, <3>1, <3>3 DEF SInv, Chosen
  <2> QED
    BY <2>3, <2>4 DEF SInv, Chosen
<1> QED
  BY <1>9, <1>10

-----------------------------------------------------------------------------
\* Every step keeps the types and, from stores that are apart, the pairs' slots.
LEMMA NextInv ==
  ASSUME TInv, [Next]_vars
  PROVE  TInv' /\ (SInv /\ StoresApart => SInv')
<1>1. CASE UNCHANGED vars
  BY <1>1 DEF vars, TInv, SInv, Chosen, OneAlarmPerPair
<1>2. CASE Step
  BY <1>2, AdvanceInv, DeliverInv, NotifiedInv, RescheduleInv, FindInv, StoreInv DEF Step
<1> QED
  BY <1>1, <1>2, TickInv, InterruptInv, TimeoutInv, ClearInv DEF Next

\* The clock stays within its word, the counter within its period, and a call in
\* progress holds a subscription of the table, in whatever contexts calls are made.
THEOREM TypeCorrect == Spec => []TypeOK
<1>1. Init => TInv
  BY InitiallyAlone
<1>2. TInv /\ [Next]_vars => TInv'
  BY NextInv
<1> QED
  BY <1>1, <1>2, TInvIsType, PTL DEF Spec

\* timer.h:59 "per actor/argument pair": in whatever contexts calls are made, whenever
\* the counter moves and however subscribers set their alarms again from inside the
\* notification loop, a pair comes to hold two subscriptions only when a call for it has
\* interrupted another one between the search for the slot and the store (timer.c:352-371).
THEOREM PairsHaveOneAlarm == Spec /\ []StoresApart => []OneAlarmPerPair
<1>1. Init => TInv /\ SInv
  BY InitiallyAlone
<1>2. TInv /\ SInv /\ StoresApart /\ [Next]_vars => (TInv /\ SInv)'
  BY NextInv
<1>3. SInv => OneAlarmPerPair
  BY DEF SInv
<1> QED
  BY <1>1, <1>2, <1>3, PTL DEF Spec
=============================================================================

------------------------------- MODULE Timer --------------------------------
(***************************************************************************)
(* The software alarm multiplexer of actor_cm3 (module/timer.c): one       *)
(* hardware up-counter serves a fixed table of alarms.  The counter, its   *)
(* update flag and the interrupt priorities are the hardware around it.    *)
(*                                                                         *)
(* Calls run in three contexts that preempt each other: threads, the timer *)
(* interrupt (priority 12) and DMA interrupts (priority 10, SPI's          *)
(* completion path).  `stack' holds the calls in progress, innermost last. *)
(* A call made by a subscriber from inside its TIMEOUT callback is pushed  *)
(* on the notification loop that made the callback.                        *)
(***************************************************************************)
EXTENDS Integers, Sequences, FiniteSets

CONSTANTS
  Pairs,            \* actor/argument pairs that set alarms
  Free,             \* the NULL actor of an unused subscription
  Slots,            \* properties->initial_subscriptions_count
  Period,           \* properties->period, the auto-reload value
  Word,             \* the number of values of a uint32_t
  Timeouts,         \* the delays callers ask for, in ticks
  MaxLate,          \* bound: the lateness of an alarm is counted up to this
  StartTimes,       \* current_time when the run begins
  DmaCalls,         \* are calls also made from DMA interrupts?
  RearmInCallback,  \* does a subscriber set its alarm again when it rings?
  MaxClears,        \* bound: module_timer_clear is called at most so often
  TicksInCalls      \* may the counter move while a call is in progress?

ASSUME TimerAssumption ==
  /\ Slots \in Nat \ {0}
  /\ Period \in Nat \ {0}
  /\ Word \in Nat /\ Word > 2 * Period
  /\ Timeouts \subseteq 1..(Word - 1)
  /\ MaxLate \in Nat \ {0}
  /\ StartTimes \subseteq 0..(Word - 1)
  /\ Free \notin Pairs
  /\ MaxClears \in Nat
  /\ {DmaCalls, RearmInCallback, TicksInCalls} \subseteq BOOLEAN

VARIABLES
  phase,        \* the timer's actor phase: ACTOR_IDLE or ACTOR_RUNNING
  cnt,          \* the hardware counter; it moves while the phase is RUNNING
  uif,          \* the update flag: an overflow the interrupt has not served
  current_time, next_time, next_tick,
  subs,         \* the subscription table
  stack,        \* calls in progress
  due,          \* ghost: ticks until the pair's alarm is due, < 0 when late
  clears        \* ghost: calls of module_timer_clear so far

vars == <<phase, cnt, uif, current_time, next_time, next_tick, subs, stack, due, clears>>
clock == <<current_time, next_time, next_tick, cnt>>

Ticks == 0..(Word - 1)
U32(x) == x % Word
S32(x) == LET u == U32(x) IN IF u >= Word \div 2 THEN u - Word ELSE u
Never == Word - 1                    \* (uint32_t) -1
SlotIds == 1..Slots
Vacant == [actor |-> Free, time |-> 0]

Armed(p) == \E i \in SlotIds : subs[i].actor = p
NoneArmed == \A i \in SlotIds : subs[i].actor = Free

-----------------------------------------------------------------------------
\* Choosing subscriptions

\* The armed slot whose time is closest to `next' by signed distance, or 0.
\* A distance of INT32_MAX never beats the initial difference.
ClosestSlot(table, next) ==
  LET d(i) == S32(table[i].time - next)
      C == {i \in SlotIds : table[i].actor # Free /\ d(i) < (Word \div 2) - 1}
  IN  IF C = {} THEN 0
      ELSE CHOOSE i \in C : \A j \in C : d(i) < d(j) \/ (d(i) = d(j) /\ i <= j)

\* A bug to catch: the first vacant slot wins over the pair's own
SlotForAnyVacant(p) ==
  LET mine == {i \in SlotIds : subs[i].actor \in {p, Free}}
  IN  IF mine = {} THEN 0 ELSE CHOOSE i \in mine : \A j \in mine : i <= j

\* The pair's own slot if it has one, else the first vacant one, else 0
SlotFor(p) ==
  LET Least(S) == CHOOSE i \in S : \A j \in S : i <= j
      mine == {i \in SlotIds : subs[i].actor = p}
      vacant == {i \in SlotIds : subs[i].actor = Free}
  IN  IF mine # {} THEN Least(mine) ELSE IF vacant # {} THEN Least(vacant) ELSE 0

\* A bug to catch: an alarm that rings at this very tick is not expired
ExpiredStrictly(i) == {j \in SlotIds : /\ j >= i
                                       /\ subs[j].actor # Free
                                       /\ S32(subs[j].time - current_time) < 0}


\* Alarms that have expired, from slot i on
Expired(i) == {j \in SlotIds : /\ j >= i
                               /\ subs[j].actor # Free
                               /\ S32(subs[j].time - current_time) <= 0}

-----------------------------------------------------------------------------
\* The call stack

Frame(ctx, op, p, t, elapsed) ==
  [ctx |-> ctx, op |-> op, pc |-> "advance", pair |-> p, timeout |-> t,
   elapsed |-> elapsed, slot |-> 1]

Top == stack[Len(stack)]
Below == SubSeq(stack, 1, Len(stack) - 1)
At(pc) == stack # <<>> /\ Top.pc = pc
Goto(pc, i) == stack' = Append(Below, [Top EXCEPT !.pc = pc, !.slot = i])


\* A call of module_timer_timeout: its first act is to read the counter
TimeoutCall(ctx, p, t) ==
  Frame(ctx, "timeout", p, t, U32(cnt - (Period - next_tick)))

\* The end of timer_advance: the interrupt is over, module_timer_timeout goes on
AdvanceReturns == IF Top.op = "timeout" THEN Goto("find", 1) ELSE stack' = Below

\* A context starts only where it preempts what is running.  A pending timer
\* interrupt preempts every thread, a DMA interrupt preempts the timer's too.
MayStart(ctx) ==
  CASE ctx = "thread" -> stack = <<>> /\ ~uif
    [] ctx = "timer"  -> uif /\ \A i \in DOMAIN stack : stack[i].ctx = "thread"
    [] ctx = "dma"    -> DmaCalls /\ \A i \in DOMAIN stack : stack[i].ctx # "dma"

-----------------------------------------------------------------------------
\* A bug to catch: the planned tick is not limited to a period
ScheduleUnlimited(scheduled, target) ==
  LET next == IF scheduled > target THEN target ELSE scheduled
      diff == U32(next - current_time)
  IN  /\ next_time' = next
      /\ next_tick' = diff
      /\ cnt' = IF diff < Period THEN Period - diff ELSE cnt
      /\ UNCHANGED current_time

\* timer_schedule: aim the counter at the earlier of the two times
Schedule(scheduled, target) ==
  LET next == IF scheduled > target THEN target ELSE scheduled
      diff == U32(next - current_time)
  IN  /\ next_time' = next
      /\ next_tick' = IF diff < Period THEN diff ELSE Period
      /\ cnt' = IF diff < Period THEN Period - diff ELSE cnt
      /\ UNCHANGED current_time

\* timer_on_phase(ACTOR_IDLE): timer_stop_counting
StopCounting ==
  /\ phase' = "IDLE"
  /\ next_time' = Never
  /\ next_tick' = Period
  /\ UNCHANGED <<current_time, cnt>>

-----------------------------------------------------------------------------
\* Hardware: a tick passes; the counter overflows after reaching Period
Tick ==
  /\ TicksInCalls \/ (stack = <<>> /\ ~uif)
  /\ due' = [p \in Pairs |-> IF Armed(p) /\ due[p] > -MaxLate THEN due[p] - 1
                                                             ELSE due[p]]
  /\ IF phase = "RUNNING"
     THEN /\ cnt' = IF cnt >= Period THEN 0 ELSE cnt + 1
          /\ uif' = (uif \/ cnt >= Period)
     ELSE UNCHANGED <<cnt, uif>>
  /\ UNCHANGED <<phase, current_time, next_time, next_tick, subs, stack, clears>>

\* timer_interrupt: acknowledge the overflow and advance by the planned tick
Interrupt ==
  /\ MayStart("timer")
  /\ uif' = FALSE
  /\ stack' = Append(stack, Frame("timer", "interrupt", Free, 0, next_tick))
  /\ UNCHANGED <<phase, clock, subs, due, clears>>

\* module_timer_timeout is called
Timeout(ctx, p, t) ==
  /\ MayStart(ctx)
  /\ stack' = Append(stack, TimeoutCall(ctx, p, t))
  /\ UNCHANGED <<phase, clock, uif, subs, due, clears>>

\* module_timer_clear.  It takes the first vacant slot when the pair has none,
\* and does not bring current_time up to date before it schedules.
Clear(ctx, p) ==
  /\ clears < MaxClears /\ MayStart(ctx)
  /\ LET i == SlotFor(p)
         table == [subs EXCEPT ![i] = Vacant]
         next == ClosestSlot(table, next_time)
     IN  /\ i # 0
         /\ subs' = table
         /\ IF next_time = subs[i].time /\ next # 0
            THEN Schedule(next_time, table[next].time)
            ELSE UNCHANGED clock
  /\ due' = [due EXCEPT ![p] = 0]
  /\ clears' = clears + 1
  /\ UNCHANGED <<phase, uif, stack>>

\* timer_advance, entry: start the counter and account for the elapsed time
Advance ==
  /\ At("advance")
  /\ phase' = "RUNNING"
  /\ current_time' = U32(current_time + Top.elapsed)
  /\ cnt' = 0
  /\ Goto(IF next_time <= current_time' THEN "notify" ELSE "schedule", 1)
  /\ UNCHANGED <<uif, next_time, next_tick, subs, due, clears>>

\* timer_notify, one expired subscription: vacate the slot, signal the actor,
\* which may set its alarm again before it returns
Deliver(p) ==
  /\ At("notify")
  /\ \E i \in Expired(Top.slot) :
       /\ \A j \in Expired(Top.slot) : i <= j
       /\ subs[i].actor = p
       /\ subs' = [subs EXCEPT ![i] = Vacant]
       /\ LET loop == [Top EXCEPT !.slot = i + 1]
              rearm == {TimeoutCall(Top.ctx, p, t) : t \in Timeouts}
          IN  \/ stack' = Append(Below, loop)
              \/ RearmInCallback /\ \E call \in rearm : stack' = Below \o <<loop, call>>
  /\ due' = [due EXCEPT ![p] = 0]
  /\ UNCHANGED <<phase, clock, uif, clears>>

\* timer_advance after timer_notify: stop, or aim at the next subscription
Notified ==
  /\ At("notify") /\ Expired(Top.slot) = {}
  /\ LET next == ClosestSlot(subs, next_time)
     IN  IF next = 0
         THEN StopCounting
         ELSE Schedule(subs[next].time, subs[next].time) /\ UNCHANGED phase
  /\ AdvanceReturns
  /\ UNCHANGED <<uif, subs, due, clears>>

\* timer_advance when no alarm was due
Reschedule ==
  /\ At("schedule")
  /\ Schedule(next_time, next_time)
  /\ AdvanceReturns
  /\ UNCHANGED <<phase, uif, subs, due, clears>>

\* module_timer_timeout: find the slot, ACTOR_SIGNAL_OUT_OF_MEMORY when full
Find ==
  /\ At("find")
  /\ LET i == SlotFor(Top.pair)
     IN  IF i = 0 THEN stack' = Below ELSE Goto("store", i)
  /\ UNCHANGED <<phase, clock, uif, subs, due, clears>>

\* module_timer_timeout: fill the slot, reschedule if it was the next to ring
Store ==
  /\ At("store")
  /\ LET i == Top.slot
         time == U32(current_time + Top.timeout)
         old == subs[i].time
         table == [subs EXCEPT ![i] = [actor |-> Top.pair, time |-> time]]
         was_next == next_time = Never \/ next_time = old
         was_closer == old # 0 /\ old <= time
         next == ClosestSlot(table, next_time)
     IN  /\ subs' = table
         /\ IF was_next
            THEN Schedule(next_time, IF was_closer /\ next # 0 THEN table[next].time ELSE time)
            ELSE UNCHANGED clock
  /\ due' = [due EXCEPT ![Top.pair] = Top.timeout]
  /\ stack' = Below
  /\ UNCHANGED <<phase, uif, clears>>

-----------------------------------------------------------------------------
\* timer_construct and timer_start: no subscription, so the timer is idle
Init ==
  /\ phase = "IDLE" /\ cnt = 0 /\ uif = FALSE
  /\ current_time \in StartTimes
  /\ next_time = Never /\ next_tick = Period
  /\ subs = [i \in SlotIds |-> Vacant]
  /\ stack = <<>>
  /\ due = [p \in Pairs |-> 0]
  /\ clears = 0

Step == Advance \/ (\E p \in Pairs : Deliver(p)) \/ Notified \/ Reschedule \/ Find \/ Store

Callers == {"thread", "dma"}

Next ==
  \/ Tick
  \/ Interrupt
  \/ \E ctx \in Callers, p \in Pairs, t \in Timeouts : Timeout(ctx, p, t)
  \/ \E ctx \in Callers, p \in Pairs : Clear(ctx, p)
  \/ Step

Spec == Init /\ [][Next]_vars

\* Time passes, the interrupt controller serves a pending request, and a call
\* in progress runs on: the code in it never blocks.
FairSpec == Spec /\ SF_vars(Tick) /\ WF_vars(Interrupt) /\ WF_vars(Step)

-----------------------------------------------------------------------------
FrameSet ==
  [ctx : {"thread", "timer", "dma"}, op : {"interrupt", "timeout"},
   pc : {"advance", "notify", "schedule", "find", "store"},
   pair : Pairs \cup {Free}, timeout : Timeouts \cup {0},
   elapsed : Ticks, slot : 1..(Slots + 1)]

FrameOK(f) ==
  /\ f.op = "timeout" => f.pair \in Pairs /\ f.timeout \in Timeouts
  /\ f.pc \in {"find", "store"} => f.op = "timeout"
  /\ f.pc = "store" => f.slot \in SlotIds

TypeOK ==
  /\ phase \in {"IDLE", "RUNNING"}
  /\ cnt \in 0..Period
  /\ uif \in BOOLEAN
  /\ current_time \in Ticks /\ next_time \in Ticks
  /\ next_tick \in 0..Period
  /\ subs \in [SlotIds -> [actor : Pairs \cup {Free}, time : Ticks]]
  /\ stack \in Seq(FrameSet)
  /\ \A i \in DOMAIN stack : FrameOK(stack[i])
  /\ due \in [Pairs -> Int]
  /\ clears \in 0..MaxClears

\* timer.h:59 "per actor/argument pair": a pair never holds two subscriptions,
\* so a second timeout updates its alarm and a clear removes all of it.
OneAlarmPerPair ==
  \A i, j \in SlotIds : subs[i].actor # Free /\ subs[i].actor = subs[j].actor => i = j

\* timer.h:59 "start timer if needed": once no call is in progress, the counter
\* runs whenever an alarm is pending; otherwise it would never ring.
CountingWhileArmed == stack = <<>> /\ ~NoneArmed => phase = "RUNNING"

\* The time the timer believes it is: what a synchronisation would compute now
ClockReading ==
  IF uif THEN U32(current_time + next_tick)
         ELSE U32(current_time + (cnt - (Period - next_tick)))


\* timer.h:59 "from now": ACTOR_SIGNAL_TIMEOUT is never sent to a pair before
\* the delay it asked for has passed, whatever other alarms were set meanwhile.
NeverEarly == [][\A p \in Pairs : Deliver(p) => due[p] <= 0]_vars

\* While the counter runs, every alarm is delivered, cleared or set anew: none
\* stays overdue for good.
AlarmsRing == \A p \in Pairs : []<>~(Armed(p) /\ due[p] = -MaxLate /\ phase = "RUNNING")

\* timer.h:59-63: the timer implements the alarm service.  An alarm leaves the
\* table by ringing in time or by being cleared, one pair at a time.
Service == INSTANCE AlarmService WITH
  left <- [p \in Pairs |-> IF ~Armed(p) THEN -1 ELSE IF due[p] > 0 THEN due[p] ELSE 0]
ServiceSpec == Service!Spec
=============================================================================

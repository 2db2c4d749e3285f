---------------------------- MODULE AlarmService ----------------------------
(***************************************************************************)
(* What the timer module promises its callers (module/timer.h:59-63): each *)
(* actor/argument pair owns at most one alarm; the alarm is delivered once *)
(* and not before the requested number of ticks has passed; it can be set  *)
(* again or cleared while it is pending.                                   *)
(***************************************************************************)
EXTENDS Integers

CONSTANTS Pairs,       \* actor/argument pairs
          Timeouts     \* the delays callers ask for, in ticks

Off == -1              \* no alarm is pending for the pair

VARIABLES left,        \* ticks that must still pass before the alarm may ring
          clears       \* alarms that their owners have cleared

vars == <<left, clears>>

Init == left = [p \in Pairs |-> Off] /\ clears = 0

\* module_timer_timeout: set or update the alarm
Set(p) == /\ \E t \in Timeouts : left' = [left EXCEPT ![p] = t]
          /\ UNCHANGED clears

\* module_timer_clear
Clear(p) == /\ left' = [left EXCEPT ![p] = Off]
            /\ clears' = clears + 1

\* ACTOR_SIGNAL_TIMEOUT is sent to the actor
Ring(p) == /\ left[p] = 0
           /\ left' = [left EXCEPT ![p] = Off]
           /\ UNCHANGED clears

\* One tick passes
Elapse == /\ left' = [p \in Pairs |-> IF left[p] > 0 THEN left[p] - 1 ELSE left[p]]
          /\ UNCHANGED clears

Next == Elapse \/ \E p \in Pairs : Set(p) \/ Clear(p) \/ Ring(p)

Spec == Init /\ [][Next]_vars
=============================================================================

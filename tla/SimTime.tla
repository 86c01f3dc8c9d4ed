------------------------------- MODULE SimTime -------------------------------
(***************************************************************************)
(* The simulated clock (crates/stratamoto-dst/src/time/mod.rs and          *)
(* timer.rs): a clock that stands still until advance moves it to the      *)
(* earliest timer.  advance fires every callback that is due before it     *)
(* sets the clock, so it is given here step by step: firing is the time it *)
(* has taken from the heap.                                                *)
(*                                                                         *)
(* A timer is its deadline and its callback, which wakes a task or hands a *)
(* message to an endpoint.  Timers are a set: two that are equal wake the  *)
(* same task twice in one advance, which is waking it once.                *)
(***************************************************************************)
EXTENDS Integers

VARIABLES
  clock,    \* Clock.advance, the time since the base
  timer,    \* Timer.queue
  firing    \* the time advance is firing, or Idle

time_vars == <<clock, timer, firing>>

Idle  == -1   \* advance is not running
Never == -1   \* the deadline of a wait that has none

TimeInit == clock = 0 /\ timer = {} /\ firing = Idle

Event(deadline, callback) == [deadline |-> deadline, callback |-> callback]

\* Mutant: the time given is taken for a deadline.
AfterFromZero(duration) == duration

\* self.clock.now() + duration: how every deadline is made in sleep, timeout and send.  add_timer
\* and sleep_until are public and take any deadline; sleep_until adds no timer for one that has
\* passed, add_timer does, and nothing in the repository asks it to.
After(duration) == clock + duration

\* next_time: the earliest deadline, which the heap's reversed order has at its top.
AdvanceBegins ==
  /\ \E e \in timer :
       /\ \A other \in timer : e.deadline <= other.deadline
       /\ firing' = e.deadline
  /\ UNCHANGED <<clock, timer>>

\* fire: the heap orders events by deadline alone, so those of one time come in any order.
Due == {e \in timer : e.deadline <= firing}

\* Mutant: the event is looked at and not taken off the heap.
FireEventKept(e) ==
  /\ e \in Due
  /\ UNCHANGED <<clock, timer, firing>>

FireEvent(e) ==
  /\ e \in Due
  /\ timer' = timer \ {e}
  /\ UNCHANGED <<clock, firing>>

\* Mutant: the clock is not set.
AdvanceEndsClockLeft ==
  /\ firing # Idle /\ Due = {}
  /\ firing' = Idle
  /\ UNCHANGED <<clock, timer>>

AdvanceEnds ==
  /\ firing # Idle /\ Due = {}
  /\ clock' = firing
  /\ firing' = Idle
  /\ UNCHANGED timer
=============================================================================

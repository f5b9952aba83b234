------------------------------ MODULE TimerQueue ------------------------------
(***************************************************************************)
(* What the timers of an event loop promise, without the array that keeps  *)
(* them (untitled/src/event-loop.c, struct wl_timer_heap).  All the timers *)
(* of a loop share one kernel timerfd; the loop only wakes up for a timer  *)
(* when that timerfd expires.  TimerHeap.tla is the array the code uses    *)
(* and implements this module; EventLoop.tla is built on it.               *)
(*                                                                         *)
(* Time is CLOCK_MONOTONIC in ticks.  It starts at 1 so that 0 can stand,  *)
(* as in the code, for "no deadline" and for a cleared timerfd.            *)
(***************************************************************************)
EXTENDS Naturals, Sequences, FiniteSets

CONSTANTS Timers,   \* the timer sources of the loop
          MaxTime   \* bound on the clock and on deadlines

ASSUME TimersAssumption  == IsFiniteSet(Timers)
ASSUME MaxTimeAssumption == MaxTime \in Nat

VARIABLES deadline,  \* deadline[t]: when armed timer t is due, 0 when disarmed
          timerfd,   \* expiry of the shared timerfd, 0 when it is cleared
          now,       \* CLOCK_MONOTONIC
          expired    \* timers taken off the queue whose function is still to run

timerVars == <<deadline, timerfd, now, expired>>

-----------------------------------------------------------------------------

ArmedIn(d) == {t \in Timers : d[t] # 0}

(* The timers that may be at the root of the heap: those due first.        *)
FirstIn(d) == {t \in ArmedIn(d) : \A u \in ArmedIn(d) : d[t] <= d[u]}

Due == {t \in ArmedIn(deadline) : deadline[t] <= now}

(* The orders in which the due timers can leave the heap: earlier          *)
(* deadlines first, ties either way.                                       *)
DueOrders ==
  {o \in [1..Cardinality(Due) -> Due] :
     /\ \A t \in Due : \E i \in DOMAIN o : o[i] = t
     /\ \A i, j \in DOMAIN o : i < j => deadline[o[i]] <= deadline[o[j]]}

-----------------------------------------------------------------------------

TimerInit ==
  /\ deadline = [t \in Timers |-> 0]
  /\ timerfd = 0
  /\ now = 1
  /\ expired = <<>>

(* wl_event_source_timer_update(t, ms_delay > 0).  The timerfd is set only *)
(* when t ends up at the root; of several timers due first, any can be.    *)
Arm(t, delay) ==
  LET d == [deadline EXCEPT ![t] = now + delay]
  IN  /\ now + delay <= MaxTime
      /\ deadline' = d
      /\ \/ t \in FirstIn(d) /\ timerfd' = now + delay
         \/ FirstIn(d) # {t} /\ timerfd' = timerfd
      /\ UNCHANGED <<now, expired>>

(* Faulty: clears the timerfd with any timer.                              *)
DisarmClearsTimerfd(t) ==
  /\ deadline[t] # 0
  /\ deadline' = [deadline EXCEPT ![t] = 0]
  /\ timerfd' = 0
  /\ UNCHANGED <<now, expired>>

(* Faulty: forgets the timerfd of the last timer.                          *)
DisarmLeavesTimerfd(t) ==
  /\ deadline[t] # 0
  /\ deadline' = [deadline EXCEPT ![t] = 0]
  /\ UNCHANGED <<timerfd, now, expired>>

(* wl_event_source_timer_update(t, 0) on an armed timer.  The timerfd is   *)
(* cleared with the last one and otherwise left, perhaps too early.        *)
Disarm(t) ==
  LET d == [deadline EXCEPT ![t] = 0]
  IN  /\ deadline[t] # 0
      /\ deadline' = d
      /\ timerfd' = IF ArmedIn(d) = {} THEN 0 ELSE timerfd
      /\ UNCHANGED <<now, expired>>

(* Faulty: does not move the timerfd to the next deadline.                 *)
CollectClearsTimerfd ==
  /\ expired = <<>>
  /\ timerfd # 0 /\ timerfd <= now
  /\ expired' \in DueOrders
  /\ deadline' = [t \in Timers |-> IF t \in Due THEN 0 ELSE deadline[t]]
  /\ timerfd' = 0
  /\ UNCHANGED now

(* The first half of wl_timer_heap_dispatch: every due timer is disarmed   *)
(* and queued, then the timerfd is moved to the next deadline, before any  *)
(* function runs.                                                          *)
Collect ==
  LET d == [t \in Timers |-> IF t \in Due THEN 0 ELSE deadline[t]]
  IN  /\ expired = <<>>
      /\ timerfd # 0 /\ timerfd <= now
      /\ expired' \in DueOrders
      /\ deadline' = d
      /\ \/ ArmedIn(d) = {} /\ timerfd' = 0
         \/ \E t \in FirstIn(d) : timerfd' = d[t]
      /\ UNCHANGED now

(* The second half: the function of the next collected timer runs.         *)
Fire ==
  /\ expired # <<>>
  /\ expired' = Tail(expired)
  /\ UNCHANGED <<deadline, timerfd, now>>

Tick ==
  /\ now < MaxTime
  /\ now' = now + 1
  /\ UNCHANGED <<deadline, timerfd, expired>>

TimerNext ==
  \/ \E t \in Timers : Disarm(t) \/ \E delay \in 1..MaxTime : Arm(t, delay)
  \/ Collect
  \/ Fire
  \/ Tick

TimerSpec == TimerInit /\ [][TimerNext]_timerVars

-----------------------------------------------------------------------------

TimerTypeOK ==
  /\ deadline \in [Timers -> 0..MaxTime]
  /\ timerfd \in 0..MaxTime
  /\ now \in Nat \ {0}
  /\ expired \in Seq(Timers)

(* No wake-up is ever lost: while a timer is armed the shared timerfd is   *)
(* set, to a moment no later than that timer's deadline, however arming,   *)
(* re-arming to a later time, disarming and dispatching interleave.        *)
TimerfdCovers ==
  \A t \in ArmedIn(deadline) : timerfd # 0 /\ timerfd <= deadline[t]

(* No busy loop: when nothing is armed the timerfd is cleared, so that     *)
(* epoll_wait is not woken again and again for an empty queue.             *)
TimerfdClearedWhenIdle == ArmedIn(deadline) = {} => timerfd = 0
=============================================================================

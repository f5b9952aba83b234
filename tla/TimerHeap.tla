------------------------------- MODULE TimerHeap -------------------------------
(***************************************************************************)
(* The binary heap in which an event loop keeps its timers                 *)
(* (untitled/src/event-loop.c, struct wl_timer_heap): an array of pointers *)
(* to the armed timers, each of which remembers its own index, with room   *)
(* reserved for every timer that exists.  Implements TimerQueue.           *)
(***************************************************************************)
EXTENDS Integers, Sequences, FiniteSets

CONSTANTS Timers, MaxTime,
          FirstSpace,  \* slots of the first allocation, 8 in the code
          NULL         \* an unused slot

VARIABLES data,      \* data[i], i \in 0..space-1: the slots of the array
          active,    \* how many slots are in use
          count,     \* how many timers exist
          heap_idx,  \* heap_idx[t]: the slot of t, -1 when it is disarmed
          deadline,  \* deadline[t]: when t is due, 0 when it is disarmed
          created,   \* the timers that exist (added and not removed)
          timerfd, now, expired

heapVars == <<data, active, count, heap_idx, deadline, created>>
vars == <<data, active, count, heap_idx, deadline, created, timerfd, now, expired>>

Space(array) == Cardinality(DOMAIN array)

-----------------------------------------------------------------------------
(* A heap as the sift loops see it: its slots, and where each timer thinks *)
(* it is.  heap_set moves a timer and leaves its old slot as it was.       *)

heap_set(h, t, i) ==
  [h EXCEPT !.data[i] = t, !.idx[t] = i]

RECURSIVE SiftUpFrom(_, _, _, _)
SiftUpFrom(h, d, t, cursor) ==
  LET parent == h.data[(cursor - 1) \div 2]
  IN  IF cursor > 0 /\ d[t] < d[parent]
      THEN SiftUpFrom(heap_set(h, parent, cursor), d, t, (cursor - 1) \div 2)
      ELSE heap_set(h, t, cursor)

heap_sift_up(h, d, t) == SiftUpFrom(h, d, t, h.idx[t])

EarlierChild(h, d, n, cursor) ==
  LET l == 2 * cursor + 1
  IN  IF l + 1 < n /\ d[h.data[l + 1]] < d[h.data[l]]
      THEN h.data[l + 1] ELSE h.data[l]

(* The child moves up to the cursor and the cursor to the child's slot.    *)
RECURSIVE SiftDownFrom(_, _, _, _, _)
SiftDownFrom(h, d, n, t, cursor) ==
  IF 2 * cursor + 1 < n /\ d[EarlierChild(h, d, n, cursor)] < d[t]
  THEN LET child == EarlierChild(h, d, n, cursor)
       IN  SiftDownFrom(heap_set(h, child, cursor), d, n, t, h.idx[child])
  ELSE heap_set(h, t, cursor)

heap_sift_down(h, d, n, t) == SiftDownFrom(h, d, n, t, h.idx[t])

(* Faulty: the last timer is only ever moved down.                         *)
disarmDownOnly(h, d, n, t) ==
  LET at   == h.idx[t]
      last == h.data[n - 1]
      cut  == [data |-> [h.data EXCEPT ![n - 1] = NULL], idx |-> [h.idx EXCEPT ![t] = -1]]
  IN  IF at = n - 1 THEN cut ELSE heap_sift_down(heap_set(cut, last, at), d, n - 1, last)

(* Takes an armed timer off the heap: the last one takes its slot and is   *)
(* moved to its place, down or up.                                         *)
disarm(h, d, n, t) ==
  LET at   == h.idx[t]
      last == h.data[n - 1]
      cut  == [data |-> [h.data EXCEPT ![n - 1] = NULL], idx |-> [h.idx EXCEPT ![t] = -1]]
  IN  IF at = n - 1 THEN cut
      ELSE heap_sift_up(heap_sift_down(heap_set(cut, last, at), d, n - 1, last), d, last)

(* Everything due by time `at` taken off in order: the heap that is left   *)
(* and the timers taken.                                                   *)
RECURSIVE Drain(_, _, _, _, _)
Drain(h, d, n, at, taken) ==
  IF n = 0 \/ at < d[h.data[0]]
  THEN [heap |-> h, n |-> n, taken |-> taken]
  ELSE LET root == h.data[0]
       IN  Drain(disarm(h, d, n, root), d, n - 1, at, Append(taken, root))

heap == [data |-> data, idx |-> heap_idx]

-----------------------------------------------------------------------------

Init ==
  /\ data = [i \in {} |-> NULL]
  /\ active = 0 /\ count = 0
  /\ heap_idx = [t \in Timers |-> -1]
  /\ deadline = [t \in Timers |-> 0]
  /\ created = {}
  /\ timerfd = 0 /\ now = 1 /\ expired = <<>>

resize(n) == [i \in 0..(n - 1) |-> IF i \in DOMAIN data THEN data[i] ELSE NULL]

(* wl_event_loop_add_timer: a slot is reserved now so that arming the      *)
(* timer later cannot fail.                                                *)
AddTimer(t) ==
  /\ t \notin created
  /\ heap_idx[t] = -1 /\ \A i \in DOMAIN expired : expired[i] # t
  /\ created' = created \cup {t}
  /\ count' = count + 1
  /\ data' = IF count + 1 <= Space(data) THEN data
             ELSE resize(IF Space(data) >= FirstSpace THEN Space(data) * 2 ELSE FirstSpace)
  /\ UNCHANGED <<active, heap_idx, deadline, timerfd, now, expired>>

(* wl_event_source_timer_update with a delay.                              *)
UpdateTimer(t, delay) ==
  LET at    == now + delay
      d     == [deadline EXCEPT ![t] = at]
      added == [data |-> [data EXCEPT ![active] = t], idx |-> [heap_idx EXCEPT ![t] = active]]
      h     == IF heap_idx[t] = -1 THEN heap_sift_up(added, d, t)
               ELSE IF at < deadline[t] THEN heap_sift_up(heap, d, t)
               ELSE heap_sift_down(heap, d, active, t)
  IN  /\ t \in created
      /\ at <= MaxTime
      /\ deadline' = d
      /\ data' = h.data /\ heap_idx' = h.idx
      /\ active' = IF heap_idx[t] = -1 THEN active + 1 ELSE active
      /\ timerfd' = IF h.idx[t] = 0 THEN at ELSE timerfd
      /\ UNCHANGED <<count, created, now, expired>>

(* The slots and indexes after wl_event_source_timer_update(t, 0), which   *)
(* does nothing to a timer that is not armed.                              *)
Disarmed(t) == IF heap_idx[t] = -1 THEN heap ELSE disarm(heap, deadline, active, t)

StopTimer(t) ==
  /\ heap_idx' = Disarmed(t).idx
  /\ deadline' = [deadline EXCEPT ![t] = 0]
  /\ active' = IF heap_idx[t] = -1 THEN active ELSE active - 1
  /\ timerfd' = IF heap_idx[t] # -1 /\ active = 1 THEN 0 ELSE timerfd
  /\ UNCHANGED <<now, expired>>

(* wl_event_source_timer_update with no delay.                             *)
DisarmTimer(t) ==
  /\ t \in created
  /\ heap_idx[t] # -1
  /\ StopTimer(t)
  /\ data' = Disarmed(t).data
  /\ UNCHANGED <<count, created>>

(* wl_event_source_remove: disarms, then gives the reserved slot back and  *)
(* halves an array that is at most a quarter full.                         *)
RemoveTimer(t) ==
  LET space == Space(data)
      slots == Disarmed(t).data
  IN  /\ t \in created
      /\ StopTimer(t)
      /\ created' = created \ {t}
      /\ count' = count - 1
      /\ data' = IF space >= 2 * FirstSpace /\ space >= 4 * (count - 1)
                 THEN [i \in 0..(space \div 2 - 1) |-> slots[i]] ELSE slots

(* Faulty: leaves the timerfd alone while timers are left.                 *)
CollectKeepsTimerfd ==
  LET r == Drain(heap, deadline, active, now, <<>>)
  IN  /\ expired = <<>>
      /\ timerfd # 0 /\ timerfd <= now
      /\ expired' = r.taken
      /\ data' = r.heap.data /\ heap_idx' = r.heap.idx
      /\ active' = r.n
      /\ deadline' = [t \in Timers |-> IF r.heap.idx[t] = -1 THEN 0 ELSE deadline[t]]
      /\ timerfd' = IF r.n > 0 THEN timerfd ELSE 0
      /\ UNCHANGED <<count, created, now>>

(* wl_timer_heap_dispatch up to the first function call.                   *)
Collect ==
  LET r == Drain(heap, deadline, active, now, <<>>)
  IN  /\ expired = <<>>
      /\ timerfd # 0 /\ timerfd <= now
      /\ expired' = r.taken
      /\ data' = r.heap.data /\ heap_idx' = r.heap.idx
      /\ active' = r.n
      /\ deadline' = [t \in Timers |-> IF r.heap.idx[t] = -1 THEN 0 ELSE deadline[t]]
      /\ timerfd' = IF r.n > 0 THEN deadline[r.heap.data[0]] ELSE 0
      /\ UNCHANGED <<count, created, now>>

Fire ==
  /\ expired # <<>>
  /\ expired' = Tail(expired)
  /\ UNCHANGED <<heapVars, timerfd, now>>

Tick ==
  /\ now < MaxTime
  /\ now' = now + 1
  /\ UNCHANGED <<heapVars, timerfd, expired>>

Next ==
  \/ \E t \in Timers : AddTimer(t) \/ DisarmTimer(t) \/ RemoveTimer(t)
  \/ \E t \in Timers, delay \in 1..MaxTime : UpdateTimer(t, delay)
  \/ Collect \/ Fire \/ Tick

Spec == Init /\ [][Next]_vars

-----------------------------------------------------------------------------

TypeOK ==
  /\ data \in [DOMAIN data -> Timers \cup {NULL}]
  /\ DOMAIN data = 0..(Space(data) - 1)
  /\ {active, count} \subseteq Nat
  /\ heap_idx \in [Timers -> -1..(Cardinality(Timers) - 1)]
  /\ deadline \in [Timers -> 0..MaxTime]
  /\ created \subseteq Timers
  /\ timerfd \in 0..MaxTime /\ now \in 1..(MaxTime + 1)
  /\ expired \in Seq(Timers)

(* The array and the timers agree on who is where: the used slots hold the *)
(* armed timers, each at the index it remembers, and the rest are empty.   *)
(* wl_timer_heap_disarm trusts heap_idx to find the slot to vacate.        *)
SlotsAgree ==
  /\ \A i \in DOMAIN data :
       IF i < active THEN data[i] # NULL /\ heap_idx[data[i]] = i
                     ELSE data[i] = NULL
  /\ \A t \in Timers : heap_idx[t] # -1 =>
       heap_idx[t] < active /\ data[heap_idx[t]] = t /\ t \in created

(* Every parent is due no later than its children, so that data[0] is the  *)
(* timer the timerfd has to be set for.                                    *)
HeapOrdered ==
  \A i \in 1..(active - 1) : deadline[data[(i - 1) \div 2]] <= deadline[data[i]]

(* Arming a timer that exists never runs past the array, although arming   *)
(* allocates nothing and removing timers shrinks the array.                *)
RoomForEveryTimer ==
  /\ count = Cardinality(created)
  /\ active <= count
  /\ count <= Space(data)

(* The array is a heap of the armed timers, through growth, shrinking,     *)
(* removal from the middle and re-arming (event-loop.c:386), and has room  *)
(* for every timer that may be armed.                                      *)
HeapSound == TypeOK /\ SlotsAgree /\ HeapOrdered /\ RoomForEveryTimer

-----------------------------------------------------------------------------

Queue == INSTANCE TimerQueue

(* The heap is an implementation of the timer queue: timers leave it in    *)
(* order of their deadlines, and the timerfd is set exactly as if the      *)
(* earliest deadline were looked up in the whole set.                      *)
ImplementsQueue == Queue!TimerSpec
=============================================================================

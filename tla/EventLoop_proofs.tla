---------------------------- MODULE EventLoop_proofs ----------------------------
(***************************************************************************)
(* Proofs about EventLoop, for any sources, any bound on the clock and any *)
(* room for epoll_wait's events.                                           *)
(*                                                                         *)
(* The argument: memory is released only by FdsDone, between the dispatch  *)
(* of file descriptors and the idle tasks that follow.  By then the timers *)
(* collected have all been called (PointersByPhase), the events of this    *)
(* round have been dispatched, and no successor has been fetched yet; what *)
(* is left are the lists, which hold live sources only (OnlyLiveIsLinked). *)
(*                                                                         *)
(* Of the queue of timers alone: the shared timerfd covers every armed     *)
(* timer and is cleared when there is none, both inductive together with   *)
(* the types.  The loop refines the queue and inherits what is proved of it.*)
(***************************************************************************)
EXTENDS EventLoop, FiniteSetTheorems, TLAPS

-----------------------------------------------------------------------------
(* The queue of timers.                                                    *)

(* The orders in which Collect takes the due timers are sequences of them. *)
LEMMA DueOrdersAreSequences ==
  ASSUME deadline \in [Timers -> 0..MaxTime]
  PROVE  DueOrders \subseteq Seq(Timers)
<1>1. Due \subseteq Timers
  BY DEF Due, ArmedIn
<1>2. Cardinality(Due) \in Nat
  BY <1>1, TimersAssumption, FS_Subset, FS_CardinalityType
<1>3. DueOrders \subseteq [1..Cardinality(Due) -> Timers]
  BY <1>1 DEF DueOrders
<1>4. QED
  BY <1>2, <1>3

TimerInv == TimerTypeOK /\ TimerfdCovers /\ TimerfdClearedWhenIdle

LEMMA TimerInitInv == TimerInit => TimerInv
BY MaxTimeAssumption
   DEF TimerInit, TimerInv, TimerTypeOK, TimerfdCovers, TimerfdClearedWhenIdle, ArmedIn

(* Arming a timer, here and wherever else a queue of timers is used.       *)
LEMMA ArmInv ==
  ASSUME TimerInv, NEW t \in Timers, NEW delay \in 1..MaxTime, Arm(t, delay)
  PROVE  TimerInv'
<1> DEFINE d == [deadline EXCEPT ![t] = now + delay]
<1>1. /\ deadline \in [Timers -> 0..MaxTime] /\ timerfd \in 0..MaxTime
      /\ now \in Nat \ {0} /\ now + delay <= MaxTime /\ MaxTime \in Nat
      /\ delay \in Nat
  BY MaxTimeAssumption DEF TimerInv, TimerTypeOK, Arm
<1>2. deadline' = d /\ d \in [Timers -> 0..MaxTime] /\ d[t] = now + delay /\ d[t] # 0
  BY <1>1 DEF Arm
<1>3. \A u \in Timers \ {t} : d[u] = deadline[u]
  BY <1>1
<1>4. TimerTypeOK'
  BY <1>1, <1>2 DEF Arm, TimerInv, TimerTypeOK
<1>5. TimerfdCovers'
  <2>1. CASE t \in FirstIn(d) /\ timerfd' = now + delay
    BY <2>1, <1>1, <1>2 DEF TimerfdCovers, FirstIn, ArmedIn
  <2>2. CASE FirstIn(d) # {t} /\ timerfd' = timerfd
    <3>1. PICK u \in ArmedIn(d) : u # t /\ d[u] <= d[t]
      <4>1. CASE t \in FirstIn(d)
        <5>1. PICK u \in FirstIn(d) : u # t
          BY <2>2, <4>1
        <5>2. QED
          BY <5>1, <4>1 DEF FirstIn
      <4>2. CASE t \notin FirstIn(d)
        <5>1. t \in ArmedIn(d)
          BY <1>2 DEF ArmedIn
        <5>2. PICK u \in ArmedIn(d) : ~(d[t] <= d[u])
          BY <4>2, <5>1 DEF FirstIn
        <5>3. d[u] \in Nat /\ d[t] \in Nat
          BY <1>1, <1>2 DEF ArmedIn
        <5>4. QED
          BY <5>2, <5>3
      <4>3. QED
        BY <4>1, <4>2
    <3>2. u \in ArmedIn(deadline) /\ d[u] = deadline[u]
      BY <3>1, <1>3 DEF ArmedIn
    <3>3. timerfd # 0 /\ timerfd <= deadline[u]
      BY <3>2 DEF TimerInv, TimerfdCovers
    <3>4. d[u] \in Nat /\ d[t] \in Nat /\ timerfd \in Nat
      BY <3>2, <1>1, <1>2 DEF ArmedIn
    <3>5. timerfd <= d[t]
      BY <3>1, <3>2, <3>3, <3>4
    <3>6. \A v \in ArmedIn(d) \ {t} : timerfd <= d[v]
      BY <1>3 DEF TimerInv, TimerfdCovers, ArmedIn
    <3>7. QED
      BY <3>3, <3>5, <3>6, <2>2, <1>2 DEF TimerfdCovers
  <2>3. QED
    BY <2>1, <2>2 DEF Arm
<1>6. TimerfdClearedWhenIdle'
  BY <1>2 DEF TimerfdClearedWhenIdle, ArmedIn
<1>7. QED
  BY <1>4, <1>5, <1>6 DEF TimerInv

LEMMA DisarmInv ==
  ASSUME TimerInv, NEW t \in Timers, Disarm(t)
  PROVE  TimerInv'
<1> DEFINE d == [deadline EXCEPT ![t] = 0]
<1>1. /\ deadline \in [Timers -> 0..MaxTime] /\ timerfd \in 0..MaxTime
      /\ MaxTime \in Nat
  BY MaxTimeAssumption DEF TimerInv, TimerTypeOK
<1>2. deadline' = d /\ d \in [Timers -> 0..MaxTime]
  BY <1>1 DEF Disarm
<1>3. TimerTypeOK'
  BY <1>1, <1>2 DEF Disarm, TimerInv, TimerTypeOK
<1>4. \A u \in ArmedIn(d) : u \in ArmedIn(deadline) /\ d[u] = deadline[u]
  BY <1>1 DEF ArmedIn
<1>5. TimerfdCovers'
  BY <1>2, <1>4 DEF Disarm, TimerInv, TimerfdCovers
<1>6. TimerfdClearedWhenIdle'
  BY <1>2 DEF Disarm, TimerfdClearedWhenIdle
<1>7. QED
  BY <1>3, <1>5, <1>6 DEF TimerInv

LEMMA CollectInv ==
  ASSUME TimerInv, Collect
  PROVE  TimerInv'
<1> DEFINE d == [t \in Timers |-> IF t \in Due THEN 0 ELSE deadline[t]]
<1>1. /\ deadline \in [Timers -> 0..MaxTime] /\ MaxTime \in Nat
      /\ now \in Nat \ {0}
  BY MaxTimeAssumption DEF TimerInv, TimerTypeOK
<1>2. deadline' = d /\ d \in [Timers -> 0..MaxTime]
  BY <1>1 DEF Collect
<1>3. \/ ArmedIn(d) = {} /\ timerfd' = 0
      \/ \E t \in FirstIn(d) : timerfd' = d[t]
  BY DEF Collect
<1>4. TimerTypeOK'
  <2>1. expired' \in Seq(Timers)
    BY <1>1, DueOrdersAreSequences DEF Collect
  <2>2. timerfd' \in 0..MaxTime
    BY <1>1, <1>2, <1>3 DEF FirstIn, ArmedIn
  <2>3. QED
    BY <2>1, <2>2, <1>1, <1>2 DEF Collect, TimerTypeOK
<1>5. TimerfdCovers'
  BY <1>2, <1>3 DEF TimerfdCovers, FirstIn, ArmedIn
<1>6. TimerfdClearedWhenIdle'
  BY <1>2, <1>3 DEF TimerfdClearedWhenIdle, FirstIn, ArmedIn
<1>7. QED
  BY <1>4, <1>5, <1>6 DEF TimerInv

LEMMA FireInv ==
  ASSUME TimerInv, Fire
  PROVE  TimerInv'
<1>1. expired' \in Seq(Timers)
  BY DEF TimerInv, TimerTypeOK, Fire
<1>2. QED
  BY <1>1 DEF TimerInv, TimerTypeOK, TimerfdCovers, TimerfdClearedWhenIdle, Fire

LEMMA TickInv ==
  ASSUME TimerInv, Tick
  PROVE  TimerInv'
BY DEF TimerInv, TimerTypeOK, TimerfdCovers, TimerfdClearedWhenIdle, Tick

LEMMA TimerVarsInv ==
  ASSUME TimerInv, UNCHANGED timerVars
  PROVE  TimerInv'
BY DEF TimerInv, TimerTypeOK, TimerfdCovers, TimerfdClearedWhenIdle, timerVars

LEMMA TimerStepInv ==
  ASSUME TimerInv, [TimerNext]_timerVars
  PROVE  TimerInv'
<1>1. ASSUME NEW t \in Timers, Disarm(t) PROVE TimerInv'
  BY <1>1, DisarmInv
<1>2. ASSUME NEW t \in Timers, NEW delay \in 1..MaxTime, Arm(t, delay) PROVE TimerInv'
  BY <1>2, ArmInv
<1>3. CASE Collect
  BY <1>3, CollectInv
<1>4. CASE Fire
  BY <1>4, FireInv
<1>5. CASE Tick
  BY <1>5, TickInv
<1>6. CASE UNCHANGED timerVars
  BY <1>6, TimerVarsInv
<1>7. QED
  BY <1>1, <1>2, <1>3, <1>4, <1>5, <1>6 DEF TimerNext

LEMMA TimerInvariance == TimerSpec => []TimerInv
<1>1. TimerInv /\ [TimerNext]_timerVars => TimerInv'
  BY TimerStepInv
<1>2. QED
  BY <1>1, TimerInitInv, PTL DEF TimerSpec

(* The state of the timers of wl_event_loop stays well formed.             *)
THEOREM TimersWellTyped == TimerSpec => []TimerTypeOK
BY TimerInvariance, PTL DEF TimerInv

(* No armed timer is ever left without a timerfd set early enough.         *)
THEOREM NoWakeUpLost == TimerSpec => []TimerfdCovers
BY TimerInvariance, PTL DEF TimerInv

(* The timerfd never wakes a loop that has no armed timer.                 *)
THEOREM NoIdleWakeUp == TimerSpec => []TimerfdClearedWhenIdle
BY TimerInvariance, PTL DEF TimerInv

-----------------------------------------------------------------------------
(* The whole loop.                                                         *)

NoRepeats(list) == \A i, j \in DOMAIN list : list[i] = list[j] => i = j

ListsHaveNoRepeats == NoRepeats(idleList) /\ NoRepeats(checkList)

(* What the loop points at, besides its lists, is allocated.               *)
PointedAtIsAllocated ==
  \A s \in ep \cup Elements(expired) \cup ({next, running} \ {NoSource}) :
    status[s] \in {"live", "removed"}

PointersByPhase ==
  /\ expired # <<>> => phase = "timers"
  /\ next # NoSource => phase \in {"check", "crashed"}

(* The successor fetched by post_dispatch_check is on the list as long as  *)
(* it is live.                                                             *)
LiveNextIsOnList ==
  next # NoSource /\ status[next] = "live" => next \in Elements(checkList)

IInv ==
  /\ TypeOK /\ TimerInv
  /\ ListsHaveNoRepeats
  /\ OnlyLiveIsLinked
  /\ PointedAtIsAllocated
  /\ PointersByPhase
  /\ LiveNextIsOnList

-----------------------------------------------------------------------------
(* Lists                                                                   *)

LEMMA ElementsOfList ==
  ASSUME NEW S, NEW list \in Seq(S)
  PROVE  Elements(list) \subseteq S
BY DEF Elements

LEMMA AppendElements ==
  ASSUME NEW S, NEW list \in Seq(S), NEW e \in S
  PROVE  /\ Append(list, e) \in Seq(S)
         /\ Elements(Append(list, e)) = Elements(list) \cup {e}
         /\ NoRepeats(list) /\ e \notin Elements(list) => NoRepeats(Append(list, e))
<1>1. /\ Append(list, e) \in Seq(S)
      /\ DOMAIN Append(list, e) = DOMAIN list \cup {Len(list) + 1}
      /\ \A i \in DOMAIN list : Append(list, e)[i] = list[i]
      /\ Append(list, e)[Len(list) + 1] = e
  OBVIOUS
<1>2. Elements(Append(list, e)) = Elements(list) \cup {e}
  BY <1>1 DEF Elements
<1>3. ASSUME NoRepeats(list), e \notin Elements(list)
      PROVE  NoRepeats(Append(list, e))
  BY <1>1, <1>3 DEF NoRepeats, Elements
<1>4. QED
  BY <1>1, <1>2, <1>3

LEMMA WithoutElements ==
  ASSUME NEW S, NEW list \in Seq(S), NEW k \in DOMAIN list, NoRepeats(list)
  PROVE  /\ Without(list, k) \in Seq(S)
         /\ NoRepeats(Without(list, k))
         /\ Elements(Without(list, k)) = Elements(list) \ {list[k]}
<1> DEFINE rest == Without(list, k)
<1>1. Len(list) \in Nat /\ DOMAIN list = 1..Len(list) /\ k \in 1..Len(list)
  OBVIOUS
<1>2. rest = [i \in 1..(Len(list) - 1) |-> IF i < k THEN list[i] ELSE list[i + 1]]
  BY DEF Without
<1>3. \A i \in 1..(Len(list) - 1) : i \in DOMAIN list /\ i + 1 \in DOMAIN list
  BY <1>1
<1>4. rest \in [1..(Len(list) - 1) -> S]
  BY <1>2, <1>3
<1>5. Len(list) - 1 \in Nat
  BY <1>1
<1>6. rest \in Seq(S)
  BY <1>4, <1>5
<1>7. NoRepeats(rest)
  <2> SUFFICES ASSUME NEW i \in 1..(Len(list) - 1), NEW j \in 1..(Len(list) - 1),
                      rest[i] = rest[j]
               PROVE  i = j
    BY <1>2 DEF NoRepeats
  <2>1. (IF i < k THEN i ELSE i + 1) = (IF j < k THEN j ELSE j + 1)
    BY <1>1, <1>2, <1>3 DEF NoRepeats
  <2>2. QED
    BY <2>1, <1>1
<1>8. Elements(rest) \subseteq Elements(list) \ {list[k]}
  <2> SUFFICES ASSUME NEW i \in 1..(Len(list) - 1)
               PROVE  rest[i] \in Elements(list) \ {list[k]}
    BY <1>2 DEF Elements
  <2>1. PICK m \in DOMAIN list : m # k /\ rest[i] = list[m]
    <3>1. CASE i < k
      BY <3>1, <1>1, <1>2, <1>3
    <3>2. CASE ~(i < k)
      BY <3>2, <1>1, <1>2, <1>3
    <3>3. QED
      BY <3>1, <3>2
  <2>2. list[m] # list[k]
    BY <2>1 DEF NoRepeats
  <2>3. QED
    BY <2>1, <2>2 DEF Elements
<1>9. Elements(list) \ {list[k]} \subseteq Elements(rest)
  <2> SUFFICES ASSUME NEW e \in Elements(list) \ {list[k]} PROVE e \in Elements(rest)
    OBVIOUS
  <2>1. PICK m \in DOMAIN list : e = list[m]
    BY DEF Elements
  <2>2. m # k
    BY <2>1
  <2>3. \E i \in 1..(Len(list) - 1) : rest[i] = list[m]
    <3>1. CASE m < k
      <4>1. m \in 1..(Len(list) - 1)
        BY <3>1, <1>1
      <4>2. QED
        BY <4>1, <3>1, <1>2
    <3>2. CASE ~(m < k)
      <4>1. m - 1 \in 1..(Len(list) - 1) /\ ~(m - 1 < k) /\ (m - 1) + 1 = m
        BY <3>2, <2>2, <1>1
      <4>2. rest[m - 1] = list[m]
        BY <4>1, <1>2
      <4>3. QED
        BY <4>1, <4>2
    <3>3. QED
      BY <3>1, <3>2
  <2>4. DOMAIN rest = 1..(Len(list) - 1)
    BY <1>2
  <2>5. QED
    BY <2>1, <2>3, <2>4 DEF Elements
<1>10. QED
  BY <1>6, <1>7, <1>8, <1>9

(* Unlinking takes a source off whichever list it is on and nothing else.  *)
LEMMA UnlinkEffect ==
  ASSUME TypeOK, ListsHaveNoRepeats, NEW s \in Sources, Unlink(s)
  PROVE  /\ idleList' \in Seq(IdleTasks) /\ checkList' \in Seq(Checkable)
         /\ ListsHaveNoRepeats'
         /\ Elements(idleList)' = Elements(idleList) \ {s}
         /\ Elements(checkList)' = Elements(checkList) \ {s}
<1>1. /\ idleList \in Seq(IdleTasks) /\ checkList \in Seq(Checkable)
      /\ NoRepeats(idleList) /\ NoRepeats(checkList)
  BY DEF TypeOK, ListsHaveNoRepeats
<1>2. /\ Elements(idleList) \subseteq IdleTasks /\ Elements(checkList) \subseteq Checkable
      /\ IdleTasks \cap Checkable = {}
  BY <1>1, ElementsOfList, SourcesAssumption
<1>3. CASE /\ s \notin Elements(idleList) \cup Elements(checkList)
           /\ UNCHANGED <<idleList, checkList>>
  BY <1>1, <1>3 DEF ListsHaveNoRepeats
<1>4. ASSUME NEW k \in DOMAIN idleList, idleList[k] = s,
             idleList' = Without(idleList, k), UNCHANGED checkList
      PROVE  /\ idleList' \in Seq(IdleTasks) /\ checkList' \in Seq(Checkable)
             /\ ListsHaveNoRepeats'
             /\ Elements(idleList)' = Elements(idleList) \ {s}
             /\ Elements(checkList)' = Elements(checkList) \ {s}
  <2>1. s \in Elements(idleList)
    BY <1>4 DEF Elements
  <2>2. s \notin Elements(checkList)
    BY <2>1, <1>2
  <2>3. QED
    BY <1>1, <1>4, <2>2, WithoutElements DEF ListsHaveNoRepeats
<1>5. ASSUME NEW k \in DOMAIN checkList, checkList[k] = s,
             checkList' = Without(checkList, k), UNCHANGED idleList
      PROVE  /\ idleList' \in Seq(IdleTasks) /\ checkList' \in Seq(Checkable)
             /\ ListsHaveNoRepeats'
             /\ Elements(idleList)' = Elements(idleList) \ {s}
             /\ Elements(checkList)' = Elements(checkList) \ {s}
  <2>1. s \in Elements(checkList)
    BY <1>5 DEF Elements
  <2>2. s \notin Elements(idleList)
    BY <2>1, <1>2
  <2>3. QED
    BY <1>1, <1>5, <2>2, WithoutElements DEF ListsHaveNoRepeats
<1>6. QED
  BY <1>3, <1>4, <1>5 DEF Unlink

-----------------------------------------------------------------------------
(* Steps that move through a dispatch and leave timers and lists alone     *)

(* What such a step has to show.                                           *)
PositionGood(read, buf, p, eps, nxt, run) ==
  /\ read \subseteq FdSources /\ buf \subseteq Checkable
  /\ \A s \in read \cup buf : status[s] = "live"
  /\ p \in Phases
  /\ eps \subseteq FdSources
  /\ nxt \in Checkable \cup {NoSource} /\ run \in Sources \cup {NoSource}
  /\ \A s \in eps \cup ({nxt, run} \ {NoSource}) : status[s] \in {"live", "removed"}
  /\ expired # <<>> => p = "timers"
  /\ nxt # NoSource => p \in {"check", "crashed"}
  /\ nxt # NoSource /\ status[nxt] = "live" => nxt \in Elements(checkList)

LEMMA PositionStep ==
  ASSUME IInv, UNCHANGED <<timerVars, listVars>>,
         inputs' \in 0..MaxInputs, has_timers' \in BOOLEAN, recheck' \in BOOLEAN,
         PositionGood(readable', buffered', phase', ep', next', running')
  PROVE  IInv'
<1>1. TimerInv' /\ TimerTypeOK'
  BY TimerVarsInv DEF IInv, TimerInv
<1>2. TypeOK'
  BY <1>1 DEF IInv, TypeOK, listVars, PositionGood
<1>3. ListsHaveNoRepeats'
  BY DEF IInv, ListsHaveNoRepeats, listVars
<1>4. OnlyLiveIsLinked'
  BY DEF IInv, OnlyLiveIsLinked, listVars, timerVars, PositionGood
<1>5. PointedAtIsAllocated'
  BY DEF IInv, PointedAtIsAllocated, listVars, timerVars, PositionGood
<1>6. PointersByPhase'
  BY DEF PointersByPhase, timerVars, PositionGood
<1>7. LiveNextIsOnList'
  BY DEF LiveNextIsOnList, listVars, PositionGood
<1>8. QED
  BY <1>1, <1>2, <1>3, <1>4, <1>5, <1>6, <1>7 DEF IInv

(* The position the loop is in is good.                                    *)
LEMMA PositionIsGood ==
  ASSUME IInv
  PROVE  /\ PositionGood(readable, buffered, phase, ep, next, running)
         /\ inputs \in 0..MaxInputs /\ has_timers \in BOOLEAN /\ recheck \in BOOLEAN
BY DEF IInv, TypeOK, OnlyLiveIsLinked, PointedAtIsAllocated, PointersByPhase,
       LiveNextIsOnList, PositionGood

LEMMA EnterInv ==
  ASSUME IInv, NEW p \in Phases, Enter(p)
  PROVE  IInv'
<1>1. PositionGood(readable, buffered, p, ep, next, running)
  BY PositionIsGood DEF Enter, At, PositionGood
<1>2. QED
  BY <1>1, PositionIsGood, PositionStep DEF Enter, inputVars

LEMMA CallIdleInv ==
  ASSUME IInv, CallIdle
  PROVE  IInv'
<1>1. Head(idleList) \in Elements(idleList) /\ Head(idleList) \in IdleTasks
  BY DEF CallIdle, IInv, TypeOK, Elements
<1>2. status[Head(idleList)] = "live"
  BY <1>1 DEF IInv, OnlyLiveIsLinked
<1>3. PositionGood(readable, buffered, phase, ep, next, Head(idleList))
  BY <1>1, <1>2, PositionIsGood DEF PositionGood, Sources
<1>4. QED
  BY <1>3, PositionIsGood, PositionStep DEF CallIdle, inputVars

LEMMA IdleDoneInv ==
  ASSUME IInv, IdleDone
  PROVE  IInv'
<1>1. expired = <<>> /\ next = NoSource /\ running = NoSource
  BY DEF IdleDone, IdlePhases, IInv, PointersByPhase
<1>2. FirstOf(checkList) # NoSource => FirstOf(checkList) \in Elements(checkList)
  BY DEF IInv, TypeOK, FirstOf, Elements
<1>3. Elements(checkList) \subseteq Checkable
  BY ElementsOfList DEF IInv, TypeOK
<1>4. /\ phase' \in {"outside", "poll", "check"}
      /\ \/ next' = FirstOf(checkList) /\ recheck' = FALSE /\ phase' = "check"
         \/ UNCHANGED <<next, recheck>>
  BY DEF IdleDone, IdlePhases
<1>5. \A s \in Elements(checkList) : status[s] = "live"
  BY DEF IInv, OnlyLiveIsLinked
<1>6. PositionGood(readable, buffered, phase', ep, next', running)
  BY <1>1, <1>2, <1>3, <1>4, <1>5, PositionIsGood DEF PositionGood, Phases
<1>7. recheck' \in BOOLEAN
  BY <1>4, PositionIsGood
<1>8. QED
  BY <1>6, <1>7, PositionIsGood, PositionStep DEF IdleDone, inputVars

LEMMA PollReturnsInv ==
  ASSUME IInv, PollReturns
  PROVE  IInv'
<1>1. expired = <<>> /\ next = NoSource /\ running = NoSource
  BY DEF PollReturns, At, IInv, PointersByPhase
<1>2. ep' \subseteq readable /\ phase' \in {"collect", "fds"} /\ has_timers' \in BOOLEAN
  BY DEF PollReturns
<1>3. PositionGood(readable, buffered, phase', ep', next, running)
  BY <1>1, <1>2, PositionIsGood DEF PositionGood, Phases
<1>4. QED
  BY <1>2, <1>3, PositionIsGood, PositionStep DEF PollReturns, inputVars

LEMMA PollEndsInv ==
  ASSUME IInv, PollTimesOut \/ PollFails
  PROVE  IInv'
<1>1. expired = <<>> /\ next = NoSource /\ running = NoSource
  BY DEF PollTimesOut, PollFails, At, IInv, PointersByPhase
<1>2. ep' \subseteq ep /\ phase' \in {"fds", "outside"}
  BY DEF PollTimesOut, PollFails
<1>3. PositionGood(readable, buffered, phase', ep', next, running)
  BY <1>1, <1>2, PositionIsGood DEF PositionGood, Phases
<1>4. has_timers' \in BOOLEAN
  BY PositionIsGood DEF PollTimesOut, PollFails
<1>5. QED
  BY <1>3, <1>4, PositionIsGood, PositionStep DEF PollTimesOut, PollFails, inputVars

LEMMA TimersDoneInv ==
  ASSUME IInv, TimersDone
  PROVE  IInv'
<1>1. PositionGood(readable, buffered, "fds", ep, next, running)
  BY PositionIsGood DEF TimersDone, At, IInv, PointersByPhase, PositionGood, Phases
<1>2. QED
  BY <1>1, PositionIsGood, PositionStep DEF TimersDone, inputVars

LEMMA CallFdInv ==
  ASSUME IInv, CallFd
  PROVE  IInv'
<1>1. PICK s \in ep : /\ ep' = ep \ {s}
                      /\ \/ status[s] = "live" /\ running' = s
                         \/ running' = running
                      /\ readable' \subseteq readable /\ buffered' \subseteq buffered
  BY DEF CallFd
<1>2. s \in Sources
  BY PositionIsGood DEF PositionGood, Sources
<1>3. PositionGood(readable', buffered', phase, ep', next, running')
  BY <1>1, <1>2, PositionIsGood DEF PositionGood
<1>4. QED
  BY <1>3, PositionIsGood, PositionStep DEF CallFd

LEMMA CallCheckedInv ==
  ASSUME IInv, CallChecked
  PROVE  IInv'
<1>1. /\ next \in Elements(checkList) /\ next \in Checkable /\ status[next] = "live"
      /\ expired = <<>> /\ phase = "check"
  BY PositionIsGood DEF CallChecked, At, PositionGood
<1>2. next' = NoSource \/ next' \in Elements(checkList)
  <2> DEFINE k == CHOOSE i \in DOMAIN checkList : checkList[i] = next
  <2>1. k \in DOMAIN checkList
    BY <1>1 DEF Elements
  <2>2. k # Len(checkList) => k + 1 \in DOMAIN checkList
    BY <2>1 DEF IInv, TypeOK
  <2>3. next' = IF k = Len(checkList) THEN NoSource ELSE checkList[k + 1]
    BY DEF CallChecked, After
  <2>4. QED
    BY <2>2, <2>3 DEF Elements
<1>3. \A s \in Elements(checkList) : status[s] = "live" /\ s \in Checkable
  BY ElementsOfList DEF IInv, TypeOK, OnlyLiveIsLinked
<1>4. running' \in {next, NoSource} /\ next \in Sources
  BY <1>1, SourcesAssumption DEF CallChecked, Sources
<1>5. /\ readable' \subseteq readable
      /\ buffered' \subseteq buffered \cup (readable \cap Checkable)
  BY DEF CallChecked
<1>6. PositionGood(readable', buffered', phase, ep, next', running')
  BY <1>1, <1>2, <1>3, <1>4, <1>5, PositionIsGood DEF PositionGood
<1>7. recheck' \in BOOLEAN
  BY DEF CallChecked
<1>8. QED
  BY <1>6, <1>7, PositionIsGood, PositionStep DEF CallChecked

LEMMA WalkOffCheckListInv ==
  ASSUME IInv, WalkOffCheckList
  PROVE  IInv'
<1>1. next \in Sources /\ next # NoSource /\ expired = <<>>
  BY PositionIsGood, SourcesAssumption DEF WalkOffCheckList, At, PositionGood, Sources
<1>2. PositionGood(readable, buffered, "crashed", ep, next, next)
  BY <1>1, PositionIsGood DEF PositionGood, Phases
<1>3. QED
  BY <1>2, PositionIsGood, PositionStep DEF WalkOffCheckList, inputVars

LEMMA CheckDoneInv ==
  ASSUME IInv, CheckDone
  PROVE  IInv'
<1>1. expired = <<>> /\ next = NoSource /\ phase = "check"
  BY PositionIsGood DEF CheckDone, At, PositionGood
<1>2. FirstOf(checkList) # NoSource => FirstOf(checkList) \in Elements(checkList)
  BY DEF IInv, TypeOK, FirstOf, Elements
<1>3. \A s \in Elements(checkList) : status[s] = "live" /\ s \in Checkable
  BY ElementsOfList DEF IInv, TypeOK, OnlyLiveIsLinked
<1>4. \/ next' = FirstOf(checkList) /\ recheck' = FALSE /\ phase' = "check"
      \/ next' = NoSource /\ recheck' = recheck /\ phase' = "outside"
  BY <1>1 DEF CheckDone
<1>5. PositionGood(readable, buffered, phase', ep, next', running)
  BY <1>1, <1>2, <1>3, <1>4, PositionIsGood DEF PositionGood, Phases
<1>6. recheck' \in BOOLEAN
  BY <1>4, PositionIsGood
<1>7. QED
  BY <1>5, <1>6, PositionIsGood, PositionStep DEF CheckDone, inputVars

LEMMA InputInv ==
  ASSUME IInv, NEW s \in FdSources,
         InputArrives(s) \/ (s \in Checkable /\ FillBuffer(s))
  PROVE  IInv'
<1>1. /\ status[s] = "live"
      /\ readable' \subseteq readable \cup {s}
      /\ buffered' \subseteq buffered \cup ({s} \cap Checkable)
  BY DEF InputArrives, FillBuffer
<1>2. inputs' \in 0..MaxInputs
  BY PositionIsGood, SourcesAssumption DEF InputArrives, FillBuffer
<1>3. UNCHANGED <<timerVars, listVars, phase, ep, has_timers, next, recheck, running>>
  BY DEF InputArrives, FillBuffer, posVars
<1>4. PositionGood(readable', buffered', phase, ep, next, running)
  BY <1>1, PositionIsGood DEF PositionGood
<1>5. QED
  BY <1>2, <1>3, <1>4, PositionIsGood, PositionStep

-----------------------------------------------------------------------------
(* Steps that change the timers or the lists                               *)

LEMMA InitInv == Init => IInv
<1> SUFFICES ASSUME Init PROVE IInv
  OBVIOUS
<1>1. TimerInv /\ TimerTypeOK
  BY TimerInitInv DEF Init, TimerInv
<1>2. TypeOK
  <2>1. status \in [Sources -> {"unused", "live", "removed", "freed"}]
    BY DEF Init
  <2>2. /\ idleList \in Seq(IdleTasks) /\ checkList \in Seq(Checkable)
        /\ phase \in Phases /\ next = NoSource /\ running = NoSource
    BY DEF Init, Phases
  <2>3. inputs \in 0..MaxInputs
    BY SourcesAssumption DEF Init
  <2>4. QED
    BY <1>1, <2>1, <2>2, <2>3 DEF Init, TypeOK
<1>3. ListsHaveNoRepeats
  BY DEF Init, ListsHaveNoRepeats, NoRepeats
<1>4. Elements(<<>>) = {} /\ ArmedIn(deadline) = {}
  BY DEF Init, TimerInit, Elements, ArmedIn
<1>5. OnlyLiveIsLinked /\ PointedAtIsAllocated
  BY <1>4 DEF Init, TimerInit, OnlyLiveIsLinked, PointedAtIsAllocated
<1>6. PointersByPhase /\ LiveNextIsOnList
  BY DEF Init, TimerInit, PointersByPhase, LiveNextIsOnList
<1>7. QED
  BY <1>1, <1>2, <1>3, <1>5, <1>6 DEF IInv

LEMMA AddSourceInv ==
  ASSUME IInv, NEW s \in Sources, AddSource(s)
  PROVE  IInv'
<1>1. /\ status \in [Sources -> {"unused", "live", "removed", "freed"}]
      /\ status[s] = "unused" /\ status' = [status EXCEPT ![s] = "live"]
      /\ idleList \in Seq(IdleTasks) /\ UNCHANGED <<timerVars, checkList, inputVars, posVars>>
  BY DEF IInv, TypeOK, AddSource
<1>2. /\ idleList' \in Seq(IdleTasks) /\ NoRepeats(idleList')
      /\ Elements(idleList') \subseteq Elements(idleList) \cup {s}
  <2>1. s \notin Elements(idleList) /\ NoRepeats(idleList)
    BY <1>1 DEF IInv, OnlyLiveIsLinked, ListsHaveNoRepeats
  <2>2. QED
    BY <1>1, <2>1, AppendElements DEF AddSource
<1>3. TimerInv' /\ TimerTypeOK'
  BY <1>1, TimerVarsInv DEF IInv, TimerInv
<1>4. TypeOK'
  BY <1>1, <1>2, <1>3 DEF IInv, TypeOK, inputVars, posVars
<1>5. ListsHaveNoRepeats'
  BY <1>1, <1>2 DEF IInv, ListsHaveNoRepeats
<1>6. \A u \in Sources : status'[u] = IF u = s THEN "live" ELSE status[u]
  BY <1>1
<1>7. OnlyLiveIsLinked'
  <2>1. /\ ArmedIn(deadline) \subseteq Sources /\ readable \subseteq Sources
        /\ buffered \subseteq Sources /\ Elements(checkList) \subseteq Sources
        /\ Elements(idleList') \subseteq Sources
    BY <1>2, ElementsOfList, SourcesAssumption
       DEF IInv, TypeOK, ArmedIn, Sources
  <2>2. QED
    BY <1>1, <1>2, <1>6, <2>1 DEF IInv, OnlyLiveIsLinked, timerVars, inputVars
<1>8. PointedAtIsAllocated'
  <2>1. /\ ep \subseteq Sources /\ Elements(expired) \subseteq Sources
        /\ {next, running} \ {NoSource} \subseteq Sources
    BY ElementsOfList, SourcesAssumption DEF IInv, TypeOK, TimerTypeOK, Sources
  <2>2. QED
    BY <1>1, <1>6, <2>1 DEF IInv, PointedAtIsAllocated, timerVars, posVars
<1>9. PointersByPhase'
  BY <1>1 DEF IInv, PointersByPhase, timerVars, posVars
<1>10. LiveNextIsOnList'
  <2>1. next # NoSource => next \in Sources /\ next # s
    BY <1>1, SourcesAssumption DEF IInv, TypeOK, PointedAtIsAllocated, Sources
  <2>2. QED
    BY <1>1, <1>6, <2>1 DEF IInv, LiveNextIsOnList, posVars
<1>11. QED
  BY <1>3, <1>4, <1>5, <1>7, <1>8, <1>9, <1>10 DEF IInv

LEMMA CheckSourceInv ==
  ASSUME IInv, NEW s \in Checkable, wl_event_source_check(s)
  PROVE  IInv'
<1>1. /\ checkList \in Seq(Checkable) /\ NoRepeats(checkList)
      /\ s \notin Elements(checkList) /\ status[s] = "live"
      /\ checkList' = Append(checkList, s)
      /\ UNCHANGED <<timerVars, status, idleList, inputVars, posVars>>
  BY DEF IInv, TypeOK, ListsHaveNoRepeats, wl_event_source_check
<1>2. /\ checkList' \in Seq(Checkable) /\ NoRepeats(checkList')
      /\ Elements(checkList') = Elements(checkList) \cup {s}
  BY <1>1, AppendElements
<1>3. TimerInv' /\ TimerTypeOK'
  BY <1>1, TimerVarsInv DEF IInv, TimerInv
<1>4. TypeOK'
  BY <1>1, <1>2, <1>3 DEF IInv, TypeOK, inputVars, posVars
<1>5. ListsHaveNoRepeats'
  BY <1>1, <1>2 DEF IInv, ListsHaveNoRepeats
<1>6. OnlyLiveIsLinked'
  BY <1>1, <1>2 DEF IInv, OnlyLiveIsLinked, timerVars, inputVars
<1>7. PointedAtIsAllocated'
  BY <1>1 DEF IInv, PointedAtIsAllocated, timerVars, posVars
<1>8. PointersByPhase'
  BY <1>1 DEF IInv, PointersByPhase, timerVars, posVars
<1>9. LiveNextIsOnList'
  BY <1>1, <1>2 DEF IInv, LiveNextIsOnList, posVars
<1>10. QED
  BY <1>3, <1>4, <1>5, <1>6, <1>7, <1>8, <1>9 DEF IInv

(* Timer operations that neither call nor collect a timer.                 *)
LEMMA DeadlineStep ==
  ASSUME IInv, TimerInv', UNCHANGED <<expired, listVars, inputVars, posVars>>,
         \A t \in ArmedIn(deadline') : status[t] = "live"
  PROVE  IInv'
<1>1. TypeOK' /\ ListsHaveNoRepeats'
  BY DEF IInv, TypeOK, TimerInv, ListsHaveNoRepeats, listVars, inputVars, posVars
<1>2. OnlyLiveIsLinked'
  BY DEF IInv, OnlyLiveIsLinked, listVars, inputVars
<1>3. PointedAtIsAllocated' /\ PointersByPhase' /\ LiveNextIsOnList'
  BY DEF IInv, PointedAtIsAllocated, PointersByPhase, LiveNextIsOnList, listVars, posVars
<1>4. QED
  BY <1>1, <1>2, <1>3 DEF IInv

LEMMA UpdateTimerInv ==
  ASSUME IInv, NEW t \in Timers, NEW delay \in 0..MaxTime, UpdateTimer(t, delay)
  PROVE  IInv'
<1>1. /\ status[t] = "live" /\ UNCHANGED <<listVars, inputVars, posVars>>
      /\ (delay \in 1..MaxTime /\ Arm(t, delay)) \/ Disarm(t)
  BY MaxTimeAssumption DEF UpdateTimer
<1>2. TimerInv'
  BY <1>1, ArmInv, DisarmInv DEF IInv
<1>3. UNCHANGED expired /\ \E x : deadline' = [deadline EXCEPT ![t] = x]
  BY <1>1 DEF Arm, Disarm
<1>4. ArmedIn(deadline') \subseteq ArmedIn(deadline) \cup {t}
  BY <1>3 DEF ArmedIn, IInv, TimerInv, TimerTypeOK
<1>5. \A u \in ArmedIn(deadline') : status[u] = "live"
  BY <1>1, <1>4 DEF IInv, OnlyLiveIsLinked
<1>6. QED
  BY <1>1, <1>2, <1>3, <1>5, DeadlineStep

LEMMA TimePassesInv ==
  ASSUME IInv, TimePasses
  PROVE  IInv'
<1>1. TimerInv'
  BY TickInv DEF TimePasses, IInv
<1>2. UNCHANGED <<expired, deadline, listVars, inputVars, posVars>>
  BY DEF TimePasses, Tick
<1>3. \A u \in ArmedIn(deadline') : status[u] = "live"
  BY <1>2 DEF IInv, OnlyLiveIsLinked
<1>4. QED
  BY <1>1, <1>2, <1>3, DeadlineStep

(* A live source leaves its list and waits on the destroy list.            *)
LEMMA SourceRemoved ==
  ASSUME IInv, NEW s \in Sources, status[s] \in {"live", "removed"},
         status' = [status EXCEPT ![s] = "removed"], Unlink(s),
         TimerInv', UNCHANGED expired,
         ArmedIn(deadline') \subseteq ArmedIn(deadline) \ {s},
         readable' \subseteq readable \ {s}, buffered' \subseteq buffered \ {s},
         UNCHANGED <<inputs, phase, ep, has_timers, next, recheck>>,
         running' \in {running, NoSource}
  PROVE  IInv'
<1>1. /\ idleList' \in Seq(IdleTasks) /\ checkList' \in Seq(Checkable)
      /\ ListsHaveNoRepeats'
      /\ Elements(idleList') = Elements(idleList) \ {s}
      /\ Elements(checkList') = Elements(checkList) \ {s}
  BY UnlinkEffect DEF IInv
<1>2. /\ status \in [Sources -> {"unused", "live", "removed", "freed"}]
      /\ \A u \in Sources : status'[u] = IF u = s THEN "removed" ELSE status[u]
  BY DEF IInv, TypeOK
<1>3. /\ ArmedIn(deadline) \subseteq Sources /\ readable \subseteq Sources
      /\ buffered \subseteq Sources /\ Elements(checkList) \subseteq Sources
      /\ Elements(idleList) \subseteq Sources
      /\ ep \subseteq Sources /\ Elements(expired) \subseteq Sources
      /\ {next, running} \ {NoSource} \subseteq Sources
  BY ElementsOfList, SourcesAssumption
     DEF IInv, TypeOK, TimerTypeOK, ArmedIn, Sources
<1>4. TypeOK'
  BY <1>1, <1>2 DEF IInv, TypeOK, TimerInv
<1>5. OnlyLiveIsLinked'
  BY <1>1, <1>2, <1>3 DEF IInv, OnlyLiveIsLinked
<1>6. PointedAtIsAllocated'
  BY <1>2, <1>3 DEF IInv, PointedAtIsAllocated
<1>7. PointersByPhase'
  BY DEF IInv, PointersByPhase
<1>8. LiveNextIsOnList'
  BY <1>1, <1>2, <1>3 DEF IInv, LiveNextIsOnList
<1>9. QED
  BY <1>1, <1>4, <1>5, <1>6, <1>7, <1>8 DEF IInv

LEMMA RemoveInv ==
  ASSUME IInv, NEW s \in Sources, Remove(s)
  PROVE  IInv'
<1>1. \/ s \in Timers /\ Disarm(s)
      \/ UNCHANGED timerVars /\ ~(s \in Timers /\ deadline[s] # 0)
  BY DEF Remove
<1>2. TimerInv' /\ UNCHANGED expired
  BY <1>1, DisarmInv, TimerVarsInv DEF IInv, Disarm, timerVars
<1>3. ArmedIn(deadline') \subseteq ArmedIn(deadline) \ {s}
  <2>1. CASE s \in Timers /\ Disarm(s)
    BY <2>1 DEF Disarm, ArmedIn, IInv, TimerInv, TimerTypeOK
  <2>2. CASE UNCHANGED timerVars /\ ~(s \in Timers /\ deadline[s] # 0)
    BY <2>2 DEF timerVars, ArmedIn
  <2>3. QED
    BY <1>1, <2>1, <2>2
<1>4. QED
  BY <1>2, <1>3, SourceRemoved DEF Remove, posVars

LEMMA ReturnInv ==
  ASSUME IInv, Return
  PROVE  IInv'
<1>1. /\ running \in Sources /\ running' = NoSource
      /\ status[running] \in {"live", "removed"}
      /\ UNCHANGED <<timerVars, inputVars, phase, ep, has_timers, next, recheck>>
  BY DEF Return, IInv, TypeOK, PointedAtIsAllocated
<1>2. TimerInv'
  BY <1>1, TimerVarsInv DEF IInv
<1>3. CASE running \in IdleTasks
  <2>1. status' = [status EXCEPT ![running] = "removed"] /\ Unlink(running)
    BY <1>3 DEF Return
  <2>2. ArmedIn(deadline) \subseteq Timers /\ readable \subseteq FdSources
        /\ buffered \subseteq FdSources
    BY SourcesAssumption DEF ArmedIn, IInv, TypeOK
  <2>3. running \notin ArmedIn(deadline) \cup readable \cup buffered
    BY <1>3, <2>2, SourcesAssumption
  <2>4. /\ ArmedIn(deadline') \subseteq ArmedIn(deadline) \ {running}
        /\ readable' \subseteq readable \ {running}
        /\ buffered' \subseteq buffered \ {running}
    BY <1>1, <2>3 DEF timerVars, inputVars
  <2>5. QED
    BY <1>1, <1>2, <2>1, <2>4, SourceRemoved DEF timerVars, inputVars
<1>4. CASE running \notin IdleTasks
  <2>1. UNCHANGED <<timerVars, listVars>>
    BY <1>4 DEF Return
  <2>2. PositionGood(readable, buffered, phase, ep, next, NoSource)
    BY PositionIsGood DEF PositionGood
  <2>3. QED
    BY <1>1, <2>1, <2>2, PositionIsGood, PositionStep DEF inputVars
<1>5. QED
  BY <1>3, <1>4

LEMMA CollectTimersInv ==
  ASSUME IInv, CollectTimers
  PROVE  IInv'
<1>1. /\ TimerInv' /\ expired' \in DueOrders
      /\ deadline' = [t \in Timers |-> IF t \in Due THEN 0 ELSE deadline[t]]
      /\ phase = "collect" /\ phase' = "timers"
      /\ UNCHANGED <<listVars, inputVars, ep, has_timers, next, recheck, running>>
  BY CollectInv DEF CollectTimers, At, Collect, IInv
<1>2. ArmedIn(deadline') \subseteq ArmedIn(deadline)
  BY <1>1 DEF ArmedIn
<1>3. Elements(expired') \subseteq ArmedIn(deadline)
  <2>1. Due \subseteq ArmedIn(deadline)
    BY DEF Due
  <2>2. PICK n : expired' \in [1..n -> Due]
    BY <1>1 DEF DueOrders
  <2>3. QED
    BY <2>1, <2>2 DEF Elements
<1>4. next = NoSource
  BY <1>1 DEF IInv, PointersByPhase
<1>5. TypeOK' /\ ListsHaveNoRepeats'
  BY <1>1 DEF IInv, TypeOK, TimerInv, Phases, ListsHaveNoRepeats, listVars, inputVars
<1>6. OnlyLiveIsLinked'
  BY <1>1, <1>2 DEF IInv, OnlyLiveIsLinked, listVars, inputVars
<1>7. PointedAtIsAllocated'
  BY <1>1, <1>3 DEF IInv, OnlyLiveIsLinked, PointedAtIsAllocated, listVars
<1>8. PointersByPhase' /\ LiveNextIsOnList'
  BY <1>1, <1>4 DEF PointersByPhase, LiveNextIsOnList
<1>9. QED
  BY <1>1, <1>5, <1>6, <1>7, <1>8 DEF IInv

LEMMA CallTimerInv ==
  ASSUME IInv, CallTimer
  PROVE  IInv'
<1>1. /\ TimerInv' /\ expired # <<>> /\ expired' = Tail(expired)
      /\ expired \in Seq(Timers) /\ phase = "timers" /\ next = NoSource
      /\ UNCHANGED <<deadline, listVars, inputVars, phase, ep, has_timers, next, recheck>>
  BY FireInv DEF CallTimer, At, Fire, IInv, TimerInv, TimerTypeOK, PointersByPhase
<1>2. Elements(expired') \subseteq Elements(expired)
  BY <1>1 DEF Elements
<1>3. Head(expired) \in Elements(expired) /\ Head(expired) \in Sources
  BY <1>1 DEF Elements, Sources
<1>4. running' \in {Head(expired), NoSource}
  BY DEF CallTimer
<1>5. TypeOK' /\ ListsHaveNoRepeats'
  BY <1>1, <1>3, <1>4 DEF IInv, TypeOK, TimerInv, ListsHaveNoRepeats, listVars, inputVars
<1>6. OnlyLiveIsLinked'
  BY <1>1 DEF IInv, OnlyLiveIsLinked, listVars, inputVars
<1>7. PointedAtIsAllocated'
  BY <1>1, <1>2, <1>3, <1>4 DEF IInv, PointedAtIsAllocated, listVars
<1>8. PointersByPhase' /\ LiveNextIsOnList'
  BY <1>1 DEF PointersByPhase, LiveNextIsOnList
<1>9. QED
  BY <1>1, <1>5, <1>6, <1>7, <1>8 DEF IInv

(* Freeing: by now the lists hold the only pointers left.                  *)
LEMMA FdsDoneInv ==
  ASSUME IInv, FdsDone
  PROVE  IInv'
<1>1. /\ phase = "fds" /\ running = NoSource /\ ep = {} /\ phase' = "idle after"
      /\ status' = FreeRemoved
      /\ UNCHANGED <<timerVars, idleList, checkList, inputVars, ep, has_timers, next,
                     recheck, running>>
  BY DEF FdsDone, At
<1>2. expired = <<>> /\ next = NoSource
  BY <1>1 DEF IInv, PointersByPhase
<1>3. TimerInv' /\ TimerTypeOK'
  BY <1>1, TimerVarsInv DEF IInv, TimerInv
<1>4. \A s \in Sources : status[s] = "live" => status'[s] = "live"
  BY <1>1 DEF FreeRemoved
<1>5. status' \in [Sources -> {"unused", "live", "removed", "freed"}]
  BY <1>1 DEF FreeRemoved, IInv, TypeOK
<1>6. TypeOK' /\ ListsHaveNoRepeats'
  BY <1>1, <1>3, <1>5 DEF IInv, TypeOK, Phases, ListsHaveNoRepeats, inputVars
<1>7. OnlyLiveIsLinked'
  <2>1. /\ ArmedIn(deadline) \subseteq Sources /\ readable \subseteq Sources
        /\ buffered \subseteq Sources /\ Elements(checkList) \subseteq Sources
        /\ Elements(idleList) \subseteq Sources
    BY ElementsOfList, SourcesAssumption DEF IInv, TypeOK, ArmedIn, Sources
  <2>2. QED
    BY <1>1, <1>4, <2>1 DEF IInv, OnlyLiveIsLinked, timerVars, inputVars
<1>8. PointedAtIsAllocated'
  <2>1. /\ ep' = {} /\ expired' = <<>> /\ next' = NoSource /\ running' = NoSource
    BY <1>1, <1>2 DEF timerVars
  <2>2. Elements(expired') = {}
    BY <2>1 DEF Elements
  <2>3. QED
    BY <2>1, <2>2 DEF PointedAtIsAllocated
<1>9. PointersByPhase' /\ LiveNextIsOnList'
  BY <1>1, <1>2 DEF PointersByPhase, LiveNextIsOnList, timerVars
<1>10. QED
  BY <1>3, <1>6, <1>7, <1>8, <1>9 DEF IInv

LEMMA StutterInv ==
  ASSUME IInv, UNCHANGED vars
  PROVE  IInv'
<1>1. UNCHANGED <<timerVars, listVars, inputVars, posVars>>
  BY DEF vars
<1>2. QED
  BY <1>1, PositionIsGood, PositionStep DEF inputVars, posVars

-----------------------------------------------------------------------------
(* The theorems                                                            *)

LEMMA Invariance == Spec => []IInv
<1>1. IInv /\ [Next]_vars => IInv'
  <2> SUFFICES ASSUME IInv, [Next]_vars PROVE IInv'
    OBVIOUS
  <2>1. CASE ApiCall
    BY <2>1, AddSourceInv, RemoveInv, CheckSourceInv, InputInv, UpdateTimerInv,
       SourcesAssumption DEF ApiCall
  <2>2. CASE Return
    BY <2>2, ReturnInv
  <2>3. CASE Dispatch \/ DispatchIdle
    BY <2>3, EnterInv DEF Dispatch, DispatchIdle, Phases
  <2>4. CASE PollReturns \/ PollTimesOut \/ PollFails
    BY <2>4, PollReturnsInv, PollEndsInv
  <2>5. CASE LoopStep
    BY <2>5, CallIdleInv, IdleDoneInv, CollectTimersInv, CallTimerInv, TimersDoneInv,
       CallFdInv, FdsDoneInv, CallCheckedInv, WalkOffCheckListInv, CheckDoneInv
       DEF LoopStep
  <2>6. CASE TimePasses
    BY <2>6, TimePassesInv
  <2>7. ASSUME NEW s \in FdSources, InputArrives(s) PROVE IInv'
    BY <2>7, InputInv
  <2>8. CASE UNCHANGED vars
    BY <2>8, StutterInv
  <2>9. QED
    BY <2>1, <2>2, <2>3, <2>4, <2>5, <2>6, <2>7, <2>8 DEF Next
<1>2. QED
  BY <1>1, InitInv, PTL DEF Spec

(* The loop's data stay well formed whatever functions do to it while it   *)
(* is half way through a dispatch.                                         *)
THEOREM LoopWellTyped == Spec => []TypeOK
BY Invariance, PTL DEF IInv

(* wl_event_loop_process_destroy_list never frees a source that the loop   *)
(* still has a pointer to.                                                 *)
THEOREM NothingFreedInUse == Spec => []NothingInUseIsFreed
<1>1. IInv => NothingInUseIsFreed
  BY DEF IInv, NothingInUseIsFreed, PointedAtIsAllocated, OnlyLiveIsLinked
<1>2. QED
  BY <1>1, Invariance, PTL

(* wl_event_source_remove leaves no timer armed and no list entry behind.  *)
THEOREM LinkedAreLive == Spec => []OnlyLiveIsLinked
BY Invariance, PTL DEF IInv

-----------------------------------------------------------------------------
(* What a step may do                                                      *)

(* Only these steps put a function on the stack.                           *)
LEMMA WhoRuns ==
  ASSUME Next, running' # NoSource, running' # running
  PROVE  CallIdle \/ CallTimer \/ CallFd \/ CallChecked \/ WalkOffCheckList
<1>1. ~ApiCall
  BY DEF ApiCall, AddSource, Remove, wl_event_source_check, FillBuffer, UpdateTimer, posVars
<1>2. ~(Return \/ Dispatch \/ DispatchIdle \/ PollReturns \/ PollTimesOut \/ PollFails)
  BY DEF Return, Dispatch, DispatchIdle, Enter, PollReturns, PollTimesOut, PollFails
<1>3. ~(IdleDone \/ CollectTimers \/ TimersDone \/ FdsDone \/ CheckDone)
  BY DEF IdleDone, CollectTimers, TimersDone, FdsDone, CheckDone
<1>4. ~TimePasses /\ \A s \in FdSources : ~InputArrives(s)
  BY DEF TimePasses, InputArrives, posVars
<1>5. QED
  BY <1>1, <1>2, <1>3, <1>4 DEF Next, LoopStep

LEMMA RemovedNotDispatchedStep ==
  ASSUME IInv, Next, running' # NoSource, running' # running, phase # "check"
  PROVE  status[running'] = "live"
<1>1. CASE CallIdle
  <2>1. idleList \in Seq(IdleTasks) /\ idleList # <<>> /\ running' = Head(idleList)
    BY <1>1 DEF IInv, TypeOK, CallIdle
  <2>2. 1 \in DOMAIN idleList /\ Head(idleList) = idleList[1]
    BY <2>1
  <2>3. running' \in Elements(idleList)
    BY <2>1, <2>2 DEF Elements
  <2>4. QED
    BY <2>3 DEF IInv, OnlyLiveIsLinked
<1>2. CASE CallTimer
  BY <1>2 DEF CallTimer
<1>3. CASE CallFd
  BY <1>3 DEF CallFd
<1>4. ~CallChecked /\ ~WalkOffCheckList
  BY DEF CallChecked, WalkOffCheckList, At
<1>5. QED
  BY <1>1, <1>2, <1>3, <1>4, WhoRuns

(* Re-checking: as long as no function has run in this pass, whoever has   *)
(* something buffered is still ahead on the list.                          *)
BufferedAreAhead ==
  phase = "check" /\ ~recheck =>
    /\ running = NoSource
    /\ \A i \in DOMAIN checkList : checkList[i] \in buffered =>
         \E k \in DOMAIN checkList : k <= i /\ checkList[k] = next

(* At the beginning of a pass they all are.                                *)
LEMMA AheadOfFirst ==
  ASSUME NEW list \in Seq(Checkable), NEW i \in DOMAIN list
  PROVE  \E k \in DOMAIN list : k <= i /\ list[k] = FirstOf(list)
<1>1. list # <<>> /\ 1 \in DOMAIN list /\ 1 <= i /\ Head(list) = list[1]
  OBVIOUS
<1>2. QED
  BY <1>1 DEF FirstOf

LEMMA AheadOfNext ==
  ASSUME NoRepeats(checkList), checkList \in Seq(Checkable),
         NEW k \in DOMAIN checkList, NEW i \in DOMAIN checkList, k < i
  PROVE  \E m \in DOMAIN checkList : m <= i /\ checkList[m] = After(checkList[k])
<1> DEFINE c == CHOOSE j \in DOMAIN checkList : checkList[j] = checkList[k]
<1>1. c \in DOMAIN checkList /\ checkList[c] = checkList[k]
  OBVIOUS
<1>2. c = k
  BY <1>1 DEF NoRepeats
<1>3. After(checkList[k]) = IF k = Len(checkList) THEN NoSource ELSE checkList[k + 1]
  BY <1>2 DEF After
<1>4. /\ Len(checkList) \in Nat /\ DOMAIN checkList = 1..Len(checkList)
  OBVIOUS
<1>5. k # Len(checkList) /\ k + 1 \in DOMAIN checkList /\ k + 1 <= i
  BY <1>4
<1>6. QED
  BY <1>3, <1>5

LEMMA BufferedAreAheadStep ==
  ASSUME IInv, BufferedAreAhead, [Next]_vars
  PROVE  BufferedAreAhead'
<1> SUFFICES ASSUME phase' = "check", ~recheck'
             PROVE  /\ running' = NoSource
                    /\ \A i \in DOMAIN checkList' : checkList'[i] \in buffered' =>
                         \E k \in DOMAIN checkList' : k <= i /\ checkList'[k] = next'
  BY DEF BufferedAreAhead
<1>1. CASE ApiCall
  <2>1. UNCHANGED posVars /\ (phase = "check" => running # NoSource)
    BY <1>1 DEF ApiCall, AddSource, Remove, wl_event_source_check, FillBuffer, UpdateTimer, CanCall
  <2>2. QED
    BY <2>1 DEF posVars, BufferedAreAhead
<1>2. CASE Return
  BY <1>2 DEF Return, BufferedAreAhead
<1>3. CASE Dispatch \/ DispatchIdle \/ PollReturns \/ PollTimesOut \/ PollFails
  BY <1>3 DEF Dispatch, DispatchIdle, Enter, PollReturns, PollTimesOut, PollFails
<1>4. CASE IdleDone
  <2>1. phase = "idle after" /\ next' = FirstOf(checkList) /\ running' = NoSource
    BY <1>4 DEF IdleDone, IdlePhases
  <2>2. checkList' = checkList /\ checkList \in Seq(Checkable)
    BY <1>4 DEF IdleDone, listVars, IInv, TypeOK
  <2>3. QED
    BY <2>1, <2>2, AheadOfFirst
<1>5. CASE CheckDone
  <2>1. recheck /\ next' = FirstOf(checkList) /\ running' = NoSource
    BY <1>5 DEF CheckDone, At
  <2>2. checkList' = checkList /\ checkList \in Seq(Checkable)
    BY <1>5 DEF CheckDone, listVars, IInv, TypeOK
  <2>3. QED
    BY <2>1, <2>2, AheadOfFirst
<1>6. CASE CallChecked
  <2>1. /\ phase = "check" /\ ~recheck /\ next \notin buffered /\ next # NoSource
        /\ next' = After(next) /\ running' = NoSource /\ checkList' = checkList
        /\ buffered' = buffered \ {next}
    BY <1>6 DEF CallChecked, At, listVars
  <2>2. ASSUME NEW i \in DOMAIN checkList, checkList[i] \in buffered
        PROVE  \E m \in DOMAIN checkList : m <= i /\ checkList[m] = After(next)
    <3>1. PICK k \in DOMAIN checkList : k <= i /\ checkList[k] = next
      BY <2>1, <2>2 DEF BufferedAreAhead
    <3>2. k # i
      BY <2>1, <2>2, <3>1
    <3>3. k < i
      BY <3>1, <3>2 DEF IInv, TypeOK
    <3>4. QED
      BY <3>1, <3>3, AheadOfNext DEF IInv, TypeOK, ListsHaveNoRepeats
  <2>3. QED
    BY <2>1, <2>2
<1>7. CASE CallIdle \/ CollectTimers \/ CallTimer \/ TimersDone \/ CallFd \/ FdsDone \/ WalkOffCheckList
  BY <1>7 DEF CallIdle, CollectTimers, CallTimer, TimersDone, CallFd, FdsDone,
              WalkOffCheckList, At, IdlePhases
<1>8. CASE TimePasses \/ (\E s \in FdSources : InputArrives(s)) \/ UNCHANGED vars
  BY <1>8 DEF TimePasses, InputArrives, vars, listVars, inputVars, posVars, BufferedAreAhead
<1>9. QED
  BY <1>1, <1>2, <1>3, <1>4, <1>5, <1>6, <1>7, <1>8 DEF Next, LoopStep

LEMMA DrainedOnReturnStep ==
  ASSUME IInv, BufferedAreAhead, Next, phase = "check", phase' = "outside"
  PROVE  buffered \cap Elements(checkList) = {}
<1>1. CheckDone
  <2>1. ~ApiCall /\ ~Return
    BY DEF ApiCall, AddSource, Remove, wl_event_source_check, FillBuffer, UpdateTimer, Return,
           posVars
  <2>2. ~(Dispatch \/ DispatchIdle \/ PollReturns \/ PollTimesOut \/ PollFails)
    BY DEF Dispatch, DispatchIdle, Enter, PollReturns, PollTimesOut, PollFails, At
  <2>3. ~(CallIdle \/ IdleDone \/ CollectTimers \/ CallTimer \/ TimersDone \/ CallFd \/ FdsDone)
    BY DEF CallIdle, IdleDone, CollectTimers, CallTimer, TimersDone, CallFd, FdsDone, At, IdlePhases
  <2>4. ~CallChecked /\ ~WalkOffCheckList
    BY DEF CallChecked, WalkOffCheckList
  <2>5. ~TimePasses /\ \A s \in FdSources : ~InputArrives(s)
    BY DEF TimePasses, InputArrives, posVars
  <2>6. QED
    BY <2>1, <2>2, <2>3, <2>4, <2>5 DEF Next, LoopStep
<1>2. ~recheck /\ next = NoSource
  BY <1>1 DEF CheckDone
<1>3. NoSource \notin Checkable
  BY SourcesAssumption DEF Sources
<1>4. \A k \in DOMAIN checkList : checkList[k] # next
  BY <1>2, <1>3, ElementsOfList DEF IInv, TypeOK, Elements
<1>5. \A i \in DOMAIN checkList : checkList[i] \notin buffered
  BY <1>2, <1>4 DEF BufferedAreAhead
<1>6. QED
  BY <1>5 DEF Elements

(* A function that removes a source never has it called after all: not     *)
(* through the events and timers collected, nor as an idle task.           *)
THEOREM RemovedAreNotDispatched == Spec => RemovedNotDispatched
<1>1. IInv /\ [Next]_vars =>
        [running' # NoSource /\ running' # running /\ phase # "check"
           => status[running'] = "live"]_vars
  BY RemovedNotDispatchedStep
<1>2. QED
  BY <1>1, Invariance, PTL DEF Spec, RemovedNotDispatched

(* wl_event_loop_dispatch returns with nothing left in the buffers of the  *)
(* sources to be re-checked, whatever fills them.                          *)
THEOREM NothingBufferedOnReturn == Spec => DrainedOnReturn
<1>1. Init => BufferedAreAhead
  BY DEF Init, BufferedAreAhead
<1>2. Spec => []BufferedAreAhead
  BY <1>1, Invariance, BufferedAreAheadStep, PTL DEF Spec
<1>3. IInv /\ BufferedAreAhead /\ [Next]_vars =>
        [phase = "check" /\ phase' = "outside" =>
           buffered \cap Elements(checkList) = {}]_vars
  BY DrainedOnReturnStep
<1>4. QED
  BY <1>2, <1>3, Invariance, PTL DEF Spec, DrainedOnReturn

-----------------------------------------------------------------------------
(* The loop uses its timers as TimerQueue says they are used.              *)

LEMMA LoopTimerStep ==
  ASSUME IInv, [Next]_vars
  PROVE  [TimerNext]_timerVars
<1>1. ASSUME NEW t \in Timers, NEW delay \in 0..MaxTime, UpdateTimer(t, delay)
      PROVE  TimerNext
  BY <1>1, MaxTimeAssumption DEF UpdateTimer, TimerNext
<1>2. ASSUME NEW s \in Sources, Remove(s) PROVE TimerNext \/ UNCHANGED timerVars
  BY <1>2 DEF Remove, TimerNext
<1>3. CASE ApiCall
  BY <1>1, <1>2, <1>3 DEF ApiCall, AddSource, wl_event_source_check, FillBuffer
<1>4. CASE CollectTimers \/ CallTimer \/ TimePasses
  BY <1>4 DEF CollectTimers, CallTimer, TimePasses, TimerNext
<1>5. CASE Return \/ Dispatch \/ DispatchIdle \/ PollReturns \/ PollTimesOut \/ PollFails
  BY <1>5 DEF Return, Dispatch, DispatchIdle, Enter, PollReturns, PollTimesOut, PollFails
<1>6. CASE CallIdle \/ IdleDone \/ TimersDone \/ CallFd \/ FdsDone \/ CallChecked
             \/ WalkOffCheckList \/ CheckDone
  BY <1>6 DEF CallIdle, IdleDone, TimersDone, CallFd, FdsDone, CallChecked,
              WalkOffCheckList, CheckDone
<1>7. ASSUME NEW s \in FdSources, InputArrives(s) PROVE UNCHANGED timerVars
  BY <1>7 DEF InputArrives
<1>8. CASE UNCHANGED vars
  BY <1>8 DEF vars
<1>9. QED
  BY <1>3, <1>4, <1>5, <1>6, <1>7, <1>8 DEF Next, LoopStep

(* The event loop implements TimerQueue.                                   *)
THEOREM LoopImplementsTimerQueue == Spec => TimerSpec
<1>1. Init => TimerInit
  BY DEF Init
<1>2. QED
  BY <1>1, Invariance, LoopTimerStep, PTL DEF Spec, TimerSpec

(* Whatever functions do to timers and sources while the loop is half way  *)
(* through a dispatch, no wake-up is lost ...                              *)
THEOREM LoopLosesNoWakeUp == Spec => []TimerfdCovers
BY LoopImplementsTimerQueue, NoWakeUpLost

(* ... and an empty queue does not wake the loop.                          *)
THEOREM LoopIdleSleeps == Spec => []TimerfdClearedWhenIdle
BY LoopImplementsTimerQueue, NoIdleWakeUp
=============================================================================

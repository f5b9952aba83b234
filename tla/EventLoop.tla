------------------------------- MODULE EventLoop -------------------------------
(***************************************************************************)
(* An event loop (untitled/src/event-loop.c): fd sources watched by epoll, *)
(* timers, idle tasks, and the functions they call.  One thread runs the   *)
(* loop, but every function it calls may add, remove and update sources    *)
(* while wl_event_loop_dispatch is half way through its lists; that is     *)
(* the concurrency of this component.  `running` is the source whose       *)
(* function is on the stack, and the operations of the API are enabled     *)
(* while one is, or while the program is outside dispatch.                 *)
(*                                                                         *)
(* A source stands for one allocation: it is added once.  Signal sources   *)
(* behave as fd sources.  Calls that fail for want of memory or of a file  *)
(* descriptor change nothing and are left out, and so is a function that   *)
(* dispatches the loop it is called from.                                  *)
(***************************************************************************)
EXTENDS TimerQueue

CONSTANTS FdSources,   \* sources with a file descriptor
          IdleTasks,   \* idle sources
          Checkable,   \* the fd sources that buffer input and are re-checked
          MaxEvents,   \* room in the array given to epoll_wait, 32 in the code
          MaxInputs,   \* bound: how often input arrives on a file descriptor
          NoSource     \* no source: an empty stack, the end of a list

Sources == FdSources \cup Timers \cup IdleTasks

ASSUME SourcesAssumption ==
  /\ FdSources \cap Timers = {} /\ FdSources \cap IdleTasks = {}
  /\ Timers \cap IdleTasks = {}
  /\ NoSource \notin Sources
  /\ Checkable \subseteq FdSources
  /\ MaxEvents \in Nat \ {0} /\ MaxInputs \in Nat

VARIABLES status,      \* status[s]: "unused", "live", "removed" or "freed"
          idleList,    \* idle tasks in the order they were added
          checkList,   \* sources marked with wl_event_source_check
          readable,    \* fd sources whose descriptor has input
          buffered,    \* checkable sources with input read but not processed
          inputs,      \* inputs that have arrived
          phase,       \* where wl_event_loop_dispatch is
          ep,          \* sources epoll_wait returned and not yet dispatched
          has_timers,  \* epoll_wait returned the timerfd
          next,        \* the source post_dispatch_check goes to next
          recheck,     \* needs_recheck
          running      \* the source whose function is on the stack

listVars  == <<status, idleList, checkList>>
inputVars == <<readable, buffered, inputs>>
posVars   == <<phase, ep, has_timers, next, recheck, running>>
vars == <<timerVars, listVars, inputVars, posVars>>

Phases == {"outside", "idle only", "idle before", "poll", "collect", "timers", "fds",
           "idle after", "check", "crashed"}

IdlePhases == {"idle only", "idle before", "idle after"}

Elements(list) == {list[i] : i \in DOMAIN list}

(* list without its element at position k *)
Without(list, k) ==
  [i \in 1..(Len(list) - 1) |-> IF i < k THEN list[i] ELSE list[i + 1]]

Init ==
  /\ TimerInit
  /\ status = [s \in Sources |-> "unused"]
  /\ idleList = <<>> /\ checkList = <<>>
  /\ readable = {} /\ buffered = {} /\ inputs = 0
  /\ phase = "outside"
  /\ ep = {} /\ has_timers = FALSE
  /\ next = NoSource /\ recheck = FALSE /\ running = NoSource

-----------------------------------------------------------------------------
(* Operations of the API                                                   *)

CanCall == phase # "crashed" /\ (running # NoSource \/ phase = "outside")

(* wl_event_loop_add_fd, _add_signal, _add_timer, _add_idle                *)
AddSource(s) ==
  /\ CanCall
  /\ status[s] = "unused"
  /\ status' = [status EXCEPT ![s] = "live"]
  /\ idleList' = IF s \in IdleTasks THEN Append(idleList, s) ELSE idleList
  /\ UNCHANGED <<timerVars, checkList, inputVars, posVars>>

wl_event_source_check(s) ==
  /\ CanCall
  /\ status[s] = "live" /\ s \notin Elements(checkList)
  /\ checkList' = Append(checkList, s)
  /\ UNCHANGED <<timerVars, status, idleList, inputVars, posVars>>

UpdateTimer(t, delay) ==
  /\ CanCall
  /\ status[t] = "live"
  /\ IF delay > 0 THEN Arm(t, delay) ELSE Disarm(t)
  /\ UNCHANGED <<listVars, inputVars, posVars>>

(* Faulty: leaves a removed source on its list.                            *)
UnlinkNothing(s) == UNCHANGED <<idleList, checkList>>

(* Unlinks s from the list it is on, if any.                               *)
Unlink(s) ==
  \/ /\ s \notin Elements(idleList) \cup Elements(checkList)
     /\ UNCHANGED <<idleList, checkList>>
  \/ \E k \in DOMAIN idleList :
       idleList[k] = s /\ idleList' = Without(idleList, k) /\ UNCHANGED checkList
  \/ \E k \in DOMAIN checkList :
       checkList[k] = s /\ checkList' = Without(checkList, k) /\ UNCHANGED idleList

(* wl_event_source_remove.  The source goes to the destroy list; a pending *)
(* epoll event or a collected timer still points at it.  Removing an idle  *)
(* task from its own function is documented as undefined and left out.     *)
Remove(s) ==
  /\ CanCall
  /\ status[s] = "live"
  /\ s \in IdleTasks => s # running
  /\ status' = [status EXCEPT ![s] = "removed"]
  /\ Unlink(s)
  /\ IF s \in Timers /\ deadline[s] # 0 THEN Disarm(s) ELSE UNCHANGED timerVars
  /\ readable' = readable \ {s} /\ buffered' = buffered \ {s}
  /\ UNCHANGED <<inputs, posVars>>

(* A function reads another source's descriptor and leaves the data in     *)
(* that source's buffer: what wl_event_source_check is there for.          *)
FillBuffer(s) ==
  /\ running # NoSource /\ phase # "check"
  /\ status[s] = "live" /\ s \in readable
  /\ readable' = readable \ {s} /\ buffered' = buffered \cup {s}
  /\ UNCHANGED <<timerVars, listVars, inputs, posVars>>

(* Faulty: an idle task that has run stays.                                *)
ReturnKeepsIdle ==
  /\ running # NoSource /\ phase # "crashed"
  /\ running' = NoSource
  /\ UNCHANGED <<timerVars, listVars, inputVars, phase, ep, has_timers, next, recheck>>

(* The function on the stack returns.  An idle task is removed when its    *)
(* function has returned.                                                  *)
Return ==
  /\ running # NoSource /\ phase # "crashed"
  /\ running' = NoSource
  /\ IF running \in IdleTasks
     THEN /\ status' = [status EXCEPT ![running] = "removed"]
          /\ Unlink(running)
     ELSE UNCHANGED listVars
  /\ UNCHANGED <<timerVars, inputVars, phase, ep, has_timers, next, recheck>>

-----------------------------------------------------------------------------
(* wl_event_loop_dispatch, wl_event_loop_dispatch_idle                     *)

At(p) == phase = p /\ running = NoSource

Enter(p) ==
  /\ At("outside")
  /\ phase' = p
  /\ UNCHANGED <<timerVars, listVars, inputVars, ep, has_timers, next, recheck, running>>

Dispatch == Enter("idle before")

DispatchIdle == Enter("idle only")

CallIdle ==
  /\ phase \in IdlePhases /\ running = NoSource
  /\ idleList # <<>>
  /\ running' = Head(idleList)
  /\ UNCHANGED <<timerVars, listVars, inputVars, phase, ep, has_timers, next, recheck>>

FirstOf(list) == IF list = <<>> THEN NoSource ELSE Head(list)

IdleDone ==
  /\ phase \in IdlePhases /\ running = NoSource
  /\ idleList = <<>>
  /\ phase' = CASE phase = "idle only"   -> "outside"
                [] phase = "idle before" -> "poll"
                [] phase = "idle after"  -> "check"
  /\ IF phase = "idle after"
     THEN next' = FirstOf(checkList) /\ recheck' = FALSE
     ELSE UNCHANGED <<next, recheck>>
  /\ UNCHANGED <<timerVars, listVars, inputVars, ep, has_timers, running>>

TimerfdExpired == timerfd # 0 /\ timerfd <= now

(* epoll_wait returns what is ready, at most MaxEvents of it.              *)
PollReturns ==
  /\ At("poll")
  /\ TimerfdExpired \/ readable # {}
  /\ ep' \in SUBSET readable
  /\ has_timers' \in BOOLEAN
  /\ has_timers' => TimerfdExpired
  /\ LET all == Cardinality(readable) + (IF TimerfdExpired THEN 1 ELSE 0)
         n   == Cardinality(ep') + (IF has_timers' THEN 1 ELSE 0)
     IN  n = IF all <= MaxEvents THEN all ELSE MaxEvents
  /\ phase' = IF has_timers' THEN "collect" ELSE "fds"
  /\ UNCHANGED <<timerVars, listVars, inputVars, next, recheck, running>>

(* The timeout given to wl_event_loop_dispatch passes: no events.          *)
PollTimesOut ==
  /\ At("poll")
  /\ ~TimerfdExpired /\ readable = {}
  /\ ep' = {} /\ has_timers' = FALSE
  /\ phase' = "fds"
  /\ UNCHANGED <<timerVars, listVars, inputVars, next, recheck, running>>

(* epoll_wait fails, interrupted by a signal: dispatch returns -1 at once. *)
PollFails ==
  /\ At("poll")
  /\ phase' = "outside"
  /\ UNCHANGED <<timerVars, listVars, inputVars, ep, has_timers, next, recheck, running>>

CollectTimers ==
  /\ At("collect")
  /\ Collect
  /\ phase' = "timers"
  /\ UNCHANGED <<listVars, inputVars, ep, has_timers, next, recheck, running>>

(* Faulty: does not look whether the timer has been removed.               *)
CallTimerUnchecked ==
  /\ At("timers")
  /\ Fire
  /\ running' = Head(expired)
  /\ UNCHANGED <<listVars, inputVars, phase, ep, has_timers, next, recheck>>

(* A collected timer is called unless it has been removed meanwhile.       *)
CallTimer ==
  /\ At("timers")
  /\ Fire
  /\ running' = IF status[Head(expired)] = "live" THEN Head(expired) ELSE NoSource
  /\ UNCHANGED <<listVars, inputVars, phase, ep, has_timers, next, recheck>>

TimersDone ==
  /\ At("timers")
  /\ expired = <<>>
  /\ phase' = "fds"
  /\ UNCHANGED <<timerVars, listVars, inputVars, ep, has_timers, next, recheck, running>>

(* An fd source is dispatched unless it has been removed meanwhile (its fd *)
(* is then -1).  Its function may or may not read all there is.            *)
CallFd ==
  /\ At("fds")
  /\ \E s \in ep :
       /\ ep' = ep \ {s}
       /\ IF status[s] = "live"
          THEN /\ running' = s
               /\ readable' \in {readable, readable \ {s}}
               /\ buffered' = buffered \ {s}
          ELSE UNCHANGED <<running, readable, buffered>>
  /\ UNCHANGED <<timerVars, listVars, inputs, phase, has_timers, next, recheck>>

(* wl_event_loop_process_destroy_list: every removed source is freed.      *)
FreeRemoved ==
  [s \in Sources |-> IF status[s] = "removed" THEN "freed" ELSE status[s]]

(* Faulty: processes the destroy list in the loop over the events.         *)
FdsDoneEarly ==
  /\ At("fds")
  /\ status' = FreeRemoved
  /\ phase' = "idle after"
  /\ UNCHANGED <<timerVars, idleList, checkList, inputVars, ep, has_timers, next,
                 recheck, running>>

FdsDone ==
  /\ At("fds")
  /\ ep = {}
  /\ status' = FreeRemoved
  /\ phase' = "idle after"
  /\ UNCHANGED <<timerVars, idleList, checkList, inputVars, ep, has_timers, next,
                 recheck, running>>

(* The source after s on the check list.                                   *)
After(s) ==
  LET k == CHOOSE i \in DOMAIN checkList : checkList[i] = s
  IN  IF k = Len(checkList) THEN NoSource ELSE checkList[k + 1]

(* One step of post_dispatch_check.  wl_list_for_each_safe has fetched the *)
(* successor before it calls the source.  A function that finds nothing in *)
(* the buffer returns 0 and does nothing else.                             *)
CallChecked ==
  /\ At("check")
  /\ next # NoSource /\ status[next] = "live"
  /\ next' = After(next)
  /\ recheck' = (recheck \/ next \in buffered)
  /\ running' = IF next \in buffered THEN next ELSE NoSource
  /\ \E also \in SUBSET (IF next \in buffered THEN readable \cap Checkable ELSE {}) :
       /\ buffered' = (buffered \ {next}) \cup also
       /\ readable' = readable \ also
  /\ UNCHANGED <<timerVars, listVars, inputs, phase, ep, has_timers>>

(* The successor fetched earlier has been removed by the function called   *)
(* since: it is on the destroy list now.  It is called all the same, and   *)
(* the loop goes on along the destroy list until it takes that list's head *)
(* for a source.                                                           *)
WalkOffCheckList ==
  /\ At("check")
  /\ next # NoSource /\ status[next] # "live"
  /\ running' = next
  /\ phase' = "crashed"
  /\ UNCHANGED <<timerVars, listVars, inputVars, ep, has_timers, next, recheck>>

(* Faulty: goes through the check list once.                               *)
CheckDoneOnce ==
  /\ At("check")
  /\ next = NoSource
  /\ phase' = "outside"
  /\ UNCHANGED <<timerVars, listVars, inputVars, ep, has_timers, next, recheck, running>>

CheckDone ==
  /\ At("check")
  /\ next = NoSource
  /\ IF recheck
     THEN next' = FirstOf(checkList) /\ recheck' = FALSE /\ UNCHANGED phase
     ELSE phase' = "outside" /\ UNCHANGED <<next, recheck>>
  /\ UNCHANGED <<timerVars, listVars, inputVars, ep, has_timers, running>>

-----------------------------------------------------------------------------
(* The kernel                                                              *)

InputArrives(s) ==
  /\ inputs < MaxInputs
  /\ status[s] = "live" /\ s \notin readable
  /\ readable' = readable \cup {s}
  /\ inputs' = inputs + 1
  /\ UNCHANGED <<timerVars, listVars, buffered, posVars>>

TimePasses == Tick /\ UNCHANGED <<listVars, inputVars, posVars>>

-----------------------------------------------------------------------------

ApiCall ==
  \/ \E s \in Sources : AddSource(s) \/ Remove(s)
  \/ \E s \in Checkable : wl_event_source_check(s) \/ FillBuffer(s)
  \/ \E t \in Timers, delay \in 0..MaxTime : UpdateTimer(t, delay)

(* The steps of a dispatch that never wait for anything.                   *)
LoopStep ==
  \/ CallIdle \/ IdleDone \/ CollectTimers \/ CallTimer \/ TimersDone
  \/ CallFd \/ FdsDone \/ CallChecked \/ WalkOffCheckList \/ CheckDone

Next ==
  \/ ApiCall \/ Return
  \/ Dispatch \/ DispatchIdle \/ PollReturns \/ PollTimesOut \/ PollFails
  \/ LoopStep
  \/ TimePasses \/ \E s \in FdSources : InputArrives(s)

Spec == Init /\ [][Next]_vars

(* wl_display_run dispatches the loop over and over, a function it calls   *)
(* returns, and time passes.  A wait may be interrupted by a signal, but   *)
(* not every one of them, and what does not fit into the events of one     *)
(* wait goes first in a later one: the kernel's ready list takes turns.    *)
Fairness ==
  /\ WF_vars(Return) /\ WF_vars(LoopStep) /\ WF_vars(TimePasses)
  /\ SF_vars(Dispatch)
  /\ SF_vars(PollReturns /\ has_timers')
  /\ \A s \in FdSources : SF_vars(PollReturns /\ s \in ep')

FairSpec == Spec /\ Fairness

-----------------------------------------------------------------------------

TypeOK ==
  /\ TimerTypeOK
  /\ status \in [Sources -> {"unused", "live", "removed", "freed"}]
  /\ idleList \in Seq(IdleTasks) /\ checkList \in Seq(Checkable)
  /\ readable \subseteq FdSources /\ buffered \subseteq Checkable
  /\ inputs \in 0..MaxInputs
  /\ phase \in Phases
  /\ ep \subseteq FdSources /\ has_timers \in BOOLEAN
  /\ next \in Checkable \cup {NoSource} /\ recheck \in BOOLEAN
  /\ running \in Sources \cup {NoSource}

(* Nothing the loop still points at has been freed: the events it has not  *)
(* dispatched, the timers it has not called, the sources on its lists, the *)
(* successor it fetched and the source being called.  Functions remove     *)
(* sources in the middle of all these, so memory may only be released at   *)
(* the one point of a dispatch where every such pointer is gone.           *)
NothingInUseIsFreed ==
  \A s \in ep \cup Elements(expired) \cup Elements(idleList) \cup Elements(checkList)
         \cup ({next, running} \ {NoSource}) : status[s] # "freed"

(* Only live sources are armed or linked, so a removed source can neither  *)
(* wake the loop nor be found on one of its lists.                         *)
OnlyLiveIsLinked ==
  \A s \in ArmedIn(deadline) \cup Elements(idleList) \cup Elements(checkList)
         \cup readable \cup buffered : status[s] = "live"

(* wl_event_source_remove: "The dispatch function of the source will no    *)
(* longer be called through this source", whatever the loop had queued.    *)
RemovedNeverCalled ==
  [][running' # NoSource /\ running' # running => status[running'] = "live"]_vars

(* That is so of the events and timers collected before the removal and of *)
(* the idle tasks: a function that removes another source never has it     *)
(* called after all, except through the list of sources to be re-checked.  *)
RemovedNotDispatched ==
  [][running' # NoSource /\ running' # running /\ phase # "check"
       => status[running'] = "live"]_vars

(* Re-checking drains everything that functions have buffered before       *)
(* wl_event_loop_dispatch returns, also when draining one source fills the *)
(* buffer of another that has been checked already.                        *)
DrainedOnReturn ==
  [][phase = "check" /\ phase' = "outside" =>
       buffered \cap Elements(checkList) = {}]_vars

(* Every armed timer is called, disarmed or removed in the end, although   *)
(* all timers share one timerfd and other functions run in between.        *)
ArmedTimerFires == \A t \in Timers : deadline[t] # 0 ~> deadline[t] = 0

(* An idle task runs, or is removed before it does.                        *)
IdleTaskRuns == \A s \in IdleTasks : status[s] = "live" ~> status[s] # "live"

(* A readable source is dispatched, or its input is gone some other way.   *)
ReadableDispatched ==
  \A s \in FdSources : s \in readable ~> (running = s \/ s \notin readable)
=============================================================================

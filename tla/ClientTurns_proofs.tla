-------------------------- MODULE ClientTurns_proofs --------------------------
(***************************************************************************)
(* The client library implements ReadTurns, for any threads, interfaces,   *)
(* scenarios and sizes: whatever else the threads do, and whatever comes   *)
(* over the socket, they take turns in reading it.                         *)
(*                                                                         *)
(* Most steps touch neither the count of readers nor the serial, and leave *)
(* every thread as far as it was in its turn (SameTurns); of what they do  *)
(* besides, only that an error may end it matters, which wakes the threads *)
(* (MayFail).                                                              *)
(***************************************************************************)
EXTENDS Client, TLAPS

Fields == {"objects", "proxies", "queues", "connection", "connected", "last_error",
           "protocol_error", "reader_count", "read_serial"}

IsDisplay(d) == /\ d = [f \in Fields |-> d[f]]
                /\ d.reader_count \in Int /\ d.read_serial \in Int

ThreadFields == {"pc", "program", "serial", "done", "callback", "ret", "event", "phase"}

IsThread(th) == th = [f \in ThreadFields |-> th[f]]

Shape == /\ IsDisplay(display)
         /\ thread = [t \in Threads |-> thread[t]]
         /\ \A t \in Threads : IsThread(thread[t])

SameTurns(d, e) == /\ IsDisplay(e)
                   /\ e.reader_count = d.reader_count /\ e.read_serial = d.read_serial
                   /\ e.last_error = d.last_error

Fails(d, e) == /\ IsDisplay(e)
               /\ d.last_error = "none" /\ e.last_error # "none"
               /\ e.reader_count = d.reader_count /\ e.read_serial = d.read_serial + 1

MayFail(d, e) == SameTurns(d, e) \/ Fails(d, e)

PhaseAt(pc) == IF pc \in {"flush", "pollout", "pollin", "read", "cancel"} THEN "prepared"
               ELSE IF pc = "asleep" THEN "asleep" ELSE "out"

-----------------------------------------------------------------------------
(* The operations on the display.                                          *)

LEMMA FatalErrorFailsNow ==
  ASSUME NEW d, NEW error, IsDisplay(d), d.last_error = "none"
  PROVE Fails(d, display_fatal_error(d, error))
<1> DEFINE real == RealError(error)
           e == [d EXCEPT !.last_error = real]
           f == [e EXCEPT !.read_serial = @ + 1]
<1>1. real # "none" BY DEF RealError
<1> HIDE DEF real
<1>2. IsDisplay(e) /\ e.last_error = real
      /\ e.reader_count = d.reader_count /\ e.read_serial = d.read_serial
  BY DEF IsDisplay, Fields
<1> HIDE DEF e
<1>3. IsDisplay(f) /\ f.last_error = real
      /\ f.reader_count = d.reader_count /\ f.read_serial = d.read_serial + 1
  BY <1>2 DEF IsDisplay, Fields
<1>4. display_fatal_error(d, error) = f
  BY DEF display_fatal_error, display_wakeup_threads, e, real
<1>5. QED BY <1>1, <1>3, <1>4 DEF Fails

LEMMA FatalErrorFails ==
  ASSUME NEW d, NEW error, IsDisplay(d) PROVE MayFail(d, display_fatal_error(d, error))
<1>1. CASE d.last_error = "none" BY <1>1, FatalErrorFailsNow DEF MayFail
<1>2. CASE d.last_error # "none" BY <1>2 DEF MayFail, SameTurns, display_fatal_error
<1>3. QED BY <1>1, <1>2

LEMMA SameThenMayFail ==
  ASSUME NEW d, NEW e, NEW f, SameTurns(d, e), MayFail(e, f) PROVE MayFail(d, f)
BY DEF MayFail, SameTurns, Fails

LEMMA MayFailThenSame ==
  ASSUME NEW d, NEW e, NEW f, MayFail(d, e), SameTurns(e, f) PROVE MayFail(d, f)
BY DEF MayFail, SameTurns, Fails

LEMMA DestroySame ==
  ASSUME NEW d, NEW h, IsDisplay(d) PROVE SameTurns(d, proxy_destroy(d, h))
BY DEF IsDisplay, Fields, SameTurns, proxy_destroy

LEMMA CreateSame ==
  ASSUME NEW d, NEW queue, NEW interface, IsDisplay(d)
  PROVE SameTurns(d, proxy_create(d, queue, interface).d)
BY DEF IsDisplay, Fields, SameTurns, proxy_create

(* A request may fail, but changes nothing else that readers look at.      *)
LEMMA RequestMayFail ==
  ASSUME NEW d, NEW h, NEW opcode, NEW interface, NEW queue, NEW values, NEW dups,
         NEW destroy, IsDisplay(d)
  PROVE MayFail(d, wl_proxy_marshal_array_flags(d, h, opcode, interface, queue, values, dups,
                                                destroy).d)
<1> DEFINE create == IF interface = "" THEN [d |-> d, h |-> 0]
                     ELSE proxy_create(d, queue, interface)
<1>1. SameTurns(d, create.d)
  <2>1. CASE interface = ""
    <3>1. create.d = d BY <2>1
    <3>2. QED BY <3>1 DEF SameTurns
  <2>2. CASE interface # ""
    <3>1. create = proxy_create(d, queue, interface) BY <2>2
    <3>2. QED BY <3>1, CreateSame
  <2>3. QED BY <2>1, <2>2
<1>2. ASSUME NEW c PROVE SameTurns(d, [create.d EXCEPT !.connection = c])
  BY <1>1 DEF SameTurns, IsDisplay, Fields
<1>3. ASSUME NEW c, NEW error
      PROVE MayFail(d, display_fatal_error([create.d EXCEPT !.connection = c], error))
  BY <1>2, FatalErrorFails, SameThenMayFail DEF SameTurns
<1>4. ASSUME NEW error PROVE MayFail(d, display_fatal_error(create.d, error))
  BY <1>1, FatalErrorFails, SameThenMayFail DEF SameTurns
<1>5. ASSUME NEW e, MayFail(d, e) PROVE MayFail(d, proxy_destroy(e, h))
  <2>1. IsDisplay(e) BY <1>5 DEF MayFail, SameTurns, Fails
  <2>2. SameTurns(e, proxy_destroy(e, h)) BY <2>1, DestroySame
  <2>3. QED BY <1>5, <2>2, MayFailThenSame
<1>6. MayFail(d, create.d) /\ \A c : MayFail(d, [create.d EXCEPT !.connection = c])
  BY <1>1, <1>2 DEF MayFail
<1> HIDE DEF create
<1>7. QED
  BY <1>3, <1>4, <1>5, <1>6 DEF wl_proxy_marshal_array_flags, Outcome, create

LEMMA QueueMayFail ==
  ASSUME NEW d, NEW total, IsDisplay(d) PROVE MayFail(d, queue_events(d, total).d)
<1> DEFINE r == QueueAll(d, total)
           e == [d EXCEPT !.objects = r.d.objects, !.proxies = r.d.proxies,
                          !.queues = r.d.queues, !.connection = r.d.connection]
<1>1. SameTurns(d, e) BY DEF SameTurns, IsDisplay, Fields
<1> HIDE DEF e
<1>2. MayFail(d, e) /\ MayFail(d, display_fatal_error(e, "EINVAL"))
  <2>1. IsDisplay(e) BY <1>1 DEF SameTurns
  <2>2. MayFail(e, display_fatal_error(e, "EINVAL")) BY <2>1, FatalErrorFails
  <2>3. QED BY <1>1, <2>2, SameThenMayFail DEF MayFail
<1> HIDE DEF r
<1>3. queue_events(d, total).d = IF r.bad THEN display_fatal_error(e, "EINVAL") ELSE e
  BY Zenon DEF queue_events, r, e
<1>4. QED BY <1>2, <1>3

(* The thread that reads wakes those that sleep, once, whatever it reads.  *)
LEMMA ReadWakes ==
  ASSUME NEW d, IsDisplay(d), d.last_error = "none"
  PROVE /\ IsDisplay(read_last(d).d)
        /\ read_last(d).d.reader_count = d.reader_count
        /\ read_last(d).d.read_serial = d.read_serial + 1
<1> DEFINE read == wl_connection_read(d.connection, s2c)
           after == [d EXCEPT !.connection = read.c]
           queued == queue_events(after, read.ret)
<1>1. SameTurns(d, after) BY DEF SameTurns, IsDisplay, Fields
<1>2. ASSUME NEW error PROVE Fails(d, display_fatal_error(after, error))
  BY <1>1, FatalErrorFailsNow DEF SameTurns, Fails
<1>3. MayFail(d, queued.d) BY <1>1, QueueMayFail, SameThenMayFail DEF SameTurns
<1>4. ASSUME NEW e, SameTurns(d, e)
      PROVE /\ IsDisplay(display_wakeup_threads(e))
            /\ display_wakeup_threads(e).reader_count = d.reader_count
            /\ display_wakeup_threads(e).read_serial = d.read_serial + 1
  BY <1>4 DEF SameTurns, IsDisplay, Fields, display_wakeup_threads
<1>5. SameTurns(d, d) BY DEF SameTurns
<1> HIDE DEF read, after, queued
<1>6. \/ read_last(d).d = display_wakeup_threads(d)
      \/ \E error : read_last(d).d = display_fatal_error(after, error)
      \/ queued.d.last_error # "none" /\ read_last(d).d = queued.d
      \/ queued.d.last_error = "none" /\ read_last(d).d = display_wakeup_threads(queued.d)
  BY DEF read_last, read, after, queued
<1>7. QED BY <1>2, <1>3, <1>4, <1>5, <1>6 DEF MayFail, SameTurns, Fails

-----------------------------------------------------------------------------
(* Steps.                                                                  *)

(* A step that leaves every thread where it is in its turn, and in which an*)
(* error may occur.                                                        *)
LEMMA QuietStep ==
  ASSUME MayFail(display, display'),
         \A t \in Threads : /\ PhaseAt(thread'[t].pc) = PhaseAt(thread[t].pc)
                            /\ thread'[t].serial = thread[t].serial
  PROVE  [Turns!Next]_Turns!vars
<1>1. [t \in Threads |-> PhaseAt(thread'[t].pc)] = [t \in Threads |-> PhaseAt(thread[t].pc)]
  OBVIOUS
<1>2. [t \in Threads |-> thread'[t].serial] = [t \in Threads |-> thread[t].serial]
  OBVIOUS
<1>3. CASE SameTurns(display, display')
  BY <1>1, <1>2, <1>3 DEF SameTurns, Turns!vars, PhaseAt, At
<1>4. CASE Fails(display, display')
  BY <1>1, <1>2, <1>4 DEF Fails, Turns!Next, Turns!Fail, PhaseAt, At
<1>5. QED BY <1>3, <1>4 DEF MayFail

(* Only thread t moves, within its turn.                                   *)
Moves(t, pc) == /\ thread' = [u \in Threads |-> thread'[u]]
                /\ IsThread(thread'[t]) /\ thread'[t].pc = pc
                /\ thread'[t].serial = thread[t].serial
                /\ \A u \in Threads \ {t} : thread'[u] = thread[u]

LEMMA QuietMove ==
  ASSUME Shape, NEW t \in Threads, NEW pc, Moves(t, pc), PhaseAt(pc) = PhaseAt(thread[t].pc),
         MayFail(display, display')
  PROVE  Shape' /\ [Turns!Next]_Turns!vars
<1>1. IsDisplay(display') BY DEF MayFail, SameTurns, Fails
<1>2. \A u \in Threads : IsThread(thread'[u]) BY DEF Moves, Shape
<1>3. Shape' BY <1>1, <1>2 DEF Shape, Moves, IsDisplay, IsThread
<1>4. \A u \in Threads : /\ PhaseAt(thread'[u].pc) = PhaseAt(thread[u].pc)
                         /\ thread'[u].serial = thread[u].serial
  BY DEF Moves
<1>5. QED BY <1>3, <1>4, QuietStep

(* Threads go on within their turn.                                        *)
LEMMA GotoMoves ==
  ASSUME Shape, NEW t \in Threads, NEW pc, Goto(t, pc) PROVE Moves(t, pc)
BY DEF Shape, IsThread, ThreadFields, Goto, Moves

LEMMA ReturnsMoves ==
  ASSUME Shape, NEW t \in Threads, NEW ret, Returns(t, ret) PROVE Moves(t, "returned")
BY DEF Shape, IsThread, ThreadFields, Returns, Moves

LEMMA DisplaySame == ASSUME Shape, UNCHANGED display PROVE MayFail(display, display')
BY DEF Shape, MayFail, SameTurns

LEMMA RequestQuiet ==
  ASSUME Shape, NEW t \in Threads, PhaseAt(thread[t].pc) = "out",
         NEW h, NEW opcode, NEW interface, NEW values, NEW dups, NEW destroy,
         Request(t, h, opcode, interface, values, dups, destroy)
  PROVE  Shape' /\ [Turns!Next]_Turns!vars
<1>1. PICK r \in {wl_proxy_marshal_array_flags(display, h, opcode, interface, Queue(t),
                                               values, dups, destroy)} :
        /\ display' = r.d
        /\ thread' = [thread EXCEPT
             ![t].callback = IF interface = "" THEN @ ELSE r.new,
             ![t].done = FALSE,
             ![t].ret = 0,
             ![t].pc = IF interface = "" THEN "finished"
                       ELSE IF r.new = 0 THEN "failed" ELSE "prepare"]
  BY Zenon DEF Request
<1>2. MayFail(display, display') BY <1>1, RequestMayFail DEF Shape
<1> DEFINE callback == IF interface = "" THEN thread[t].callback ELSE r.new
           pc == IF interface = "" THEN "finished"
                 ELSE IF r.new = 0 THEN "failed" ELSE "prepare"
<1>3. thread' = [thread EXCEPT ![t].callback = callback, ![t].done = FALSE, ![t].ret = 0,
                               ![t].pc = pc]
  BY <1>1
<1>4. pc \in {"finished", "failed", "prepare"} OBVIOUS
<1> HIDE DEF callback, pc
<1>5. Moves(t, pc)
  <2> DEFINE th == [thread[t] EXCEPT !.callback = callback, !.done = FALSE, !.ret = 0,
                                     !.pc = pc]
  <2>1. IsThread(th) /\ th.pc = pc /\ th.serial = thread[t].serial
    BY DEF Shape, IsThread, ThreadFields
  <2>2. thread' = [thread EXCEPT ![t] = th] BY <1>3 DEF Shape
  <2> HIDE DEF th
  <2>3. QED BY <2>1, <2>2 DEF Shape, Moves
<1>6. QED BY <1>2, <1>4, <1>5, QuietMove DEF PhaseAt

LEMMA StartsOut == ASSUME NEW t, NEW op, Starts(t, op) PROVE PhaseAt(thread[t].pc) = "out"
BY DEF Starts, At, PhaseAt

LEMMA RoundtripQuiet ==
  ASSUME Shape, NEW t \in Threads, Roundtrip(t) PROVE Shape' /\ [Turns!Next]_Turns!vars
BY RequestQuiet, StartsOut DEF Roundtrip

LEMMA GiveQuiet ==
  ASSUME Shape, NEW t \in Threads, Give(t) PROVE Shape' /\ [Turns!Next]_Turns!vars
BY RequestQuiet, StartsOut DEF Give

LEMMA DestroyQuiet ==
  ASSUME Shape, NEW t \in Threads, Destroy(t) PROVE Shape' /\ [Turns!Next]_Turns!vars
BY RequestQuiet, StartsOut DEF Destroy

LEMMA DispatchQuiet ==
  ASSUME Shape, NEW t \in Threads, Dispatch(t) PROVE Shape' /\ [Turns!Next]_Turns!vars
<1>1. PhaseAt(thread[t].pc) = "out" BY StartsOut DEF Dispatch
<1>2. Moves(t, "prepare") BY DEF Dispatch, Shape, IsThread, ThreadFields, Moves
<1>3. MayFail(display, display') BY DisplaySame DEF Dispatch
<1>4. QED BY <1>1, <1>2, <1>3, QuietMove DEF PhaseAt

LEMMA FlushQuiet ==
  ASSUME Shape, NEW t \in Threads, Flush(t) PROVE Shape' /\ [Turns!Next]_Turns!vars
<1>1. PICK flush : /\ \/ display' = [display EXCEPT !.connection = flush.c]
                      \/ display' = display_fatal_error([display EXCEPT !.connection = flush.c],
                                                        flush.error)
                   /\ Goto(t, "pollout") \/ Goto(t, "pollin") \/ Goto(t, "cancel")
  BY DEF Flush
<1> DEFINE d == [display EXCEPT !.connection = flush.c]
<1>2. SameTurns(display, d) BY DEF Shape, SameTurns, IsDisplay, Fields
<1> HIDE DEF d
<1>3. MayFail(d, display_fatal_error(d, flush.error)) BY <1>2, FatalErrorFails DEF SameTurns
<1>4. display' = d \/ display' = display_fatal_error(d, flush.error) BY <1>1 DEF d
<1>5. MayFail(display, display') BY <1>2, <1>3, <1>4, SameThenMayFail DEF MayFail
<1>6. \E pc \in {"pollout", "pollin", "cancel"} : Moves(t, pc) BY <1>1, GotoMoves
<1>7. PhaseAt(thread[t].pc) = "prepared" BY DEF Flush, At, PhaseAt
<1>8. QED BY <1>5, <1>6, <1>7, QuietMove DEF PhaseAt

LEMMA PollOutQuiet ==
  ASSUME Shape, NEW t \in Threads, PollOut(t) PROVE Shape' /\ [Turns!Next]_Turns!vars
<1>1. Moves(t, "flush") BY GotoMoves DEF PollOut
<1>2. MayFail(display, display') BY DisplaySame DEF PollOut
<1>3. PhaseAt(thread[t].pc) = "prepared" BY DEF PollOut, At, PhaseAt
<1>4. QED BY <1>1, <1>2, <1>3, QuietMove DEF PhaseAt

LEMMA PollInQuiet ==
  ASSUME Shape, NEW t \in Threads, PollIn(t) PROVE Shape' /\ [Turns!Next]_Turns!vars
<1>1. Moves(t, "read") BY GotoMoves DEF PollIn
<1>2. MayFail(display, display') BY DisplaySame DEF PollIn
<1>3. PhaseAt(thread[t].pc) = "prepared" BY DEF PollIn, At, PhaseAt
<1>4. QED BY <1>1, <1>2, <1>3, QuietMove DEF PhaseAt

LEMMA DispatchFailsQuiet ==
  ASSUME Shape, NEW t \in Threads, DispatchFails(t) PROVE Shape' /\ [Turns!Next]_Turns!vars
<1>1. Moves(t, "returned") BY ReturnsMoves DEF DispatchFails
<1>2. MayFail(display, display') BY DisplaySame DEF DispatchFails
<1>3. PhaseAt(thread[t].pc) = "out" BY DEF DispatchFails, At, PhaseAt
<1>4. QED BY <1>1, <1>2, <1>3, QuietMove DEF PhaseAt

LEMMA DispatchEndsQuiet ==
  ASSUME Shape, NEW t \in Threads, DispatchEnds(t) PROVE Shape' /\ [Turns!Next]_Turns!vars
<1>1. MayFail(display, display') BY DisplaySame DEF DispatchEnds
<1>2. thread[t].pc = "dispatch" /\ PhaseAt(thread[t].pc) = "out"
  BY DEF DispatchEnds, At, PhaseAt
<1>3. CASE thread[t].phase = DisplayQueue
  <2>1. Moves(t, "dispatch") BY <1>2, <1>3 DEF DispatchEnds, Shape, IsThread, ThreadFields, Moves
  <2>2. QED BY <1>1, <1>2, <2>1, QuietMove
<1>4. CASE thread[t].phase # DisplayQueue
  <2>1. Moves(t, "returned") BY <1>4, ReturnsMoves DEF DispatchEnds
  <2>2. QED BY <1>1, <1>2, <2>1, QuietMove DEF PhaseAt
<1>5. QED BY <1>3, <1>4

LEMMA DispatchEventQuiet ==
  ASSUME Shape, NEW t \in Threads, dispatch_event(t) PROVE Shape' /\ [Turns!Next]_Turns!vars
<1> DEFINE q == thread[t].phase
           d == [display EXCEPT !.queues[q] = Tail(@)]
<1>1. PICK closure :
        \/ /\ display' = [d EXCEPT !.proxies = destroy_queued_closure(@, closure)]
           /\ UNCHANGED thread
        \/ /\ display' = d
           /\ thread' = [thread EXCEPT ![t].event = closure, ![t].pc = "handler"]
  BY Zenon DEF dispatch_event
<1>2. SameTurns(display, d) BY DEF Shape, SameTurns, IsDisplay, Fields
<1> HIDE DEF d
<1>3. SameTurns(display, [d EXCEPT !.proxies = destroy_queued_closure(@, closure)])
  BY <1>2 DEF SameTurns, IsDisplay, Fields
<1>4. MayFail(display, display') BY <1>1, <1>2, <1>3 DEF MayFail
<1>5. thread[t].pc = "dispatch" /\ PhaseAt(thread[t].pc) = "out"
  BY DEF dispatch_event, At, PhaseAt
<1>6. \E pc \in {"dispatch", "handler"} : Moves(t, pc)
  BY <1>1, <1>5 DEF Shape, IsThread, ThreadFields, Moves
<1>7. QED BY <1>4, <1>5, <1>6, QuietMove DEF PhaseAt

LEMMA HandleErrorQuiet ==
  ASSUME Shape, NEW t \in Threads, HandleError(t) PROVE Shape' /\ [Turns!Next]_Turns!vars
<1>1. Moves(t, "handled") \/ Moves(t, "protocol_error") BY GotoMoves DEF HandleError
<1>2. MayFail(display, display') BY DisplaySame DEF HandleError
<1>3. PhaseAt(thread[t].pc) = "out" BY DEF HandleError, Handles, At, PhaseAt
<1>4. QED BY <1>1, <1>2, <1>3, QuietMove DEF PhaseAt

LEMMA DeleteIdQuiet ==
  ASSUME Shape, NEW t \in Threads, display_handle_delete_id(t)
  PROVE  Shape' /\ [Turns!Next]_Turns!vars
<1>1. Moves(t, "handled") BY GotoMoves DEF display_handle_delete_id
<1>2. SameTurns(display, display')
  BY DEF display_handle_delete_id, Shape, SameTurns, IsDisplay, Fields
<1>3. PhaseAt(thread[t].pc) = "out" BY DEF display_handle_delete_id, Handles, At, PhaseAt
<1>4. QED BY <1>1, <1>2, <1>3, QuietMove DEF PhaseAt, MayFail

LEMMA HandleThingQuiet ==
  ASSUME Shape, NEW t \in Threads, HandleThing(t) PROVE Shape' /\ [Turns!Next]_Turns!vars
<1>1. Moves(t, "handled") BY DEF HandleThing, Shape, IsThread, ThreadFields, Moves
<1>2. MayFail(display, display') BY DisplaySame DEF HandleThing
<1>3. PhaseAt(thread[t].pc) = "out" BY DEF HandleThing, At, PhaseAt
<1>4. QED BY <1>1, <1>2, <1>3, QuietMove DEF PhaseAt

LEMMA HandledQuiet ==
  ASSUME Shape, NEW t \in Threads, Handled(t) PROVE Shape' /\ [Turns!Next]_Turns!vars
<1>1. Moves(t, "dispatch") BY DEF Handled, Shape, IsThread, ThreadFields, Moves
<1>2. SameTurns(display, display') BY DEF Handled, Shape, SameTurns, IsDisplay, Fields
<1>3. PhaseAt(thread[t].pc) = "out" BY DEF Handled, At, PhaseAt
<1>4. QED BY <1>1, <1>2, <1>3, QuietMove DEF PhaseAt, MayFail

LEMMA ReturnedQuiet ==
  ASSUME Shape, NEW t \in Threads, Returned(t) PROVE Shape' /\ [Turns!Next]_Turns!vars
<1>1. \E pc \in {"prepare", "failed", "finished"} : Moves(t, pc)
  <2>1. \E pc \in {"prepare", "failed", "finished"} : Goto(t, pc) BY Zenon DEF Returned
  <2>2. QED BY <2>1, GotoMoves
<1>2. display' = display \/ display' = proxy_destroy(display, thread[t].callback)
  BY DEF Returned
<1>3. SameTurns(display, display') BY <1>2, DestroySame DEF Shape, SameTurns
<1>4. PhaseAt(thread[t].pc) = "out" BY DEF Returned, At, PhaseAt
<1>5. QED BY <1>1, <1>3, <1>4, QuietMove DEF PhaseAt, MayFail

LEMMA FinishedQuiet ==
  ASSUME Shape, NEW t \in Threads, Finished(t) PROVE Shape' /\ [Turns!Next]_Turns!vars
<1> DEFINE program == IF At(t, "failed") THEN <<>> ELSE Tail(thread[t].program)
<1>0. thread' = [thread EXCEPT ![t].pc = "next", ![t].callback = 0, ![t].program = program]
  BY Zenon DEF Finished
<1> HIDE DEF program
<1>1. Moves(t, "next") BY <1>0 DEF Shape, IsThread, ThreadFields, Moves
<1>2. MayFail(display, display') BY DisplaySame DEF Finished
<1>3. PhaseAt(thread[t].pc) = "out" BY DEF Finished, PhaseAt
<1>4. QED BY <1>1, <1>2, <1>3, QuietMove DEF PhaseAt

(* sync_callback tells other threads too that they are done.               *)
LEMMA SyncCallbackQuiet ==
  ASSUME Shape, NEW t \in Threads, sync_callback(t) PROVE Shape' /\ [Turns!Next]_Turns!vars
<1>1. PICK h : /\ thread' = [u \in Threads |->
                     [thread[u] EXCEPT !.done = @ \/ thread[u].callback = h,
                                       !.pc = IF u = t THEN "handled" ELSE @]]
               /\ display' = proxy_destroy(display, h)
  BY Zenon DEF sync_callback
<1>2. SameTurns(display, display') BY <1>1, DestroySame DEF Shape
<1>3. \A u \in Threads : /\ IsThread(thread'[u]) /\ thread'[u].serial = thread[u].serial
                         /\ thread'[u].pc = IF u = t THEN "handled" ELSE thread[u].pc
  BY <1>1 DEF Shape, IsThread, ThreadFields
<1>4. PhaseAt(thread[t].pc) = "out" BY DEF sync_callback, Handles, At, PhaseAt
<1>5. \A u \in Threads : PhaseAt(thread'[u].pc) = PhaseAt(thread[u].pc)
  BY <1>3, <1>4 DEF PhaseAt
<1>6. thread' = [u \in Threads |-> thread'[u]] BY <1>1
<1>7. Shape' BY <1>2, <1>3, <1>6 DEF Shape, SameTurns, IsDisplay, IsThread
<1>8. QED BY <1>2, <1>3, <1>5, <1>7, QuietStep DEF MayFail

LEMMA DisconnectQuiet ==
  ASSUME Shape, wl_display_disconnect PROVE Shape' /\ [Turns!Next]_Turns!vars
<1> DEFINE r == release_queues(display)
<1> HIDE DEF r
<1>1. display' = [display EXCEPT !.proxies = r.d.proxies, !.queues = r.d.queues,
                                 !.connected = FALSE, !.connection = wl_connection_create]
      /\ UNCHANGED thread
  BY Zenon DEF wl_display_disconnect, r
<1>2. SameTurns(display, display') BY <1>1 DEF Shape, SameTurns, IsDisplay, Fields
<1>3. Shape' BY <1>1, <1>2 DEF Shape, SameTurns, IsDisplay, IsThread
<1>4. QED BY <1>1, <1>2, <1>3, QuietStep DEF MayFail

LEMMA UnchangedQuiet ==
  ASSUME Shape, UNCHANGED <<display, thread>> PROVE Shape' /\ [Turns!Next]_Turns!vars
<1>1. Shape' BY DEF Shape, IsDisplay, IsThread
<1>2. QED BY <1>1, DisplaySame, QuietStep

LEMMA CompositorQuiet ==
  ASSUME Shape, Compositor PROVE Shape' /\ [Turns!Next]_Turns!vars
<1>1. ASSUME NEW r, NEW c, NEW hang_up, Settle(r, c, hang_up) PROVE UNCHANGED <<display, thread>>
  BY <1>1, Zenon DEF Settle
<1>2. CASE ServerReads BY <1>1, <1>2, UnchangedQuiet DEF ServerReads
<1>3. CASE ServerPosts BY <1>1, <1>3, UnchangedQuiet DEF ServerPosts
<1>4. CASE ServerFlushes BY <1>1, <1>4, UnchangedQuiet DEF ServerFlushes
<1>5. CASE ServerHangsUp BY <1>1, <1>5, UnchangedQuiet DEF ServerHangsUp
<1>6. QED BY <1>2, <1>3, <1>4, <1>5 DEF Compositor

-----------------------------------------------------------------------------
(* The steps in which threads take turns.                                  *)

(* Thread t goes to pc and leaves its turn, or takes one.                  *)
Leaves(t, pc) == /\ thread' = [u \in Threads |-> thread'[u]]
                 /\ IsThread(thread'[t]) /\ thread'[t].pc = pc
                 /\ \A u \in Threads \ {t} : thread'[u] = thread[u]

LEMMA LeavesShape ==
  ASSUME Shape, NEW t \in Threads, NEW pc, Leaves(t, pc), IsDisplay(display') PROVE Shape'
<1>1. \A u \in Threads : IsThread(thread'[u]) BY DEF Leaves, Shape
<1>2. QED BY <1>1 DEF Shape, Leaves, IsDisplay, IsThread

LEMMA PhaseMoves ==
  ASSUME NEW t \in Threads, NEW pc, Leaves(t, pc)
  PROVE  [u \in Threads |-> PhaseAt(thread'[u].pc)]
           = [[u \in Threads |-> PhaseAt(thread[u].pc)] EXCEPT ![t] = PhaseAt(pc)]
BY DEF Leaves

LEMMA SerialKept ==
  ASSUME NEW t \in Threads, NEW pc, Leaves(t, pc), thread'[t].serial = thread[t].serial
  PROVE  [u \in Threads |-> thread'[u].serial] = [u \in Threads |-> thread[u].serial]
BY DEF Leaves

LEMMA PrepareTurn ==
  ASSUME Shape, NEW t \in Threads, Prepare(t) PROVE Shape' /\ [Turns!Next]_Turns!vars
<1>1. PhaseAt(thread[t].pc) = "out" BY DEF Prepare, At, PhaseAt
<1>2. CASE /\ thread' = [thread EXCEPT ![t].pc = "dispatch", ![t].phase = DisplayQueue]
           /\ UNCHANGED display
  <2>1. Moves(t, "dispatch") BY <1>2 DEF Shape, IsThread, ThreadFields, Moves
  <2>2. QED BY <1>1, <1>2, <2>1, DisplaySame, QuietMove DEF PhaseAt
<1>3. CASE /\ display' = [display EXCEPT !.reader_count = @ + 1]
           /\ Goto(t, CASE Op(t).op = "cancel" -> "cancel"
                        [] Op(t).op = "read"   -> "pollin"
                        [] OTHER -> "flush")
  <2>1. PICK pc \in {"cancel", "pollin", "flush"} : Goto(t, pc) BY <1>3
  <2>2. Moves(t, pc) BY <2>1, GotoMoves
  <2>3. Leaves(t, pc) /\ thread'[t].serial = thread[t].serial BY <2>2 DEF Moves, Leaves
  <2>4. /\ IsDisplay(display') /\ display'.reader_count = display.reader_count + 1
        /\ display'.read_serial = display.read_serial
        /\ display'.last_error = display.last_error
    BY <1>3 DEF Shape, IsDisplay, Fields
  <2>5. Shape' BY <2>3, <2>4, LeavesShape
  <2>6. Turns!Prepare(t)
    BY <1>1, <2>3, <2>4, PhaseMoves, SerialKept DEF Turns!Prepare, PhaseAt, At
  <2>7. QED BY <2>5, <2>6 DEF Turns!Next
<1>4. QED BY <1>2, <1>3, Zenon DEF Prepare

LEMMA CancelTurn ==
  ASSUME Shape, NEW t \in Threads, CancelRead(t) \/ ReadRefused(t)
  PROVE  Shape' /\ [Turns!Next]_Turns!vars
<1>1. PhaseAt(thread[t].pc) = "prepared" BY DEF CancelRead, ReadRefused, At, PhaseAt
<1>2. display' = cancel_read(display) /\ Returns(t, -1) BY DEF CancelRead, ReadRefused
<1>3. Leaves(t, "returned") /\ thread'[t].serial = thread[t].serial
  BY <1>2, ReturnsMoves DEF Moves, Leaves
<1>4. /\ IsDisplay(display') /\ display'.reader_count = display.reader_count - 1
      /\ display'.read_serial = IF display.reader_count = 1 THEN display.read_serial + 1
                                ELSE display.read_serial
      /\ display'.last_error = display.last_error
  <2> DEFINE e == [display EXCEPT !.reader_count = @ - 1]
  <2>1. /\ IsDisplay(e) /\ e.reader_count = display.reader_count - 1
        /\ e.read_serial = display.read_serial /\ e.last_error = display.last_error
    BY DEF Shape, IsDisplay, Fields
  <2>2. display' = IF e.reader_count = 0 THEN display_wakeup_threads(e) ELSE e
    BY <1>2 DEF cancel_read
  <2> HIDE DEF e
  <2>3. e.reader_count = 0 <=> display.reader_count = 1 BY <2>1 DEF Shape, IsDisplay
  <2>4. QED BY <2>1, <2>2, <2>3 DEF display_wakeup_threads, IsDisplay, Fields
<1>5. Shape' BY <1>3, <1>4, LeavesShape
<1>6. Turns!Cancel(t)
  BY <1>1, <1>3, <1>4, PhaseMoves, SerialKept DEF Turns!Cancel, PhaseAt, At
<1>7. QED BY <1>5, <1>6 DEF Turns!Next

LEMMA SleepTurn ==
  ASSUME Shape, NEW t \in Threads, Sleep(t) PROVE Shape' /\ [Turns!Next]_Turns!vars
<1>1. /\ PhaseAt(thread[t].pc) = "prepared"
      /\ display.last_error = "none" /\ display.reader_count > 1
  BY DEF Sleep, At, PhaseAt
<1>2. /\ IsDisplay(display') /\ display'.reader_count = display.reader_count - 1
      /\ display'.read_serial = display.read_serial
      /\ display'.last_error = display.last_error
  BY DEF Sleep, Shape, IsDisplay, Fields
<1>3. Leaves(t, "asleep") /\ thread'[t].serial = display.read_serial
  BY DEF Sleep, Shape, IsThread, ThreadFields, Leaves
<1>4. Shape' BY <1>2, <1>3, LeavesShape
<1>5. [u \in Threads |-> thread'[u].serial]
        = [[u \in Threads |-> thread[u].serial] EXCEPT ![t] = display.read_serial]
  BY <1>3 DEF Leaves
<1>6. Turns!Sleep(t)
  BY <1>1, <1>2, <1>3, <1>5, PhaseMoves DEF Turns!Sleep, PhaseAt, At
<1>7. QED BY <1>4, <1>6 DEF Turns!Next

LEMMA ReadTurn ==
  ASSUME Shape, NEW t \in Threads, ReadEvents(t) PROVE Shape' /\ [Turns!Next]_Turns!vars
<1> DEFINE d == [display EXCEPT !.reader_count = 0]
<1>1. /\ PhaseAt(thread[t].pc) = "prepared"
      /\ display.last_error = "none" /\ display.reader_count = 1
  BY DEF ReadEvents, At, PhaseAt
<1>2. /\ IsDisplay(d) /\ d.reader_count = 0 /\ d.read_serial = display.read_serial
      /\ d.last_error = "none"
  BY <1>1 DEF Shape, IsDisplay, Fields
<1>3. PICK r \in {read_last(d)} :
        /\ display' = r.d
        /\ thread' = [thread EXCEPT ![t].pc = IF r.ret = -1 THEN "returned" ELSE "dispatch",
                                    ![t].ret = r.ret, ![t].phase = DisplayQueue]
  BY Zenon DEF ReadEvents
<1> HIDE DEF d
<1>4. /\ IsDisplay(display') /\ display'.reader_count = 0
      /\ display'.read_serial = display.read_serial + 1
  BY <1>2, <1>3, ReadWakes
<1>5. PICK pc \in {"returned", "dispatch"} :
        thread' = [thread EXCEPT ![t].pc = pc, ![t].ret = r.ret, ![t].phase = DisplayQueue]
  BY <1>3
<1>6. Leaves(t, pc) /\ thread'[t].serial = thread[t].serial
  BY <1>5 DEF Shape, IsThread, ThreadFields, Leaves
<1>7. Shape' BY <1>4, <1>6, LeavesShape
<1>8. Turns!Read(t)
  BY <1>1, <1>4, <1>6, PhaseMoves, SerialKept DEF Turns!Read, PhaseAt, At
<1>9. QED BY <1>7, <1>8 DEF Turns!Next

LEMMA WakeUpTurn ==
  ASSUME Shape, NEW t \in Threads, WakeUp(t) PROVE Shape' /\ [Turns!Next]_Turns!vars
<1>1. /\ PhaseAt(thread[t].pc) = "asleep" /\ display.read_serial # thread[t].serial
      /\ UNCHANGED display
  BY DEF WakeUp, At, PhaseAt
<1>2. PICK pc \in {"returned", "dispatch"}, ret \in {-1, 0} :
        thread' = [thread EXCEPT ![t].pc = pc, ![t].ret = ret, ![t].phase = DisplayQueue]
  BY DEF WakeUp
<1>3. Leaves(t, pc) /\ thread'[t].serial = thread[t].serial
  BY <1>2 DEF Shape, IsThread, ThreadFields, Leaves
<1>4. Shape' BY <1>1, <1>3, LeavesShape DEF Shape, IsDisplay
<1>5. Turns!WakeUp(t)
  BY <1>1, <1>3, PhaseMoves, SerialKept DEF Turns!WakeUp, PhaseAt, At
<1>6. QED BY <1>4, <1>5 DEF Turns!Next

LEMMA ProtocolErrorTurn ==
  ASSUME Shape, NEW t \in Threads, display_protocol_error(t)
  PROVE  Shape' /\ [Turns!Next]_Turns!vars
<1>1. PICK code, interface, id :
        /\ display' = [display EXCEPT
             !.last_error = protocol_errno(code, interface),
             !.protocol_error = [code |-> code, interface |-> interface, id |-> id]]
        /\ Goto(t, "handled")
  BY DEF display_protocol_error
<1>2. protocol_errno(code, interface) # "none" BY DEF protocol_errno
<1>3. /\ IsDisplay(display') /\ display'.reader_count = display.reader_count
      /\ display'.read_serial = display.read_serial /\ display'.last_error # "none"
  BY <1>1, <1>2 DEF Shape, IsDisplay, Fields
<1>4. Moves(t, "handled") BY <1>1, GotoMoves
<1>5. PhaseAt(thread[t].pc) = "out" BY DEF display_protocol_error, At, PhaseAt
<1>6. \A u \in Threads : /\ PhaseAt(thread'[u].pc) = PhaseAt(thread[u].pc)
                         /\ thread'[u].serial = thread[u].serial
  BY <1>4, <1>5 DEF Moves, PhaseAt
<1>7. Shape' BY <1>3, <1>4, LeavesShape DEF Moves, Leaves
<1>8. [u \in Threads |-> PhaseAt(thread'[u].pc)] = [u \in Threads |-> PhaseAt(thread[u].pc)]
      /\ [u \in Threads |-> thread'[u].serial] = [u \in Threads |-> thread[u].serial]
  BY <1>6
<1>9. Turns!ProtocolError BY <1>3, <1>8 DEF Turns!ProtocolError, PhaseAt, At
<1>10. QED BY <1>7, <1>9 DEF Turns!Next

-----------------------------------------------------------------------------

LEMMA InitTurns == Init => Shape /\ Turns!Init
<1> SUFFICES ASSUME Init PROVE Shape /\ Turns!Init OBVIOUS
<1>1. /\ IsDisplay(display) /\ display.reader_count = 0 /\ display.read_serial = 0
      /\ display.last_error = "none"
  <2>1. PICK objects, proxies, queues, connection, protocol_error :
          display = [objects |-> objects, proxies |-> proxies, queues |-> queues,
                     connection |-> connection, connected |-> TRUE, last_error |-> "none",
                     protocol_error |-> protocol_error, reader_count |-> 0, read_serial |-> 0]
    BY Zenon DEF Init
  <2>2. QED BY <2>1 DEF IsDisplay, Fields
<1>2. /\ thread = [t \in Threads |-> thread[t]]
      /\ \A t \in Threads : IsThread(thread[t]) /\ thread[t].pc = "next" /\ thread[t].serial = 0
  BY DEF Init, IsThread, ThreadFields
<1>3. Shape BY <1>1, <1>2 DEF Shape
<1>4. Turns!Init BY <1>1, <1>2 DEF Turns!Init, At
<1>5. QED BY <1>3, <1>4

LEMMA ThreadTurns ==
  ASSUME Shape, NEW t \in Threads, Step(t) PROVE Shape' /\ [Turns!Next]_Turns!vars
<1>1. CASE Roundtrip(t) \/ Give(t) \/ Destroy(t) \/ Dispatch(t) \/ Flush(t)
  BY <1>1, RoundtripQuiet, GiveQuiet, DestroyQuiet, DispatchQuiet, FlushQuiet
<1>2. CASE PollOut(t) \/ PollIn(t) \/ DispatchFails(t) \/ DispatchEnds(t) \/ dispatch_event(t)
  BY <1>2, PollOutQuiet, PollInQuiet, DispatchFailsQuiet, DispatchEndsQuiet, DispatchEventQuiet
<1>3. CASE HandleError(t) \/ display_handle_delete_id(t) \/ sync_callback(t) \/ HandleThing(t)
  BY <1>3, HandleErrorQuiet, DeleteIdQuiet, SyncCallbackQuiet, HandleThingQuiet
<1>4. CASE Handled(t) \/ Returned(t) \/ Finished(t)
  BY <1>4, HandledQuiet, ReturnedQuiet, FinishedQuiet
<1>5. CASE Prepare(t) \/ CancelRead(t) \/ ReadRefused(t) \/ Sleep(t)
  BY <1>5, PrepareTurn, CancelTurn, SleepTurn
<1>6. CASE ReadEvents(t) \/ WakeUp(t) \/ display_protocol_error(t)
  BY <1>6, ReadTurn, WakeUpTurn, ProtocolErrorTurn
<1>7. QED BY <1>1, <1>2, <1>3, <1>4, <1>5, <1>6 DEF Step

LEMMA NextTurns ==
  ASSUME Shape, [Next]_vars PROVE Shape' /\ [Turns!Next]_Turns!vars
<1>1. CASE \E t \in Threads : Step(t) BY <1>1, ThreadTurns
<1>2. CASE wl_display_disconnect BY <1>2, DisconnectQuiet
<1>3. CASE Compositor BY <1>3, CompositorQuiet
<1>4. CASE Over \/ UNCHANGED vars BY <1>4, UnchangedQuiet DEF Over, vars
<1>5. QED BY <1>1, <1>2, <1>3, <1>4 DEF Next

(* Whatever threads and handlers do besides, they take turns in reading as *)
(* ReadTurns says: only a thread that is prepared reads or falls asleep,   *)
(* the last to read or to cancel wakes the others, and so does an error of *)
(* the client's own (wayland-client.c:1604, :1923 and :144).               *)
THEOREM ClientTakesTurns == Spec => ImplementsReadTurns
<1>1. Init => Shape /\ Turns!Init BY InitTurns
<1>2. Shape /\ [Next]_vars => Shape' /\ [Turns!Next]_Turns!vars BY NextTurns
<1>3. QED BY <1>1, <1>2, PTL DEF Spec, ImplementsReadTurns, Turns!Spec

Proved == INSTANCE ReadTurns_proofs WITH
  reader_count <- display.reader_count,
  read_serial  <- display.read_serial,
  failed       <- display.last_error # "none",
  phase        <- [t \in Threads |->
                     IF thread[t].pc \in {"flush", "pollout", "pollin", "read", "cancel"}
                     THEN "prepared" ELSE IF At(t, "asleep") THEN "asleep" ELSE "out"],
  serial       <- [t \in Threads |-> thread[t].serial]

(* So reader_count is the number of the client's threads between           *)
(* wl_display_prepare_read and reading or cancelling, and a thread that    *)
(* sleeps in wl_display_read_events has another that is to wake it, also   *)
(* when requests, flushes, reads and the compositor fail                   *)
(* (wayland-client.c:1604 and :1809).                                      *)
THEOREM ClientSleepersAreWoken ==
  ASSUME IsFiniteSet(Threads)
  PROVE  Spec => [](Turns!ReadersCounted /\ Turns!NoSleeperForgotten)
<1>0. Proved!IsFiniteSet(Threads) BY DEF IsFiniteSet, Proved!IsFiniteSet
<1>1. Proved!Spec => []Proved!ReadersCounted BY <1>0, Proved!ReadersAreCounted
<1>2. Proved!Spec => []Proved!NoSleeperForgotten BY <1>0, Proved!SleepersAreWoken
<1>3. Turns!Init => Proved!Init BY DEF Turns!Init, Proved!Init
<1>4. [Turns!Next]_Turns!vars => [Proved!Next]_Proved!vars
  BY DEF Turns!Next, Turns!Prepare, Turns!Cancel, Turns!Read, Turns!Sleep, Turns!WakeUp,
         Turns!Fail, Turns!ProtocolError, Turns!vars,
         Proved!Next, Proved!Prepare, Proved!Cancel, Proved!Read, Proved!Sleep, Proved!WakeUp,
         Proved!Fail, Proved!ProtocolError, Proved!vars
<1>5. Proved!ReadersCounted /\ Proved!NoSleeperForgotten
        => Turns!ReadersCounted /\ Turns!NoSleeperForgotten
  <2>1. \A S : Turns!Cardinality(S) = Proved!Cardinality(S)
    BY DEF Turns!Cardinality, Proved!Cardinality
  <2>2. Turns!Prepared = Proved!Prepared BY DEF Turns!Prepared, Proved!Prepared
  <2>3. QED BY <2>1, <2>2 DEF Turns!ReadersCounted, Turns!NoSleeperForgotten,
         Proved!ReadersCounted, Proved!NoSleeperForgotten
<1>6. QED
  BY <1>1, <1>2, <1>3, <1>4, <1>5, ClientTakesTurns, PTL
  DEF ImplementsReadTurns, Turns!Spec, Proved!Spec
=============================================================================

--------------------------------- MODULE Client ---------------------------------
(***************************************************************************)
(* The client library (untitled/src/wayland-client.c): the threads of a    *)
(* client that share one wl_display, take turns in reading its socket, and *)
(* dispatch the events they find on their queues.                          *)
(*                                                                         *)
(* What the code does while it holds display->mutex is one step.  A thread *)
(* is without the mutex where it polls, where it sleeps on reader_cond and *)
(* where a handler runs, and other threads' steps come in between.         *)
(*                                                                         *)
(* The display is one record, struct wl_display; its operations are        *)
(* operators on that record.  A proxy is known by its place in             *)
(* display.proxies, which stands for its address; place 1 is the display's *)
(* own.  The compositor at the other end is external: it answers requests, *)
(* and posts the events of a script.                                       *)
(***************************************************************************)
EXTENDS Connection

CONSTANTS Threads,
          Queues,        \* the queues that threads dispatch
          Interfaces,    \* the scanner's tables, by name
          Scenarios      \* what the threads do and what the compositor posts

VARIABLES scenario,      \* the member of Scenarios that is played
          display,       \* struct wl_display
          thread,        \* thread[t]: where t is and what it keeps on its stack
          server,        \* the compositor's connection, its objects, its script
          c2s, s2c,      \* the two directions of the socket
          fds,           \* descriptors 1..fds have been made
          closed, taken, \* those closed, and those handed to a handler
          requested, served,  \* requests sent and those the compositor has read
          posted, delivered   \* events sent and those the client has read

vars == <<scenario, display, thread, server, c2s, s2c, fds, closed, taken,
          requested, served, posted, delivered>>

DisplayQueue == "display_queue"
Display      == 1        \* the place of the display's proxy
NoEvent      == [proxy |-> 0]
AllQueues    == Queues \cup {DisplayQueue}

Interface(name)  == Interfaces[name]
Played           == Scenarios[scenario]
InterfaceOf(h)   == display.proxies[h].interface

-----------------------------------------------------------------------------
(* Errors, references, proxies.                                            *)

display_wakeup_threads(d) == [d EXCEPT !.read_serial = @ + 1]

RealError(error) == IF error = "none" THEN "EFAULT" ELSE error

(* Faulty: the threads that wait are not told.                             *)
FatalErrorTellsNobody(d, error) ==
  IF d.last_error # "none" THEN d ELSE [d EXCEPT !.last_error = RealError(error)]

display_fatal_error(d, error) ==
  IF d.last_error # "none" THEN d
  ELSE display_wakeup_threads([d EXCEPT !.last_error = RealError(error)])

(* The error a display event reports; EPROTO if it is not the display's.   *)
protocol_errno(code, interface) ==
  CASE interface # "wl_display" -> "EPROTO"
    [] interface = "wl_display" /\ code \in {0, 1} -> "EINVAL"
    [] interface = "wl_display" /\ code = 2 -> "ENOMEM"
    [] interface = "wl_display" /\ code = 3 -> "EPROTO"
    [] OTHER -> "EFAULT"

wl_proxy_unref(proxies, h) == [proxies EXCEPT ![h].refcount = @ - 1]
Freed(d, h) == d.proxies[h].refcount = 0

NewProxy(id, interface, queue) ==
  [id |-> id, interface |-> interface, queue |-> queue, refcount |-> 1,
   destroyed |-> FALSE, id_deleted |-> FALSE]

(* The display with a new proxy and the proxy's place; 0 if the map is     *)
(* full.                                                                   *)
proxy_create(d, queue, interface) ==
  LET h == Len(d.proxies) + 1
      insert(new) ==
        IF new.id = 0 THEN [d |-> [d EXCEPT !.objects = new.map], h |-> 0]
        ELSE [d |-> [d EXCEPT !.objects = new.map,
                              !.proxies = Append(@, NewProxy(new.id, interface, queue))],
              h |-> h]
  IN  insert(wl_map_insert_new(d.objects, 0, h))

wl_proxy_create_for_id(d, factory, id, interface) ==
  LET h == Len(d.proxies) + 1
  IN  IF ~CanInsertAt(d.objects, id) THEN [d |-> d, h |-> 0]
      ELSE [d |-> [d EXCEPT !.objects = wl_map_insert_at(@, 0, id, h),
                            !.proxies = Append(@, NewProxy(id, interface,
                                                           d.proxies[factory].queue))],
            h |-> h]

(* How many descriptors each event of the interface brings; NULL if none   *)
(* does.                                                                   *)
prepare_zombie(interface) ==
  LET counts(events) == IF \A k \in DOMAIN events : message_count_fds(events[k].signature) = 0
                        THEN NULL
                        ELSE [k \in DOMAIN events |-> message_count_fds(events[k].signature)]
  IN  counts(interface.events)

proxy_destroy(d, h) ==
  LET proxy == d.proxies[h]
      map   == IF proxy.id_deleted THEN wl_map_remove(d.objects, proxy.id)
               ELSE IF proxy.id < ServerStart
               THEN wl_map_insert_at(d.objects, ZOMBIE, proxy.id,
                                     prepare_zombie(Interface(proxy.interface)))
               ELSE wl_map_insert_at(d.objects, 0, proxy.id, NULL)
  IN  [d EXCEPT !.objects = map,
                !.proxies = wl_proxy_unref([@ EXCEPT ![h].destroyed = TRUE], h)]

(* The proxies a demarshalled closure holds references to, one of them     *)
(* once for each time it is mentioned.                                     *)
Mentions(closure) ==
  LET named(at) == [i \in DOMAIN closure.args |-> IF i \in at THEN closure.args[i][1] ELSE 0]
  IN  <<closure.proxy>> \o SelectSeq(named(ArgsOf(closure.message, {"n", "o"})), LAMBDA h : h # 0)

increase_closure_args_refcount(proxies, closure) ==
  FoldLeft(LAMBDA ps, h : [ps EXCEPT ![h].refcount = @ + 1], proxies, Mentions(closure))

destroy_queued_closure(proxies, closure) == FoldLeft(wl_proxy_unref, proxies, Mentions(closure))

(* Arguments that name a destroyed proxy become null.  The references they *)
(* held are not given back when the closure is destroyed.                  *)
validate_closure_objects(d, closure) ==
  [closure EXCEPT !.args = [i \in DOMAIN @ |->
     IF /\ i \in ArgsOf(closure.message, {"n", "o"})
        /\ @[i] # NoObject /\ d.proxies[@[i][1]].destroyed
     THEN NoObject ELSE @[i]]]

(* Faulty: the events go, their descriptors stay open.                     *)
ReleaseLeaves(d, q) ==
  [d |-> [d EXCEPT !.proxies = FoldLeft(destroy_queued_closure, @, d.queues[q]),
                   !.queues[q] = <<>>],
   closed |-> {}]

(* The display without the events of a queue, and their descriptors.       *)
wl_event_queue_release(d, q) ==
  [d |-> [d EXCEPT !.proxies = FoldLeft(destroy_queued_closure, @, d.queues[q]),
                   !.queues[q] = <<>>],
   closed |-> UNION {wl_closure_close_fds(closure) : closure \in ToSet(d.queues[q])}]

-----------------------------------------------------------------------------
(* Requests.                                                               *)

(* What a message is to the other end: its words and its descriptors.      *)
Sent(closure) ==
  [words |-> serialize_closure(closure, buffer_size_for_closure(closure)),
   fds   |-> FdsOf(closure)]

(* What a request leads to: the display d and the socket s after it, the   *)
(* new proxy, the descriptors made and closed, and the request if it has   *)
(* been sent.                                                              *)
Outcome(d, s, new, made, shut, request) ==
  [d |-> d, s |-> s, new |-> new, made |-> made, closed |-> shut, request |-> request]

(* A request of proxy h, which creates an object of the interface for its  *)
(* new id if that is not "", on the given queue.  A new proxy is returned  *)
(* whether or not the request has been sent.                               *)
wl_proxy_marshal_array_flags(d, h, opcode, interface, queue, values, dups, destroy) ==
  LET message == Interface(d.proxies[h].interface).methods[opcode + 1]
      args(create) == [i \in DOMAIN values |->
                         IF i \in ArgsOf(message, {"n"}) /\ create.h # 0
                         THEN <<create.d.proxies[create.h].id>> ELSE values[i]]
      written(create, send, closure) ==
        LET after == [create.d EXCEPT !.connection = send.c]
        IN  IF send.ret = 0
            THEN Outcome(after, send.s, create.h, Len(dups), send.closed, <<Sent(closure)>>)
            ELSE Outcome(display_fatal_error(after, send.error), send.s, create.h, Len(dups),
                         send.closed, <<>>)
      marshalled(create, marshal) ==
        IF marshal.error # "none"
        THEN Outcome(display_fatal_error(create.d, marshal.error), c2s, create.h, 0, {}, <<>>)
        ELSE written(create, wl_closure_send(create.d.connection, c2s, marshal.closure),
                     marshal.closure)
      created(create) ==
        IF d.last_error # "none" \/ (interface # "" /\ create.h = 0)
        THEN Outcome(create.d, c2s, create.h, 0, {}, <<>>)
        ELSE marshalled(create, wl_closure_vmarshal(d.proxies[h].id, opcode, args(create),
                                                    message, dups))
      finish(r) == IF destroy THEN [r EXCEPT !.d = proxy_destroy(@, h)] ELSE r
  IN  finish(created(IF interface = "" THEN [d |-> d, h |-> 0]
                     ELSE proxy_create(d, queue, interface)))

-----------------------------------------------------------------------------
(* Reading events.                                                         *)

(* The closure with proxies made for the objects its event creates.        *)
create_proxies(d, sender, closure) ==
  LET made(r, i, new) == [d |-> new.d, error |-> new.h = 0,
                          closure |-> [r.closure EXCEPT !.args[i] = <<new.h>>]]
      make(r, i) ==
        IF r.error \/ i \notin ArgsOf(closure.message, {"n"}) THEN r
        ELSE made(r, i, wl_proxy_create_for_id(r.d, sender, closure.args[i][1],
                                               closure.message.types[i]))
  IN  FoldLeft(make, [d |-> d, error |-> FALSE, closure |-> closure],
               [i \in DOMAIN closure.args |-> i])

(* The display after an event, the words it takes up (0 if it is not all   *)
(* there, -1 if it cannot be understood), the descriptors closed, and what *)
(* has been understood of it.                                              *)
Taken(d, size, shut, event) == [d |-> d, size |-> size, closed |-> shut, event |-> event]

(* The event of an object that is gone is eaten with its descriptors, of   *)
(* which the zombie, data of the map, keeps the numbers.                   *)
EatEvent(d, header, words, data) ==
  LET number == IF data # NULL /\ header.opcode < Len(data) THEN data[header.opcode + 1] ELSE 0
      eat(n) == IF n > 0 THEN wl_connection_close_fds_in(d.connection, n)
                ELSE [c |-> d.connection, closed |-> {}]
      eaten(left) == Taken([d EXCEPT !.connection = [left.c EXCEPT !.in = consume(@, Len(words))]],
                           Len(words), left.closed,
                           <<[words |-> words,
                              fds   |-> ring_buffer_copy(d.connection.fds_in, number)]>>)
  IN  eaten(eat(number))

(* The event of proxy h is put on its queue.                               *)
QueueEventOf(d, header, words, h) ==
  LET interface == Interface(d.proxies[h].interface)
      queue     == IF h = Display THEN DisplayQueue ELSE d.proxies[h].queue
      after(read) == [d EXCEPT !.connection.in = consume(@, Len(words)),
                               !.connection.fds_in = consume(@, ring_buffer_size(@) - Len(read.fds)),
                               !.objects = read.map]
      queued(e, read, lookup) ==
        IF lookup.error # "none" THEN Taken(e, -1, wl_closure_close_fds(read.closure), <<>>)
        ELSE LET closure == [lookup.closure EXCEPT !.proxy = h]
             IN  Taken([e EXCEPT !.proxies = increase_closure_args_refcount(@, closure),
                                 !.queues[queue] = Append(@, closure)],
                       Len(words), {}, <<Sent(read.closure)>>)
      created(read, create) ==
        queued(create.d, read,
               IF create.error THEN Failed("EINVAL")
               ELSE wl_closure_lookup_objects(create.closure, create.d.objects, create.d.proxies))
      demarshalled(read) ==
        IF read.error # "none" THEN Taken(after(read), -1, read.closed, <<>>)
        ELSE created(read, create_proxies(after(read), h, read.closure))
  IN  IF header.opcode >= Len(interface.events) THEN Taken(d, -1, {}, <<>>)
      ELSE demarshalled(wl_connection_demarshal(words, Content(d.connection.fds_in), d.objects,
                                                interface.events[header.opcode + 1]))

(* One event of the len words that are pending.                            *)
queue_event(d, len) ==
  LET whole(header, words, data) ==
        IF data = NULL \/ wl_object_is_zombie(d.objects, header.id)
        THEN EatEvent(d, header, words, data)
        ELSE QueueEventOf(d, header, words, data)
      start(header) ==
        IF len < header.size \div WordBytes THEN Taken(d, 0, {}, <<>>)
        ELSE whole(header, ring_buffer_copy(d.connection.in, header.size \div WordBytes),
                   wl_map_lookup(d.objects, header.id))
  IN  start(HeaderOf(ring_buffer_copy(d.connection.in, 2)))

(* All the events that have been read, the last but for the one, if any,   *)
(* that is not all there; bad if one could not be understood.              *)
QueueAll(d, total) ==
  LET add(r, q) == [d      |-> q.d,
                    rem    |-> r.rem - q.size,
                    stop   |-> q.size <= 0,
                    bad    |-> q.size = -1,
                    closed |-> r.closed \cup q.closed,
                    events |-> r.events \o q.event]
      next(r, k) == IF r.stop \/ r.rem < 2 THEN r ELSE add(r, queue_event(r.d, r.rem))
  IN  FoldLeft(next, [d |-> d, rem |-> total, stop |-> FALSE, bad |-> FALSE,
                      closed |-> {}, events |-> <<>>],
               [k \in 1..RingWords |-> k])

queue_events(d, total) ==
  LET kept(e) == [d EXCEPT !.objects = e.objects, !.proxies = e.proxies,
                           !.queues = e.queues, !.connection = e.connection]
      result(r) == [d      |-> IF r.bad THEN display_fatal_error(kept(r.d), "EINVAL")
                               ELSE kept(r.d),
                    closed |-> r.closed, events |-> r.events]
  IN  result(QueueAll(d, total))

(* What the last of the threads that are prepared to read does.            *)
read_last(d) ==
  LET result(e, ret, s, shut, events) ==
        [d |-> e, ret |-> ret, s |-> s, closed |-> shut, events |-> events]
      queued(read, r) ==
        IF r.d.last_error # "none" THEN result(r.d, -1, read.s, r.closed, r.events)
        ELSE result(display_wakeup_threads(r.d), 0, read.s, r.closed, r.events)
      after(read) == [d EXCEPT !.connection = read.c]
      failed(read, error) ==
        result(display_fatal_error(after(read), error), -1, read.s, read.closed, <<>>)
      received(read) ==
        IF read.ret = -1 /\ read.error = "EAGAIN"
        THEN result(display_wakeup_threads(d), 0, s2c, {}, <<>>)
        ELSE IF read.ret = -1 THEN failed(read, read.error)
        ELSE IF read.ret = 0 THEN failed(read, "EPIPE")
        ELSE queued(read, queue_events(after(read), read.ret))
  IN  received(wl_connection_read(d.connection, s2c))

(* Faulty: the last to cancel does not wake those that sleep.              *)
CancelWakesNobody(d) == [d EXCEPT !.reader_count = @ - 1]

cancel_read(d) ==
  LET e == [d EXCEPT !.reader_count = @ - 1]
  IN  IF e.reader_count = 0 THEN display_wakeup_threads(e) ELSE e

-----------------------------------------------------------------------------
(* Threads.                                                                *)

Goto(t, pc) == thread' = [thread EXCEPT ![t].pc = pc]
At(t, pc)   == thread[t].pc = pc
Queue(t)    == Played.queue[t]
Returns(t, ret) == thread' = [thread EXCEPT ![t].pc = "returned", ![t].ret = ret]

socketVars == <<c2s, s2c>>
fdVars     == <<fds, closed, taken>>
historyVars == <<requested, served, posted, delivered>>

(* The requests a thread of the scenario makes on the things it has.       *)
Request(t, h, opcode, interface, values, dups, destroy) ==
  \E r \in {wl_proxy_marshal_array_flags(display, h, opcode, interface, Queue(t),
                                         values, dups, destroy)} :
    /\ display' = r.d
    /\ c2s' = r.s
    /\ fds' = fds + r.made
    /\ closed' = closed \cup r.closed
    /\ requested' = requested \o r.request
    /\ thread' = [thread EXCEPT
         ![t].callback = IF interface = "" THEN @ ELSE r.new,
         ![t].done = FALSE,
         ![t].ret = 0,
         ![t].pc = IF interface = "" THEN "finished"
                   ELSE IF r.new = 0 THEN "failed" ELSE "prepare"]
    /\ UNCHANGED <<scenario, server, s2c, taken, served, posted, delivered>>

Op(t) == Head(thread[t].program)
Starts(t, op) == At(t, "next") /\ thread[t].program # <<>> /\ Op(t).op = op

Dups(n) == [k \in 1..n |-> fds + k]

(* wl_display_roundtrip_queue as far as its loop: a sync request by way of *)
(* a wrapper of the display that has the thread's queue.                   *)
Roundtrip(t) == /\ Starts(t, "roundtrip")
                /\ Request(t, Display, 0, "wl_callback", <<NoObject>>, <<>>, FALSE)

Give(t)    == /\ Starts(t, "give")
              /\ ~display.proxies[Op(t).proxy].destroyed
              /\ Request(t, Op(t).proxy, 1, "", <<<<NoFd>>>>, Dups(1), FALSE)
Destroy(t) == /\ Starts(t, "destroy")
              /\ ~display.proxies[Op(t).proxy].destroyed
              /\ Request(t, Op(t).proxy, 0, "", <<>>, <<>>, TRUE)

Dispatch(t) ==
  /\ Starts(t, "dispatch") \/ Starts(t, "read") \/ Starts(t, "cancel")
  /\ thread' = [thread EXCEPT ![t].pc = "prepare", ![t].callback = 0, ![t].ret = 0]
  /\ UNCHANGED <<scenario, display, server, socketVars, fdVars, historyVars>>

(* wl_display_prepare_read_queue.                                          *)
Prepare(t) ==
  /\ At(t, "prepare")
  /\ \/ /\ display.queues[Queue(t)] # <<>>
        /\ thread' = [thread EXCEPT ![t].pc = "dispatch", ![t].phase = DisplayQueue]
        /\ UNCHANGED display
     \/ /\ display.queues[Queue(t)] = <<>>
        /\ display' = [display EXCEPT !.reader_count = @ + 1]
        /\ Goto(t, CASE Op(t).op = "cancel" -> "cancel"
                     [] Op(t).op = "read"   -> "pollin"
                     [] OTHER -> "flush")
  /\ UNCHANGED <<scenario, server, socketVars, fdVars, historyVars>>

(* wl_display_flush, and what wl_display_dispatch_queue makes of it.       *)
Flush(t) ==
  /\ At(t, "flush")
  /\ \E flush \in {IF display.last_error # "none"
                   THEN Result(display.connection, c2s, -1, display.last_error, {})
                   ELSE wl_connection_flush(display.connection, c2s)} :
       /\ display' = LET d == [display EXCEPT !.connection = flush.c]
                     IN  IF flush.error \in {"none", "EAGAIN", "EPIPE"} THEN d
                         ELSE display_fatal_error(d, flush.error)
       /\ c2s' = flush.s
       /\ Goto(t, CASE flush.error = "EAGAIN" -> "pollout"
                    [] flush.error \in {"none", "EPIPE"} -> "pollin"
                    [] OTHER -> "cancel")
  /\ UNCHANGED <<scenario, server, s2c, fdVars, historyVars>>

PollOut(t) == /\ At(t, "pollout") /\ Writable(c2s)
              /\ Goto(t, "flush")
              /\ UNCHANGED <<scenario, display, server, socketVars, fdVars, historyVars>>

PollIn(t) == /\ At(t, "pollin") /\ Readable(s2c)
             /\ Goto(t, "read")
             /\ UNCHANGED <<scenario, display, server, socketVars, fdVars, historyVars>>

(* wl_display_cancel_read, and the failure it is called for.               *)
CancelRead(t) ==
  /\ At(t, "cancel")
  /\ display' = cancel_read(display)
  /\ Returns(t, -1)
  /\ UNCHANGED <<scenario, server, socketVars, fdVars, historyVars>>

(* wl_display_read_events: of the threads that are prepared the last reads *)
(* and the others sleep until it has.                                      *)
ReadRefused(t) ==
  /\ At(t, "read") /\ display.last_error # "none"
  /\ display' = cancel_read(display)
  /\ Returns(t, -1)
  /\ UNCHANGED <<scenario, server, socketVars, fdVars, historyVars>>

Sleep(t) ==
  /\ At(t, "read") /\ display.last_error = "none" /\ display.reader_count > 1
  /\ display' = [display EXCEPT !.reader_count = @ - 1]
  /\ thread' = [thread EXCEPT ![t].pc = "asleep", ![t].serial = display.read_serial]
  /\ UNCHANGED <<scenario, server, socketVars, fdVars, historyVars>>

ReadEvents(t) ==
  /\ At(t, "read") /\ display.last_error = "none" /\ display.reader_count = 1
  /\ \E r \in {read_last([display EXCEPT !.reader_count = 0])} :
       /\ display' = r.d
       /\ s2c' = r.s
       /\ closed' = closed \cup r.closed
       /\ delivered' = delivered \o r.events
       /\ thread' = [thread EXCEPT ![t].pc = IF r.ret = -1 THEN "returned" ELSE "dispatch",
                                   ![t].ret = r.ret, ![t].phase = DisplayQueue]
  /\ UNCHANGED <<scenario, server, c2s, fds, taken, requested, served, posted>>

WakeUp(t) ==
  /\ At(t, "asleep") /\ display.read_serial # thread[t].serial
  /\ thread' = [thread EXCEPT
       ![t].pc = IF display.last_error # "none" THEN "returned" ELSE "dispatch",
       ![t].ret = IF display.last_error # "none" THEN -1 ELSE 0, ![t].phase = DisplayQueue]
  /\ UNCHANGED <<scenario, display, server, socketVars, fdVars, historyVars>>

-----------------------------------------------------------------------------
(* Dispatching: the display's own events first, then those of the thread's *)
(* queue.  phase is the queue the thread is at.                            *)

DispatchFails(t) ==
  /\ At(t, "dispatch") /\ display.last_error # "none"
  /\ Returns(t, -1)
  /\ UNCHANGED <<scenario, display, server, socketVars, fdVars, historyVars>>

DispatchEnds(t) ==
  /\ At(t, "dispatch") /\ display.last_error = "none"
  /\ display.queues[thread[t].phase] = <<>>
  /\ IF thread[t].phase = DisplayQueue
     THEN thread' = [thread EXCEPT ![t].phase = Queue(t)]
     ELSE Returns(t, 0)
  /\ UNCHANGED <<scenario, display, server, socketVars, fdVars, historyVars>>

(* The event of a destroyed proxy is dropped, that of any other handled    *)
(* with the mutex unlocked.                                                *)
dispatch_event(t) ==
  /\ At(t, "dispatch") /\ display.last_error = "none"
  /\ display.queues[thread[t].phase] # <<>>
  /\ LET q == thread[t].phase
         d == [display EXCEPT !.queues[q] = Tail(@)]
     IN  \E closure \in {validate_closure_objects(display, Head(display.queues[q]))} :
         IF display.proxies[closure.proxy].destroyed
         THEN /\ display' = [d EXCEPT !.proxies = destroy_queued_closure(@, closure)]
              /\ closed' = closed \cup wl_closure_close_fds(closure)
              /\ UNCHANGED thread
         ELSE /\ display' = d
              /\ thread' = [thread EXCEPT ![t].event = closure, ![t].pc = "handler"]
              /\ UNCHANGED closed
  /\ UNCHANGED <<scenario, server, socketVars, fds, taken, historyVars>>

Handles(t, interface, opcode) ==
  /\ At(t, "handler")
  /\ InterfaceOf(thread[t].event.proxy) = interface
  /\ thread[t].event.opcode = opcode

Arg(t, i) == thread[t].event.args[i][1]

(* display_handle_error looks at last_error before it takes the mutex.     *)
HandleError(t) ==
  /\ Handles(t, "wl_display", 0)
  /\ Goto(t, IF display.last_error # "none" THEN "handled" ELSE "protocol_error")
  /\ UNCHANGED <<scenario, display, server, socketVars, fdVars, historyVars>>

display_protocol_error(t) ==
  /\ At(t, "protocol_error")
  /\ LET h         == Arg(t, 1)
         interface == IF h = 0 THEN "none" ELSE InterfaceOf(h)
     IN  display' = [display EXCEPT
           !.last_error = protocol_errno(Arg(t, 2), interface),
           !.protocol_error = [code |-> Arg(t, 2), interface |-> interface,
                               id |-> IF h = 0 THEN 0 ELSE display.proxies[h].id]]
  /\ Goto(t, "handled")
  /\ UNCHANGED <<scenario, server, socketVars, fdVars, historyVars>>

display_handle_delete_id(t) ==
  /\ Handles(t, "wl_display", 1)
  /\ LET id == Arg(t, 1)
         h  == wl_map_lookup(display.objects, id)
     IN  display' = IF wl_object_is_zombie(display.objects, id)
                    THEN [display EXCEPT !.objects = wl_map_remove(@, id)]
                    ELSE IF h # NULL THEN [display EXCEPT !.proxies[h].id_deleted = TRUE]
                    ELSE display
  /\ Goto(t, "handled")
  /\ UNCHANGED <<scenario, server, socketVars, fdVars, historyVars>>

(* sync_callback, of the roundtrip that made the callback.                 *)
sync_callback(t) ==
  /\ Handles(t, "wl_callback", 0)
  /\ LET h == thread[t].event.proxy
     IN  /\ thread' = [u \in Threads |->
                         [thread[u] EXCEPT !.done = @ \/ thread[u].callback = h,
                                           !.pc = IF u = t THEN "handled" ELSE @]]
         /\ display' = proxy_destroy(display, h)
  /\ UNCHANGED <<scenario, server, socketVars, fdVars, historyVars>>

(* The client's own handlers take the descriptors they are given.          *)
HandleThing(t) ==
  /\ At(t, "handler") /\ InterfaceOf(thread[t].event.proxy) = "thing"
  /\ taken' = taken \cup wl_closure_close_fds(thread[t].event)
  /\ thread' = [thread EXCEPT ![t].event = wl_closure_invoke(@), ![t].pc = "handled"]
  /\ UNCHANGED <<scenario, display, server, socketVars, fds, closed, historyVars>>

(* dispatch_event goes on with the mutex locked again.                     *)
Handled(t) ==
  /\ At(t, "handled")
  /\ display' = [display EXCEPT !.proxies = destroy_queued_closure(@, thread[t].event)]
  /\ thread' = [thread EXCEPT ![t].event = NoEvent, ![t].pc = "dispatch"]
  /\ UNCHANGED <<scenario, server, socketVars, fdVars, historyVars>>

(* A roundtrip dispatches until it is done or has failed, and destroys its *)
(* callback if it has failed.  After a failure the thread gives up.        *)
Returned(t) ==
  /\ At(t, "returned")
  /\ LET again == Op(t).op = "roundtrip" /\ ~thread[t].done /\ thread[t].ret >= 0
         drop  == Op(t).op = "roundtrip" /\ ~thread[t].done /\ thread[t].ret = -1
     IN  /\ display' = IF drop THEN proxy_destroy(display, thread[t].callback) ELSE display
         /\ Goto(t, CASE again -> "prepare"
                      [] ~again /\ thread[t].ret = -1 /\ Op(t).op # "cancel" -> "failed"
                      [] OTHER -> "finished")
  /\ UNCHANGED <<scenario, server, socketVars, fdVars, historyVars>>

Finished(t) ==
  /\ thread[t].pc \in {"finished", "failed"}
  /\ thread' = [thread EXCEPT
       ![t].pc = "next", ![t].callback = 0,
       ![t].program = IF At(t, "failed") THEN <<>> ELSE Tail(@)]
  /\ UNCHANGED <<scenario, display, server, socketVars, fdVars, historyVars>>

release_queues(d) ==
  LET release(r, q) == LET next == wl_event_queue_release(r.d, q)
                       IN  [d |-> next.d, closed |-> r.closed \cup next.closed]
  IN  FoldLeft(release, [d |-> d, closed |-> {}], SetToSeq(AllQueues))

(* The queues are destroyed and the display after them, when every thread  *)
(* is through.  What the socket still holds for the client is lost with it.*)
wl_display_disconnect ==
  /\ display.connected
  /\ \A t \in Threads : At(t, "next") /\ thread[t].program = <<>>
  /\ \E r \in {release_queues(display)} :
         /\ display' = [display EXCEPT !.proxies = r.d.proxies, !.queues = r.d.queues,
                                       !.connected = FALSE, !.connection = wl_connection_create]
         /\ closed' = closed \cup r.closed \cup wl_connection_destroy(display.connection)
                        \cup UNION {ToSet(packet.fds) : packet \in ToSet(s2c.packets)}
  /\ c2s' = [c2s EXCEPT !.hung_up = TRUE]
  /\ s2c' = [s2c EXCEPT !.closed = TRUE, !.packets = <<>>]
  /\ UNCHANGED <<scenario, thread, server, fds, taken, historyVars>>

-----------------------------------------------------------------------------
(* The compositor (external): what it does with its end of the connection. *)

(* The compositor's side of what follows: its record sv, the socket s, the *)
(* requests it has served, the events it has posted, the descriptors closed*)
(* and taken, and the id given up by the last request (0: none), of which  *)
(* delete_id is still to be posted.                                        *)
Serving(sv, s, shut) == [sv |-> sv, s |-> s, served |-> <<>>, events |-> <<>>,
                         closed |-> shut, taken |-> {}, gone |-> 0]

(* An event of the object id, sent or only queued, unless there has been an*)
(* error.                                                                  *)
Post(r, id, opcode, values, dups, queued) ==
  LET message == Interface(wl_map_lookup(r.sv.objects, id)).events[opcode + 1]
      at      == ArgsOf(message, {"n"})
      put(new, sent, closure) ==
        [r EXCEPT !.sv.c = sent.c, !.sv.objects = IF at = {} THEN @ ELSE new.map,
                  !.sv.error = IF sent.ret = -1 THEN sent.error ELSE @,
                  !.s = sent.s, !.closed = @ \cup sent.closed,
                  !.events = IF sent.ret = -1 THEN @ ELSE Append(@, Sent(closure))]
      send(new, closure) ==
        put(new, IF queued THEN wl_closure_queue(r.sv.c, r.s, closure)
                 ELSE wl_closure_send(r.sv.c, r.s, closure), closure)
      create(new) ==
        send(new, wl_closure_marshal(id, opcode,
                    [i \in DOMAIN values |-> IF i \in at THEN <<new.id>> ELSE values[i]],
                    message, dups).closure)
  IN  IF r.sv.error # "none" THEN r
      ELSE create(wl_map_insert_new(r.sv.objects, 0, message.types[Max(at \cup {1})]))

(* Posts delete_id for the id of the client's that is given up.            *)
DeleteId(r) ==
  Post([r EXCEPT !.sv.objects = wl_map_insert_at(@, 0, r.gone, NULL), !.gone = 0],
       1, 1, <<<<r.gone>>>>, <<>>, TRUE)

(* What a request makes the compositor do: a sync is answered, an object   *)
(* destroyed, a descriptor taken.                                          *)
Serve(r, interface, closure) ==
  LET id == closure.args[1][1]
  IN  CASE interface = "wl_display" ->
             Post([r EXCEPT !.sv.objects = wl_map_insert_at(@, 0, id, "wl_callback"), !.gone = id],
                  id, 0, <<<<7>>>>, <<>>, FALSE)
        [] interface = "thing" /\ closure.opcode = 0 -> [r EXCEPT !.gone = closure.sender_id]
        [] interface = "thing" /\ closure.opcode = 1 ->
             [r EXCEPT !.taken = @ \cup wl_closure_close_fds(closure)]

(* The next of the requests that have been read, if it is all there.       *)
ServeRequest(r) ==
  LET demarshalled(interface, count, read) ==
        LET after == [r EXCEPT !.sv.c.in = consume(@, count), !.sv.objects = read.map,
                               !.sv.c.fds_in = consume(@, ring_buffer_size(@) - Len(read.fds))]
        IN  IF read.error # "none"
            THEN [after EXCEPT !.sv.error = read.error, !.closed = @ \cup read.closed]
            ELSE Serve([after EXCEPT !.served = Append(@, Sent(read.closure))], interface,
                       read.closure)
      start(header, count, interface) ==
        IF ring_buffer_size(r.sv.c.in) < count THEN r
        ELSE IF interface = NULL THEN [r EXCEPT !.sv.error = "EINVAL"]
        ELSE demarshalled(interface, count,
               wl_connection_demarshal(ring_buffer_copy(r.sv.c.in, count),
                 Content(r.sv.c.fds_in), r.sv.objects,
                 Interface(interface).methods[header.opcode + 1]))
      first(header) == start(header, header.size \div WordBytes,
                             wl_map_lookup(r.sv.objects, header.id))
  IN  IF r.sv.error # "none" \/ ring_buffer_size(r.sv.c.in) < 2 THEN r
      ELSE first(HeaderOf(ring_buffer_copy(r.sv.c.in, 2)))

(* The end of a step of the compositor's: after an error the client is     *)
(* destroyed, what is to be sent is, and the socket closed.                *)
Settle(r, c, hang_up) ==
  /\ IF r.sv.error # "none" \/ hang_up
     THEN \E flush \in {wl_connection_flush(r.sv.c, r.s)} :
            /\ server' = [r.sv EXCEPT !.c = wl_connection_create, !.up = FALSE]
            /\ s2c' = [flush.s EXCEPT !.hung_up = TRUE]
            /\ c2s' = [c EXCEPT !.closed = TRUE, !.packets = <<>>]
            /\ closed' = closed \cup r.closed \cup wl_connection_destroy(flush.c)
                           \cup UNION {ToSet(packet.fds) : packet \in ToSet(c.packets)}
     ELSE server' = r.sv /\ s2c' = r.s /\ c2s' = c /\ closed' = closed \cup r.closed
  /\ served' = served \o r.served
  /\ posted' = posted \o r.events
  /\ taken' = taken \cup r.taken
  /\ UNCHANGED <<scenario, display, thread, requested, delivered>>

(* What has been read is served one request after the other, each with its *)
(* delete_id: as many steps as a request of two words needs.               *)
ServerReads ==
  /\ server.up /\ Readable(c2s)
  /\ \E read \in {wl_connection_read(server.c, c2s)} :
     \E r \in {FoldLeft(LAMBDA r, k : IF r.gone # 0 THEN DeleteId(r) ELSE ServeRequest(r),
                        Serving([server EXCEPT !.c = read.c], s2c, read.closed),
                        [k \in 1..RingWords |-> k])} :
       Settle(r, read.s, read.ret <= 0)
  /\ UNCHANGED fds

ServerPosts ==
  /\ server.up /\ server.script # <<>>
  /\ LET event == Head(server.script)
         r     == Serving([server EXCEPT !.script = Tail(@)], s2c, {})
     IN  IF wl_map_lookup(server.objects, event.sender) = NULL
         THEN Settle(r, c2s, FALSE) /\ UNCHANGED fds
         ELSE /\ Settle(Post(r, event.sender, event.opcode, event.args, Dups(event.fds),
                             event.queued), c2s, FALSE)
              /\ fds' = fds + event.fds

ServerFlushes ==
  /\ server.up /\ server.c.want_flush /\ Writable(s2c)
  /\ \E flush \in {wl_connection_flush(server.c, s2c)} :
       Settle(Serving([server EXCEPT !.c = flush.c], flush.s, {}), c2s,
              flush.ret = -1 /\ flush.error # "EAGAIN")
  /\ UNCHANGED fds

ServerHangsUp ==
  /\ server.up /\ Played.hangs_up /\ server.script = <<>>
  /\ Settle(Serving(server, s2c, {}), c2s, TRUE)
  /\ UNCHANGED fds

-----------------------------------------------------------------------------

(* The client has a display and, with the ids after its own, a proxy for   *)
(* each thing of the scenario.                                             *)
InitialObjects(side, root, things) ==
  FoldLeft(LAMBDA map, k : wl_map_insert_at(map, 0, 1 + k, things[k]),
           wl_map_insert_at(wl_map_insert_at(wl_map_init(side), 0, 0, NULL), 0, 1, root),
           [k \in DOMAIN Played.things |-> k])

Init ==
  /\ scenario \in DOMAIN Scenarios
  /\ display = [objects |-> InitialObjects("client", Display, [k \in DOMAIN Played.things |-> 1 + k]),
                proxies |-> <<NewProxy(1, "wl_display", DisplayQueue)>> \o
                  [k \in DOMAIN Played.things |-> NewProxy(1 + k, "thing", Played.things[k])],
                queues |-> [q \in AllQueues |-> <<>>],
                connection |-> wl_connection_create, connected |-> TRUE,
                last_error |-> "none",
                protocol_error |-> [code |-> 0, interface |-> "none", id |-> 0],
                reader_count |-> 0, read_serial |-> 0]
  /\ thread = [t \in Threads |->
                 [pc |-> "next", program |-> Played.program[t], serial |-> 0, done |-> FALSE,
                  callback |-> 0, ret |-> 0, event |-> NoEvent, phase |-> DisplayQueue]]
  /\ server = [c |-> wl_connection_create, script |-> Played.script, error |-> "none",
               up |-> TRUE,
               objects |-> InitialObjects("server", "wl_display", [k \in DOMAIN Played.things |-> "thing"])]
  /\ c2s = EmptySocket /\ s2c = EmptySocket
  /\ fds = 0 /\ closed = {} /\ taken = {}
  /\ requested = <<>> /\ served = <<>> /\ posted = <<>> /\ delivered = <<>>

Step(t) ==
  \/ Roundtrip(t) \/ Give(t) \/ Destroy(t) \/ Dispatch(t) \/ Prepare(t) \/ Flush(t)
  \/ PollOut(t) \/ PollIn(t) \/ CancelRead(t) \/ ReadRefused(t) \/ Sleep(t) \/ ReadEvents(t)
  \/ WakeUp(t) \/ DispatchFails(t) \/ DispatchEnds(t) \/ dispatch_event(t) \/ HandleError(t)
  \/ display_protocol_error(t) \/ display_handle_delete_id(t) \/ sync_callback(t)
  \/ HandleThing(t) \/ Handled(t) \/ Returned(t) \/ Finished(t)

Compositor == ServerReads \/ ServerPosts \/ ServerFlushes \/ ServerHangsUp

(* Both ends are gone.                                                     *)
Over == ~display.connected /\ ~server.up /\ UNCHANGED vars

Next == (\E t \in Threads : Step(t)) \/ wl_display_disconnect \/ Compositor \/ Over

Spec == Init /\ [][Next]_vars

(* Where a thread waits: for the socket, or for another to have read.      *)
CanStep(t) == /\ At(t, "next")    => thread[t].program # <<>>
              /\ At(t, "pollout") => Writable(c2s)
              /\ At(t, "pollin")  => Readable(s2c)
              /\ At(t, "asleep")  => display.read_serial # thread[t].serial

CanServe == /\ server.up
            /\ \/ Readable(c2s) \/ server.script # <<>> \/ Played.hangs_up
               \/ server.c.want_flush /\ Writable(s2c)

(* Every thread is scheduled, and the compositor's event loop comes round: *)
(* weak fairness, with what enables a step written out.                    *)
Fairness == /\ \A t \in Threads : []<>~CanStep(t) \/ []<><<Step(t)>>_vars
            /\ []<>~CanServe \/ []<><<Compositor>>_vars

FairSpec == Spec /\ Fairness

-----------------------------------------------------------------------------
(* Properties.                                                             *)

Requests == INSTANCE Channel WITH sent <- requested, received <- served
Events   == INSTANCE Channel WITH sent <- posted, received <- delivered

(* Both directions of a connection are channels: what is read is what was  *)
(* sent, in order and with its own descriptors, however the rings wrap, the*)
(* socket fills and messages are cut in two, and also when the object an   *)
(* event is for is destroyed while the event is under way (connection.c:288*)
(* and :336, wayland-client.c:1464).                                       *)
ImplementsChannels == Requests!Spec /\ Events!Spec

Turns == INSTANCE ReadTurns WITH
  reader_count <- display.reader_count,
  read_serial  <- display.read_serial,
  failed       <- display.last_error # "none",
  phase        <- [t \in Threads |->
                     IF thread[t].pc \in {"flush", "pollout", "pollin", "read", "cancel"}
                     THEN "prepared" ELSE IF At(t, "asleep") THEN "asleep" ELSE "out"],
  serial       <- [t \in Threads |-> thread[t].serial]

(* The threads take turns as ReadTurns says, whichever way they leave the  *)
(* loop of wl_display_dispatch_queue and whatever fails in between         *)
(* (wayland-client.c:1604 and :1923).                                      *)
ImplementsReadTurns == Turns!Spec

(* Every descriptor made for a message is in a buffer, in the socket or in *)
(* an event not yet handled, unless it has been handed over or closed: none*)
(* is lost when messages are dropped and connections destroyed             *)
(* (connection.c:183, wayland-client.c:1484).                              *)
NoFdLost ==
  LET ends    == {display.connection, server.c}
      rings   == UNION {ToSet(Content(c.fds_in)) \cup ToSet(Content(c.fds_out)) : c \in ends}
      packets == UNION {UNION {ToSet(p.fds) : p \in ToSet(s.packets)} : s \in {c2s, s2c}}
      queued  == UNION {UNION {wl_closure_close_fds(closure) : closure \in ToSet(display.queues[q])}
                          : q \in AllQueues}
      handled == UNION {wl_closure_close_fds(thread[t].event)
                          : t \in {u \in Threads : thread[u].event # NoEvent}}
  IN  1..fds \subseteq rings \cup packets \cup queued \cup handled \cup closed \cup taken

(* With a peer that keeps to the protocol a display fails only for what has*)
(* happened to it: the compositor has gone, has posted an error, or has let*)
(* the socket and the buffers fill up.  In particular no message is ever   *)
(* short of words or of descriptors (connection.c:685).                    *)
OnlyRealErrors ==
  /\ display.last_error = "EPROTO" => display.protocol_error.interface # "none"
  /\ display.last_error = "EPIPE" => ~server.up
  /\ display.last_error \in {"none", "EPROTO", "EPIPE", "EAGAIN"}
  /\ server.error = "EPIPE" => ~display.connected
  /\ server.error \in {"none", "EPIPE", "EAGAIN"}

InRoundtrip(t) == thread[t].pc \notin {"next", "finished", "failed"} /\ Op(t).op = "roundtrip"

(* A roundtrip returns, done or with an error, however many threads read   *)
(* and dispatch at once and whenever the compositor goes away: no thread is*)
(* left asleep or polling for an answer that another has read              *)
(* (wayland-client.c:1348).  It is left out what happens once a request has*)
(* failed with EAGAIN, which wl_display_dispatch_queue takes for a flush   *)
(* that would block, for ever.                                             *)
RoundtripsReturn ==
  \A t \in Threads : InRoundtrip(t) ~> (~InRoundtrip(t) \/ display.last_error = "EAGAIN")
=============================================================================

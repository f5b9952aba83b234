------------------------------ MODULE WaylandServer ------------------------------
(***************************************************************************)
(* The server library (untitled/src/wayland-server.c): the display with    *)
(* its loop, its globals and their registries, the clients with what they  *)
(* have created, and the signals through which the compositor is told of   *)
(* all this.                                                               *)
(*                                                                         *)
(* The library runs in one thread, and everything that happens there is a  *)
(* call stack: the frames of the library's functions, between them those of*)
(* the compositor's handlers and listeners, which call the library again.  *)
(* A frame holds the locals that are used after a call returns; its "at"   *)
(* says where the function goes on.  What a function does between two      *)
(* calls of handlers is one step.  The clients at the other ends of the    *)
(* sockets, and a thread that calls wl_display_terminate, run at any time. *)
(*                                                                         *)
(* A resource is known by its client and id; that it has been freed while  *)
(* the map still has its pointer is the value "freed".  Ids and the wire   *)
(* format are the business of ObjectIds and Connection.                    *)
(***************************************************************************)
EXTENDS Naturals, SequencesExt

CONSTANTS Clients,
          Scenarios,  \* what peers and compositor may do
          MaxId,      \* bound: ids of a client's objects
          OutSpace,   \* events that a connection's buffer has room for
          NULL

ASSUME ClientsAssumption == {NULL, "head"} \cap Clients = {}
ASSUME BoundsAssumption  == MaxId \in Nat \ {0} /\ OutSpace \in Nat \ {0}

(* Finitely many listeners are there at the start.                         *)
ASSUME ScenariosAssumption ==
  \A s \in DOMAIN Scenarios :
    /\ IsFiniteSet(Scenarios[s].listening)
    /\ Scenarios[s].globals \in Seq(STRING)
    /\ Scenarios[s].socket_space \in Nat /\ Scenarios[s].budget \in Nat

(* A client destroys an object it has just bound, and an honest one asks   *)
(* for nothing wrong.                                                      *)
ASSUME ProgramsAssumption ==
  \A s \in DOMAIN Scenarios : \A c \in DOMAIN Scenarios[s].programs :
    LET p == Scenarios[s].programs[c]
    IN  /\ p \in Seq(STRING)
        /\ \A i \in DOMAIN p : /\ p[i] = "wrong" => ~Scenarios[s].honest
                               /\ p[i] = "destroy" => i > 1 /\ p[i - 1] = "bind"

VARIABLES scenario,   \* the member of Scenarios that is played
          display,    \* struct wl_display
          client,     \* client[c]: struct wl_client, with its connection and socket
          peer,       \* peer[c]: the program at the other end of c's socket
          stack,      \* the frames of the display's thread, the innermost last
          terminator, \* where the thread is that calls wl_display_terminate
          budget      \* calls of the library the compositor may still make

vars == <<scenario, display, client, peer, stack, terminator, budget>>

Played  == Scenarios[scenario]
Display == 1              \* the id of a client's wl_display
Ids     == 1..MaxId

-----------------------------------------------------------------------------
(* A client's connection and the events written to it.                     *)

Event(op, obj, arg) == [op |-> op, obj |-> obj, arg |-> arg]

(* The client after its buffer has been written to its socket, and whether *)
(* all of it has been.                                                     *)
wl_client_flush(cl) ==
  LET room == Played.socket_space - Len(cl.to_client)
      n    == IF Len(cl.out) <= room THEN Len(cl.out) ELSE room
  IN  IF ~cl.want_flush THEN [cl |-> cl, ret |-> "ok"]
      ELSE IF ~cl.up /\ cl.out # <<>> THEN [cl |-> cl, ret |-> "EPIPE"]
      ELSE [cl  |-> [cl EXCEPT !.to_client = @ \o SubSeq(cl.out, 1, n),
                               !.out = SubSeq(@, n + 1, Len(@)),
                               !.want_flush = n < Len(cl.out)],
            ret |-> IF n < Len(cl.out) THEN "EAGAIN" ELSE "ok"]

(* A client that has had an error is sent nothing more.  One whose buffer  *)
(* is full, and its socket too, has an error.                              *)
handle_array(cl, event, now) ==
  LET after == IF Len(cl.out) < OutSpace THEN [cl |-> cl, ret |-> "ok"]
               ELSE wl_client_flush([cl EXCEPT !.want_flush = TRUE])
  IN  IF cl.error THEN cl
      ELSE IF after.ret # "ok" THEN [after.cl EXCEPT !.error = TRUE]
      ELSE [after.cl EXCEPT !.out = Append(@, event), !.want_flush = @ \/ now]

wl_resource_post_event(cl, event)  == handle_array(cl, event, TRUE)
wl_resource_queue_event(cl, event) == handle_array(cl, event, FALSE)

wl_resource_post_error(cl, why) ==
  IF cl.error \/ ~cl.display_resource THEN cl
  ELSE [wl_resource_post_event(cl, Event("error", Display, why)) EXCEPT !.error = TRUE]

-----------------------------------------------------------------------------
(* Globals and registries.                                                 *)

Global(name, interface) == [name |-> name, interface |-> interface, removed |-> FALSE]
Names(globals) == {g.name : g \in ToSet(globals)}

(* The names of the globals that events s announce to registry id and do   *)
(* not take back.                                                          *)
Told(s, id) ==
  LET Mine == {i \in DOMAIN s : s[i].obj = id}
  IN  {s[i].arg : i \in {j \in Mine : /\ s[j].op = "global"
                                     /\ \A k \in Mine : j < k => s[k].arg # s[j].arg}}

(* The compositor's filter always decides the same of a client and an      *)
(* interface, as its documentation asks.                                   *)
wl_global_is_visible(c, g) == <<c, g.interface>> \notin Played.hidden

(* Faulty: adds to the emission under way, if there is one.                *)
AddToEmission(l) ==
  IF display.emit_list # <<>> THEN [display EXCEPT !.emit_list = Append(@, l)]
  ELSE [display EXCEPT !.listener_list = Append(@, l)]

(* The listeners for new clients.                                          *)
wl_priv_signal_add(l) == [display EXCEPT !.listener_list = Append(@, l)]

-----------------------------------------------------------------------------
(* The call stack.                                                         *)

HEAD == "head"      \* of a list, where a walk along it ends

Top     == Last(stack)
At(at)  == stack # <<>> /\ Top.at = at
Callers == SubSeq(stack, 1, Len(stack) - 1)

Goto(frame)        == stack' = Append(Callers, frame)
Call(frame, after) == stack' = Callers \o <<after, frame>>
Return             == stack' = Callers

Frame(at, c)         == [at |-> at, c |-> c, id |-> 0]
FrameOf(at, c, id)   == [at |-> at, c |-> c, id |-> id]
Flushing(c, next)    == [at |-> "flush", c |-> c, id |-> 0, next |-> next]
Destroying(next)     == [at |-> "flush_next", c |-> NULL, id |-> 0, next |-> next]
Dispatching(ready)   == [at |-> "dispatch", c |-> NULL, id |-> 0, ready |-> ready]
Reading(c, mask)     == [at |-> "connection_data", c |-> c, id |-> 0, mask |-> mask]
Emitting(c, due)     == [at |-> "emit", c |-> c, id |-> 0, due |-> due, called |-> <<>>,
                         gone |-> {}]
Handling(c, first)   == [at |-> "requests", c |-> c, id |-> 0, first |-> first]
Telling(c, id, rest) == [at |-> "tell", c |-> c, id |-> id, rest |-> rest]
Announcing(op, g, rest, destroys) ==
  [at |-> "announce", c |-> NULL, id |-> 0, op |-> op, g |-> g, rest |-> rest,
   destroys |-> destroys]

(* A handler or listener of the compositor's, called for a client and one  *)
(* of its objects if any.                                                  *)
Handler(c, id) == FrameOf("user", c, id)

First(list) == IF list = <<>> THEN HEAD ELSE Head(list)
NextAfter(list, c) ==
  IF c \notin ToSet(list) \/ c = Last(list) THEN HEAD
  ELSE list[CHOOSE i \in 2..Len(list) : list[i - 1] = c]

(* The list after wl_list_remove of c, which is on it once if at all.      *)
Unlinked(list, c) ==
  IF c \in ToSet(list) THEN RemoveAt(list, CHOOSE i \in DOMAIN list : list[i] = c) ELSE list

otherVars == <<scenario, peer, terminator, budget>>

-----------------------------------------------------------------------------
(* What is told of globals.  The loops along the registries and along the  *)
(* globals ask the compositor's filter each time, and post one event.      *)

wl_global_create(interface) ==
  LET g == Global(display.id, interface)
  IN  /\ display' = [display EXCEPT !.id = @ + 1, !.globals = Append(@, g)]
      /\ Call(Announcing("global", g, display.registries, FALSE), Top)

wl_global_remove(g) ==
  /\ ~g.removed
  /\ Call(Announcing("global_remove", g, display.registries, FALSE), Top)
  /\ UNCHANGED display

(* Faulty: clients that have a registry are not told.                      *)
DestroySilently(g) ==
  /\ display' = [display EXCEPT !.globals = Unlinked(@, g)]
  /\ UNCHANGED stack

wl_global_destroy(g) ==
  IF g.removed
  THEN /\ display' = [display EXCEPT !.globals = Unlinked(@, g)]
       /\ UNCHANGED stack
  ELSE /\ Call(Announcing("global_remove", g, display.registries, TRUE), Top)
       /\ UNCHANGED display

Announce ==
  /\ At("announce") /\ Top.rest # <<>>
  /\ LET r == Head(Top.rest)
     IN  client' = IF wl_global_is_visible(r.c, Top.g)
                   THEN [client EXCEPT ![r.c] =
                           wl_resource_post_event(@, Event(Top.op, r.id, Top.g.name))]
                   ELSE client
  /\ Goto([Top EXCEPT !.rest = Tail(@)])
  /\ UNCHANGED <<display, otherVars>>

(* What wl_global_remove and wl_global_destroy do after the loop.          *)
AnnouncementEnds ==
  /\ At("announce") /\ Top.rest = <<>>
  /\ display' =
       IF Top.op = "global" THEN display
       ELSE IF Top.destroys THEN [display EXCEPT !.globals = Unlinked(@, Top.g)]
       ELSE [display EXCEPT !.globals =
               [i \in DOMAIN @ |-> IF @[i] = Top.g THEN [Top.g EXCEPT !.removed = TRUE] ELSE @[i]]]
  /\ Return
  /\ UNCHANGED <<client, otherVars>>

(* The loop of display_get_registry.                                       *)
TellGlobal ==
  /\ At("tell")
  /\ IF Top.rest = <<>> THEN Return /\ UNCHANGED client
     ELSE LET g == Head(Top.rest)
          IN  /\ client' = IF wl_global_is_visible(Top.c, g) /\ ~g.removed
                           THEN [client EXCEPT ![Top.c] =
                                   wl_resource_post_event(@, Event("global", Top.id, g.name))]
                           ELSE client
              /\ Goto([Top EXCEPT !.rest = Tail(@)])
  /\ UNCHANGED <<display, otherVars>>

-----------------------------------------------------------------------------
(* wl_display_run.                                                         *)

wl_display_run ==
  /\ At("main")
  /\ display' = [display EXCEPT !.run = TRUE]
  /\ Call(Frame("run", NULL), Frame("destroy_clients", NULL))
  /\ UNCHANGED <<client, otherVars>>

LoopTest ==
  /\ At("run")
  /\ IF display.run
     THEN LET list == display.client_list
          IN  Call(Flushing(First(list), NextAfter(list, First(list))), Frame("poll", NULL))
     ELSE Return
  /\ UNCHANGED <<display, client, otherVars>>

(* Faulty: what did not fit into the socket waits for the next turn.       *)
FlushOnce ==
  /\ At("flush")
  /\ IF Top.c = HEAD THEN Return /\ UNCHANGED client
     ELSE LET r        == wl_client_flush(client[Top.c])
              advanced == Flushing(Top.next, NextAfter(display.client_list, Top.next))
          IN  IF r.ret = "EPIPE"
              THEN /\ Call(Frame("client_destroy", Top.c), Destroying(Top.next))
                   /\ UNCHANGED client
              ELSE /\ Goto(advanced)
                   /\ client' = [client EXCEPT ![Top.c] = r.cl]
  /\ UNCHANGED <<display, otherVars>>

(* wl_display_flush_clients, which holds the next client of the list while *)
(* it destroys one.                                                        *)
FlushClient ==
  /\ At("flush")
  /\ IF Top.c = HEAD THEN Return /\ UNCHANGED client
     ELSE LET r        == wl_client_flush(client[Top.c])
              advanced == Flushing(Top.next, NextAfter(display.client_list, Top.next))
          IN  IF r.ret = "EPIPE"
              THEN /\ Call(Frame("client_destroy", Top.c), Destroying(Top.next))
                   /\ UNCHANGED client
              ELSE /\ Goto(advanced)
                   /\ client' = [client EXCEPT ![Top.c] =
                        [r.cl EXCEPT !.writable = @ \/ r.ret = "EAGAIN"]]
  /\ UNCHANGED <<display, otherVars>>

FlushNext ==
  /\ At("flush_next")
  /\ Goto(Flushing(Top.next, NextAfter(display.client_list, Top.next)))
  /\ UNCHANGED <<display, client, otherVars>>

(* What epoll_wait finds: the terminate event, clients, new connections.   *)
Mask(c) ==
  LET cl == client[c]
  IN  (IF ~cl.up THEN {"hangup"} ELSE {})
        \cup (IF cl.to_server # <<>> THEN {"readable"} ELSE {})
        \cup (IF cl.writable /\ Len(cl.to_client) < Played.socket_space THEN {"writable"} ELSE {})

Ready ==
  (IF display.efd THEN {[source |-> "terminate"]} ELSE {})
    \cup {[source |-> "client", c |-> c, mask |-> Mask(c)] :
            c \in {d \in Clients : client[d].life = "live" /\ Mask(d) # {}}}
    \cup {[source |-> "socket", c |-> c] : c \in {d \in Clients : peer[d].connects}}

(* A timer or another source of the compositor's may be ready too.         *)
Poll ==
  /\ At("poll")
  /\ \E own \in {{}} \cup (IF budget > 0 /\ Played.timer THEN {{[source |-> "timer"]}} ELSE {}) :
       Ready \cup own # {} /\ Goto(Dispatching(Ready \cup own))
  /\ UNCHANGED <<display, client, otherVars>>

(* A client's source that has been removed since is not dispatched.        *)
DispatchSource ==
  /\ At("dispatch") /\ Top.ready # {}
  /\ \E r \in Top.ready :
       LET rest == Dispatching(Top.ready \ {r})
       IN  \/ /\ r.source = "terminate"
              /\ display' = [display EXCEPT !.efd = FALSE]
              /\ Goto(rest) /\ UNCHANGED peer
           \/ /\ r.source = "timer"
              /\ Call(Handler(NULL, 0), rest) /\ UNCHANGED <<display, peer>>
           \/ /\ r.source = "socket"
              /\ Call(Frame("client_create", r.c), rest)
              /\ peer' = [peer EXCEPT ![r.c].connects = FALSE]
              /\ UNCHANGED display
           \/ /\ r.source = "client"
              /\ IF client[r.c].life = "live" THEN Call(Reading(r.c, r.mask), rest)
                 ELSE Goto(rest)
              /\ UNCHANGED <<display, peer>>
  /\ UNCHANGED <<client, scenario, terminator, budget>>

DispatchEnds ==
  /\ At("dispatch") /\ Top.ready = {}
  /\ Goto(Frame("run", NULL))
  /\ UNCHANGED <<display, client, otherVars>>

-----------------------------------------------------------------------------
(* Clients come, ask, and go.                                              *)

NewClient(to_server, up) ==
  [life |-> "live", error |-> FALSE, display_resource |-> TRUE,
   objects |-> [id \in Ids |-> IF id = Display THEN "display" ELSE "none"],
   listener |-> TRUE, pending |-> <<>>, out |-> <<>>, want_flush |-> FALSE, writable |-> FALSE,
   to_server |-> to_server, to_client |-> <<>>, up |-> up]

(* The listeners for new clients move to emit_list, from where they are    *)
(* called.  (due, called and gone in the frame only record what happens.)  *)
wl_client_create ==
  /\ At("client_create")
  /\ client' = [client EXCEPT ![Top.c] = NewClient(@.to_server, @.up)]
  /\ display' = [display EXCEPT !.client_list = Append(@, Top.c),
                                !.emit_list = display.listener_list \o @,
                                !.listener_list = <<>>]
  /\ Goto(Emitting(Top.c, ToSet(display.listener_list)))
  /\ UNCHANGED otherVars

wl_priv_signal_emit ==
  /\ At("emit")
  /\ IF display.emit_list = <<>> THEN Return /\ UNCHANGED display
     ELSE LET l == Head(display.emit_list)
          IN  /\ display' = [display EXCEPT !.emit_list = Tail(@),
                                            !.listener_list = <<l>> \o @]
              /\ Call(Handler(Top.c, 0), [Top EXCEPT !.called = Append(@, l)])
  /\ UNCHANGED <<client, otherVars>>

(* wl_client_connection_data: what is ready decides how it begins.         *)
wl_client_connection_data ==
  /\ At("connection_data")
  /\ LET c     == Top.c
         flush == IF "writable" \in Top.mask THEN wl_client_flush(client[c])
                  ELSE [cl |-> client[c], ret |-> "none"]
         read  == IF "readable" \in Top.mask
                  THEN [flush.cl EXCEPT !.pending = @ \o flush.cl.to_server, !.to_server = <<>>]
                  ELSE flush.cl
     IN  IF "hangup" \in Top.mask \/ flush.ret = "EPIPE"
         THEN Goto(Frame("client_destroy", c)) /\ UNCHANGED client
         ELSE /\ client' = [client EXCEPT ![c] =
                   [read EXCEPT !.writable = @ /\ flush.ret # "ok"]]
              /\ Goto(Handling(c, TRUE))
  /\ UNCHANGED <<display, otherVars>>

(* Only after the first request is it looked whether there is an error.    *)
MayHandle == /\ At("requests") /\ client[Top.c].pending # <<>>
             /\ Top.first \/ ~client[Top.c].error

Request  == Head(client[Top.c].pending)
Object   == client[Top.c].objects[Request.obj]
Handled  == Handling(Top.c, FALSE)
Consumed == [client EXCEPT ![Top.c].pending = Tail(@)]

(* An object there is not, or a request, a version or an argument that does*)
(* not exist.                                                              *)
RejectRequest ==
  /\ MayHandle /\ (Object = "none" \/ Request.op = "wrong")
  /\ client' = [Consumed EXCEPT ![Top.c] =
       wl_resource_post_error(@, IF Object = "none" THEN <<"object", Request.obj>>
                                 ELSE <<"wrong", 0>>)]
  /\ Goto(Handled)
  /\ UNCHANGED <<display, otherVars>>

display_get_registry ==
  /\ MayHandle /\ Object = "display" /\ Request.op = "get_registry"
  /\ client' = [Consumed EXCEPT ![Top.c].objects[Request.new] = "registry"]
  /\ display' = [display EXCEPT !.registries = <<[c |-> Top.c, id |-> Request.new]>> \o @]
  /\ Call(Telling(Top.c, Request.new, display.globals), Handled)
  /\ UNCHANGED otherVars

(* display_sync creates the callback, answers and destroys it.             *)
display_sync ==
  /\ MayHandle /\ Object = "display" /\ Request.op = "sync"
  /\ client' = [Consumed EXCEPT ![Top.c] =
       wl_resource_queue_event(
         wl_resource_post_event(@, Event("done", Request.new, 0)),
         Event("delete_id", Display, Request.new))]
  /\ Goto(Handled)
  /\ UNCHANGED <<display, otherVars>>

(* Faulty: a global that has been removed cannot be bound.                 *)
BindUnlessRemoved ==
  /\ MayHandle /\ Object = "registry" /\ Request.op = "bind"
  /\ LET found == {g \in ToSet(display.globals) : g.name = Request.name}
     IN  IF \E g \in found : ~g.removed
         THEN /\ client' = [Consumed EXCEPT ![Top.c].objects[Request.new] = "object"]
              /\ Call(Handler(Top.c, Request.new), Handled)
         ELSE /\ client' = [Consumed EXCEPT ![Top.c] =
                   wl_resource_post_error(@, <<"global", Request.name>>)]
              /\ Goto(Handled)
  /\ UNCHANGED <<display, otherVars>>

(* The handler of the global makes the resource.                           *)
registry_bind ==
  /\ MayHandle /\ Object = "registry" /\ Request.op = "bind"
  /\ LET found == {g \in ToSet(display.globals) : g.name = Request.name}
     IN  IF \E g \in found : wl_global_is_visible(Top.c, g)
         THEN /\ client' = [Consumed EXCEPT ![Top.c].objects[Request.new] = "object"]
              /\ Call(Handler(Top.c, Request.new), Handled)
         ELSE /\ client' = [Consumed EXCEPT ![Top.c] =
                   wl_resource_post_error(@, <<"global", Request.name>>)]
              /\ Goto(Handled)
  /\ UNCHANGED <<display, otherVars>>

(* A request of the compositor's own protocol, one that destroys its       *)
(* object.                                                                 *)
HandleDestroy ==
  /\ MayHandle /\ Object = "object" /\ Request.op = "destroy"
  /\ client' = Consumed
  /\ Call(FrameOf("resource_destroy", Top.c, Request.obj), Handled)
  /\ UNCHANGED <<display, otherVars>>

RequestsEnd ==
  /\ At("requests") /\ ~MayHandle
  /\ IF client[Top.c].error THEN Goto(Frame("client_destroy", Top.c)) ELSE Return
  /\ UNCHANGED <<display, client, otherVars>>

-----------------------------------------------------------------------------
(* Resources and clients are destroyed.                                    *)

wl_resource_destroy ==
  /\ At("resource_destroy")
  /\ Call(FrameOf("destroy_resource", Top.c, Top.id),
          FrameOf("resource_destroyed", Top.c, Top.id))
  /\ UNCHANGED <<display, client, otherVars>>

(* The end of wl_resource_destroy.                                         *)
DeleteId ==
  /\ At("resource_destroyed")
  /\ client' = [client EXCEPT ![Top.c] =
       [IF @.display_resource
        THEN wl_resource_queue_event(@, Event("delete_id", Display, Top.id)) ELSE @
        EXCEPT !.objects[Top.id] = "none"]]
  /\ Return
  /\ UNCHANGED <<display, otherVars>>

(* destroy_resource emits the signal, to which the compositor listens for  *)
(* its own objects, and calls the destroy function.                        *)
destroy_resource ==
  /\ At("destroy_resource")
  /\ IF client[Top.c].objects[Top.id] = "object"
     THEN Call(Handler(Top.c, Top.id), FrameOf("free_resource", Top.c, Top.id))
     ELSE Goto(FrameOf("free_resource", Top.c, Top.id))
  /\ UNCHANGED <<display, client, otherVars>>

(* unbind_resource is the destroy function of registries,                  *)
(* destroy_client_display_resource that of displays.                       *)
FreeResource ==
  /\ At("free_resource")
  /\ display' = [display EXCEPT !.registries = Unlinked(@, [c |-> Top.c, id |-> Top.id])]
  /\ client' = [client EXCEPT ![Top.c].display_resource = @ /\ Top.id # Display,
                              ![Top.c].objects[Top.id] = "freed"]
  /\ Return
  /\ UNCHANGED otherVars

wl_client_destroy ==
  /\ At("client_destroy")
  /\ client' = [client EXCEPT ![Top.c].life = "dying", ![Top.c].listener = FALSE]
  /\ IF client[Top.c].listener THEN Call(Handler(Top.c, 0), Frame("client_flush", Top.c))
     ELSE Goto(Frame("client_flush", Top.c))
  /\ UNCHANGED <<display, otherVars>>

(* Faulty: the events that are still buffered go with the client.          *)
LeaveUnflushed ==
  /\ At("client_flush")
  /\ Goto(FrameOf("client_resources", Top.c, Display))
  /\ UNCHANGED <<display, client, otherVars>>

FlushLast ==
  /\ At("client_flush")
  /\ client' = [client EXCEPT ![Top.c] = wl_client_flush(@).cl]
  /\ Goto(FrameOf("client_resources", Top.c, Display))
  /\ UNCHANGED <<display, otherVars>>

(* wl_map_for_each, in the order of the ids.                               *)
EachResource ==
  /\ At("client_resources") /\ Top.id \in Ids
  /\ IF client[Top.c].objects[Top.id] = "none" THEN Goto([Top EXCEPT !.id = @ + 1])
     ELSE Call(FrameOf("destroy_resource", Top.c, Top.id), [Top EXCEPT !.id = @ + 1])
  /\ UNCHANGED <<display, client, otherVars>>

FreeClient ==
  /\ At("client_resources") /\ Top.id \notin Ids
  /\ client' = [client EXCEPT ![Top.c].life = "freed"]
  /\ display' = [display EXCEPT !.client_list = Unlinked(@, Top.c),
                                !.detached = Unlinked(@, Top.c)]
  /\ Return
  /\ UNCHANGED otherVars

(* wl_display_destroy_clients, when the run is over: the list is moved, as *)
(* new clients might come.                                                 *)
wl_display_destroy_clients ==
  /\ At("destroy_clients")
  /\ display' = [display EXCEPT !.detached = @ \o display.client_list, !.client_list = <<>>]
  /\ Goto(Frame("destroy_detached", NULL))
  /\ UNCHANGED <<client, otherVars>>

(* Faulty: walks the list, and holds the next client while it destroys one.*)
DestroyHoldingNext ==
  /\ At("destroy_detached")
  /\ LET c == IF "next" \in DOMAIN Top THEN Top.next ELSE First(display.detached)
     IN  IF c = HEAD THEN Goto(Frame("end", NULL))
         ELSE Call(Frame("client_destroy", c),
                   [at |-> "destroy_detached", c |-> NULL, id |-> 0,
                    next |-> NextAfter(display.detached, c)])
  /\ UNCHANGED <<display, client, otherVars>>

DestroyDetached ==
  /\ At("destroy_detached")
  /\ IF display.detached = <<>> THEN Goto(Frame("end", NULL))
     ELSE Call(Frame("client_destroy", Head(display.detached)), Top)
  /\ UNCHANGED <<display, client, otherVars>>

-----------------------------------------------------------------------------
(* The compositor: a handler calls the library and returns.  It uses what  *)
(* it has not seen destroyed; it does not destroy the client it is called  *)
(* for or another that a caller of its own works on, nor, while the loop   *)
(* destroys a client it could not write to, the next one.                  *)

MayKill(c) == /\ client[c].life = "live"
              /\ \A f \in ToSet(stack) : f.c # c /\ (f.at = "flush_next" => f.next # c)

Whole(c, id) == /\ client[c].life \in {"live", "dying"}
                /\ client[c].objects[id] = "object"
                /\ \A f \in ToSet(stack) : f.at \notin {"free_resource", "resource_destroyed"}
                                             \/ <<f.c, f.id>> # <<c, id>>

MayCall(call) == At("user") /\ budget > 0 /\ call \in Played.calls /\ budget' = budget - 1

CallGlobal ==
  /\ \/ MayCall("create")  /\ \E i \in Played.interfaces : wl_global_create(i)
     \/ MayCall("remove")  /\ \E g \in ToSet(display.globals) : wl_global_remove(g)
     \/ MayCall("destroy") /\ \E g \in ToSet(display.globals) : wl_global_destroy(g)
  /\ UNCHANGED <<scenario, client, peer, terminator>>

CallPost ==
  /\ \/ /\ MayCall("event")
        /\ \E c \in Clients, id \in Ids :
             /\ Whole(c, id)
             /\ client' = [client EXCEPT ![c] = wl_resource_post_event(@, Event("event", id, 0))]
     \/ /\ MayCall("error")         \* or wl_client_post_no_memory
        /\ \E c \in Clients :
             /\ client[c].life \in {"live", "dying"}
             /\ client' = [client EXCEPT ![c] = wl_resource_post_error(@, <<"own", 0>>)]
     \/ /\ MayCall("foreign")       \* an event with another client's object: verify_objects
        /\ \E c \in Clients, id \in Ids :
             /\ Whole(c, id)
             /\ client' = [client EXCEPT ![c].error = TRUE]
  /\ UNCHANGED <<scenario, display, peer, stack, terminator>>

CallDestroy ==
  /\ \/ /\ MayCall("kill")
        /\ \E c \in Clients : MayKill(c) /\ Call(Frame("client_destroy", c), Top)
     \/ /\ MayCall("drop")
        /\ \E c \in Clients, id \in Ids :
             Whole(c, id) /\ Call(FrameOf("resource_destroy", c, id), Top)
  /\ UNCHANGED <<scenario, display, client, peer, terminator>>

(* A listener is added, or removed from the list that it is on.            *)
CallListen ==
  /\ \/ /\ MayCall("listen")
        /\ \E l \in Played.listeners \ ToSet(display.listener_list \o display.emit_list) :
             display' = wl_priv_signal_add(l)
        /\ UNCHANGED stack
     \/ /\ MayCall("unlisten")
        /\ \E l \in ToSet(display.listener_list \o display.emit_list) :
             /\ display' = [display EXCEPT !.listener_list = Unlinked(@, l),
                                           !.emit_list = Unlinked(@, l)]
             /\ stack' = [i \in DOMAIN stack |-> IF stack[i].at # "emit" THEN stack[i]
                            ELSE [stack[i] EXCEPT !.gone = @ \cup {l}]]
  /\ UNCHANGED <<scenario, client, peer, terminator>>

HandlerReturns ==
  /\ At("user")
  /\ Return
  /\ UNCHANGED <<display, client, otherVars>>

(* wl_display_terminate, in a thread of its own.                           *)
Terminate ==
  /\ terminator = "idle" /\ Played.terminates
  /\ terminator' = "cleared"
  /\ display' = [display EXCEPT !.run = FALSE]
  /\ UNCHANGED <<scenario, client, peer, stack, budget>>

(* Faulty: the loop is not woken.                                          *)
TerminateOnly ==
  /\ terminator = "cleared"
  /\ terminator' = "done"
  /\ UNCHANGED <<scenario, display, client, peer, stack, budget>>

TerminateWakes ==
  /\ terminator = "cleared"
  /\ terminator' = "done"
  /\ display' = [display EXCEPT !.efd = TRUE]
  /\ UNCHANGED <<scenario, client, peer, stack, budget>>

-----------------------------------------------------------------------------
(* The peers (external).  An honest one binds the globals it has been told *)
(* of and makes requests of the objects it has.                            *)

Seen(c, id) == Told(peer[c].got, id)

Send(c, request) ==
  /\ client' = [client EXCEPT ![c].to_server = Append(@, request)]
  /\ peer' = [peer EXCEPT ![c].program = Tail(@), ![c].last = request.new]

Ask(c, op, obj, new, name) == [op |-> op, obj |-> obj, new |-> new, name |-> name]

PeerSends(c) ==
  /\ client[c].up /\ client[c].life # "freed" /\ peer[c].program # <<>>
  /\ LET op   == Head(peer[c].program)
         last == peer[c].last
     IN  \/ op \in {"get_registry", "sync", "wrong"} /\ last < MaxId
              /\ Send(c, Ask(c, op, Display, last + 1, 0))
         \/ op = "bind" /\ last < MaxId
              /\ \E name \in Seen(c, 2) : Send(c, Ask(c, op, 2, last + 1, name))
         \/ op = "destroy" /\ Send(c, Ask(c, op, last, last, 0))
         \/ op = "hangup" /\ client' = [client EXCEPT ![c].up = FALSE]
                          /\ peer' = [peer EXCEPT ![c].program = <<>>]
  /\ UNCHANGED <<scenario, display, stack, terminator, budget>>

PeerReads(c) ==
  /\ client[c].up /\ client[c].to_client # <<>>
  /\ peer' = [peer EXCEPT ![c].got = @ \o client[c].to_client]
  /\ client' = [client EXCEPT ![c].to_client = <<>>]
  /\ UNCHANGED <<scenario, display, stack, terminator, budget>>

-----------------------------------------------------------------------------

Init ==
  /\ scenario \in DOMAIN Scenarios
  /\ display = [run |-> FALSE, efd |-> FALSE, id |-> Len(Played.globals) + 1,
                globals |-> [i \in DOMAIN Played.globals |-> Global(i, Played.globals[i])],
                registries |-> <<>>, client_list |-> <<>>, detached |-> <<>>,
                listener_list |-> SetToSeq(Played.listening), emit_list |-> <<>>]
  /\ client = [c \in Clients |-> [NewClient(<<>>, TRUE) EXCEPT !.life = "none"]]
  /\ peer = [c \in Clients |-> [connects |-> c \in DOMAIN Played.programs, got |-> <<>>,
                               last |-> Display,
                               program |-> IF c \in DOMAIN Played.programs
                                           THEN Played.programs[c] ELSE <<>>]]
  /\ stack = <<Frame("main", NULL)>>
  /\ terminator = "idle" /\ budget = Played.budget

ServerStep ==
  \/ wl_display_run \/ LoopTest \/ FlushClient \/ FlushNext \/ Poll \/ DispatchSource
  \/ DispatchEnds \/ wl_client_create \/ wl_priv_signal_emit \/ wl_client_connection_data
  \/ RejectRequest \/ display_get_registry \/ display_sync \/ registry_bind \/ HandleDestroy
  \/ RequestsEnd \/ Announce \/ AnnouncementEnds \/ TellGlobal
  \/ wl_resource_destroy \/ DeleteId \/ destroy_resource \/ FreeResource \/ wl_client_destroy
  \/ FlushLast \/ EachResource \/ FreeClient \/ wl_display_destroy_clients \/ DestroyDetached
  \/ CallGlobal \/ CallPost \/ CallDestroy \/ CallListen \/ HandlerReturns

Next ==
  \/ ServerStep \/ Terminate \/ TerminateWakes
  \/ \E c \in Clients : PeerSends(c) \/ PeerReads(c)

Spec == Init /\ [][Next]_vars

(* The loop's thread runs on unless epoll_wait has nothing to return, and  *)
(* handlers return; a call of wl_display_terminate ends; peers read what   *)
(* has been sent to them.                                                  *)
Waits == At("end") \/ (At("poll") /\ Ready = {})

Fairness == /\ []<>Waits \/ []<><<ServerStep>>_vars
            /\ WF_vars(TerminateWakes)
            /\ \A c \in Clients : WF_vars(PeerReads(c))

-----------------------------------------------------------------------------
(* Properties.                                                             *)

InRun == Len(stack) > 1 /\ stack[1].at = "destroy_clients"

TypeOK ==
  /\ scenario \in DOMAIN Scenarios
  /\ \A c \in Clients :
       /\ client[c].life \in {"none", "live", "dying", "freed"}
       /\ client[c].objects \in [Ids -> {"none", "display", "registry", "object", "freed"}]
       /\ Len(client[c].out) <= OutSpace /\ Len(client[c].to_client) <= Played.socket_space
  /\ display.id \in Nat /\ ToSet(display.client_list \o display.detached) \subseteq Clients
  /\ terminator \in {"idle", "cleared", "done"} /\ budget \in 0..Played.budget

InUse(c) == client[c].life \in {"live", "dying"}

(* The pointers the library keeps lead to what has not been freed: those   *)
(* of its lists, of the clients, and of the frames of functions that handlers*)
(* have destroyed clients, resources and globals under                     *)
(* (wayland-server.c:724, :881 and :1466).                                 *)
NothingUsedAfterFree ==
  /\ TypeOK
  /\ \A r \in ToSet(display.registries) :
       InUse(r.c) /\ client[r.c].objects[r.id] = "registry"
  /\ \A c \in ToSet(display.client_list \o display.detached) : InUse(c)
  /\ \A c \in Clients : InUse(c) /\ client[c].display_resource =>
       client[c].objects[Display] = "display"
  /\ \A i \in DOMAIN stack :
       /\ stack[i].c \in Clients => InUse(stack[i].c) \/ stack[i].at = "client_create"
       /\ "next" \in DOMAIN stack[i] => stack[i].next = HEAD \/ InUse(stack[i].next)
       /\ stack[i].at = "announce" => ToSet(stack[i].rest) \subseteq ToSet(display.registries)
       /\ stack[i].at = "tell" => ToSet(stack[i].rest) \subseteq ToSet(display.globals)
       /\ stack[i].at \in {"destroy_resource", "free_resource"} =>
            /\ client[stack[i].c].objects[stack[i].id] \notin {"none", "freed"}
            /\ \A j \in DOMAIN stack \ {i} :
                 \/ stack[j].at \notin {"destroy_resource", "free_resource"}
                 \/ <<stack[j].c, stack[j].id>> # <<stack[i].c, stack[i].id>>

Said(c) == peer[c].got \o client[c].to_client \o client[c].out

(* "Removing or adding a listener from within wl_priv_signal_emit() is     *)
(* safe": a new client is told once to everyone who was listening when it  *)
(* came and has not been removed before its turn, and to nobody else       *)
(* (wayland-server.c:2254).                                                *)
ListenersToldOnce ==
  \A i \in DOMAIN stack : stack[i].at = "emit" =>
    LET f == stack[i]
    IN  /\ IsInjective(f.called) /\ ToSet(f.called) \subseteq f.due
        /\ f.due \ (f.gone \cup ToSet(f.called)) = ToSet(display.emit_list)

(* A registry's events, those still on their way included, amount to the   *)
(* globals that are there and visible to the client, whatever handlers     *)
(* create, remove and destroy in between (wayland-server.c:984 and :1230). *)
(* While the library tells the registries it has told some of them only.   *)
BeingTold == \E f \in ToSet(stack) : f.at \in {"announce", "tell"}

Offered(c) ==
  {g.name : g \in {h \in ToSet(display.globals) : ~h.removed /\ wl_global_is_visible(c, h)}}

RegistriesAgree ==
  ~BeingTold => \A r \in ToSet(display.registries) : ~client[r.c].error =>
    Told(Said(r.c), r.id) = Offered(r.c)

Errors(c) == {i \in DOMAIN Said(c) : Said(c)[i].op = "error"}

(* The error a client is destroyed for is the last thing it is told, and it*)
(* is told, if its socket has room: wl_client_destroy writes what is       *)
(* buffered before it closes (wayland-server.c:292 and :881).              *)
ErrorIsLastWord ==
  \A c \in Clients : Errors(c) # {} =>
    /\ Errors(c) = {Len(Said(c))}
    /\ client[c].life = "freed" /\ client[c].up /\ Len(Said(c)) <= Played.socket_space =>
         client[c].out = <<>>

(* wl_global_remove: "allowing clients that have not yet received the      *)
(* global remove event to continue to bind to it".  A peer that keeps to   *)
(* the protocol is sent an error only for a global the compositor has      *)
(* destroyed, an object it has destroyed, or an error of its own           *)
(* (wayland-server.c:912).                                                 *)
HonestClientsSurvive ==
  \A c \in Clients : \A i \in Errors(c) :
    LET why == Said(c)[i].arg
    IN  \/ why[1] = "global" /\ why[2] \notin Names(display.globals)
        \/ why[1] = "object" /\ "drop" \in Played.calls
        \/ why[1] = "own"
        \/ why[1] = "wrong" /\ ~Played.honest

(* wl_display_terminate, called by any thread while wl_display_run runs,   *)
(* makes it return, though the loop may be about to wait and no client has *)
(* anything to say (wayland-server.c:1414).                                *)
TerminatedRunReturns == (InRun /\ ~display.run) ~> ~InRun

(* A client that goes on reading is sent everything that has been posted to*)
(* it when the loop begins to flush, although its socket was full and      *)
(* nothing else happens that would wake the loop (wayland-server.c:1438).  *)
(* What a destroy listener posts while the loop flushes may stay where it  *)
(* is.                                                                     *)
StalledClientsResume ==
  \A c \in Clients :
    (At("run") /\ display.run /\ client[c].life = "live" /\ client[c].out # <<>>
       /\ client[c].want_flush)
      ~> (~InRun \/ client[c].life # "live" \/ client[c].out = <<>> \/ ~client[c].up)
=============================================================================

------------------------------- MODULE ObjectIds -------------------------------
(***************************************************************************)
(* The life of protocol objects at the two ends of one connection: proxies *)
(* and their map in the client (untitled/src/wayland-client.c), resources  *)
(* and theirs in the server (untitled/src/wayland-server.c), and requests  *)
(* and events, in order, in between.  Ids are reused, and each end learns  *)
(* of what the other has created or destroyed only when it reads of it.    *)
(*                                                                         *)
(* An object is one incarnation: a proxy at one end and a resource at the  *)
(* other.  Messages name objects by id only; the field `obj` records which *)
(* object the sender meant, for the properties alone.  `arg` is the object *)
(* a message creates or deletes and `new` that object's id.                *)
(*                                                                         *)
(* Display stands for the display and for every other object that the      *)
(* client keeps for good.                                                  *)
(*                                                                         *)
(* Kinds of objects:                                                       *)
(*   "plain"    created by a request, destroyed by the client's request;   *)
(*   "callback" created by a request, destroyed by the server; the client  *)
(*              may drop its proxy at any time without telling;            *)
(*   "offered"  created by an event of a plain object or of the display,   *)
(*              destroyed by the client's request.                         *)
(***************************************************************************)
EXTENDS WlMap, FiniteSets

CONSTANTS MaxCreated,     \* bound: objects created in all
          MaxInFlight,    \* bound: no use or event is sent beyond so many messages
          Display,
          ServerDestroys, \* kinds the server destroys of its own accord
          OfferFrom       \* what may send an event that creates an object:
                          \* "display", "plain", or both

Objects == 1..MaxCreated
DisplayId == 1

ASSUME ObjectIdsAssumption ==
  /\ MaxCreated \in Nat
  /\ NULL \notin Objects /\ Display \notin Objects /\ NULL # Display

(* The server destroys what it has offered when the client asks for it.    *)
ASSUME OfferedAssumption == "offered" \notin ServerDestroys

VARIABLES cmap, smap,     \* the client's and the server's wl_map
          created,        \* objects 1..created have been created
          kind, id,       \* kind[o], id[o]
          proxy,          \* proxy[o]: "none", "live" or "destroyed"
          id_deleted,     \* WL_PROXY_FLAG_ID_DELETED
          refcount,       \* refcount[o]: of the proxy
          resource,       \* resource[o]: "none", "live" or "destroyed"
          c2s, s2c,       \* requests and events under way
          display_queue,  \* events of the display read and not dispatched
          queue,          \* the other events read and not dispatched
          failed          \* the ends that have given the connection up

clientVars == <<cmap, proxy, id_deleted, refcount, display_queue, queue>>
serverVars == <<smap, resource>>
vars == <<cmap, smap, created, kind, id, proxy, id_deleted, refcount, resource,
          c2s, s2c, display_queue, queue, failed>>

ZOMBIE == 1

Init ==
  /\ cmap = wl_map_insert_new(wl_map_insert_at(wl_map_init("client"), 0, 0, NULL),
                              0, Display).map
  /\ smap = wl_map_insert_at(wl_map_insert_at(wl_map_init("server"), 0, 0, NULL),
                             0, DisplayId, Display)
  /\ created = 0
  /\ kind = [o \in Objects |-> "plain"] /\ id = [o \in Objects |-> 0]
  /\ proxy = [o \in Objects |-> "none"]
  /\ id_deleted = [o \in Objects |-> FALSE]
  /\ refcount = [o \in Objects |-> 0]
  /\ resource = [o \in Objects |-> "none"]
  /\ c2s = <<>> /\ s2c = <<>> /\ display_queue = <<>> /\ queue = <<>>
  /\ failed = {}

(* A message for the object with id to; op, new, obj and arg as above.     *)
Message(op, obj, to, new, arg) ==
  [op |-> op, obj |-> obj, to |-> to, new |-> new, arg |-> arg]

Send(channel, message) == Append(channel, message)

-----------------------------------------------------------------------------
(* The client                                                              *)

(* wl_proxy_marshal_array_flags with a constructor: an id and a proxy are  *)
(* made and the request is sent under the display's mutex.                 *)
CreateObject(k) ==
  LET o == created + 1
      r == wl_map_insert_new(cmap, 0, o)
  IN  /\ failed = {} /\ created < MaxCreated
      /\ r.id # 0
      /\ cmap' = r.map
      /\ created' = o
      /\ kind' = [kind EXCEPT ![o] = k] /\ id' = [id EXCEPT ![o] = r.id]
      /\ proxy' = [proxy EXCEPT ![o] = "live"]
      /\ refcount' = [refcount EXCEPT ![o] = 1]
      /\ c2s' = Send(c2s, Message("create", Display, DisplayId, r.id, o))
      /\ UNCHANGED <<id_deleted, serverVars, s2c, display_queue, queue, failed>>

(* A request on an object that stays.                                      *)
UseObject(o) ==
  /\ failed = {} /\ Len(c2s) < MaxInFlight
  /\ proxy[o] = "live" /\ kind[o] # "callback"
  /\ c2s' = Send(c2s, Message("use", o, id[o], 0, NULL))
  /\ UNCHANGED <<clientVars, created, kind, id, serverVars, s2c, failed>>

(* Faulty: the id is free at once.                                         *)
MapIdFreedAtOnce(o) == wl_map_remove(cmap, id[o])

(* proxy_destroy: the id is free at once if the server has acknowledged    *)
(* it, becomes a zombie until it does if the client chose it, and is only  *)
(* cleared if the server chose it.                                         *)
MapWithoutProxy(o) ==
  IF id_deleted[o] THEN wl_map_remove(cmap, id[o])
  ELSE wl_map_insert_at(cmap, IF id[o] < ServerStart THEN ZOMBIE ELSE 0, id[o], NULL)

(* The destructor request, sent with WL_MARSHAL_FLAG_DESTROY so that proxy *)
(* and request go together; a callback has none and is just destroyed.     *)
DestroyProxy(o) ==
  /\ failed = {}
  /\ proxy[o] = "live"
  /\ IF kind[o] = "callback" THEN UNCHANGED c2s
     ELSE c2s' = Send(c2s, Message("destroy", o, id[o], 0, NULL))
  /\ cmap' = MapWithoutProxy(o)
  /\ proxy' = [proxy EXCEPT ![o] = "destroyed"]
  /\ refcount' = [refcount EXCEPT ![o] = @ - 1]
  /\ UNCHANGED <<id_deleted, display_queue, queue, created, kind, id, serverVars, s2c, failed>>

wl_object_is_zombie(i) ==
  i < ServerStart /\ wl_map_lookup_flags(cmap, i) = ZOMBIE

(* The proxy an event is for; NULL when queue_event eats the event.        *)
Receiver(m) ==
  IF wl_object_is_zombie(m.to) THEN NULL ELSE wl_map_lookup(cmap, m.to)

(* Events on an object that is gone or a zombie are discarded.             *)
DiscardEvent ==
  /\ failed = {} /\ s2c # <<>>
  /\ Receiver(Head(s2c)) = NULL
  /\ s2c' = Tail(s2c)
  /\ UNCHANGED <<clientVars, created, kind, id, serverVars, c2s, failed>>

(* queue_event: an event is decoded, its objects are looked up, a proxy is *)
(* made for an object it creates, and it waits in its proxy's queue, which *)
(* keeps the proxies it mentions allocated.                                *)
QueueEvent ==
  LET m  == Head(s2c)
      to == Receiver(m)
      closure == [op |-> m.op, proxy |-> to, new |-> m.new, arg |-> m.arg]
      mention == IF to = Display THEN {} ELSE {to}
  IN  /\ failed = {} /\ s2c # <<>>
      /\ to # NULL
      /\ m.op = "new" => CanReserve(cmap, m.new)
      /\ s2c' = Tail(s2c)
      /\ IF m.op = "delete_id"
         THEN display_queue' = Append(display_queue, closure) /\ UNCHANGED queue
         ELSE queue' = Append(queue, closure) /\ UNCHANGED display_queue
      /\ IF m.op = "new"
         THEN /\ cmap' = wl_map_insert_at(wl_map_reserve_new(cmap, m.new), 0, m.new, m.arg)
              /\ proxy' = [proxy EXCEPT ![m.arg] = "live"]
              /\ refcount' = [o \in Objects |->
                   IF o = m.arg THEN 2
                   ELSE IF o \in mention THEN refcount[o] + 1 ELSE refcount[o]]
         ELSE /\ UNCHANGED <<cmap, proxy>>
              /\ refcount' = [o \in Objects |->
                   IF o \in mention THEN refcount[o] + 1 ELSE refcount[o]]
      /\ UNCHANGED <<id_deleted, created, kind, id, serverVars, c2s, failed>>

(* "not a valid new object id": display_fatal_error.                       *)
RejectEvent ==
  LET m == Head(s2c)
  IN  /\ failed = {} /\ s2c # <<>>
      /\ Receiver(m) # NULL
      /\ m.op = "new" /\ ~CanReserve(cmap, m.new)
      /\ failed' = {"client"}
      /\ UNCHANGED <<clientVars, created, kind, id, serverVars, c2s, s2c>>

(* Faulty: forgets the proxy in the arguments.                             *)
MentionsReceiver(closure) == {closure.proxy} \ {Display}

(* The proxies a closure keeps allocated.                                  *)
Mentions(closure) ==
  ({closure.proxy} \ {Display}) \cup (IF closure.op = "new" THEN {closure.arg} ELSE {})

Unref(closure) ==
  [o \in Objects |-> IF o \in Mentions(closure) THEN refcount[o] - 1 ELSE refcount[o]]

(* dispatch_event on the display's queue: display_handle_delete_id frees   *)
(* the id of a zombie and marks a live proxy.  Which queue goes first is   *)
(* left open: other threads may be reading while one dispatches.           *)
DispatchDisplayEvent ==
  LET c == Head(display_queue)
      i == c.new
  IN  /\ failed = {} /\ display_queue # <<>>
      /\ display_queue' = Tail(display_queue)
      /\ IF wl_object_is_zombie(i)
         THEN cmap' = wl_map_remove(cmap, i) /\ UNCHANGED id_deleted
         ELSE /\ UNCHANGED cmap
              /\ id_deleted' = [o \in Objects |->
                   id_deleted[o] \/ o = wl_map_lookup(cmap, i)]
      /\ UNCHANGED <<refcount, proxy, queue, created, kind, id, serverVars, c2s, s2c, failed>>

(* dispatch_event for other objects: the handler runs unless the proxy has *)
(* been destroyed since the event was queued.                              *)
DispatchEvent ==
  /\ failed = {} /\ queue # <<>>
  /\ queue' = Tail(queue)
  /\ refcount' = Unref(Head(queue))
  /\ UNCHANGED <<cmap, proxy, id_deleted, display_queue, created, kind, id, serverVars,
                 c2s, s2c, failed>>

-----------------------------------------------------------------------------
(* The server                                                              *)

(* destroy_resource: delete_id goes out for an id the client chose,     *)
(* whose entry is cleared; one the server chose is free at once.           *)
MapWithoutResource(o) ==
  IF id[o] < ServerStart THEN wl_map_insert_at(smap, 0, id[o], NULL)
  ELSE wl_map_remove(smap, id[o])

(* Faulty: does not tell the client.                                       *)
DestroySilently(events, o) == events

EventsAfterDestroy(events, o) ==
  IF id[o] < ServerStart
  THEN Send(events, Message("delete_id", Display, DisplayId, id[o], o))
  ELSE events

(* wl_client_connection_data for one request, and the handler it calls.    *)
(* wl_resource_create, in the handler of a constructor, fills the entry    *)
(* that decoding the request has reserved.                                 *)
HandleRequest ==
  LET m  == Head(c2s)
      to == wl_map_lookup(smap, m.to)
  IN  /\ failed = {} /\ c2s # <<>>
      /\ c2s' = Tail(c2s)
      /\ to # NULL
      /\ \/ /\ m.op = "create" /\ CanReserve(smap, m.new)
            /\ smap' = wl_map_insert_at(wl_map_reserve_new(smap, m.new), 0, m.new, m.arg)
            /\ resource' = [resource EXCEPT ![m.arg] = "live"]
            /\ UNCHANGED s2c
         \/ /\ m.op = "destroy"
            /\ smap' = MapWithoutResource(to)
            /\ resource' = [resource EXCEPT ![to] = "destroyed"]
            /\ s2c' = EventsAfterDestroy(s2c, to)
         \/ m.op = "use" /\ UNCHANGED <<serverVars, s2c>>
      /\ UNCHANGED <<clientVars, created, kind, id, failed>>

(* "invalid object", "invalid arguments": the client is disconnected.      *)
RejectRequest ==
  LET m == Head(c2s)
  IN  /\ failed = {} /\ c2s # <<>>
      /\ \/ wl_map_lookup(smap, m.to) = NULL
         \/ m.op = "create" /\ ~CanReserve(smap, m.new)
      /\ failed' = {"server"}
      /\ UNCHANGED <<clientVars, created, kind, id, serverVars, c2s, s2c>>

SendEvent(o) ==
  /\ failed = {} /\ Len(s2c) + Len(queue) + Len(display_queue) < MaxInFlight
  /\ resource[o] = "live"
  /\ s2c' = Send(s2c, Message("event", o, id[o], 0, NULL))
  /\ UNCHANGED <<clientVars, created, kind, id, serverVars, c2s, failed>>

(* wl_resource_destroy of the server's own accord, as of a wl_callback     *)
(* when it is done.                                                        *)
DestroyResource(o) ==
  /\ failed = {}
  /\ resource[o] = "live" /\ kind[o] \in ServerDestroys
  /\ smap' = MapWithoutResource(o)
  /\ resource' = [resource EXCEPT ![o] = "destroyed"]
  /\ s2c' = EventsAfterDestroy(s2c, o)
  /\ UNCHANGED <<clientVars, created, kind, id, c2s, failed>>

(* wl_resource_create with id 0, and the event that tells the client.      *)
OfferObject(from) ==
  LET o == created + 1
      r == wl_map_insert_new(smap, 0, NULL)
  IN  /\ failed = {} /\ created < MaxCreated
      /\ \/ from = Display /\ "display" \in OfferFrom
         \/ /\ from \in 1..created /\ "plain" \in OfferFrom
            /\ resource[from] = "live" /\ kind[from] = "plain"
      /\ r.id # 0
      /\ smap' = wl_map_insert_at(r.map, 0, r.id, o)
      /\ created' = o
      /\ kind' = [kind EXCEPT ![o] = "offered"] /\ id' = [id EXCEPT ![o] = r.id]
      /\ resource' = [resource EXCEPT ![o] = "live"]
      /\ s2c' = Send(s2c, Message("new", from, IF from = Display THEN DisplayId ELSE id[from],
                                r.id, o))
      /\ UNCHANGED <<clientVars, c2s, failed>>

-----------------------------------------------------------------------------

Next ==
  \/ \E k \in {"plain", "callback"} : CreateObject(k)
  \/ \E o \in 1..created : UseObject(o) \/ DestroyProxy(o) \/ SendEvent(o) \/ DestroyResource(o)
  \/ DiscardEvent \/ QueueEvent \/ RejectEvent
  \/ DispatchDisplayEvent \/ DispatchEvent
  \/ HandleRequest \/ RejectRequest
  \/ \E from \in {Display} \cup 1..created : OfferObject(from)

Spec == Init /\ [][Next]_vars

-----------------------------------------------------------------------------

TypeOK ==
  /\ created \in 0..MaxCreated
  /\ kind \in [Objects -> {"plain", "callback", "offered"}]
  /\ id \in [Objects -> Nat]
  /\ proxy \in [Objects -> {"none", "live", "destroyed"}]
  /\ resource \in [Objects -> {"none", "live", "destroyed"}]
  /\ id_deleted \in [Objects -> BOOLEAN]
  /\ refcount \in [Objects -> Nat]
  /\ failed \subseteq {"client", "server"}

(* A message reaches the object it was sent to or nobody, although objects *)
(* are destroyed and their ids given to others while it is under way.      *)
MessagesReachTheirObject ==
  /\ s2c # <<>> => Receiver(Head(s2c)) \in {NULL, Head(s2c).obj}
  /\ c2s # <<>> => wl_map_lookup(smap, Head(c2s).to) \in {NULL, Head(c2s).obj}

(* A delete_id acts on the object whose destruction it reports, never on   *)
(* one that has come to have its id since.                                 *)
DeleteIdMeetsItsObject ==
  display_queue # <<>> =>
    LET c == Head(display_queue)
    IN  \/ wl_object_is_zombie(c.new) /\ proxy[c.arg] = "destroyed"
        \/ ~wl_object_is_zombie(c.new) /\ wl_map_lookup(cmap, c.new) = c.arg

(* Objects offered to the client that it has never heard of: the event was *)
(* discarded with the proxy it came through.                               *)
EatenOffers ==
  {o \in 1..created : /\ kind[o] = "offered" /\ proxy[o] = "none"
                      /\ \A i \in DOMAIN s2c : s2c[i].arg # o}

(* No sequence of legal calls at the two ends makes either of them give    *)
(* the connection up.  The client does only when it has eaten an offer of  *)
(* an earlier id, the server only when it has destroyed, of its own        *)
(* accord, an object that the client still had requests under way for.     *)
OnlyMisuseIsFatal ==
  /\ "client" \in failed =>
       \E o \in EatenOffers : id[o] < Head(s2c).new
  /\ "server" \in failed =>
       LET m == Head(c2s)
       IN  m.obj # Display /\ resource[m.obj] = "destroyed" /\ kind[m.obj] \in ServerDestroys

(* queue_event: "If our proxy is gone or a zombie, just eat the event":    *)
(* what is dropped never makes the client refuse what comes later.         *)
EatenEventsAreHarmless == "client" \notin failed

(* The free lists threaded through the entries of the two maps end, and    *)
(* lead through entries without an object only; the live objects of each   *)
(* end are found under their ids, so no two of them have the same.         *)
MapsSound ==
  /\ TypeOK /\ FreeListSound(cmap) /\ FreeListSound(smap)
  /\ \A o \in Objects :
       /\ proxy[o] = "live" => wl_map_lookup(cmap, id[o]) = o
       /\ resource[o] = "live" => wl_map_lookup(smap, id[o]) = o

(* A closure waiting in a queue keeps the proxies it mentions allocated,   *)
(* and an application that has not destroyed a proxy still has it; a proxy *)
(* neither has is freed.                                                   *)
AllocatedWhileMentioned ==
  \A o \in Objects :
    refcount[o] = (IF proxy[o] = "live" THEN 1 ELSE 0)
                  + Cardinality({i \in DOMAIN queue : queue[i].proxy = o})
                  + Cardinality({i \in DOMAIN queue : queue[i].op = "new" /\ queue[i].arg = o})

(* wl_display.delete_id: ids do not run out.  When every message has been  *)
(* dealt with, an id is withheld from reuse only for an object the server  *)
(* has not destroyed yet.                                                  *)
IdsComeBack ==
  failed = {} /\ c2s = <<>> /\ s2c = <<>> /\ display_queue = <<>> =>
    \A o \in 1..created : wl_object_is_zombie(id[o]) =>
      \E p \in 1..created : id[p] = id[o] /\ proxy[p] = "destroyed" /\ resource[p] = "live"
=============================================================================

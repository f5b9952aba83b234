---------------------------- MODULE ObjectIds_proofs ----------------------------
(***************************************************************************)
(* Proofs about ObjectIds and the maps of WlMap, for any number of objects *)
(* and of messages under way.                                              *)
(*                                                                         *)
(* An id the client gave out is taken until the client has read of its     *)
(* object's destruction (Pending): until then the client's map holds the   *)
(* proxy or a zombie there, so that no other object gets the id, and every *)
(* event for the id that is still under way was sent for that object.  An  *)
(* id the server gave out is taken until the client's request to destroy   *)
(* the object has been handled, which the client sends after giving up the *)
(* proxy.  Which messages are under way, and in which order, is what the   *)
(* invariant has to say about the two directions between the ends.         *)
(*                                                                         *)
(* That nobody refuses an id takes one thing more: the ids an end has that *)
(* the other lacks are those of objects it has yet to hear of, and it      *)
(* hears of them in the order of their ids (ClientAhead, ServerAhead).     *)
(***************************************************************************)
EXTENDS ObjectIds, SequenceTheorems, FiniteSetTheorems, TLAPS

(* Maps                                                                    *)

Entries == [data : Objects \cup {NULL, Display}, flags : {0, ZOMBIE}, next : Nat]
Maps    == [side : Sides, entries : [Sides -> Seq(Entries)], free_list : Nat]

Has(m, i) == IndexOf(i) < Len(m.entries[SideOf(i)])
At(m, i)  == EntryAt(m.entries[SideOf(i)], IndexOf(i))

(* The free list of m, as a sequence of its links: 1 more than an index.   *)
IsFreeList(m, list) ==
  LET own == m.entries[m.side]
  IN  /\ \A k \in 1..Len(list) :
           /\ list[k] \in 1..Len(own)
           /\ own[list[k]] = [data |-> NULL, flags |-> 0,
                              next |-> IF k = Len(list) THEN 0 ELSE list[k + 1]]
      /\ \A j, k \in 1..Len(list) : list[j] = list[k] => j = k
      /\ m.free_list = IF list = << >> THEN 0 ELSE list[1]

(* ... in which the client's map has neither the display nor id 0.         *)
FreeListIn(m, low) ==
  \E list \in Seq(Nat) : IsFreeList(m, list) /\ \A k \in 1..Len(list) : list[k] >= low

-----------------------------------------------------------------------------
(* Objects                                                                 *)

Chosen(o)  == o \in 1..created /\ kind[o] # "offered"
Offered(o) == o \in 1..created /\ kind[o] = "offered"

Reports(q, k, o) == k \in DOMAIN q /\ q[k].op = "delete_id" /\ q[k].arg = o

(* The client chose the id and has not read that the server is done.       *)
Pending(o) ==
  /\ Chosen(o)
  /\ \/ resource[o] # "destroyed"
     \/ \E k \in DOMAIN s2c : Reports(s2c, k, o)
     \/ \E k \in DOMAIN display_queue : Reports(display_queue, k, o)

ObjectsSound ==
  /\ \A o \in Objects : o > created =>
       proxy[o] = "none" /\ resource[o] = "none" /\ ~id_deleted[o]
  /\ \A o \in 1..created : resource[o] = "destroyed" /\ proxy[o] # "destroyed" =>
       kind[o] \in ServerDestroys
  /\ \A o \in 1..created : Chosen(o) =>
       /\ id[o] \in 2..MaxObjects /\ proxy[o] # "none"
       /\ id_deleted[o] => ~Pending(o)
       /\ proxy[o] = "live" /\ ~Pending(o) => id_deleted[o]
  /\ \A o \in 1..created : Offered(o) =>
       /\ id[o] \in ServerStart..(ServerStart + MaxObjects)
       /\ resource[o] # "none" /\ ~id_deleted[o]

PendingUnique ==
  \A o, p \in 1..created : Pending(o) /\ Pending(p) /\ id[o] = id[p] => o = p

(* Who has an id is found under it.                                        *)
Found ==
  \A o \in 1..created :
    /\ proxy[o] = "live" => Has(cmap, id[o]) /\ At(cmap, id[o]) = Entry(o, 0)
    /\ Pending(o) /\ proxy[o] = "destroyed" =>
         Has(cmap, id[o]) /\ At(cmap, id[o]) = Entry(NULL, ZOMBIE)
    /\ resource[o] = "live" => Has(smap, id[o]) /\ At(smap, id[o]) = Entry(o, 0)

(* What is found under an id has it.                                       *)
ClientEntry(i, e) ==
  /\ i = 0 => e = Entry(NULL, 0)
  /\ i = DisplayId => e = Entry(Display, 0)
  /\ i > 1 /\ e.data # NULL =>
       e.data \in 1..created /\ e.flags = 0 /\ proxy[e.data] = "live" /\ id[e.data] = i
  /\ e.flags = ZOMBIE =>
       e.data = NULL /\ \E o \in 1..created : Pending(o) /\ proxy[o] = "destroyed" /\ id[o] = i
  /\ i >= ServerStart /\ e.data = NULL => e = Entry(NULL, 0)

ServerEntry(i, e) ==
  /\ i = 0 => e = Entry(NULL, 0)
  /\ i = DisplayId => e = Entry(Display, 0)
  /\ i > 1 /\ e.data # NULL =>
       e.data \in 1..created /\ resource[e.data] = "live" /\ id[e.data] = i
  /\ i < ServerStart /\ e.data = NULL => e = Entry(NULL, 0)

EntriesSound ==
  /\ cmap.side = "client" /\ smap.side = "server"
  /\ Has(cmap, DisplayId) /\ Has(smap, DisplayId)
  /\ \A i \in Nat : Has(cmap, i) => ClientEntry(i, At(cmap, i))
  /\ \A i \in Nat : Has(smap, i) => ServerEntry(i, At(smap, i))
  /\ FreeListIn(cmap, 3) /\ FreeListIn(smap, 1)

-----------------------------------------------------------------------------
(* Messages                                                                *)

Uses == {"use", "destroy"}

RequestSound(m) ==
  \/ /\ m.op = "create" /\ m.obj = Display /\ m.to = DisplayId
     /\ Chosen(m.arg) /\ m.new = id[m.arg] /\ resource[m.arg] = "none"
  \/ /\ m.op \in Uses
     /\ m.obj \in 1..created /\ m.to = id[m.obj] /\ proxy[m.obj] # "none"
     /\ m.op = "destroy" => proxy[m.obj] = "destroyed"
     /\ resource[m.obj] = "destroyed" => kind[m.obj] \in ServerDestroys
     /\ \A p \in 1..created : resource[p] = "live" /\ id[p] = m.to => p = m.obj

(* Request n comes after request m.                                        *)
InOrder(m, n) ==
  /\ m.op = "create" /\ n.op = "create" => m.arg < n.arg
  /\ m.op = "create" /\ n.op \in Uses /\ n.to = m.new => n.obj = m.arg
  /\ m.op = "destroy" /\ n.op \in Uses => n.obj # m.obj
  /\ m.op \in Uses /\ n.op = "create" => n.arg # m.obj

RequestsSound ==
  /\ \A k \in DOMAIN c2s : RequestSound(c2s[k])
  /\ \A j, k \in DOMAIN c2s : j < k => InOrder(c2s[j], c2s[k])
  /\ \A o \in 1..created : Chosen(o) /\ resource[o] = "none" =>
       \E k \in DOMAIN c2s : c2s[k].op = "create" /\ c2s[k].arg = o

SentFor(m) ==
  /\ m.obj \in 1..created /\ m.to = id[m.obj] /\ resource[m.obj] # "none"
  /\ \A p \in 1..created : Offered(p) /\ proxy[p] = "live" /\ id[p] = m.to => p = m.obj

EventSound(m) ==
  \/ m.op = "event" /\ SentFor(m) /\ m.arg = NULL
  \/ /\ m.op = "new"
     /\ \/ m.obj = Display /\ m.to = DisplayId
        \/ SentFor(m) /\ Chosen(m.obj)
     /\ Offered(m.arg) /\ m.new = id[m.arg] /\ proxy[m.arg] = "none"
  \/ /\ m.op = "delete_id" /\ m.obj = Display /\ m.to = DisplayId
     /\ Chosen(m.arg) /\ m.new = id[m.arg] /\ resource[m.arg] = "destroyed"

(* Event n comes after event m.                                            *)
EventsInOrder(m, n) ==
  /\ m.op = "new" /\ n.op = "new" => m.arg < n.arg
  /\ m.op = "new" /\ n.op = "event" /\ n.to = m.new => n.obj = m.arg
  /\ m.op = "delete_id" /\ n.op = "delete_id" => m.arg # n.arg

EventsSound ==
  /\ \A k \in DOMAIN s2c : EventSound(s2c[k])
  /\ \A j, k \in DOMAIN s2c : j < k => EventsInOrder(s2c[j], s2c[k])
  /\ \A k \in DOMAIN s2c : s2c[k].op # "delete_id" /\ Chosen(s2c[k].obj) =>
         \/ resource[s2c[k].obj] = "live"
         \/ \E j \in DOMAIN s2c : j > k /\ Reports(s2c, j, s2c[k].obj)

DisplayEventsSound ==
  /\ \A k \in DOMAIN display_queue : LET c == display_queue[k] IN
       /\ c.op = "delete_id" /\ c.proxy = Display
       /\ Chosen(c.arg) /\ c.new = id[c.arg] /\ resource[c.arg] = "destroyed"
       /\ \A j \in DOMAIN s2c : ~Reports(s2c, j, c.arg)
  /\ \A j, k \in DOMAIN display_queue : j # k => display_queue[j].arg # display_queue[k].arg

(* The types this needs; that the counts are not negative is the queues'.  *)
Messages == [op : {"create", "use", "destroy", "new", "event", "delete_id"},
             obj : Objects \cup {Display}, to : Nat, new : Nat, arg : Objects \cup {NULL}]
Closures == [op : {"new", "event", "delete_id"}, proxy : Objects \cup {Display},
             new : Nat, arg : Objects \cup {NULL}]

Types ==
  /\ cmap \in Maps /\ smap \in Maps
  /\ created \in 0..MaxCreated
  /\ kind \in [Objects -> {"plain", "callback", "offered"}]
  /\ id \in [Objects -> Nat]
  /\ proxy \in [Objects -> {"none", "live", "destroyed"}]
  /\ resource \in [Objects -> {"none", "live", "destroyed"}]
  /\ id_deleted \in [Objects -> BOOLEAN]
  /\ refcount \in [Objects -> Int]
  /\ c2s \in Seq(Messages) /\ s2c \in Seq(Messages)
  /\ display_queue \in Seq(Closures) /\ queue \in Seq(Closures)
  /\ failed \subseteq {"client", "server"}

IdsInv ==
  Types /\ ObjectsSound /\ PendingUnique /\ Found /\ EntriesSound /\ RequestsSound /\ EventsSound
  /\ DisplayEventsSound

-----------------------------------------------------------------------------
(* The maps' operations                                                    *)

LEMMA IdsHavePlaces ==
  ASSUME NEW i \in Nat
  PROVE  /\ SideOf(i) \in Sides /\ IndexOf(i) \in Nat
         /\ \A j \in Nat : SideOf(i) = SideOf(j) /\ IndexOf(i) = IndexOf(j) => i = j
         /\ SideOf(i) = "client" <=> i < ServerStart
         /\ i = Base(SideOf(i)) + IndexOf(i)
BY WlMapAssumption DEF SideOf, IndexOf, Sides, Base

LEMMA EntriesOf ==
  ASSUME NEW m \in Maps, NEW side \in Sides
  PROVE  /\ m.entries[side] \in Seq(Entries) /\ Len(m.entries[side]) \in Nat
         /\ m.side \in Sides /\ m.free_list \in Nat
         /\ \A k \in 1..Len(m.entries[side]) : m.entries[side][k] \in Entries
<1>1. m.entries[side] \in Seq(Entries) /\ m.side \in Sides /\ m.free_list \in Nat
  BY DEF Maps
<1>2. QED
  BY <1>1, LenProperties, ElementOfSeq

LEMMA WithEntriesIs ==
  ASSUME NEW m \in Maps, NEW side \in Sides, NEW list \in Seq(Entries), NEW n,
         n = WithEntries(m, side, list)
  PROVE  /\ n \in Maps /\ n.side = m.side /\ n.free_list = m.free_list
         /\ n.entries[side] = list
         /\ \A s \in Sides : s # side => n.entries[s] = m.entries[s]
<1> DEFINE e == [m.entries EXCEPT ![side] = list]
<1>1. m.entries \in [Sides -> Seq(Entries)]
  BY DEF Maps
<1>2. e \in [Sides -> Seq(Entries)] /\ e[side] = list
      /\ \A s \in Sides : s # side => e[s] = m.entries[s]
  BY <1>1
<1>3. n = [m EXCEPT !.entries = e]
  BY DEF WithEntries
<1> HIDE DEF e
<1>4. n \in Maps /\ n.side = m.side /\ n.free_list = m.free_list /\ n.entries = e
  BY <1>2, <1>3 DEF Maps
<1>5. QED
  BY <1>2, <1>4

LEMMA WithFreeList ==
  ASSUME NEW m \in Maps, NEW free \in Nat, NEW n, n = [m EXCEPT !.free_list = free]
  PROVE  n \in Maps /\ n.side = m.side /\ n.free_list = free /\ n.entries = m.entries
BY DEF Maps

LEMMA EntryIsEntry ==
  ASSUME NEW d \in Objects \cup {NULL, Display}, NEW flags \in {0, ZOMBIE}
  PROVE  /\ Entry(d, flags) \in Entries
         /\ Entry(d, flags).data = d /\ Entry(d, flags).flags = flags
         /\ Entry(d, flags).next = 0
BY DEF Entry, Entries

(* A list of entries with entry e put at index x, or appended there.       *)
Placed(list, x, e) == IF x = Len(list) THEN Append(list, e) ELSE Put(list, x, e)

(* ... leaves the other places as they are.                                *)
IsPlaced(new, list, x, e) ==
  /\ new \in Seq(Entries) /\ x < Len(new) /\ Len(new) \in Nat
  /\ Len(new) = IF x = Len(list) THEN x + 1 ELSE Len(list)
  /\ EntryAt(new, x) = e
  /\ \A y \in Nat : y # x => (y < Len(new) <=> y < Len(list))
  /\ \A y \in Nat : y # x /\ y < Len(list) => EntryAt(new, y) = EntryAt(list, y)

LEMMA PlacedIs ==
  ASSUME NEW list \in Seq(Entries), NEW x \in Nat, x <= Len(list), NEW e \in Entries
  PROVE  IsPlaced(Placed(list, x, e), list, x, e)
<1> DEFINE new == Placed(list, x, e)
<1> SUFFICES IsPlaced(new, list, x, e)
  OBVIOUS
<1>1. Len(list) \in Nat
  BY LenProperties
<1>2. CASE x = Len(list)
  <2>1. new = Append(list, e)
    BY <1>2 DEF Placed
  <2> HIDE DEF new
  <2>2. /\ new \in Seq(Entries) /\ Len(new) = Len(list) + 1
        /\ \A k \in 1..Len(list) : new[k] = list[k]
        /\ new[Len(list) + 1] = e
    BY <2>1, AppendProperties
  <2>3. \A y \in Nat : y # x /\ y < Len(list) => y + 1 \in 1..Len(list)
    BY <1>1
  <2>4. \A y \in Nat : y # x => (y < Len(new) <=> y < Len(list))
    BY <1>1, <1>2, <2>2
  <2>5. EntryAt(new, x) = e
        /\ \A y \in Nat : y # x /\ y < Len(list) => EntryAt(new, y) = EntryAt(list, y)
    BY <1>2, <2>2, <2>3 DEF EntryAt
  <2>6. QED
    BY <1>1, <1>2, <2>2, <2>4, <2>5 DEF IsPlaced
<1>3. CASE x # Len(list)
  <2>1. new = [list EXCEPT ![x + 1] = e] /\ x + 1 \in 1..Len(list)
    BY <1>1, <1>3 DEF Placed, Put
  <2> HIDE DEF new
  <2>2. /\ new \in Seq(Entries) /\ Len(new) = Len(list)
        /\ \A k \in 1..Len(list) : new[k] = IF k = x + 1 THEN e ELSE list[k]
    BY <2>1, ExceptSeq
  <2>3. \A y \in Nat : y # x /\ y < Len(list) => y + 1 \in 1..Len(list) /\ y + 1 # x + 1
    BY <1>1
  <2>4. EntryAt(new, x) = e
        /\ \A y \in Nat : y # x /\ y < Len(list) => EntryAt(new, y) = EntryAt(list, y)
    BY <2>1, <2>2, <2>3 DEF EntryAt
  <2>5. QED
    BY <1>1, <1>3, <2>2, <2>4 DEF IsPlaced
<1>4. QED
  BY <1>2, <1>3

(* The two maps differ at most in what they have under id i.               *)
SameBut(m, n, i) ==
  \A j \in Nat : j # i => (Has(n, j) <=> Has(m, j)) /\ (Has(m, j) => At(n, j) = At(m, j))

(* A free list that id i is not on.                                        *)
FreeListOff(m, low, i) ==
  \E list \in Seq(Nat) :
    /\ IsFreeList(m, list) /\ \A k \in 1..Len(list) : list[k] >= low
    /\ \A k \in 1..Len(list) : list[k] # IndexOf(i) + 1

(* The free list is threaded through the entries of the map's own side.    *)
LEMMA FreeListOfSame ==
  ASSUME NEW m \in Maps, NEW n \in Maps, NEW low \in Nat, FreeListIn(m, low),
         n.side = m.side, n.free_list = m.free_list, n.entries[n.side] = m.entries[m.side]
  PROVE  FreeListIn(n, low)
BY DEF FreeListIn, IsFreeList

LEMMA FreeListOffIn ==
  ASSUME NEW m \in Maps, NEW low \in Nat, NEW i \in Nat, FreeListOff(m, low, i)
  PROVE  FreeListIn(m, low)
BY DEF FreeListIn, FreeListOff

(* What holds an object, or is a zombie, is not on the free list.          *)
LEMMA HeldIsOffList ==
  ASSUME NEW m \in Maps, NEW low \in Nat, NEW i \in Nat, FreeListIn(m, low),
         SideOf(i) = m.side, Has(m, i), At(m, i).data # NULL \/ At(m, i).flags # 0
  PROVE  FreeListOff(m, low, i)
<1>1. PICK list \in Seq(Nat) : IsFreeList(m, list) /\ \A k \in 1..Len(list) : list[k] >= low
  BY DEF FreeListIn
<1>2. ASSUME NEW k \in 1..Len(list)
      PROVE  m.entries[m.side][list[k]].data = NULL /\ m.entries[m.side][list[k]].flags = 0
  <2> DEFINE next == IF k = Len(list) THEN 0 ELSE list[k + 1]
  <2>1. m.entries[m.side][list[k]] = [data |-> NULL, flags |-> 0, next |-> next]
    BY <1>1 DEF IsFreeList
  <2> HIDE DEF next
  <2>2. QED
    BY <2>1
<1>3. \A k \in 1..Len(list) : list[k] # IndexOf(i) + 1
  <2> DEFINE own == m.entries[m.side]
  <2>1. At(m, i) = own[IndexOf(i) + 1]
    BY DEF At, EntryAt
  <2> HIDE DEF own
  <2>2. \A k \in 1..Len(list) : own[list[k]].data = NULL /\ own[list[k]].flags = 0
    BY <1>2 DEF own
  <2>3. QED
    BY <2>1, <2>2
<1>4. QED
  BY <1>1, <1>3 DEF FreeListOff

(* n is m with entry e under id i.                                         *)
Stored(n, m, i, e) ==
  n \in Maps /\ n.side = m.side /\ Has(n, i) /\ At(n, i) = e /\ SameBut(m, n, i)

LEMMA PlaceOfLink ==
  ASSUME NEW link \in Nat, NEW len \in Nat, link \in 1..len, NEW y \in Nat, link # y + 1
  PROVE  link - 1 \in Nat /\ link - 1 # y /\ link - 1 < len /\ link - 1 + 1 = link
OBVIOUS

LEMMA InsertAt ==
  ASSUME NEW m \in Maps, NEW i \in Nat, IndexOf(i) <= Len(m.entries[SideOf(i)]),
         NEW d \in Objects \cup {NULL, Display}, NEW flags \in {0, ZOMBIE},
         NEW n, n = wl_map_insert_at(m, flags, i, d)
  PROVE  /\ Stored(n, m, i, Entry(d, flags))
         /\ \A low \in Nat :
              /\ SideOf(i) # m.side /\ FreeListIn(m, low) => FreeListIn(n, low)
              /\ SideOf(i) = m.side /\ FreeListOff(m, low, i) => FreeListIn(n, low)
<1> DEFINE side == SideOf(i)
           x    == IndexOf(i)
           old  == m.entries[side]
           new  == Placed(old, x, Entry(d, flags))
<1>1. /\ side \in Sides /\ x \in Nat /\ x <= Len(old)
      /\ \A j \in Nat : SideOf(j) \in Sides /\ IndexOf(j) \in Nat
                        /\ (SideOf(j) = side /\ IndexOf(j) = x => j = i)
  BY IdsHavePlaces
<1>2. /\ Entry(d, flags) \in Entries /\ old \in Seq(Entries)
      /\ side \in Sides /\ x \in Nat /\ x <= Len(old)
  BY <1>1, EntryIsEntry, EntriesOf
<1>3. n = WithEntries(m, side, new)
  BY DEF wl_map_insert_at, Placed
<1>a. new = Placed(old, x, Entry(d, flags))
  OBVIOUS
<1> HIDE DEF old, side, x, new
<1>4. /\ new \in Seq(Entries) /\ x < Len(new)
      /\ Len(new) = IF x = Len(old) THEN x + 1 ELSE Len(old)
      /\ EntryAt(new, x) = Entry(d, flags)
      /\ \A y \in Nat : y # x => (y < Len(new) <=> y < Len(old))
      /\ \A y \in Nat : y # x /\ y < Len(old) => EntryAt(new, y) = EntryAt(old, y)
  <2>1. IsPlaced(new, old, x, Entry(d, flags))
    BY <1>2, <1>a, PlacedIs
  <2>2. QED
    BY <2>1 DEF IsPlaced
<1>b. new \in Seq(Entries) /\ side \in Sides
  BY <1>2, <1>4
<1>5. /\ n \in Maps /\ n.side = m.side /\ n.free_list = m.free_list
      /\ n.entries[side] = new
      /\ \A s \in Sides : s # side => n.entries[s] = m.entries[s]
  BY <1>3, <1>b, WithEntriesIs
<1>6. Has(n, i) /\ At(n, i) = Entry(d, flags)
  BY <1>4, <1>5 DEF Has, At, side, x
<1>7. SameBut(m, n, i)
  <2> SUFFICES ASSUME NEW j \in Nat, j # i
               PROVE  (Has(n, j) <=> Has(m, j)) /\ (Has(m, j) => At(n, j) = At(m, j))
    BY DEF SameBut
  <2>1. CASE SideOf(j) = side
    BY <1>1, <1>4, <1>5, <2>1 DEF Has, At, old
  <2>2. CASE SideOf(j) # side
    BY <1>1, <1>5, <2>2 DEF Has, At
  <2>3. QED
    BY <2>1, <2>2
<1>8. ASSUME NEW low \in Nat, SideOf(i) # m.side, FreeListIn(m, low)
      PROVE  FreeListIn(n, low)
  <2>1. m.side \in Sides /\ n.entries[m.side] = m.entries[m.side]
    BY <1>1, <1>5, <1>8, EntriesOf DEF side
  <2>2. QED
    BY <1>5, <1>8, <2>1, FreeListOfSame
<1>9. ASSUME NEW low \in Nat, SideOf(i) = m.side, FreeListOff(m, low, i)
      PROVE  FreeListIn(n, low)
  <2>1. PICK list \in Seq(Nat) :
          /\ IsFreeList(m, list) /\ \A k \in 1..Len(list) : list[k] >= low
          /\ \A k \in 1..Len(list) : list[k] # x + 1
    BY <1>9 DEF FreeListOff, x
  <2>2. m.entries[m.side] = old /\ n.entries[n.side] = new /\ Len(old) \in Nat /\ Len(new) \in Nat
    BY <1>5, <1>9, <1>2, <1>4, LenProperties DEF side, old
  <2>3. ASSUME NEW k \in 1..Len(list)
        PROVE  list[k] \in 1..Len(new) /\ new[list[k]] = old[list[k]]
    <3>1. list[k] \in 1..Len(old) /\ list[k] # x + 1
      BY <2>1, <2>2 DEF IsFreeList
    <3>a. list[k] \in Nat /\ x \in Nat /\ Len(old) \in Nat
      BY <1>2, <2>2, <3>1
    <3>2. list[k] - 1 \in Nat /\ list[k] - 1 # x /\ list[k] - 1 < Len(old)
          /\ list[k] - 1 + 1 = list[k]
      BY <3>1, <3>a, PlaceOfLink
    <3>3. QED
      BY <1>4, <2>2, <3>1, <3>2 DEF EntryAt
  <2>4. IsFreeList(n, list)
    BY <1>5, <2>1, <2>2, <2>3 DEF IsFreeList
  <2>5. QED
    BY <2>1, <2>4 DEF FreeListIn
<1>10. QED
  BY <1>5, <1>6, <1>7, <1>8, <1>9 DEF Stored

(* An object announced by the other end: the id is reserved and filled.    *)
LEMMA ReserveAndInsert ==
  ASSUME NEW m \in Maps, NEW i \in Nat, CanReserve(m, i),
         NEW d \in Objects \cup {NULL, Display},
         NEW n, n = wl_map_insert_at(wl_map_reserve_new(m, i), 0, i, d)
  PROVE  /\ Stored(n, m, i, Entry(d, 0))
         /\ \A low \in Nat : FreeListIn(m, low) => FreeListIn(n, low)
         /\ SideOf(i) # m.side /\ (Has(m, i) => At(m, i) = Entry(NULL, 0))
<1> DEFINE side == SideOf(i)
           x    == IndexOf(i)
           list == m.entries[side]
           r    == wl_map_reserve_new(m, i)
<1>1. /\ side \in Sides /\ side # m.side /\ m.side \in Sides
      /\ x \in Nat /\ list \in Seq(Entries) /\ Len(list) \in Nat /\ x <= Len(list)
  BY IdsHavePlaces, EntriesOf DEF CanReserve, CanInsertAt
<1>2. Has(m, i) => At(m, i) = Entry(NULL, 0)
  BY DEF CanReserve, Has, At
<1>3. /\ r \in Maps /\ r.side = m.side /\ SameBut(m, r, i) /\ x <= Len(r.entries[side])
      /\ \A low \in Nat : FreeListIn(m, low) => FreeListIn(r, low)
  <2>1. CASE x = Len(list)
    <3> DEFINE l == Append(list, Entry(NULL, 0))
    <3>1. r = WithEntries(m, side, l) /\ l = Placed(list, x, Entry(NULL, 0))
      BY <2>1 DEF wl_map_reserve_new, Placed
    <3>2. r = wl_map_insert_at(m, 0, i, NULL)
      BY <2>1, <3>1 DEF wl_map_insert_at
    <3> HIDE DEF r, l
    <3>3. /\ Stored(r, m, i, Entry(NULL, 0))
          /\ \A low \in Nat : FreeListIn(m, low) => FreeListIn(r, low)
      BY <1>1, <3>2, InsertAt
    <3>4. x < Len(r.entries[side])
      BY <3>3 DEF Stored, Has
    <3>5. r \in Maps /\ r.side = m.side /\ SameBut(m, r, i)
      BY <3>3 DEF Stored
    <3>6. Len(r.entries[side]) \in Nat
      BY <1>1, <3>5, EntriesOf
    <3>7. QED
      BY <1>1, <3>3, <3>4, <3>5, <3>6
  <2>2. CASE x # Len(list)
    <3>1. r = m
      BY <2>2 DEF wl_map_reserve_new
    <3> HIDE DEF r
    <3>2. QED
      BY <1>1, <3>1 DEF SameBut
  <2>3. QED
    BY <2>1, <2>2
<1>4. n = wl_map_insert_at(r, 0, i, d)
  OBVIOUS
<1> HIDE DEF r
<1>5. /\ Stored(n, r, i, Entry(d, 0))
      /\ \A low \in Nat : FreeListIn(r, low) => FreeListIn(n, low)
  BY <1>1, <1>3, <1>4, InsertAt DEF side, x
<1>6. Stored(n, m, i, Entry(d, 0))
  BY <1>3, <1>5 DEF Stored, SameBut
<1>7. QED
  BY <1>1, <1>2, <1>3, <1>5, <1>6

(* An id of the map's own side is freed: it goes to the head of the list.  *)
LEMMA Remove ==
  ASSUME NEW m \in Maps, NEW i \in Nat, SideOf(i) = m.side, Has(m, i),
         NEW low \in Nat, FreeListOff(m, low, i), IndexOf(i) + 1 >= low,
         NEW n, n = wl_map_remove(m, i)
  PROVE  Stored(n, m, i, FreeEntry(m.free_list)) /\ FreeListIn(n, low)
<1> DEFINE x    == IndexOf(i)
           old  == m.entries[m.side]
           e    == FreeEntry(m.free_list)
           new  == Put(old, x, e)
           w    == WithEntries(m, m.side, new)
<1>1. m.side \in Sides /\ x \in Nat /\ old \in Seq(Entries) /\ Len(old) \in Nat /\ x < Len(old)
  BY IdsHavePlaces, EntriesOf DEF Has
<1>p. \A j \in Nat : SideOf(j) \in Sides /\ IndexOf(j) \in Nat
                      /\ (SideOf(j) = m.side /\ IndexOf(j) = x => j = i)
  BY IdsHavePlaces
<1>2. e \in Entries /\ e = [data |-> NULL, flags |-> 0, next |-> m.free_list]
  <2>1. m.free_list \in Nat
    BY DEF Maps
  <2>2. QED
    BY <2>1 DEF FreeEntry, Entries
<1>3. x # Len(old) /\ new = Placed(old, x, e)
  BY <1>1 DEF Placed
<1>4. n = [w EXCEPT !.free_list = x + 1]
  BY DEF wl_map_remove
<1>a. e = FreeEntry(m.free_list)
  OBVIOUS
<1>b. w = WithEntries(m, m.side, new)
  OBVIOUS
<1> HIDE DEF e, new, w, x, old
<1>5. IsPlaced(new, old, x, e)
  BY <1>1, <1>2, <1>3, PlacedIs
<1>6. new \in Seq(Entries)
  BY <1>5 DEF IsPlaced
<1>7. /\ w \in Maps /\ w.side = m.side /\ w.entries[m.side] = new
      /\ \A s \in Sides : s # m.side => w.entries[s] = m.entries[s]
  BY <1>1, <1>6, <1>b, WithEntriesIs
<1>8. /\ n \in Maps /\ n.side = m.side /\ n.free_list = x + 1 /\ n.entries[m.side] = new
      /\ \A s \in Sides : s # m.side => n.entries[s] = m.entries[s]
  <2>1. x + 1 \in Nat
    BY <1>1
  <2>2. n \in Maps /\ n.side = w.side /\ n.free_list = x + 1 /\ n.entries = w.entries
    BY <1>4, <1>7, <2>1, WithFreeList
  <2>3. QED
    BY <1>7, <2>2
<1>9. Has(n, i) /\ At(n, i) = e
  BY <1>5, <1>8 DEF Has, At, IsPlaced, x
<1>10. SameBut(m, n, i)
  <2> SUFFICES ASSUME NEW j \in Nat, j # i
               PROVE  (Has(n, j) <=> Has(m, j)) /\ (Has(m, j) => At(n, j) = At(m, j))
    BY DEF SameBut
  <2>1. CASE SideOf(j) = m.side
    BY <1>p, <1>5, <1>8, <2>1 DEF Has, At, IsPlaced, old
  <2>2. CASE SideOf(j) # m.side
    BY <1>p, <1>8, <2>2 DEF Has, At
  <2>3. QED
    BY <2>1, <2>2
<1>11. FreeListIn(n, low)
  <2>1. PICK list \in Seq(Nat) :
          /\ IsFreeList(m, list) /\ \A k \in 1..Len(list) : list[k] >= low
          /\ \A k \in 1..Len(list) : list[k] # x + 1
    BY DEF FreeListOff, x
  <2> DEFINE more == <<x + 1>> \o list
  <2>2. /\ Len(list) \in Nat /\ more \in Seq(Nat) /\ Len(more) = Len(list) + 1 /\ more[1] = x + 1
        /\ \A k \in 1..Len(list) : more[k + 1] = list[k]
    <3>1. <<x + 1>> \in Seq(Nat) /\ Len(<<x + 1>>) = 1 /\ <<x + 1>>[1] = x + 1
          /\ Len(list) \in Nat
      BY <1>1, LenProperties
    <3> DEFINE h == <<x + 1>>
    <3>a. more = h \o list
      OBVIOUS
    <3> HIDE DEF h, more
    <3>2. /\ more \in Seq(Nat) /\ Len(more) = Len(h) + Len(list)
          /\ \A k \in 1..(Len(h) + Len(list)) :
                more[k] = IF k <= Len(h) THEN h[k] ELSE list[k - Len(h)]
      BY <3>1, <3>a, ConcatProperties DEF h
    <3>3. Len(h) = 1 /\ h[1] = x + 1
      BY <3>1 DEF h
    <3>4. \A k \in 1..Len(list) : k + 1 \in 1..(1 + Len(list)) /\ ~(k + 1 <= 1) /\ k + 1 - 1 = k
      BY <3>1
    <3>5. QED
      BY <3>1, <3>2, <3>3, <3>4
  <2> HIDE DEF more
  <2>3. more[1] = x + 1 /\ \A k \in 2..Len(more) : k - 1 \in 1..Len(list) /\ more[k] = list[k - 1]
    BY <2>2
  <2>4. Len(new) = Len(old) /\ new[x + 1] = e
        /\ \A y \in 1..Len(old) : y # x + 1 => new[y] = old[y]
    <3>1. Len(new) = Len(old) /\ new[x + 1] = e
      BY <1>3, <1>5 DEF IsPlaced, EntryAt
    <3>2. ASSUME NEW y \in 1..Len(old), y # x + 1
          PROVE  new[y] = old[y]
      <4>1. y - 1 \in Nat /\ y - 1 # x /\ y - 1 < Len(old) /\ y - 1 + 1 = y
        BY <1>1, <3>2
      <4>2. QED
        BY <1>5, <4>1 DEF IsPlaced, EntryAt
    <3>3. QED
      BY <3>1, <3>2
  <2>5. m.free_list = IF list = << >> THEN 0 ELSE list[1]
    BY <2>1 DEF IsFreeList
  <2>6. ASSUME NEW k \in 1..Len(more)
        PROVE  /\ more[k] \in 1..Len(new) /\ more[k] >= low
               /\ new[more[k]] = [data |-> NULL, flags |-> 0,
                                  next |-> IF k = Len(more) THEN 0 ELSE more[k + 1]]
    <3>1. CASE k = 1
      <4>1. IF Len(more) = 1 THEN m.free_list = 0 ELSE m.free_list = more[2]
        <5>1. Len(list) = 0 <=> list = << >>
          BY EmptySeq
        <5>2. CASE list = << >>
          BY <2>2, <2>5, <5>1, <5>2
        <5>3. CASE list # << >>
          <6>1. Len(list) # 0 /\ 1 \in 1..Len(list) /\ Len(more) # 1
            BY <2>2, <5>1, <5>3
          <6>2. more[2] = list[1]
            BY <2>2, <6>1
          <6>3. QED
            BY <2>5, <5>3, <6>1, <6>2
        <5>4. QED
          BY <5>2, <5>3
      <4>2. e = [data |-> NULL, flags |-> 0, next |-> m.free_list]
        BY <1>2
      <4>3. more[k] = x + 1 /\ x + 1 \in 1..Len(new) /\ x + 1 >= low
        BY <1>1, <2>3, <2>4, <3>1 DEF x
      <4>4. m.free_list = IF k = Len(more) THEN 0 ELSE more[k + 1]
        BY <3>1, <4>1
      <4> DEFINE nxt == IF k = Len(more) THEN 0 ELSE more[k + 1]
      <4>5. m.free_list = nxt
        BY <4>4
      <4> HIDE DEF nxt
      <4>6. new[more[k]] = [data |-> NULL, flags |-> 0, next |-> nxt]
        BY <2>4, <4>2, <4>3, <4>5
      <4>7. QED
        BY <4>3, <4>6 DEF nxt
    <3>2. CASE k # 1
      <4>1. k \in 2..Len(more) /\ k - 1 \in 1..Len(list) /\ more[k] = list[k - 1]
        BY <2>2, <2>3, <3>2
      <4> DEFINE nxt == IF k - 1 = Len(list) THEN 0 ELSE list[k - 1 + 1]
      <4>2. /\ list[k - 1] \in 1..Len(old) /\ list[k - 1] # x + 1 /\ list[k - 1] >= low
            /\ old[list[k - 1]] = [data |-> NULL, flags |-> 0, next |-> nxt]
        BY <2>1, <4>1 DEF IsFreeList, old
      <4>3. nxt = IF k = Len(more) THEN 0 ELSE more[k + 1]
        <5>1. k - 1 = Len(list) <=> k = Len(more)
          BY <2>2, <4>1
        <5>2. ASSUME k # Len(more) PROVE more[k + 1] = list[k - 1 + 1]
          <6>1. k + 1 \in 2..Len(more) /\ k + 1 - 1 = k - 1 + 1
            BY <2>2, <4>1, <5>2
          <6>2. QED
            BY <2>3, <6>1
        <5>3. QED
          BY <5>1, <5>2
      <4> HIDE DEF nxt
      <4>4. QED
        BY <2>4, <4>1, <4>2, <4>3
    <3>3. QED
      BY <3>1, <3>2
  <2>7. ASSUME NEW j \in 1..Len(more), NEW k \in 1..Len(more), more[j] = more[k]
        PROVE  j = k
    <3>1. \A l \in 1..Len(more) : l = 1 \/ l \in 2..Len(more)
      BY <2>2
    <3>2. CASE j = 1 /\ k = 1
      BY <3>2
    <3>3. CASE j = 1 /\ k \in 2..Len(more)
      BY <2>1, <2>3, <2>7, <3>3
    <3>4. CASE j \in 2..Len(more) /\ k = 1
      BY <2>1, <2>3, <2>7, <3>4
    <3>5. CASE j \in 2..Len(more) /\ k \in 2..Len(more)
      <4>1. list[j - 1] = list[k - 1] /\ j - 1 \in 1..Len(list) /\ k - 1 \in 1..Len(list)
        BY <2>3, <2>7, <3>5
      <4>2. j - 1 = k - 1
        BY <2>1, <4>1 DEF IsFreeList
      <4>3. QED
        BY <2>2, <3>5, <4>2
    <3>6. QED
      BY <3>1, <3>2, <3>3, <3>4, <3>5
  <2>8. more # << >> /\ n.free_list = more[1] /\ n.entries[n.side] = new
    BY <1>8, <2>2, EmptySeq
  <2>9. IsFreeList(n, more)
    BY <2>6, <2>7, <2>8 DEF IsFreeList
  <2>10. QED
    BY <2>2, <2>6, <2>9 DEF FreeListIn
<1>12. QED
  BY <1>8, <1>9, <1>10, <1>11, <1>a DEF Stored

(* A new id of the map's own side: the head of the free list, or the next  *)
(* one.                                                                    *)
IsNewId(n, m, i, d, low) ==
  /\ i \in Nat /\ SideOf(i) = m.side /\ IndexOf(i) + 1 >= low /\ IndexOf(i) <= MaxObjects
  /\ i = Base(m.side) + IndexOf(i)
  /\ Has(m, i) => At(m, i).data = NULL /\ At(m, i).flags = 0
  /\ Stored(n, m, i, Entry(d, 0))
  /\ FreeListOff(n, low, i)

LEMMA InsertNew ==
  ASSUME NEW m \in Maps, NEW low \in Nat, FreeListIn(m, low),
         low <= Len(m.entries[m.side]) + 1,
         NEW d \in Objects \cup {NULL, Display}, NEW r, r = wl_map_insert_new(m, 0, d), r.id # 0
  PROVE  IsNewId(r.map, m, r.id, d, low)
<1> DEFINE own  == m.entries[m.side]
           i    == IF m.free_list # 0 THEN m.free_list - 1 ELSE Len(own)
           e    == Entry(d, 0)
           new  == IF m.free_list # 0 THEN Put(own, i, e) ELSE Append(own, e)
           next == IF m.free_list # 0 THEN EntryAt(own, i).next ELSE 0
           w    == WithEntries(m, m.side, new)
           n    == [w EXCEPT !.free_list = next]
<1>1. PICK list \in Seq(Nat) : IsFreeList(m, list) /\ \A k \in 1..Len(list) : list[k] >= low
  BY DEF FreeListIn
<1>2. m.side \in Sides /\ own \in Seq(Entries) /\ Len(own) \in Nat /\ m.free_list \in Nat
  <2>1. m.side \in Sides
    BY DEF Maps
  <2>2. QED
    BY <2>1, EntriesOf
<1>3. ~(i > MaxObjects) /\ r.map = n /\ r.id = Base(m.side) + i
  <2>1. CASE i > MaxObjects
    <3>1. r.id = 0
      BY <2>1 DEF wl_map_insert_new
    <3>2. QED
      BY <3>1
  <2>2. CASE ~(i > MaxObjects)
    <3>1. r = [map |-> n, id |-> Base(m.side) + i]
      BY <2>2 DEF wl_map_insert_new
    <3> HIDE DEF n, i
    <3>2. QED
      BY <2>2, <3>1
  <2>3. QED
    BY <2>1, <2>2
<1>e. e \in Entries /\ e = Entry(d, 0)
  BY EntryIsEntry
<1>4. /\ \A k \in 1..Len(list) : list[k] \in 1..Len(own)
      /\ \A j, k \in 1..Len(list) : list[j] = list[k] => j = k
      /\ m.free_list = IF list = << >> THEN 0 ELSE list[1]
  BY <1>1 DEF IsFreeList
<1>5. ASSUME NEW k \in 1..Len(list)
      PROVE  /\ own[list[k]].data = NULL /\ own[list[k]].flags = 0
             /\ own[list[k]].next = IF k = Len(list) THEN 0 ELSE list[k + 1]
  <2> DEFINE nxt == IF k = Len(list) THEN 0 ELSE list[k + 1]
  <2>1. own[list[k]] = [data |-> NULL, flags |-> 0, next |-> nxt]
    BY <1>1 DEF IsFreeList
  <2> HIDE DEF nxt, own
  <2>2. own[list[k]].data = NULL /\ own[list[k]].flags = 0 /\ own[list[k]].next = nxt
    BY <2>1
  <2>3. QED
    BY <2>2 DEF nxt
<1>6. Len(list) \in Nat /\ (list # << >> => 1 \in 1..Len(list) /\ Len(list) >= 1)
  <2>1. Len(list) \in Nat /\ (list # << >> => Len(list) \in Nat \ {0})
    BY EmptySeq, LenProperties
  <2>2. QED
    BY <2>1
<1> HIDE DEF own, e
<1>7. m.free_list # 0 <=> list # << >>
  <2>1. list # << >> => list[1] \in 1..Len(own)
    BY <1>4, <1>6
  <2>2. QED
    BY <1>2, <1>4, <2>1
<1>8. /\ i \in Nat /\ i <= Len(own) /\ i + 1 >= low
      /\ list # << >> => i + 1 = list[1] /\ i # Len(own)
      /\ list = << >> => i = Len(own)
  <2>1. CASE list = << >>
    BY <1>2, <1>7, <2>1 DEF own
  <2>2. CASE list # << >>
    <3>1. m.free_list = list[1] /\ list[1] \in 1..Len(own) /\ list[1] >= low
      BY <1>1, <1>4, <1>6, <2>2
    <3>2. i = list[1] - 1
      BY <1>7, <2>2, <3>1
    <3>3. QED
      BY <1>2, <2>2, <3>1, <3>2
  <2>3. QED
    BY <2>1, <2>2
<1>b. i <= MaxObjects
  BY <1>3, <1>8, WlMapAssumption
<1>9. new = Placed(own, i, e)
  BY <1>7, <1>8 DEF Placed
<1>10. i < Len(own) => own[i + 1].data = NULL /\ own[i + 1].flags = 0
  <2> HIDE DEF i
  <2>1. i < Len(own) => list # << >>
    BY <1>2, <1>8
  <2>2. QED
    BY <1>5, <1>6, <1>8, <2>1
<1>11. next \in Nat /\ next = IF Len(list) <= 1 THEN 0 ELSE list[2]
  <2>1. CASE list = << >>
    BY <1>7, <2>1, EmptySeq
  <2>2. CASE list # << >>
    <3>1. next = own[i + 1].next
      BY <1>7, <2>2 DEF EntryAt
    <3> HIDE DEF i, next
    <3>2. next = IF 1 = Len(list) THEN 0 ELSE list[2]
      <4>1. 1 \in 1..Len(list) /\ i + 1 = list[1]
        BY <1>6, <1>8, <2>2
      <4>2. own[list[1]].next = IF 1 = Len(list) THEN 0 ELSE list[1 + 1]
        BY <1>5, <4>1
      <4>3. QED
        BY <3>1, <4>1, <4>2
    <3> DEFINE l == Len(list)
    <3>3. l \in Nat /\ l >= 1
      BY <1>6, <2>2
    <3>4. l # 1 => list[2] \in Nat
      <4> HIDE DEF l
      <4>1. l # 1 => 2 \in 1..l
        BY <3>3
      <4>2. QED
        BY <4>1, ElementOfSeq DEF l
    <3>5. l <= 1 <=> l = 1
      <4> HIDE DEF l
      <4>1. QED
        BY <3>3
    <3>6. QED
      BY <3>2, <3>3, <3>4, <3>5
  <2>3. QED
    BY <2>1, <2>2
<1>12. w = WithEntries(m, m.side, new) /\ n = [w EXCEPT !.free_list = next]
  OBVIOUS
<1> HIDE DEF i, new, next, w, n
<1>13. IsPlaced(new, own, i, e)
  BY <1>2, <1>8, <1>9, <1>e, PlacedIs
<1>14. new \in Seq(Entries)
  BY <1>13 DEF IsPlaced
<1>15. /\ w \in Maps /\ w.side = m.side /\ w.entries[m.side] = new
       /\ \A s \in Sides : s # m.side => w.entries[s] = m.entries[s]
  BY <1>2, <1>12, <1>14, WithEntriesIs
<1>16. n \in Maps /\ n.side = w.side /\ n.free_list = next /\ n.entries = w.entries
  BY <1>11, <1>12, <1>15, WithFreeList
<1>17. /\ r.id \in Nat /\ SideOf(r.id) = m.side /\ IndexOf(r.id) = i
  BY <1>2, <1>3, <1>8, <1>b, WlMapAssumption DEF Base, SideOf, IndexOf, Sides
<1>p. \A j \in Nat : SideOf(j) \in Sides /\ IndexOf(j) \in Nat
                      /\ (SideOf(j) = m.side /\ IndexOf(j) = i => j = r.id)
  BY <1>17, IdsHavePlaces
<1>18. Has(n, r.id) /\ At(n, r.id) = e
  BY <1>13, <1>15, <1>16, <1>17 DEF Has, At, IsPlaced
<1>19. SameBut(m, n, r.id)
  <2> SUFFICES ASSUME NEW j \in Nat, j # r.id
               PROVE  (Has(n, j) <=> Has(m, j)) /\ (Has(m, j) => At(n, j) = At(m, j))
    BY DEF SameBut
  <2>1. CASE SideOf(j) = m.side
    BY <1>p, <1>13, <1>15, <1>16, <2>1 DEF Has, At, IsPlaced, own
  <2>2. CASE SideOf(j) # m.side
    BY <1>p, <1>15, <1>16, <2>2 DEF Has, At
  <2>3. QED
    BY <2>1, <2>2
<1>20. Has(m, r.id) => At(m, r.id).data = NULL /\ At(m, r.id).flags = 0
  BY <1>10, <1>17 DEF Has, At, EntryAt, own
<1>21. FreeListOff(n, low, r.id)
  <2> DEFINE rest == IF list = << >> THEN << >> ELSE Tail(list)
  <2>1. /\ rest \in Seq(Nat) /\ Len(rest) = IF list = << >> THEN 0 ELSE Len(list) - 1
        /\ \A k \in 1..Len(rest) : k + 1 \in 1..Len(list) /\ rest[k] = list[k + 1]
    <3>1. CASE list = << >>
      BY <3>1, EmptySeq
    <3>2. CASE list # << >>
      <4>1. /\ Tail(list) \in Seq(Nat) /\ Len(Tail(list)) = Len(list) - 1
            /\ \A k \in 1..Len(Tail(list)) : Tail(list)[k] = list[k + 1]
        BY <3>2, HeadTailProperties
      <4>2. QED
        BY <1>6, <3>2, <4>1
    <3>3. QED
      BY <3>1, <3>2
  <2> HIDE DEF rest
  <2>2. Len(rest) \in Nat /\ (rest = << >> <=> Len(rest) = 0)
    BY <2>1, EmptySeq, LenProperties
  <2>3. ASSUME NEW k \in 1..Len(rest)
        PROVE  rest[k] \in 1..Len(own) /\ rest[k] # i + 1 /\ rest[k] >= low
    <3>1. list # << >> /\ k + 1 # 1 /\ 1 \in 1..Len(list)
      BY <1>6, <2>1, <2>2
    <3>2. QED
      BY <1>1, <1>4, <1>8, <2>1, <3>1
  <2>4. Len(new) = IF i = Len(own) THEN i + 1 ELSE Len(own)
    BY <1>13 DEF IsPlaced
  <2>5. ASSUME NEW y \in 1..Len(own), y # i + 1
        PROVE  y \in 1..Len(new) /\ new[y] = own[y]
    <3>1. y - 1 \in Nat /\ y - 1 # i /\ y - 1 < Len(own) /\ y - 1 + 1 = y
      BY <1>2, <1>8, <2>5
    <3>2. QED
      BY <1>2, <1>8, <1>13, <2>4, <3>1 DEF IsPlaced, EntryAt
  <2>6. ASSUME NEW k \in 1..Len(rest)
        PROVE  /\ rest[k] \in 1..Len(new)
               /\ new[rest[k]] = [data |-> NULL, flags |-> 0,
                                  next |-> IF k = Len(rest) THEN 0 ELSE rest[k + 1]]
    <3> DEFINE a == IF k + 1 = Len(list) THEN 0 ELSE list[k + 1 + 1]
               b == IF k = Len(rest) THEN 0 ELSE rest[k + 1]
    <3>1. k + 1 \in 1..Len(list) /\ rest[k] = list[k + 1] /\ list # << >>
      BY <1>6, <2>1, <2>2
    <3>2. own[rest[k]] = [data |-> NULL, flags |-> 0, next |-> a]
      BY <1>1, <3>1 DEF IsFreeList, own
    <3>3. a = b
      <4>1. k + 1 = Len(list) <=> k = Len(rest)
        BY <1>6, <2>1, <2>2, <3>1
      <4>2. k # Len(rest) => rest[k + 1] = list[k + 1 + 1]
        BY <2>1, <2>2
      <4>3. QED
        BY <4>1, <4>2
    <3> HIDE DEF a, b
    <3>4. new[rest[k]] = [data |-> NULL, flags |-> 0, next |-> b] /\ rest[k] \in 1..Len(new)
      BY <2>3, <2>5, <3>2, <3>3
    <3>5. QED
      BY <3>4 DEF b
  <2>7. ASSUME NEW j \in 1..Len(rest), NEW k \in 1..Len(rest), rest[j] = rest[k]
        PROVE  j = k
    <3>1. j + 1 \in 1..Len(list) /\ k + 1 \in 1..Len(list) /\ list[j + 1] = list[k + 1]
      BY <2>1, <2>7
    <3>2. j + 1 = k + 1
      BY <1>4, <3>1
    <3>3. QED
      BY <3>2
  <2>8. next = IF rest = << >> THEN 0 ELSE rest[1]
    <3>1. CASE Len(list) <= 1
      BY <1>6, <1>11, <2>1, <2>2, <3>1
    <3>2. CASE ~(Len(list) <= 1)
      <4>1. list # << >> /\ Len(rest) # 0 /\ 1 \in 1..Len(rest)
        BY <1>6, <2>1, <2>2, <3>2, EmptySeq
      <4>2. QED
        BY <1>11, <2>1, <2>2, <3>2, <4>1
    <3>3. QED
      BY <3>1, <3>2
  <2>9. n.entries[n.side] = new /\ n.free_list = next
    BY <1>15, <1>16
  <2>10. IsFreeList(n, rest)
    BY <2>6, <2>7, <2>8, <2>9 DEF IsFreeList
  <2>11. QED
    BY <1>17, <2>1, <2>3, <2>10 DEF FreeListOff
<1>22. QED
  BY <1>3, <1>8, <1>b, <1>15, <1>16, <1>17, <1>18, <1>19, <1>20, <1>21, <1>e DEF IsNewId, Stored

-----------------------------------------------------------------------------
(* Who has an id                                                           *)

LEMMA EntriesDiffer ==
  ASSUME NEW d, NEW e, NEW f, NEW g, Entry(d, f) = Entry(e, g)
  PROVE  d = e /\ f = g
<1>1. Entry(d, f).data = d /\ Entry(d, f).flags = f /\ Entry(e, g).data = e /\ Entry(e, g).flags = g
  BY DEF Entry
<1>2. QED
  BY <1>1

LEMMA IdsOnSides ==
  ASSUME Types, ObjectsSound, NEW o \in 1..created
  PROVE  /\ o \in Objects /\ id[o] \in Nat /\ id[o] > 1
         /\ kind[o] = "offered" => id[o] >= ServerStart /\ SideOf(id[o]) = "server"
         /\ kind[o] # "offered" =>
              id[o] < ServerStart /\ SideOf(id[o]) = "client" /\ IndexOf(id[o]) = id[o]
<1>1. o \in Objects /\ id[o] \in Nat
  BY ObjectIdsAssumption DEF Types, Objects
<1>2. CASE kind[o] = "offered"
  BY <1>1, <1>2, WlMapAssumption DEF ObjectsSound, Offered, SideOf
<1>3. CASE kind[o] # "offered"
  BY <1>1, <1>3, WlMapAssumption DEF ObjectsSound, Chosen, SideOf, IndexOf
<1>4. QED
  BY <1>2, <1>3

Holds(o) == proxy[o] = "live" \/ Pending(o)

(* At each end an id has one holder.                                       *)
LEMMA OneHolder ==
  ASSUME Types, ObjectsSound, PendingUnique, Found, NEW o \in 1..created, NEW p \in 1..created,
         id[o] = id[p]
  PROVE  /\ Holds(o) /\ Holds(p) => o = p
         /\ resource[o] = "live" /\ resource[p] = "live" => o = p
<1>1. \A q \in 1..created : Pending(q) => proxy[q] = "live" \/ proxy[q] = "destroyed"
  BY ObjectIdsAssumption DEF ObjectsSound, Pending, Types, Objects
<1>2. \A q \in 1..created : proxy[q] = "live" => At(cmap, id[q]) = Entry(q, 0)
  BY DEF Found
<1>3. \A q \in 1..created : Pending(q) /\ proxy[q] = "destroyed" =>
                              At(cmap, id[q]) = Entry(NULL, ZOMBIE)
  BY DEF Found
<1>4. ASSUME proxy[o] = "live", proxy[p] = "live" PROVE o = p
  BY <1>2, <1>4, EntriesDiffer
<1>5. ASSUME NEW q \in 1..created, NEW r \in 1..created, id[q] = id[r],
             proxy[q] = "live", Pending(r), proxy[r] = "destroyed"
      PROVE  FALSE
  <2>1. Entry(q, 0) = Entry(NULL, ZOMBIE)
    BY <1>2, <1>3, <1>5
  <2>2. 0 = ZOMBIE
    BY <2>1, EntriesDiffer
  <2>3. QED
    BY <2>2 DEF ZOMBIE
<1>6. Holds(o) /\ Holds(p) => o = p
  BY <1>1, <1>4, <1>5 DEF Holds, PendingUnique
<1>7. ASSUME resource[o] = "live", resource[p] = "live" PROVE o = p
  <2>1. Entry(o, 0) = Entry(p, 0)
    BY <1>7 DEF Found
  <2>2. QED
    BY <2>1, EntriesDiffer
<1>8. QED
  BY <1>6, <1>7

(* An offered object that the client has not given up is still there.      *)
LEMMA OfferedStays ==
  ASSUME Types, ObjectsSound, NEW o \in 1..created, kind[o] = "offered", proxy[o] # "destroyed"
  PROVE  resource[o] = "live"
<1>1. o \in Objects
  BY IdsOnSides
<1>2. QED
  BY <1>1, OfferedAssumption DEF Types, ObjectsSound, Offered

-----------------------------------------------------------------------------
(* Messages under way                                                      *)

IsAppended(new, q, m) ==
  /\ \A k \in DOMAIN q : k \in DOMAIN new /\ new[k] = q[k] /\ k \in Nat /\ k < Len(q) + 1
  /\ Len(q) + 1 \in DOMAIN new /\ new[Len(q) + 1] = m
  /\ \A k \in DOMAIN new : k \in DOMAIN q \/ k = Len(q) + 1

LEMMA AppendedIs ==
  ASSUME NEW S, NEW q \in Seq(S), NEW m \in S
  PROVE  Append(q, m) \in Seq(S) /\ IsAppended(Append(q, m), q, m)
<1> DEFINE new == Append(q, m)
<1> HIDE DEF new
<1>1. /\ new \in Seq(S) /\ Len(new) = Len(q) + 1
      /\ \A k \in 1..Len(q) : new[k] = q[k]
      /\ new[Len(q) + 1] = m
  BY AppendProperties DEF new
<1>2. Len(q) \in Nat /\ DOMAIN q = 1..Len(q) /\ DOMAIN new = 1..(Len(q) + 1)
  BY <1>1, LenProperties
<1>3. IsAppended(new, q, m)
  BY <1>1, <1>2 DEF IsAppended
<1>4. QED
  BY <1>1, <1>3 DEF new

IsTail(new, q) ==
  /\ 1 \in DOMAIN q /\ Head(q) = q[1]
  /\ \A k \in DOMAIN new : k \in Nat /\ k >= 1 /\ k + 1 \in DOMAIN q /\ new[k] = q[k + 1]
  /\ \A k \in DOMAIN q : k \in Nat /\ (k # 1 => k - 1 \in DOMAIN new /\ new[k - 1] = q[k])

LEMMA TailIs ==
  ASSUME NEW S, NEW q \in Seq(S), q # << >>
  PROVE  Tail(q) \in Seq(S) /\ Head(q) \in S /\ IsTail(Tail(q), q)
<1> DEFINE new == Tail(q)
<1> HIDE DEF new
<1>1. /\ new \in Seq(S) /\ Head(q) \in S /\ Head(q) = q[1] /\ Len(new) = Len(q) - 1
      /\ \A k \in 1..Len(new) : new[k] = q[k + 1]
  BY HeadTailProperties, EmptySeq DEF new
<1>2. Len(q) \in Nat /\ Len(q) # 0 /\ DOMAIN q = 1..Len(q) /\ DOMAIN new = 1..Len(new)
  BY <1>1, LenProperties, EmptySeq
<1>3. \A k \in DOMAIN new : k \in Nat /\ k >= 1 /\ k + 1 \in DOMAIN q /\ new[k] = q[k + 1]
  BY <1>1, <1>2
<1>4. ASSUME NEW k \in DOMAIN q, k # 1
      PROVE  k - 1 \in DOMAIN new /\ new[k - 1] = q[k]
  <2>1. k - 1 \in 1..Len(new) /\ k - 1 + 1 = k
    BY <1>1, <1>2, <1>4
  <2>2. QED
    BY <1>1, <1>2, <2>1
<1>5. IsTail(new, q)
  BY <1>1, <1>2, <1>3, <1>4 DEF IsTail
<1>6. QED
  BY <1>1, <1>5 DEF new

(* What a step does not concern.                                           *)
objectVars == <<created, kind, id, proxy, id_deleted, resource>>

LEMMA SamePending ==
  ASSUME UNCHANGED <<created, kind, resource, s2c, display_queue>>
  PROVE  \A o : (Chosen(o)' <=> Chosen(o)) /\ (Pending(o)' <=> Pending(o))
BY DEF Chosen, Pending, Reports

LEMMA SameHolders ==
  ASSUME ObjectsSound, PendingUnique, Found, EntriesSound,
         UNCHANGED objectVars, UNCHANGED <<cmap, smap>>, \A o : Pending(o)' <=> Pending(o)
  PROVE  ObjectsSound' /\ PendingUnique' /\ Found' /\ EntriesSound'
<1>1. UNCHANGED <<created, kind, id, proxy, id_deleted, resource, cmap, smap>>
  BY DEF objectVars
<1>2. \A o : (Chosen(o)' <=> Chosen(o)) /\ (Offered(o)' <=> Offered(o))
  BY <1>1 DEF Chosen, Offered
<1>3. ObjectsSound' /\ PendingUnique' /\ Found'
  BY <1>1, <1>2 DEF ObjectsSound, PendingUnique, Found
<1>4. \A i, e : (ClientEntry(i, e)' <=> ClientEntry(i, e))
                /\ (ServerEntry(i, e)' <=> ServerEntry(i, e))
  BY <1>1 DEF ClientEntry, ServerEntry
<1>5. QED
  BY <1>1, <1>3, <1>4 DEF EntriesSound

LEMMA SameRequests ==
  ASSUME RequestsSound, UNCHANGED objectVars, UNCHANGED c2s
  PROVE  RequestsSound'
BY DEF RequestsSound, RequestSound, InOrder, Chosen, objectVars

LEMMA SameEvents ==
  ASSUME EventsSound, DisplayEventsSound, UNCHANGED objectVars, UNCHANGED <<s2c, display_queue>>
  PROVE  EventsSound' /\ DisplayEventsSound'
<1>1. UNCHANGED <<created, kind, id, proxy, id_deleted, resource>>
  BY DEF objectVars
<1>2. \A m, n : (EventSound(m)' <=> EventSound(m)) /\ (EventsInOrder(m, n)' <=> EventsInOrder(m, n))
  BY <1>1 DEF EventSound, SentFor, EventsInOrder, Chosen, Offered
<1>3. EventsSound'
  BY <1>1, <1>2 DEF EventsSound, Reports, Chosen
<1>4. DisplayEventsSound'
  BY <1>1 DEF DisplayEventsSound, Reports, Chosen
<1>5. QED
  BY <1>3, <1>4

(* No event comes or goes, and what the old ones say still holds.          *)
LEMMA EventsKept ==
  ASSUME EventsSound, DisplayEventsSound, Types, Display \notin Objects,
         UNCHANGED <<s2c, display_queue>>,
         \A n \in Messages : EventSound(n) => EventSound(n)',
         \A p \in 1..created :
           /\ Chosen(p)' <=> Chosen(p)
           /\ id'[p] = id[p]
           /\ Chosen(p) /\ resource[p] # "none" => resource'[p] = resource[p],
         Chosen(Display)' <=> Chosen(Display)
  PROVE  EventsSound' /\ DisplayEventsSound'
<1>1. \A k \in DOMAIN s2c : s2c[k] \in Messages
  BY ElementOfSeq, LenProperties DEF Types
<1>2. ASSUME NEW k \in DOMAIN s2c
      PROVE  EventSound(s2c[k])'
  <2>1. PICK w \in Messages : w = s2c[k] /\ s2c'[k] = w
    BY <1>1
  <2>2. EventSound(w)'
    BY <2>1 DEF EventsSound
  <2>3. QED
    BY <2>1, <2>2
<1>3. ASSUME NEW k \in DOMAIN s2c, s2c[k].op # "delete_id", Chosen(s2c[k].obj)'
      PROVE  \/ resource'[s2c[k].obj] = "live"
             \/ \E j \in DOMAIN s2c : j > k /\ Reports(s2c, j, s2c[k].obj)
  <2>1. s2c[k].obj \in 1..created \/ s2c[k].obj = Display
    BY <1>3 DEF EventsSound, EventSound, SentFor
  <2>2. Chosen(s2c[k].obj)
    BY <1>3, <2>1
  <2>3. s2c[k].obj \in 1..created
    BY <2>2 DEF Chosen
  <2>4. \/ resource[s2c[k].obj] = "live"
        \/ \E j \in DOMAIN s2c : j > k /\ Reports(s2c, j, s2c[k].obj)
    BY <1>3, <2>2 DEF EventsSound
  <2>5. QED
    BY <2>2, <2>3, <2>4
<1>4. EventsSound'
  BY <1>2, <1>3 DEF EventsSound, Reports
<1>5. DisplayEventsSound'
  <2>1. \A k \in DOMAIN display_queue : LET p == display_queue[k].arg IN
          p \in 1..created /\ Chosen(p)' /\ id'[p] = id[p] /\ resource'[p] = resource[p]
    BY DEF DisplayEventsSound, Chosen
  <2>2. QED
    BY <2>1 DEF DisplayEventsSound, Reports
<1>6. QED
  BY <1>4, <1>5

(* An event is sent, which may report that an object is destroyed.         *)
LEMMA EventSent ==
  ASSUME EventsSound, DisplayEventsSound, Types, Display \notin (1..created)',
         NEW m \in Messages, s2c' = Append(s2c, m), UNCHANGED display_queue,
         \A n \in Messages : EventSound(n) => EventSound(n)',
         EventSound(m)',
         \A k \in DOMAIN s2c : EventsInOrder(s2c[k], m),
         m.op # "delete_id" /\ Chosen(m.obj)' => resource'[m.obj] = "live",
         \A p \in 1..created :
           /\ Chosen(p)' <=> Chosen(p)
           /\ id'[p] = id[p]
           /\ resource[p] = "live" =>
                resource'[p] = "live" \/ (m.op = "delete_id" /\ m.arg = p)
           /\ resource[p] = "destroyed" => resource'[p] = "destroyed",
         m.op = "delete_id" => \A k \in DOMAIN display_queue : display_queue[k].arg # m.arg
  PROVE  EventsSound' /\ DisplayEventsSound'
<1>1. IsAppended(s2c', s2c, m) /\ Len(s2c) \in Nat
  BY AppendedIs, LenProperties DEF Types
<1>2. \A k \in DOMAIN s2c : s2c[k] \in Messages
  BY ElementOfSeq, LenProperties DEF Types
<1>3. (\A k \in DOMAIN s2c : EventSound(s2c[k]))'
  <2> SUFFICES ASSUME NEW k \in DOMAIN s2c'
               PROVE  EventSound(s2c[k])'
    OBVIOUS
  <2>1. CASE k \in DOMAIN s2c
    <3>1. PICK w \in Messages : w = s2c[k] /\ s2c'[k] = w
      BY <1>1, <1>2, <2>1 DEF IsAppended
    <3>2. EventSound(w)'
      BY <2>1, <3>1 DEF EventsSound
    <3>3. QED
      BY <3>1, <3>2
  <2>2. CASE k = Len(s2c) + 1
    <3>1. s2c'[k] = m
      BY <1>1, <2>2 DEF IsAppended
    <3>2. QED
      BY <3>1
  <2>3. QED
    BY <1>1, <2>1, <2>2 DEF IsAppended
<1>4. \A j, k \in DOMAIN s2c' : j < k => EventsInOrder(s2c'[j], s2c'[k])
  BY <1>1 DEF IsAppended, EventsSound
<1>5. ASSUME NEW k \in DOMAIN s2c', s2c'[k].op # "delete_id", Chosen(s2c[k].obj)'
      PROVE  \/ resource'[s2c'[k].obj] = "live"
             \/ \E j \in DOMAIN s2c' : j > k /\ Reports(s2c', j, s2c'[k].obj)
  <2>1. CASE k = Len(s2c) + 1
    <3>1. s2c'[k] = m
      BY <1>1, <2>1 DEF IsAppended
    <3>2. QED
      BY <1>5, <3>1
  <2>2. CASE k \in DOMAIN s2c
    <3>1. PICK p : p = s2c[k].obj
      OBVIOUS
    <3>2. s2c'[k] = s2c[k] /\ k \in Nat /\ k < Len(s2c) + 1
      BY <1>1, <2>2 DEF IsAppended
    <3>3. p \in 1..created \/ p = Display
      BY <1>5, <2>2, <3>1, <3>2 DEF EventsSound, EventSound, SentFor
    <3>4. Chosen(p)'
      BY <1>5, <3>1, <3>2
    <3>5. p \in 1..created /\ Chosen(p)
      BY <3>3, <3>4 DEF Chosen
    <3>6. \/ resource[p] = "live"
          \/ \E j \in DOMAIN s2c : j > k /\ Reports(s2c, j, p)
      BY <1>5, <2>2, <3>1, <3>2, <3>5 DEF EventsSound
    <3>7. CASE resource[p] = "live"
      <4>1. CASE m.op = "delete_id" /\ m.arg = p
        <5>1. Len(s2c) + 1 > k /\ Reports(s2c', Len(s2c) + 1, p)
          BY <1>1, <3>2, <4>1 DEF IsAppended, Reports
        <5>2. QED
          BY <3>1, <3>2, <5>1 DEF Reports
      <4>2. QED
        BY <3>1, <3>2, <3>5, <3>7, <4>1
    <3>8. CASE \E j \in DOMAIN s2c : j > k /\ Reports(s2c, j, p)
      BY <1>1, <3>1, <3>2, <3>8 DEF IsAppended, Reports
    <3>9. QED
      BY <3>6, <3>7, <3>8
  <2>3. QED
    BY <1>1, <2>1, <2>2 DEF IsAppended
<1>6. EventsSound'
  BY <1>3, <1>4, <1>5 DEF EventsSound
<1>7. DisplayEventsSound'
  <2>1. ASSUME NEW k \in DOMAIN display_queue
        PROVE  LET c == display_queue[k] IN
                 /\ c.op = "delete_id" /\ c.proxy = Display
                 /\ Chosen(c.arg)' /\ c.new = id'[c.arg] /\ resource'[c.arg] = "destroyed"
                 /\ \A j \in DOMAIN s2c' : ~Reports(s2c', j, c.arg)
    <3>1. PICK p : p = display_queue[k].arg
      OBVIOUS
    <3>2. Chosen(p) /\ resource[p] = "destroyed" /\ \A j \in DOMAIN s2c : ~Reports(s2c, j, p)
          /\ display_queue[k].new = id[p]
      BY <3>1 DEF DisplayEventsSound
    <3>3. p \in 1..created
      BY <3>2 DEF Chosen
    <3>4. ASSUME NEW j \in DOMAIN s2c'
          PROVE  ~Reports(s2c', j, p)
      <4>1. CASE j \in DOMAIN s2c
        BY <1>1, <3>2, <4>1 DEF IsAppended, Reports
      <4>2. CASE j = Len(s2c) + 1
        BY <1>1, <3>1, <4>2 DEF IsAppended, Reports
      <4>3. QED
        BY <1>1, <4>1, <4>2 DEF IsAppended
    <3>5. QED
      BY <3>1, <3>2, <3>3, <3>4 DEF DisplayEventsSound
  <2>2. QED
    BY <2>1 DEF DisplayEventsSound
<1>8. QED
  BY <1>6, <1>7

(* An event is read: it is discarded, or waits in one of the queues.       *)
LEMMA EventRead ==
  ASSUME EventsSound, DisplayEventsSound, Types, s2c # << >>, s2c' = Tail(s2c),
         UNCHANGED <<created, kind, id, resource>>,
         NEW m, m = Head(s2c),
         \A n \in Messages : EventSound(n) /\ EventsInOrder(m, n) => EventSound(n)',
         NEW c \in Closures,
         IF m.op # "delete_id" THEN display_queue' = display_queue
         ELSE /\ display_queue' = Append(display_queue, c)
              /\ c.op = "delete_id" /\ c.proxy = Display /\ c.new = m.new /\ c.arg = m.arg
  PROVE  EventsSound' /\ DisplayEventsSound' /\ \A o : Pending(o)' <=> Pending(o)
<1>1. IsTail(s2c', s2c) /\ m = s2c[1] /\ 1 \in DOMAIN s2c
  BY TailIs DEF Types, IsTail
<1>2. \A k \in DOMAIN s2c : s2c[k] \in Messages
  BY ElementOfSeq, LenProperties DEF Types
<1>c. \A p : Chosen(p)' <=> Chosen(p)
  BY DEF Chosen
<1>3. (\A k \in DOMAIN s2c : EventSound(s2c[k]))'
  <2> SUFFICES ASSUME NEW k \in DOMAIN s2c'
               PROVE  EventSound(s2c[k])'
    OBVIOUS
  <2>1. PICK w \in Messages : w = s2c[k + 1] /\ s2c'[k] = w
    BY <1>1, <1>2 DEF IsTail
  <2>2. k \in Nat /\ k >= 1 /\ k + 1 \in DOMAIN s2c /\ 1 < k + 1
    BY <1>1 DEF IsTail
  <2>3. EventSound(w) /\ EventsInOrder(m, w)
    BY <1>1, <2>1, <2>2 DEF EventsSound
  <2>4. EventSound(w)'
    BY <2>3
  <2>5. QED
    BY <2>1, <2>4
<1>4. ASSUME NEW j \in DOMAIN s2c', NEW k \in DOMAIN s2c', j < k
      PROVE  EventsInOrder(s2c'[j], s2c'[k])
  <2>1. /\ j + 1 \in DOMAIN s2c /\ k + 1 \in DOMAIN s2c /\ j + 1 < k + 1
        /\ s2c'[j] = s2c[j + 1] /\ s2c'[k] = s2c[k + 1]
    BY <1>1, <1>4 DEF IsTail
  <2>2. QED
    BY <2>1 DEF EventsSound
<1>5. ASSUME NEW k \in DOMAIN s2c', s2c'[k].op # "delete_id", Chosen(s2c'[k].obj)
      PROVE  \/ resource'[s2c'[k].obj] = "live"
             \/ \E j \in DOMAIN s2c' : j > k /\ Reports(s2c', j, s2c'[k].obj)
  <2>1. k \in Nat /\ k >= 1 /\ k + 1 \in DOMAIN s2c /\ s2c'[k] = s2c[k + 1]
    BY <1>1 DEF IsTail
  <2>2. \/ resource[s2c'[k].obj] = "live"
        \/ \E j \in DOMAIN s2c : j > k + 1 /\ Reports(s2c, j, s2c'[k].obj)
    BY <1>5, <2>1 DEF EventsSound
  <2>3. ASSUME NEW j \in DOMAIN s2c, j > k + 1, Reports(s2c, j, s2c'[k].obj)
        PROVE  j - 1 \in DOMAIN s2c' /\ j - 1 > k /\ Reports(s2c', j - 1, s2c'[k].obj)
    <3>1. j \in Nat /\ j # 1
      BY <1>1, <2>1, <2>3 DEF IsTail
    <3>2. j - 1 \in DOMAIN s2c' /\ s2c'[j - 1] = s2c[j] /\ j - 1 > k
      BY <1>1, <2>1, <2>3, <3>1 DEF IsTail
    <3>3. QED
      BY <2>3, <3>2 DEF Reports
  <2>4. QED
    BY <2>2, <2>3
<1>6. EventsSound'
  BY <1>3, <1>4, <1>5, <1>c DEF EventsSound
<1>7. \A p : (\E j \in DOMAIN s2c' : Reports(s2c', j, p)) <=>
             \E j \in DOMAIN s2c : j # 1 /\ Reports(s2c, j, p)
  <2>1. ASSUME NEW p, NEW j \in DOMAIN s2c', Reports(s2c', j, p)
        PROVE  j + 1 \in DOMAIN s2c /\ j + 1 # 1 /\ Reports(s2c, j + 1, p)
    BY <1>1, <2>1 DEF IsTail, Reports
  <2>2. ASSUME NEW p, NEW j \in DOMAIN s2c, j # 1, Reports(s2c, j, p)
        PROVE  j - 1 \in DOMAIN s2c' /\ Reports(s2c', j - 1, p)
    BY <1>1, <2>2 DEF IsTail, Reports
  <2>3. QED
    BY <2>1, <2>2
<1>8. CASE m.op # "delete_id"
  <2>1. \A p : ~Reports(s2c, 1, p)
    BY <1>1, <1>8 DEF Reports
  <2>2. \A p : (\E j \in DOMAIN s2c' : Reports(s2c', j, p)) <=>
               \E j \in DOMAIN s2c : Reports(s2c, j, p)
    BY <1>7, <2>1
  <2>3. \A p : Pending(p)' <=> Pending(p)
    BY <1>8, <1>c, <2>2 DEF Pending, Reports
  <2>4. DisplayEventsSound'
    BY <1>8, <1>c, <2>2 DEF DisplayEventsSound
  <2>5. QED
    BY <1>6, <2>3, <2>4
<1>9. CASE m.op = "delete_id"
  <2>1. display_queue' = Append(display_queue, c) /\ c.op = "delete_id" /\ c.proxy = Display
        /\ c.new = m.new /\ c.arg = m.arg
    BY <1>9
  <2>2. IsAppended(display_queue', display_queue, c) /\ Len(display_queue) \in Nat
    BY <2>1, AppendedIs, LenProperties DEF Types
  <2>3. \A p : Reports(s2c, 1, p) <=> p = m.arg
    BY <1>1, <1>9 DEF Reports
  <2>4. \A p : (\E j \in DOMAIN display_queue' : Reports(display_queue', j, p)) <=>
               p = c.arg \/ \E j \in DOMAIN display_queue : Reports(display_queue, j, p)
    BY <2>1, <2>2 DEF IsAppended, Reports
  <2>5. \A p : Pending(p)' <=> Pending(p)
    <3>1. \A p : (\E j \in DOMAIN s2c : Reports(s2c, j, p)) <=>
                 p = m.arg \/ \E j \in DOMAIN s2c' : Reports(s2c', j, p)
      BY <1>1, <1>7, <2>3
    <3>2. \A p : Pending(p)' <=>
            /\ Chosen(p)
            /\ \/ resource[p] # "destroyed"
               \/ \E j \in DOMAIN s2c' : Reports(s2c', j, p)
               \/ \E j \in DOMAIN display_queue' : Reports(display_queue', j, p)
      BY <1>c DEF Pending
    <3>3. QED
      BY <2>1, <2>4, <3>1, <3>2 DEF Pending
  <2>6. /\ Chosen(m.arg) /\ m.new = id[m.arg] /\ resource[m.arg] = "destroyed"
    BY <1>1, <1>9 DEF EventsSound, EventSound
  <2>7. \A j \in DOMAIN s2c' : ~Reports(s2c', j, m.arg)
    <3>1. ASSUME NEW j \in DOMAIN s2c, j # 1 PROVE ~Reports(s2c, j, m.arg)
      <4>1. j \in Nat /\ 1 < j
        <5>1. j \in Nat /\ j - 1 \in DOMAIN s2c'
          BY <1>1, <3>1 DEF IsTail
        <5>2. j - 1 >= 1
          BY <1>1, <5>1 DEF IsTail
        <5>3. QED
          BY <5>1, <5>2
      <4>2. EventsInOrder(s2c[1], s2c[j])
        BY <1>1, <4>1 DEF EventsSound
      <4>3. QED
        BY <1>1, <1>9, <4>2 DEF EventsInOrder, Reports
    <3>2. QED
      BY <1>7, <3>1
  <2>8. ASSUME NEW k \in DOMAIN display_queue
        PROVE  /\ display_queue[k].arg # m.arg
               /\ \A j \in DOMAIN s2c' : ~Reports(s2c', j, display_queue[k].arg)
    <3>1. \A j \in DOMAIN s2c : ~Reports(s2c, j, display_queue[k].arg)
      BY DEF DisplayEventsSound
    <3>2. QED
      BY <1>1, <1>7, <2>3, <3>1
  <2>9. DisplayEventsSound'
    <3>1. ASSUME NEW k \in DOMAIN display_queue'
          PROVE  LET d == display_queue'[k] IN
                   /\ d.op = "delete_id" /\ d.proxy = Display
                   /\ Chosen(d.arg) /\ d.new = id[d.arg] /\ resource[d.arg] = "destroyed"
                   /\ \A j \in DOMAIN s2c' : ~Reports(s2c', j, d.arg)
      <4>1. CASE k \in DOMAIN display_queue
        BY <2>2, <2>8, <4>1 DEF IsAppended, DisplayEventsSound
      <4>2. CASE k = Len(display_queue) + 1
        BY <2>1, <2>2, <2>6, <2>7, <4>2 DEF IsAppended
      <4>3. QED
        BY <2>2, <4>1, <4>2 DEF IsAppended
    <3>2. \A j, k \in DOMAIN display_queue' : j # k => display_queue'[j].arg # display_queue'[k].arg
      BY <2>1, <2>2, <2>8 DEF IsAppended, DisplayEventsSound
    <3>3. QED
      BY <1>c, <3>1, <3>2 DEF DisplayEventsSound
  <2>10. QED
    BY <1>6, <2>5, <2>9
<1>10. QED
  BY <1>8, <1>9

(* A request is sent.                                                      *)
LEMMA RequestSent ==
  ASSUME Types, RequestsSound, NEW m \in Messages, c2s' = Append(c2s, m),
         \A n \in Messages : RequestSound(n) => RequestSound(n)',
         RequestSound(m)',
         \A k \in DOMAIN c2s : InOrder(c2s[k], m),
         \A o \in (1..created)' : Chosen(o)' /\ resource'[o] = "none" =>
           \/ o \in 1..created /\ Chosen(o) /\ resource[o] = "none"
           \/ m.op = "create" /\ m.arg = o
  PROVE  RequestsSound'
<1>1. IsAppended(c2s', c2s, m)
  BY AppendedIs DEF Types
<1>2. \A k \in DOMAIN c2s : c2s[k] \in Messages
  BY ElementOfSeq, LenProperties DEF Types
<1>3. (\A k \in DOMAIN c2s : RequestSound(c2s[k]))'
  <2> SUFFICES ASSUME NEW k \in DOMAIN c2s'
               PROVE  RequestSound(c2s[k])'
    OBVIOUS
  <2>1. CASE k \in DOMAIN c2s
    <3>1. c2s'[k] = c2s[k]
      BY <1>1, <2>1 DEF IsAppended
    <3> DEFINE n == c2s[k]
    <3>2. PICK w \in Messages : w = n /\ c2s'[k] = w
      BY <1>2, <2>1, <3>1
    <3>3. RequestSound(w)'
      BY <2>1, <3>2 DEF RequestsSound
    <3>4. QED
      BY <3>2, <3>3
  <2>2. CASE k = Len(c2s) + 1
    <3>1. c2s'[k] = m
      BY <1>1, <2>2 DEF IsAppended
    <3>2. QED
      BY <3>1
  <2>3. QED
    BY <1>1, <2>1, <2>2 DEF IsAppended
<1>4. \A j, k \in DOMAIN c2s' : j < k => InOrder(c2s'[j], c2s'[k])
  <2>1. Len(c2s) \in Nat
    BY LenProperties DEF Types
  <2>2. QED
    BY <1>1, <2>1 DEF IsAppended, RequestsSound
<1>5. \A o \in (1..created)' : Chosen(o)' /\ resource'[o] = "none" =>
        \E k \in DOMAIN c2s' : c2s'[k].op = "create" /\ c2s'[k].arg = o
  <2> SUFFICES ASSUME NEW o \in (1..created)', Chosen(o)', resource'[o] = "none"
               PROVE  \E k \in DOMAIN c2s' : c2s'[k].op = "create" /\ c2s'[k].arg = o
    OBVIOUS
  <2>1. CASE m.op = "create" /\ m.arg = o
    BY <1>1, <2>1 DEF IsAppended
  <2>2. CASE o \in 1..created /\ Chosen(o) /\ resource[o] = "none"
    <3>1. PICK k \in DOMAIN c2s : c2s[k].op = "create" /\ c2s[k].arg = o
      BY <2>2 DEF RequestsSound
    <3>2. k \in DOMAIN c2s' /\ c2s'[k] = c2s[k]
      BY <1>1 DEF IsAppended
    <3>3. QED
      BY <3>1, <3>2
  <2>3. QED
    BY <2>1, <2>2
<1>6. QED
  BY <1>3, <1>4, <1>5 DEF RequestsSound

LEMMA RequestsKept ==
  ASSUME Types, RequestsSound, UNCHANGED c2s,
         \A n \in Messages : RequestSound(n) => RequestSound(n)',
         \A o \in (1..created)' : Chosen(o)' /\ resource'[o] = "none" =>
           o \in 1..created /\ Chosen(o) /\ resource[o] = "none"
  PROVE  RequestsSound'
<1>1. \A k \in DOMAIN c2s : c2s[k] \in Messages
  BY ElementOfSeq, LenProperties DEF Types
<1>2. ASSUME NEW k \in DOMAIN c2s
      PROVE  RequestSound(c2s[k])'
  <2>1. PICK w \in Messages : w = c2s[k] /\ c2s'[k] = w
    BY <1>1
  <2>2. RequestSound(w)'
    BY <2>1 DEF RequestsSound
  <2>3. QED
    BY <2>1, <2>2
<1>3. QED
  BY <1>2 DEF RequestsSound

(* A request is read.                                                      *)
LEMMA RequestRead ==
  ASSUME Types, RequestsSound, c2s # << >>, c2s' = Tail(c2s), NEW m, m = Head(c2s),
         \A n \in Messages : RequestSound(n) /\ InOrder(m, n) => RequestSound(n)',
         \A o \in (1..created)' : Chosen(o)' /\ resource'[o] = "none" =>
           /\ o \in 1..created /\ Chosen(o) /\ resource[o] = "none"
           /\ m.op = "create" => m.arg # o
  PROVE  RequestsSound'
<1>1. IsTail(c2s', c2s) /\ m = c2s[1] /\ 1 \in DOMAIN c2s
  BY TailIs DEF Types, IsTail
<1>2. \A k \in DOMAIN c2s : c2s[k] \in Messages
  BY ElementOfSeq, LenProperties DEF Types
<1>3. (\A k \in DOMAIN c2s : RequestSound(c2s[k]))'
  <2> SUFFICES ASSUME NEW k \in DOMAIN c2s'
               PROVE  RequestSound(c2s[k])'
    OBVIOUS
  <2>1. PICK w \in Messages : w = c2s[k + 1] /\ c2s'[k] = w
    BY <1>1, <1>2 DEF IsTail
  <2>2. k \in Nat /\ k >= 1 /\ k + 1 \in DOMAIN c2s /\ 1 < k + 1
    BY <1>1 DEF IsTail
  <2>3. RequestSound(w) /\ InOrder(m, w)
    BY <1>1, <2>1, <2>2 DEF RequestsSound
  <2>4. RequestSound(w)'
    BY <2>3
  <2>5. QED
    BY <2>1, <2>4
<1>4. ASSUME NEW j \in DOMAIN c2s', NEW k \in DOMAIN c2s', j < k
      PROVE  InOrder(c2s'[j], c2s'[k])
  <2>1. /\ j + 1 \in DOMAIN c2s /\ k + 1 \in DOMAIN c2s /\ j + 1 < k + 1
        /\ c2s'[j] = c2s[j + 1] /\ c2s'[k] = c2s[k + 1]
    BY <1>1, <1>4 DEF IsTail
  <2>2. QED
    BY <2>1 DEF RequestsSound
<1>5. ASSUME NEW o \in (1..created)', Chosen(o)', resource'[o] = "none"
      PROVE  \E k \in DOMAIN c2s' : c2s'[k].op = "create" /\ c2s'[k].arg = o
  <2>1. PICK k \in DOMAIN c2s : c2s[k].op = "create" /\ c2s[k].arg = o
    BY <1>5 DEF RequestsSound
  <2>2. k # 1
    BY <1>1, <1>5, <2>1
  <2>3. k - 1 \in DOMAIN c2s' /\ c2s'[k - 1] = c2s[k]
    BY <1>1, <2>2 DEF IsTail
  <2>4. QED
    BY <2>1, <2>3
<1>6. QED
  BY <1>3, <1>4, <1>5 DEF RequestsSound

(* A request on a live proxy comes after those for earlier holders of the  *)
(* id, and the server has the object under the id, or nothing.             *)
LEMMA UseIsSound ==
  ASSUME IdsInv, NEW o \in 1..created, proxy[o] = "live",
         NEW m, m.op \in Uses, m.obj = o, m.to = id[o]
  PROVE  /\ resource[o] = "destroyed" => kind[o] \in ServerDestroys
         /\ \A p \in 1..created : resource[p] = "live" /\ id[p] = m.to => p = o
         /\ \A k \in DOMAIN c2s : InOrder(c2s[k], m)
<1>1. Types /\ ObjectsSound /\ PendingUnique /\ Found /\ RequestsSound
  BY DEF IdsInv
<1>2. resource[o] = "destroyed" => kind[o] \in ServerDestroys
  BY <1>1 DEF ObjectsSound
<1>3. ASSUME NEW p \in 1..created, Chosen(p), resource[p] # "destroyed", id[p] = id[o]
      PROVE  p = o
  <2>1. Holds(o) /\ Holds(p)
    BY <1>3 DEF Holds, Pending
  <2>2. QED
    BY <1>1, <1>3, <2>1, OneHolder
<1>4. ASSUME NEW p \in 1..created, resource[p] = "live", id[p] = id[o]
      PROVE  p = o
  <2>1. CASE kind[p] # "offered"
    BY <1>3, <1>4, <2>1 DEF Chosen
  <2>2. CASE kind[p] = "offered"
    <3>1. kind[o] = "offered"
      BY <1>1, <1>4, <2>2, IdsOnSides, WlMapAssumption
    <3>2. resource[o] = "live"
      BY <1>1, <3>1, OfferedStays
    <3>3. QED
      BY <1>1, <1>4, <3>2, OneHolder
  <2>3. QED
    BY <2>1, <2>2
<1>5. ASSUME NEW k \in DOMAIN c2s
      PROVE  InOrder(c2s[k], m)
  <2>1. RequestSound(c2s[k])
    BY <1>1 DEF RequestsSound
  <2>2. ASSUME c2s[k].op = "create", m.to = c2s[k].new
        PROVE  m.obj = c2s[k].arg
    <3>1. Chosen(c2s[k].arg) /\ id[c2s[k].arg] = id[o] /\ resource[c2s[k].arg] = "none"
      BY <2>1, <2>2 DEF RequestSound, Uses
    <3>2. QED
      BY <1>3, <3>1 DEF Chosen
  <2>3. ASSUME c2s[k].op = "destroy"
        PROVE  m.obj # c2s[k].obj
    BY <2>1, <2>3 DEF RequestSound, Uses
  <2>4. QED
    BY <2>2, <2>3 DEF InOrder, Uses
<1>6. QED
  BY <1>2, <1>4, <1>5

LEMMA UseKeeps ==
  ASSUME IdsInv, NEW o \in 1..created, UseObject(o)
  PROVE  IdsInv'
<1> DEFINE m == Message("use", o, id[o], 0, NULL)
<1>1. /\ proxy[o] = "live" /\ c2s' = Append(c2s, m)
      /\ UNCHANGED <<cmap, smap, created, kind, id, proxy, id_deleted, refcount, resource, s2c,
                     display_queue, queue, failed>>
  BY DEF UseObject, Send, clientVars, serverVars
<1>2. Types /\ ObjectsSound /\ Found /\ PendingUnique
  BY DEF IdsInv
<1>3. m \in Messages /\ m.op = "use" /\ m.obj = o /\ m.to = id[o]
  BY IdsOnSides, <1>2 DEF Message, Messages, Types
<1> HIDE DEF m
<1>4. RequestSound(m) /\ \A k \in DOMAIN c2s : InOrder(c2s[k], m)
  <2>1. m.op \in Uses
    BY <1>3 DEF Uses
  <2>2. QED
    BY <1>1, <1>3, <2>1, UseIsSound DEF RequestSound
<1>5. Types'
  BY <1>1, <1>2, <1>3, AppendedIs DEF Types
<1>6. RequestsSound'
  <2>1. UNCHANGED <<created, kind, id, proxy, id_deleted, resource>>
    BY <1>1
  <2>2. \A n : RequestSound(n)' <=> RequestSound(n)
    BY <2>1 DEF RequestSound, Chosen
  <2>3. \A p : Chosen(p)' <=> Chosen(p)
    BY <2>1 DEF Chosen
  <2>4. QED
    BY <1>1, <1>2, <1>3, <1>4, <2>1, <2>2, <2>3, RequestSent DEF IdsInv
<1>7. QED
  <2>1. \A p : Pending(p)' <=> Pending(p)
    BY <1>1, SamePending
  <2>2. QED
    BY <1>1, <1>5, <1>6, <2>1, SameHolders, SameEvents DEF IdsInv, objectVars

(* The proxy of a request that creates an object gets an id nobody has.     *)
LEMMA ProxyCreated ==
  ASSUME IdsInv, NEW k \in {"plain", "callback"}, CreateObject(k), NEW o, o = created + 1,
         NEW i, i = wl_map_insert_new(cmap, 0, o).id
  PROVE  /\ created \in Nat /\ o \in Objects /\ o \notin 1..created /\ 1..created \subseteq Objects
         /\ \A p : p \in (1..created)' <=> p \in 1..created \/ p = o
         /\ i \in Nat /\ i \in 2..MaxObjects /\ i < ServerStart /\ SideOf(i) = "client"
         /\ Has(cmap, i) => At(cmap, i).data = NULL /\ At(cmap, i).flags = 0
         /\ cmap' \in Maps /\ cmap'.side = "client" /\ Has(cmap', i) /\ At(cmap', i) = Entry(o, 0)
         /\ SameBut(cmap, cmap', i) /\ FreeListOff(cmap', 3, i)
         /\ \A p \in 1..created : Holds(p) => id[p] # i
<1>b. PICK r : r = wl_map_insert_new(cmap, 0, o)
  OBVIOUS
<1>1. Types /\ ObjectsSound /\ Found /\ EntriesSound
  BY DEF IdsInv
<1>2. created < MaxCreated /\ i # 0 /\ cmap' = r.map /\ created' = o /\ i = r.id
  BY <1>b DEF CreateObject
<1>3. /\ created \in Nat /\ o \in Objects /\ o \notin 1..created /\ 1..created \subseteq Objects
      /\ \A p : p \in (1..created)' <=> p \in 1..created \/ p = o
  <2>1. MaxCreated \in Nat /\ created \in 0..MaxCreated /\ created < MaxCreated /\ created' = o
    BY <1>1, <1>2, ObjectIdsAssumption DEF Types
  <2>2. QED
    BY <2>1 DEF Objects
<1>4. IsNewId(cmap', cmap, i, o, 3)
  <2>1. cmap \in Maps /\ cmap.side = "client" /\ FreeListIn(cmap, 3)
    BY <1>1 DEF Types, EntriesSound
  <2>2. 3 <= Len(cmap.entries[cmap.side]) + 1
    <3>1. SideOf(1) = "client" /\ IndexOf(1) = 1
      BY WlMapAssumption DEF SideOf, IndexOf
    <3>2. 1 < Len(cmap.entries["client"])
      BY <1>1, <3>1 DEF EntriesSound, Has, DisplayId
    <3>3. Len(cmap.entries["client"]) \in Nat
      BY <2>1, EntriesOf DEF Sides
    <3>4. QED
      BY <2>1, <3>2, <3>3
  <2>3. o \in Objects \cup {NULL, Display}
    BY <1>3
  <2>4. QED
    BY <1>2, <1>b, <2>1, <2>2, <2>3, InsertNew
<1>5. /\ i \in Nat /\ i \in 2..MaxObjects /\ i < ServerStart /\ SideOf(i) = "client"
      /\ Has(cmap, i) => At(cmap, i).data = NULL /\ At(cmap, i).flags = 0
      /\ cmap' \in Maps /\ cmap'.side = "client" /\ Has(cmap', i) /\ At(cmap', i) = Entry(o, 0)
      /\ SameBut(cmap, cmap', i) /\ FreeListOff(cmap', 3, i)
  <2>1. cmap.side = "client"
    BY <1>1 DEF EntriesSound
  <2>2. i \in Nat /\ i = IndexOf(i) /\ IndexOf(i) + 1 >= 3 /\ IndexOf(i) <= MaxObjects
    BY <1>4, <2>1, IdsHavePlaces, WlMapAssumption DEF IsNewId, Base
  <2>3. QED
    BY <1>4, <2>1, <2>2, WlMapAssumption DEF IsNewId, Stored
<1>6. \A p \in 1..created : Holds(p) => id[p] # i
  <2> SUFFICES ASSUME NEW p \in 1..created, Holds(p), id[p] = i
               PROVE  FALSE
    OBVIOUS
  <2>1. CASE proxy[p] = "live"
    <3>1. Has(cmap, i) /\ At(cmap, i) = Entry(p, 0)
      BY <1>1, <2>1 DEF Found
    <3>2. At(cmap, i).data = p /\ p # NULL
      BY <1>3, <3>1, EntryIsEntry, ObjectIdsAssumption
    <3>3. QED
      BY <1>5, <3>1, <3>2
  <2>2. CASE proxy[p] # "live"
    <3>1. Pending(p) /\ proxy[p] = "destroyed"
      BY <1>1, <1>3, <2>2 DEF Holds, Pending, ObjectsSound, Types
    <3>2. Has(cmap, i) /\ At(cmap, i) = Entry(NULL, ZOMBIE)
      BY <1>1, <3>1 DEF Found
    <3>3. At(cmap, i).flags = ZOMBIE
      BY <3>2, EntryIsEntry
    <3>4. QED
      BY <1>5, <3>2, <3>3 DEF ZOMBIE
  <2>3. QED
    BY <2>1, <2>2
<1>7. QED
  BY <1>3, <1>5, <1>6

LEMMA CreateKeeps ==
  ASSUME IdsInv, NEW k \in {"plain", "callback"}, CreateObject(k)
  PROVE  IdsInv'
<1>a. PICK o : o = created + 1
  OBVIOUS
<1>b. PICK r : r = wl_map_insert_new(cmap, 0, o)
  OBVIOUS
<1>c. PICK i : i = r.id
  OBVIOUS
<1>d. PICK m : m = Message("create", Display, DisplayId, i, o)
  OBVIOUS
<1>1. /\ Types /\ ObjectsSound /\ Found /\ PendingUnique /\ EntriesSound /\ RequestsSound
      /\ EventsSound /\ DisplayEventsSound
  BY DEF IdsInv
<1>2. /\ created < MaxCreated /\ i # 0 /\ cmap' = r.map /\ created' = o
      /\ kind' = [kind EXCEPT ![o] = k] /\ id' = [id EXCEPT ![o] = i]
      /\ proxy' = [proxy EXCEPT ![o] = "live"] /\ refcount' = [refcount EXCEPT ![o] = 1]
      /\ c2s' = Append(c2s, m)
      /\ UNCHANGED <<smap, resource, id_deleted, s2c, display_queue, queue, failed>>
  BY <1>a, <1>b, <1>c, <1>d DEF CreateObject, Send, serverVars
<1>3. /\ created \in Nat /\ o \in Objects /\ o \notin 1..created /\ 1..created \subseteq Objects
      /\ \A p : p \in (1..created)' <=> p \in 1..created \/ p = o
  BY <1>a, <1>b, <1>c, ProxyCreated
<1>5. /\ i \in Nat /\ i \in 2..MaxObjects /\ i < ServerStart /\ SideOf(i) = "client"
      /\ Has(cmap, i) => At(cmap, i).data = NULL /\ At(cmap, i).flags = 0
      /\ cmap' \in Maps /\ cmap'.side = "client" /\ Has(cmap', i) /\ At(cmap', i) = Entry(o, 0)
      /\ SameBut(cmap, cmap', i) /\ FreeListOff(cmap', 3, i)
  BY <1>a, <1>b, <1>c, ProxyCreated
<1>6. \A p \in 1..created : Holds(p) => id[p] # i
  BY <1>a, <1>b, <1>c, ProxyCreated
<1>7. /\ kind'[o] = k /\ id'[o] = i /\ proxy'[o] = "live"
      /\ \A p \in 1..created : kind'[p] = kind[p] /\ id'[p] = id[p] /\ proxy'[p] = proxy[p]
      /\ \A p \in Objects : p # o => proxy'[p] = proxy[p]
  BY <1>1, <1>2, <1>3 DEF Types
<1>8. resource[o] = "none" /\ ~id_deleted[o]
  BY <1>1, <1>3, <1>a DEF ObjectsSound, Objects
<1>9. /\ \A p : Chosen(p)' <=> Chosen(p) \/ p = o
      /\ \A p : Offered(p)' <=> Offered(p)
      /\ \A p : Pending(p)' <=> Pending(p) \/ p = o
  <2>1. k # "offered" /\ resource[o] # "destroyed"
    BY <1>8
  <2>2. \A p : (Chosen(p)' <=> Chosen(p) \/ p = o) /\ (Offered(p)' <=> Offered(p))
    BY <1>3, <1>7, <2>1 DEF Chosen, Offered
  <2>3. \A p : Pending(p)' <=> Pending(p) \/ p = o
    BY <1>2, <2>1, <2>2 DEF Pending, Reports
  <2>4. QED
    BY <2>2, <2>3
<1>10. m \in Messages /\ m.op = "create" /\ m.obj = Display /\ m.to = DisplayId /\ m.new = i /\ m.arg = o
  BY <1>3, <1>5, <1>d DEF Message, Messages, DisplayId
<1>11. Types'
  <2>1. created' \in 0..MaxCreated
    BY <1>1, <1>2, <1>a, ObjectIdsAssumption DEF Types
  <2>2. c2s' \in Seq(Messages)
    BY <1>1, <1>2, <1>10, AppendedIs DEF Types
  <2>3. /\ kind' \in [Objects -> {"plain", "callback", "offered"}]
        /\ id' \in [Objects -> Nat]
        /\ proxy' \in [Objects -> {"none", "live", "destroyed"}]
        /\ refcount' \in [Objects -> Int]
    <3>1. i \in Nat /\ k \in {"plain", "callback", "offered"}
      BY <1>5
    <3>2. /\ kind \in [Objects -> {"plain", "callback", "offered"}] /\ id \in [Objects -> Nat]
          /\ proxy \in [Objects -> {"none", "live", "destroyed"}] /\ refcount \in [Objects -> Int]
      BY <1>1 DEF Types
    <3>3. kind' \in [Objects -> {"plain", "callback", "offered"}]
      BY <1>2, <3>1, <3>2
    <3>4. id' \in [Objects -> Nat]
      BY <1>2, <3>1, <3>2
    <3>e. refcount' \in [Objects -> Int]
      <4>1. PICK one \in Int : one = 1
        OBVIOUS
      <4>2. refcount' = [refcount EXCEPT ![o] = one]
        BY <1>2, <4>1
      <4>3. QED
        BY <3>2, <4>1, <4>2
    <3>5. proxy' \in [Objects -> {"none", "live", "destroyed"}]
      BY <1>2, <3>1, <3>2
    <3>6. QED
      BY <3>3, <3>4, <3>e, <3>5
  <2>4. QED
    BY <1>1, <1>2, <1>5, <2>1, <2>2, <2>3 DEF Types
<1>12. ObjectsSound'
  <2>1. \A p \in Objects : p > created' => p > created /\ p # o
    BY <1>2, <1>3, <1>a DEF Objects
  <2>2. \A p \in (1..created)' : p \in 1..created \/ p = o
    BY <1>3
  <2>3. \A p \in Objects : p > created' =>
          proxy'[p] = "none" /\ resource'[p] = "none" /\ ~id_deleted'[p]
    BY <1>1, <1>2, <1>7, <2>1 DEF ObjectsSound
  <2>4. \A p \in (1..created)' : resource'[p] = "destroyed" /\ proxy'[p] # "destroyed" =>
          kind'[p] \in ServerDestroys
    BY <1>1, <1>2, <1>7, <1>8, <2>2 DEF ObjectsSound
  <2>5. \A p \in (1..created)' : Chosen(p)' =>
          /\ id'[p] \in 2..MaxObjects /\ proxy'[p] # "none"
          /\ id_deleted'[p] => ~Pending(p)'
          /\ proxy'[p] = "live" /\ ~Pending(p)' => id_deleted'[p]
    BY <1>1, <1>2, <1>3, <1>5, <1>7, <1>8, <1>9, <2>2 DEF ObjectsSound
  <2>6. \A p \in (1..created)' : Offered(p)' =>
          /\ id'[p] \in ServerStart..(ServerStart + MaxObjects)
          /\ resource'[p] # "none" /\ ~id_deleted'[p]
    BY <1>1, <1>2, <1>7, <1>9 DEF ObjectsSound, Offered
  <2>7. QED
    BY <2>3, <2>4, <2>5, <2>6 DEF ObjectsSound
<1>13. PendingUnique'
  BY <1>1, <1>3, <1>6, <1>7, <1>9 DEF PendingUnique, Holds
<1>14. Found'
  <2> SUFFICES ASSUME NEW p \in (1..created)'
               PROVE  /\ proxy'[p] = "live" => Has(cmap', id'[p]) /\ At(cmap', id'[p]) = Entry(p, 0)
                      /\ Pending(p)' /\ proxy'[p] = "destroyed" =>
                           Has(cmap', id'[p]) /\ At(cmap', id'[p]) = Entry(NULL, ZOMBIE)
                      /\ resource'[p] = "live" =>
                           Has(smap', id'[p]) /\ At(smap', id'[p]) = Entry(p, 0)
    BY DEF Found
  <2>1. CASE p = o
    BY <1>2, <1>5, <1>7, <1>8, <2>1
  <2>2. CASE p \in 1..created
    <3>1. id[p] \in Nat
      BY <1>1, <2>2, IdsOnSides
    <3>2. p # o
      BY <1>3, <2>2
    <3>3. QED
      BY <1>1, <1>2, <1>5, <1>6, <1>7, <1>9, <2>2, <3>1, <3>2 DEF Found, Holds, SameBut
  <2>3. QED
    BY <1>3, <2>1, <2>2
<1>15. EntriesSound'
  <2>1. ASSUME NEW j \in Nat, Has(cmap', j)
        PROVE  ClientEntry(j, At(cmap, j))'
    <3>1. CASE j = i
      <4>1. At(cmap', j).data = o /\ At(cmap', j).flags = 0
        BY <1>3, <1>5, <3>1, EntryIsEntry
      <4>2. QED
        BY <1>3, <1>5, <1>7, <3>1, <4>1, ObjectIdsAssumption DEF ClientEntry, DisplayId, ZOMBIE
    <3>2. CASE j # i
      <4>1. Has(cmap, j) /\ At(cmap', j) = At(cmap, j)
        BY <1>5, <2>1, <3>2 DEF SameBut
      <4>2. ClientEntry(j, At(cmap, j))
        BY <1>1, <4>1 DEF EntriesSound
      <4>3. QED
        BY <1>3, <1>7, <1>9, <4>1, <4>2 DEF ClientEntry
    <3>3. QED
      BY <3>1, <3>2
  <2>2. ASSUME NEW j \in Nat, Has(smap', j)
        PROVE  ServerEntry(j, At(smap, j))'
    <3>1. Has(smap, j) /\ ServerEntry(j, At(smap, j))
      BY <1>1, <1>2, <2>2 DEF EntriesSound
    <3>2. QED
      BY <1>2, <1>3, <1>7, <3>1 DEF ServerEntry
  <2>3. cmap'.side = "client" /\ smap'.side = "server"
    BY <1>1, <1>2, <1>5 DEF EntriesSound
  <2>4. Has(cmap', DisplayId) /\ Has(smap', DisplayId)
    BY <1>1, <1>2, <1>5 DEF EntriesSound, SameBut, DisplayId
  <2>5. FreeListIn(cmap', 3) /\ FreeListIn(smap', 1)
    BY <1>1, <1>2, <1>5, FreeListOffIn DEF EntriesSound
  <2>6. QED
    BY <2>1, <2>2, <2>3, <2>4, <2>5 DEF EntriesSound
<1>16. RequestsSound'
  <2>1. ASSUME NEW n \in Messages, RequestSound(n)
        PROVE  RequestSound(n)'
    <3>1. CASE n.op = "create"
      <4>1. n.arg \in 1..created
        BY <2>1, <3>1 DEF RequestSound, Chosen, Uses
      <4>2. QED
        BY <1>2, <1>7, <1>9, <2>1, <3>1, <4>1 DEF RequestSound, Uses
    <3>2. CASE n.op \in Uses
      BY <1>2, <1>3, <1>7, <1>8, <2>1, <3>2 DEF RequestSound, Uses
    <3>3. QED
      BY <2>1, <3>1, <3>2 DEF RequestSound
  <2>2. RequestSound(m)'
    <3>1. Chosen(o)' /\ resource'[o] = "none"
      BY <1>2, <1>8, <1>9
    <3>2. QED
      BY <1>7, <1>10, <3>1 DEF RequestSound
  <2>3. \A n \in DOMAIN c2s : InOrder(c2s[n], m)
    BY <1>1, <1>3, <1>10 DEF InOrder, RequestsSound, RequestSound, Uses, Chosen
  <2>4. \A p \in (1..created)' : Chosen(p)' /\ resource'[p] = "none" =>
           \/ p \in 1..created /\ Chosen(p) /\ resource[p] = "none"
           \/ m.op = "create" /\ m.arg = p
    BY <1>2, <1>9, <1>10 DEF Chosen
  <2>5. QED
    BY <1>1, <1>2, <1>10, <2>1, <2>2, <2>3, <2>4, RequestSent
<1>17. EventsSound' /\ DisplayEventsSound'
  <2>1. ASSUME NEW n \in Messages, EventSound(n)
        PROVE  EventSound(n)'
    <3>1. SentFor(n) => SentFor(n)'
      BY <1>2, <1>3, <1>7, <1>9 DEF SentFor, Offered
    <3>2. n.arg \in 1..created => n.arg # o /\ proxy'[n.arg] = proxy[n.arg] /\ id'[n.arg] = id[n.arg]
      BY <1>3, <1>7
    <3>3. QED
      BY <1>2, <1>9, <2>1, <3>1, <3>2 DEF EventSound, Chosen, Offered
  <2>2. Display \notin Objects /\ Display # o
    BY <1>3, ObjectIdsAssumption
  <2>3. QED
    BY <1>1, <1>2, <1>3, <1>7, <1>9, <2>1, <2>2, EventsKept
<1>19. QED
  BY <1>11, <1>12, <1>13, <1>14, <1>15, <1>16, <1>17 DEF IdsInv

LEMMA DestroyProxyKeeps ==
  ASSUME IdsInv, NEW o \in 1..created, DestroyProxy(o)
  PROVE  IdsInv'
<1>a. PICK i : i = id[o]
  OBVIOUS
<1>b. PICK m : m = Message("destroy", o, id[o], 0, NULL)
  OBVIOUS
<1>1. /\ Types /\ ObjectsSound /\ Found /\ PendingUnique /\ EntriesSound /\ RequestsSound
      /\ EventsSound /\ DisplayEventsSound
  BY DEF IdsInv
<1>2. /\ proxy[o] = "live" /\ cmap' = MapWithoutProxy(o)
      /\ proxy' = [proxy EXCEPT ![o] = "destroyed"] /\ refcount' = [refcount EXCEPT ![o] = @ - 1]
      /\ c2s' = c2s \/ c2s' = Append(c2s, m)
      /\ UNCHANGED <<smap, created, kind, id, resource, id_deleted, s2c, display_queue, queue,
                     failed>>
  BY <1>b DEF DestroyProxy, Send, serverVars
<1>3. /\ o \in Objects /\ 1..created \subseteq Objects /\ i \in Nat /\ i > 1
      /\ o # NULL /\ NULL \notin Objects
  BY <1>1, <1>a, IdsOnSides, ObjectIdsAssumption DEF Types, Objects
<1>4. Has(cmap, i) /\ At(cmap, i) = Entry(o, 0) /\ At(cmap, i).data = o
  BY <1>1, <1>2, <1>3, <1>a, EntryIsEntry DEF Found
<1>5. /\ id_deleted[o] => Chosen(o) /\ ~Pending(o)
      /\ ~id_deleted[o] /\ kind[o] # "offered" => Pending(o)
      /\ kind[o] # "offered" => i < ServerStart /\ SideOf(i) = "client" /\ IndexOf(i) = i
      /\ kind[o] = "offered" => i >= ServerStart /\ SideOf(i) = "server" /\ ~Pending(o)
  <2>1. CASE kind[o] = "offered"
    BY <1>1, <1>a, <2>1, IdsOnSides DEF ObjectsSound, Offered, Pending, Chosen
  <2>2. CASE kind[o] # "offered"
    BY <1>1, <1>2, <1>a, <2>2, IdsOnSides DEF ObjectsSound, Chosen
  <2>3. QED
    BY <2>1, <2>2
<1>6. \E e : /\ Stored(cmap', cmap, i, e) /\ e.data = NULL /\ FreeListIn(cmap', 3)
             /\ e = Entry(NULL, ZOMBIE) \/ e.flags = 0
             /\ Pending(o) => e = Entry(NULL, ZOMBIE)
             /\ e.flags = ZOMBIE => Pending(o)
             /\ kind[o] = "offered" => e = Entry(NULL, 0)
  <2>1. cmap \in Maps /\ cmap.side = "client" /\ FreeListIn(cmap, 3)
    BY <1>1 DEF Types, EntriesSound
  <2>2. CASE id_deleted[o]
    <3>1. cmap' = wl_map_remove(cmap, i) /\ SideOf(i) = cmap.side /\ IndexOf(i) + 1 >= 3
      BY <1>2, <1>3, <1>5, <1>a, <2>1, <2>2 DEF MapWithoutProxy, Chosen
    <3>2. FreeListOff(cmap, 3, i)
      BY <1>3, <1>4, <2>1, <3>1, HeldIsOffList
    <3>3. Stored(cmap', cmap, i, FreeEntry(cmap.free_list)) /\ FreeListIn(cmap', 3)
      BY <1>3, <1>4, <2>1, <3>1, <3>2, Remove
    <3>4. FreeEntry(cmap.free_list).data = NULL /\ FreeEntry(cmap.free_list).flags = 0
      BY DEF FreeEntry
    <3>5. QED
      BY <1>5, <2>2, <3>3, <3>4 DEF Chosen, ZOMBIE
  <2>3. CASE ~id_deleted[o]
    <3>1. PICK z \in {0, ZOMBIE} : z = IF i < ServerStart THEN ZOMBIE ELSE 0
      OBVIOUS
    <3>2. cmap' = wl_map_insert_at(cmap, z, i, NULL)
      BY <1>2, <1>a, <2>3, <3>1 DEF MapWithoutProxy
    <3>3. IndexOf(i) <= Len(cmap.entries[SideOf(i)])
      <4>1. IndexOf(i) \in Nat /\ SideOf(i) \in Sides
        BY <1>3, IdsHavePlaces
      <4>2. Len(cmap.entries[SideOf(i)]) \in Nat
        BY <2>1, <4>1, EntriesOf
      <4>3. QED
        BY <1>4, <4>1, <4>2 DEF Has
    <3>4. ASSUME SideOf(i) = cmap.side
          PROVE  FreeListOff(cmap, 3, i)
      BY <1>3, <1>4, <2>1, <3>4, HeldIsOffList
    <3>5. /\ Stored(cmap', cmap, i, Entry(NULL, z))
          /\ \A low \in Nat :
               /\ SideOf(i) # cmap.side /\ FreeListIn(cmap, low) => FreeListIn(cmap', low)
               /\ SideOf(i) = cmap.side /\ FreeListOff(cmap, low, i) => FreeListIn(cmap', low)
      BY <1>3, <2>1, <3>2, <3>3, InsertAt
    <3>6. FreeListIn(cmap', 3)
      BY <2>1, <3>4, <3>5
    <3>7. Entry(NULL, z).data = NULL /\ Entry(NULL, z).flags = z
      BY DEF Entry
    <3>8. CASE kind[o] = "offered"
      <4>1. z = 0
        BY <1>3, <1>5, <3>1, <3>8, WlMapAssumption
      <4>2. QED
        BY <1>5, <3>5, <3>6, <3>7, <3>8, <4>1 DEF ZOMBIE
    <3>9. CASE kind[o] # "offered"
      <4>1. z = ZOMBIE
        BY <1>5, <3>1, <3>9
      <4>2. QED
        BY <1>5, <2>3, <3>5, <3>6, <3>7, <3>9, <4>1
    <3>10. QED
      BY <3>8, <3>9
  <2>4. QED
    BY <2>2, <2>3
<1>7. PICK e : /\ Stored(cmap', cmap, i, e) /\ e.data = NULL /\ FreeListIn(cmap', 3)
               /\ e = Entry(NULL, ZOMBIE) \/ e.flags = 0
               /\ Pending(o) => e = Entry(NULL, ZOMBIE)
               /\ e.flags = ZOMBIE => Pending(o)
               /\ kind[o] = "offered" => e = Entry(NULL, 0)
  BY <1>6
<1>8. /\ cmap' \in Maps /\ cmap'.side = cmap.side /\ Has(cmap', i) /\ At(cmap', i) = e
      /\ SameBut(cmap, cmap', i)
  BY <1>7 DEF Stored
<1>9. /\ proxy'[o] = "destroyed"
      /\ \A p \in Objects : p # o => proxy'[p] = proxy[p]
      /\ \A p : Chosen(p)' <=> Chosen(p)
      /\ \A p : Offered(p)' <=> Offered(p)
      /\ \A p : Pending(p)' <=> Pending(p)
  <2>1. proxy'[o] = "destroyed" /\ \A p \in Objects : p # o => proxy'[p] = proxy[p]
    BY <1>1, <1>2, <1>3 DEF Types
  <2>2. QED
    BY <1>2, <2>1, SamePending DEF Offered
<1>10. m \in Messages /\ m.op = "destroy" /\ m.obj = o /\ m.to = i
  BY <1>3, <1>a, <1>b DEF Message, Messages
<1>11. Types'
  <2>1. c2s' \in Seq(Messages)
    <3>1. c2s \in Seq(Messages) /\ m \in Messages
      BY <1>1, <1>10 DEF Types
    <3>2. Append(c2s, m) \in Seq(Messages)
      BY <3>1, AppendedIs
    <3>3. QED
      BY <1>2, <3>1, <3>2
  <2>2. proxy \in [Objects -> {"none", "live", "destroyed"}] /\ refcount \in [Objects -> Int]
    BY <1>1 DEF Types
  <2>3. proxy' \in [Objects -> {"none", "live", "destroyed"}]
    BY <1>2, <2>2
  <2>4. refcount' \in [Objects -> Int]
    <3>1. PICK n \in Int : n = refcount[o] - 1
      BY <1>3, <2>2
    <3>2. refcount' = [refcount EXCEPT ![o] = n]
      BY <1>2, <3>1
    <3>3. QED
      BY <2>2, <3>1, <3>2
  <2>5. QED
    BY <1>1, <1>2, <1>8, <2>1, <2>3, <2>4 DEF Types
<1>12. ObjectsSound'
  <2>1. o <= created
    BY <1>1 DEF Types
  <2>2. \A p \in Objects : p > created => p # o
    BY <1>1, <1>3, <2>1 DEF Types, Objects
  <2>3. QED
    BY <1>1, <1>2, <1>3, <1>5, <1>9, <2>2 DEF ObjectsSound
<1>13. PendingUnique'
  BY <1>1, <1>2, <1>9 DEF PendingUnique
<1>14. Found'
  <2> SUFFICES ASSUME NEW p \in 1..created
               PROVE  /\ proxy'[p] = "live" => Has(cmap', id[p]) /\ At(cmap', id[p]) = Entry(p, 0)
                      /\ Pending(p) /\ proxy'[p] = "destroyed" =>
                           Has(cmap', id[p]) /\ At(cmap', id[p]) = Entry(NULL, ZOMBIE)
                      /\ resource[p] = "live" => Has(smap, id[p]) /\ At(smap, id[p]) = Entry(p, 0)
    BY <1>2, <1>9 DEF Found
  <2>1. CASE p = o
    BY <1>1, <1>7, <1>8, <1>9, <1>a, <2>1 DEF Found
  <2>2. CASE p # o
    <3>1. Holds(p) => id[p] # i
      BY <1>1, <1>2, <1>a, <2>2, OneHolder DEF Holds
    <3>2. id[p] \in Nat
      BY <1>1, IdsOnSides
    <3>3. QED
      BY <1>1, <1>3, <1>8, <1>9, <2>2, <3>1, <3>2 DEF Found, Holds, SameBut
  <2>3. QED
    BY <2>1, <2>2
<1>15. EntriesSound'
  <2>1. ASSUME NEW j \in Nat, Has(cmap', j)
        PROVE  ClientEntry(j, At(cmap, j))'
    <3>1. CASE j = i
      <4>1. At(cmap', j) = e
        BY <1>8, <3>1
      <4>2. e.flags = ZOMBIE => \E p \in 1..created : Pending(p) /\ proxy'[p] = "destroyed" /\ id[p] = i
        BY <1>7, <1>9, <1>a
      <4>3. i >= ServerStart => e = Entry(NULL, 0)
        BY <1>5, <1>7, <1>3, WlMapAssumption
      <4>4. QED
        BY <1>2, <1>3, <1>7, <1>9, <3>1, <4>1, <4>2, <4>3 DEF ClientEntry, DisplayId
    <3>2. CASE j # i
      <4>1. Has(cmap, j) /\ At(cmap', j) = At(cmap, j)
        BY <1>8, <2>1, <3>2 DEF SameBut
      <4>2. ClientEntry(j, At(cmap, j))
        BY <1>1, <4>1 DEF EntriesSound
      <4>3. j > 1 /\ At(cmap, j).data # NULL => At(cmap, j).data # o
        BY <1>a, <3>2, <4>2 DEF ClientEntry
      <4>4. \A p \in 1..created : proxy[p] = "destroyed" => proxy'[p] = "destroyed"
        BY <1>2, <1>3, <1>9
      <4>5. QED
        BY <1>2, <1>3, <1>9, <4>1, <4>2, <4>3, <4>4 DEF ClientEntry
    <3>3. QED
      BY <3>1, <3>2
  <2>2. ASSUME NEW j \in Nat, Has(smap', j)
        PROVE  ServerEntry(j, At(smap, j))'
    <3>1. Has(smap, j) /\ ServerEntry(j, At(smap, j))
      BY <1>1, <1>2, <2>2 DEF EntriesSound
    <3>2. QED
      BY <1>2, <3>1 DEF ServerEntry
  <2>3. Has(cmap', DisplayId) /\ Has(smap', DisplayId)
    BY <1>1, <1>2, <1>3, <1>8 DEF EntriesSound, SameBut, DisplayId
  <2>4. QED
    BY <1>1, <1>2, <1>7, <1>8, <2>1, <2>2, <2>3 DEF EntriesSound
<1>16. RequestsSound'
  <2>1. ASSUME NEW n \in Messages, RequestSound(n)
        PROVE  RequestSound(n)'
    <3>1. CASE n.op = "create"
      BY <1>2, <1>9, <2>1, <3>1 DEF RequestSound, Uses
    <3>2. CASE n.op \in Uses
      BY <1>2, <1>3, <1>9, <2>1, <3>2 DEF RequestSound, Uses
    <3>3. QED
      BY <2>1, <3>1, <3>2 DEF RequestSound
  <2>2. m.op \in Uses
    BY <1>10 DEF Uses
  <2>3. /\ resource[o] = "destroyed" => kind[o] \in ServerDestroys
        /\ \A p \in 1..created : resource[p] = "live" /\ id[p] = m.to => p = o
        /\ \A k \in DOMAIN c2s : InOrder(c2s[k], m)
    BY <1>2, <1>10, <1>a, <2>2, UseIsSound
  <2>4. RequestSound(m)'
    BY <1>2, <1>9, <1>10, <1>a, <2>2, <2>3 DEF RequestSound
  <2>5. CASE c2s' = c2s
    BY <1>1, <1>2, <1>9, <2>1, <2>5, RequestsKept
  <2>6. CASE c2s' = Append(c2s, m)
    BY <1>1, <1>2, <1>9, <1>10, <2>1, <2>3, <2>4, <2>6, RequestSent
  <2>7. QED
    BY <1>2, <2>5, <2>6
<1>17. EventsSound' /\ DisplayEventsSound'
  <2>1. ASSUME NEW n \in Messages, EventSound(n)
        PROVE  EventSound(n)'
    <3>1. SentFor(n) => SentFor(n)'
      BY <1>2, <1>3, <1>9 DEF SentFor
    <3>2. n.arg \in 1..created /\ proxy[n.arg] = "none" => proxy'[n.arg] = "none"
      BY <1>2, <1>3, <1>9
    <3>3. QED
      BY <1>2, <1>9, <2>1, <3>1, <3>2 DEF EventSound, Chosen, Offered
  <2>2. Display \notin Objects
    BY ObjectIdsAssumption
  <2>3. QED
    BY <1>1, <1>2, <1>9, <2>1, <2>2, EventsKept
<1>18. QED
  BY <1>11, <1>12, <1>13, <1>14, <1>15, <1>16, <1>17 DEF IdsInv

-----------------------------------------------------------------------------
(* Events reach the client                                                 *)

LEMMA LookupIs ==
  ASSUME NEW m \in Maps, NEW i \in Nat
  PROVE  /\ wl_map_lookup(m, i) # NULL => Has(m, i) /\ At(m, i).data = wl_map_lookup(m, i)
         /\ wl_map_lookup_flags(m, i) # 0 => Has(m, i) /\ At(m, i).flags = wl_map_lookup_flags(m, i)
         /\ \A d, f : Has(m, i) /\ At(m, i) = Entry(d, f) =>
              wl_map_lookup(m, i) = d /\ wl_map_lookup_flags(m, i) = f
<1>1. InUse(m, i) <=> Has(m, i) /\ At(m, i).next = 0
  BY DEF InUse, Has, At, map_entry_is_free
<1>2. \A d, f : Entry(d, f).next = 0 /\ Entry(d, f).data = d /\ Entry(d, f).flags = f
  BY DEF Entry
<1>3. wl_map_lookup(m, i) = IF InUse(m, i) THEN At(m, i).data ELSE NULL
  BY DEF wl_map_lookup, At
<1>4. wl_map_lookup_flags(m, i) = IF InUse(m, i) THEN At(m, i).flags ELSE 0
  BY DEF wl_map_lookup_flags, At
<1>5. QED
  BY <1>1, <1>2, <1>3, <1>4

LEMMA DisplayIsFound ==
  ASSUME Types, EntriesSound
  PROVE  /\ \A m : m.to = DisplayId => Receiver(m) = Display
         /\ wl_map_lookup(smap, DisplayId) = Display
<1>1. cmap \in Maps /\ smap \in Maps /\ DisplayId \in Nat
  BY DEF Types, DisplayId
<1>2. /\ Has(cmap, DisplayId) /\ At(cmap, DisplayId) = Entry(Display, 0)
      /\ Has(smap, DisplayId) /\ At(smap, DisplayId) = Entry(Display, 0)
  BY <1>1 DEF EntriesSound, ClientEntry, ServerEntry
<1>3. /\ wl_map_lookup(cmap, DisplayId) = Display /\ wl_map_lookup_flags(cmap, DisplayId) = 0
      /\ wl_map_lookup(smap, DisplayId) = Display
  BY <1>1, <1>2, LookupIs
<1>4. QED
  BY <1>3 DEF Receiver, wl_object_is_zombie, ZOMBIE

(* Only who has the id receives an event for it.                           *)
LEMMA ReceiverHasId ==
  ASSUME Types, EntriesSound, NEW m, m.to \in Nat, m.to > 1, Receiver(m) # NULL
  PROVE  /\ Receiver(m) \in 1..created /\ proxy[Receiver(m)] = "live"
         /\ id[Receiver(m)] = m.to
<1>1. Receiver(m) = wl_map_lookup(cmap, m.to)
  BY DEF Receiver
<1>2. cmap \in Maps
  BY DEF Types
<1>3. Has(cmap, m.to) /\ At(cmap, m.to).data = Receiver(m)
  BY <1>1, <1>2, LookupIs
<1>4. ClientEntry(m.to, At(cmap, m.to))
  BY <1>3 DEF EntriesSound
<1>5. QED
  BY <1>3, <1>4 DEF ClientEntry

LEMMA DiscardEventKeeps ==
  ASSUME IdsInv, DiscardEvent
  PROVE  IdsInv'
<1>a. PICK m : m = Head(s2c)
  OBVIOUS
<1>1. /\ Types /\ ObjectsSound /\ Found /\ PendingUnique /\ EntriesSound /\ RequestsSound
      /\ EventsSound /\ DisplayEventsSound
  BY DEF IdsInv
<1>2. /\ s2c # << >> /\ s2c' = Tail(s2c) /\ Receiver(m) = NULL
      /\ UNCHANGED <<cmap, smap, created, kind, id, proxy, id_deleted, refcount, resource, c2s,
                     display_queue, queue, failed>>
  BY <1>a DEF DiscardEvent, clientVars, serverVars
<1>3. Tail(s2c) \in Seq(Messages) /\ m \in Messages /\ IsTail(Tail(s2c), s2c)
  BY <1>1, <1>2, <1>a, TailIs DEF Types
<1>4. EventSound(m)
  BY <1>1, <1>3, <1>a DEF IsTail, EventsSound
<1>5. m.op # "delete_id"
  BY <1>1, <1>2, <1>4, DisplayIsFound, ObjectIdsAssumption DEF EventSound
<1>6. Types'
  BY <1>1, <1>2, <1>3 DEF Types
<1>7. \A n \in Messages : EventSound(n) => EventSound(n)'
  BY <1>2 DEF EventSound, SentFor, Chosen, Offered
<1>8. PICK c \in Closures : TRUE
  <2>1. [op |-> "event", proxy |-> Display, new |-> 0, arg |-> NULL] \in Closures
    BY DEF Closures
  <2>2. QED
    BY <2>1
<1>9. EventsSound' /\ DisplayEventsSound' /\ \A o : Pending(o)' <=> Pending(o)
  BY <1>1, <1>2, <1>5, <1>7, <1>8, <1>a, EventRead
<1>10. ObjectsSound' /\ PendingUnique' /\ Found' /\ EntriesSound'
  BY <1>1, <1>2, <1>9, SameHolders DEF objectVars
<1>11. RequestsSound'
  BY <1>1, <1>2, SameRequests DEF objectVars
<1>12. QED
  BY <1>1, <1>6, <1>9, <1>10, <1>11 DEF IdsInv

LEMMA QueueEventKeeps ==
  ASSUME IdsInv, QueueEvent
  PROVE  IdsInv'
<1>a. PICK m : m = Head(s2c)
  OBVIOUS
<1>b. PICK c : c = [op |-> m.op, proxy |-> Receiver(m), new |-> m.new, arg |-> m.arg]
  OBVIOUS
<1>1. /\ Types /\ ObjectsSound /\ Found /\ PendingUnique /\ EntriesSound /\ RequestsSound
      /\ EventsSound /\ DisplayEventsSound
  BY DEF IdsInv
<1>2. /\ s2c # << >> /\ s2c' = Tail(s2c) /\ Receiver(m) # NULL
      /\ m.op = "new" => CanReserve(cmap, m.new)
      /\ IF m.op = "delete_id"
         THEN display_queue' = Append(display_queue, c) /\ UNCHANGED queue
         ELSE queue' = Append(queue, c) /\ UNCHANGED display_queue
      /\ IF m.op = "new"
         THEN /\ cmap' = wl_map_insert_at(wl_map_reserve_new(cmap, m.new), 0, m.new, m.arg)
              /\ proxy' = [proxy EXCEPT ![m.arg] = "live"]
         ELSE UNCHANGED <<cmap, proxy>>
      /\ UNCHANGED <<id_deleted, smap, created, kind, id, resource, c2s, failed>>
  BY <1>a, <1>b DEF QueueEvent, serverVars
<1>3. Tail(s2c) \in Seq(Messages) /\ m \in Messages /\ IsTail(Tail(s2c), s2c)
  BY <1>1, <1>2, <1>a, TailIs DEF Types
<1>4. EventSound(m)
  BY <1>1, <1>3, <1>a DEF IsTail, EventsSound
<1>5. Receiver(m) \in Objects \cup {Display}
  <2>1. CASE m.to = DisplayId
    BY <1>1, <2>1, DisplayIsFound
  <2>2. CASE m.to # DisplayId
    <3>1. m.obj \in 1..created /\ m.to = id[m.obj]
      BY <1>4, <2>2 DEF EventSound, SentFor
    <3>2. m.to \in Nat /\ m.to > 1
      BY <1>1, <3>1, IdsOnSides
    <3>3. Receiver(m) \in 1..created
      BY <1>1, <1>2, <3>2, ReceiverHasId
    <3>4. QED
      BY <1>1, <3>3, IdsOnSides
  <2>3. QED
    BY <2>1, <2>2
<1>6. c \in Closures /\ c.op = m.op /\ c.proxy = Receiver(m) /\ c.new = m.new /\ c.arg = m.arg
  BY <1>3, <1>4, <1>5, <1>b DEF EventSound, Closures, Messages
<1>8. /\ display_queue' \in Seq(Closures) /\ queue' \in Seq(Closures)
      /\ refcount' \in [Objects -> Int]
  <2>1. display_queue \in Seq(Closures) /\ queue \in Seq(Closures) /\ refcount \in [Objects -> Int]
    BY <1>1 DEF Types
  <2>2. Append(display_queue, c) \in Seq(Closures) /\ Append(queue, c) \in Seq(Closures)
    BY <1>6, <2>1, AppendedIs
  <2>3. refcount' \in [Objects -> Int]
    <3>1. PICK mention : mention = IF Receiver(m) = Display THEN {} ELSE {Receiver(m)}
      OBVIOUS
    <3>2. \/ refcount' = [o \in Objects |->
                            IF o = m.arg THEN 2
                            ELSE IF o \in mention THEN refcount[o] + 1 ELSE refcount[o]]
          \/ refcount' = [o \in Objects |->
                            IF o \in mention THEN refcount[o] + 1 ELSE refcount[o]]
      BY <1>a, <3>1 DEF QueueEvent
    <3>3. \A o \in Objects : refcount[o] \in Int /\ refcount[o] + 1 \in Int
      BY <2>1
    <3>4. QED
      BY <3>2, <3>3
  <2>4. QED
    BY <1>2, <2>1, <2>2, <2>3
<1>9. m.op = "delete_id" => c.proxy = Display
  BY <1>1, <1>4, <1>6, DisplayIsFound DEF EventSound
<1>10. CASE m.op # "new"
  <2>1. Types'
    BY <1>1, <1>2, <1>3, <1>8, <1>10 DEF Types
  <2>2. UNCHANGED <<cmap, smap, created, kind, id, proxy, id_deleted, resource, c2s>>
    BY <1>2, <1>10
  <2>3. \A n \in Messages : EventSound(n) => EventSound(n)'
    BY <2>2 DEF EventSound, SentFor, Chosen, Offered
  <2>4. EventsSound' /\ DisplayEventsSound' /\ \A o : Pending(o)' <=> Pending(o)
    BY <1>1, <1>2, <1>6, <1>9, <1>a, <2>2, <2>3, EventRead
  <2>5. ObjectsSound' /\ PendingUnique' /\ Found' /\ EntriesSound'
    BY <1>1, <2>2, <2>4, SameHolders DEF objectVars
  <2>6. RequestsSound'
    BY <1>1, <2>2, SameRequests DEF objectVars
  <2>7. QED
    BY <2>1, <2>4, <2>5, <2>6 DEF IdsInv
<1>11. CASE m.op = "new"
  <2>a. PICK o : o = m.arg
    OBVIOUS
  <2>b. PICK i : i = m.new
    OBVIOUS
  <2>1. /\ o \in 1..created /\ kind[o] = "offered" /\ i = id[o] /\ proxy[o] = "none"
        /\ Offered(o)
    BY <1>4, <1>11, <2>a, <2>b DEF EventSound, Offered
  <2>2. /\ o \in Objects /\ 1..created \subseteq Objects /\ i \in Nat /\ i >= ServerStart /\ i > 1
        /\ SideOf(i) = "server"
    BY <1>1, <2>1, IdsOnSides
  <2>3. /\ Stored(cmap', cmap, i, Entry(o, 0)) /\ FreeListIn(cmap', 3)
        /\ Has(cmap, i) => At(cmap, i) = Entry(NULL, 0)
    <3>1. cmap \in Maps /\ FreeListIn(cmap, 3)
      BY <1>1 DEF Types, EntriesSound
    <3>2. cmap' = wl_map_insert_at(wl_map_reserve_new(cmap, i), 0, i, o) /\ CanReserve(cmap, i)
      BY <1>2, <1>11, <2>a, <2>b
    <3>3. /\ Stored(cmap', cmap, i, Entry(o, 0))
          /\ \A low \in Nat : FreeListIn(cmap, low) => FreeListIn(cmap', low)
          /\ SideOf(i) # cmap.side /\ (Has(cmap, i) => At(cmap, i) = Entry(NULL, 0))
      BY <2>2, <3>1, <3>2, ReserveAndInsert
    <3>4. QED
      BY <3>1, <3>3
  <2>4. /\ cmap' \in Maps /\ cmap'.side = cmap.side /\ Has(cmap', i) /\ At(cmap', i) = Entry(o, 0)
        /\ SameBut(cmap, cmap', i)
    BY <2>3 DEF Stored
  <2>5. /\ proxy'[o] = "live"
        /\ \A p \in Objects : p # o => proxy'[p] = proxy[p]
        /\ proxy' \in [Objects -> {"none", "live", "destroyed"}]
    BY <1>1, <1>2, <1>11, <2>2, <2>a DEF Types
  <2>6. Types'
    BY <1>1, <1>2, <1>3, <1>8, <2>4, <2>5 DEF Types
  <2>7. /\ \A p : Chosen(p)' <=> Chosen(p)
        /\ \A p : Offered(p)' <=> Offered(p)
    BY <1>2 DEF Chosen, Offered
  <2>8. \A p \in 1..created : Holds(p) => id[p] # i
    <3>1. ASSUME NEW p \in 1..created, proxy[p] = "live", id[p] = i
          PROVE  FALSE
      <4>1. Entry(p, 0) = Entry(NULL, 0)
        BY <1>1, <2>3, <3>1 DEF Found
      <4>2. p = NULL
        BY <4>1, EntriesDiffer
      <4>3. QED
        BY <2>2, <4>2, ObjectIdsAssumption
    <3>2. ASSUME NEW p \in 1..created, Pending(p), id[p] = i
          PROVE  FALSE
      BY <1>1, <2>2, <3>2, IdsOnSides, WlMapAssumption DEF Pending, Chosen
    <3>3. QED
      BY <3>1, <3>2 DEF Holds
  <2>9. EventsSound' /\ DisplayEventsSound' /\ \A p : Pending(p)' <=> Pending(p)
    <3>1. ASSUME NEW n \in Messages, EventSound(n), EventsInOrder(m, n)
          PROVE  EventSound(n)'
      <4>1. ASSUME SentFor(n), n.op = "event" \/ Chosen(n.obj)
            PROVE  SentFor(n)'
        <5>1. n.to = i => n.obj = o
          <6>1. CASE n.op = "event"
            BY <1>11, <2>a, <2>b, <3>1, <6>1 DEF EventsInOrder
          <6>2. CASE Chosen(n.obj)
            BY <1>1, <2>2, <4>1, <6>2, IdsOnSides, WlMapAssumption DEF SentFor, Chosen
          <6>3. QED
            BY <4>1, <6>1, <6>2
        <5>2. QED
          BY <1>2, <2>1, <2>2, <2>5, <2>7, <4>1, <5>1 DEF SentFor
      <4>2. n.op = "new" => n.arg # o
        <5>1. n.op = "new" => o < n.arg
          BY <1>11, <2>a, <3>1 DEF EventsInOrder
        <5>2. ~(o < o)
          BY <2>1
        <5>3. QED
          BY <5>1, <5>2
      <4>3. n.op = "new" => proxy'[n.arg] = "none"
        BY <2>2, <2>5, <3>1, <4>2 DEF EventSound, Offered
      <4>4. QED
        BY <1>2, <2>7, <3>1, <4>1, <4>3 DEF EventSound
    <3>2. QED
      BY <1>1, <1>2, <1>6, <1>11, <1>a, <3>1, EventRead
  <2>10. ObjectsSound'
    <3>1. resource[o] = "live"
      BY <1>1, <2>1, OfferedStays
    <3>2. ~(o > created) /\ ~Chosen(o)
      BY <1>1, <2>1 DEF Types, Chosen
    <3>3. \A p \in Objects : p > created => proxy'[p] = "none" /\ resource[p] = "none" /\ ~id_deleted[p]
      BY <1>1, <2>5, <3>2 DEF ObjectsSound
    <3>4. \A p \in 1..created : resource[p] = "destroyed" /\ proxy'[p] # "destroyed" =>
            kind[p] \in ServerDestroys
      BY <1>1, <2>2, <2>5, <3>1 DEF ObjectsSound
    <3>5. \A p \in 1..created : Chosen(p) =>
            /\ id[p] \in 2..MaxObjects /\ proxy'[p] # "none"
            /\ id_deleted[p] => ~Pending(p)
            /\ proxy'[p] = "live" /\ ~Pending(p) => id_deleted[p]
      BY <1>1, <2>2, <2>5, <3>2 DEF ObjectsSound
    <3>6. \A p \in 1..created : Offered(p) =>
            /\ id[p] \in ServerStart..(ServerStart + MaxObjects)
            /\ resource[p] # "none" /\ ~id_deleted[p]
      BY <1>1 DEF ObjectsSound
    <3>7. QED
      BY <1>2, <2>7, <2>9, <3>3, <3>4, <3>5, <3>6 DEF ObjectsSound
  <2>11. PendingUnique'
    BY <1>1, <1>2, <2>9 DEF PendingUnique
  <2>12. Found'
    <3> SUFFICES ASSUME NEW p \in 1..created
                 PROVE  /\ proxy'[p] = "live" => Has(cmap', id[p]) /\ At(cmap', id[p]) = Entry(p, 0)
                        /\ Pending(p) /\ proxy'[p] = "destroyed" =>
                             Has(cmap', id[p]) /\ At(cmap', id[p]) = Entry(NULL, ZOMBIE)
                        /\ resource[p] = "live" => Has(smap, id[p]) /\ At(smap, id[p]) = Entry(p, 0)
      BY <1>2, <2>9 DEF Found
    <3>1. CASE p = o
      BY <1>1, <2>1, <2>4, <2>5, <3>1 DEF Found
    <3>2. CASE p # o
      <4>1. id[p] \in Nat
        BY <1>1, IdsOnSides
      <4>2. QED
        BY <1>1, <2>2, <2>4, <2>5, <2>8, <3>2, <4>1 DEF Found, Holds, SameBut
    <3>3. QED
      BY <3>1, <3>2
  <2>13. EntriesSound'
    <3>1. ASSUME NEW j \in Nat, Has(cmap', j)
          PROVE  ClientEntry(j, At(cmap, j))'
      <4>1. CASE j = i
        <5>1. At(cmap', j).data = o /\ At(cmap', j).flags = 0
          BY <2>2, <2>4, <4>1, EntryIsEntry
        <5>2. QED
          BY <1>2, <2>1, <2>2, <2>5, <4>1, <5>1, ObjectIdsAssumption DEF ClientEntry, DisplayId, ZOMBIE
      <4>2. CASE j # i
        <5>1. Has(cmap, j) /\ At(cmap', j) = At(cmap, j)
          BY <2>4, <3>1, <4>2 DEF SameBut
        <5>2. ClientEntry(j, At(cmap, j))
          BY <1>1, <5>1 DEF EntriesSound
        <5>3. \A p \in 1..created : /\ proxy[p] = "destroyed" => proxy'[p] = "destroyed"
                                    /\ proxy[p] = "live" => proxy'[p] = "live"
          BY <2>1, <2>2, <2>5
        <5>4. QED
          BY <1>2, <2>2, <2>9, <5>1, <5>2, <5>3 DEF ClientEntry
      <4>3. QED
        BY <4>1, <4>2
    <3>2. ASSUME NEW j \in Nat, Has(smap', j)
          PROVE  ServerEntry(j, At(smap, j))'
      <4>1. Has(smap, j) /\ ServerEntry(j, At(smap, j))
        BY <1>1, <1>2, <3>2 DEF EntriesSound
      <4>2. QED
        BY <1>2, <4>1 DEF ServerEntry
    <3>3. Has(cmap', DisplayId) /\ Has(smap', DisplayId)
      BY <1>1, <1>2, <2>2, <2>4 DEF EntriesSound, SameBut, DisplayId
    <3>4. QED
      BY <1>1, <1>2, <2>3, <2>4, <3>1, <3>2, <3>3 DEF EntriesSound
  <2>14. RequestsSound'
    <3>1. ASSUME NEW n \in Messages, RequestSound(n)
          PROVE  RequestSound(n)'
      <4>1. CASE n.op = "create"
        BY <1>2, <2>7, <3>1, <4>1 DEF RequestSound, Uses
      <4>2. CASE n.op \in Uses
        BY <1>2, <2>1, <2>2, <2>5, <3>1, <4>2 DEF RequestSound, Uses
      <4>3. QED
        BY <3>1, <4>1, <4>2 DEF RequestSound
    <3>2. QED
      BY <1>1, <1>2, <2>7, <3>1, RequestsKept
  <2>15. QED
    BY <2>6, <2>9, <2>10, <2>11, <2>12, <2>13, <2>14 DEF IdsInv
<1>12. QED
  BY <1>10, <1>11

(* The client reads of the end of an object it gave an id to: this was the *)
(* last that kept the id.                                                  *)
LEMMA DisplayEventRead ==
  ASSUME DisplayEventsSound, Types, display_queue # << >>, display_queue' = Tail(display_queue),
         UNCHANGED <<created, kind, id, resource, s2c>>,
         NEW c, c = Head(display_queue), NEW o, o = c.arg
  PROVE  /\ DisplayEventsSound' /\ Tail(display_queue) \in Seq(Closures)
         /\ Chosen(o) /\ c.new = id[o] /\ resource[o] = "destroyed"
         /\ Pending(o) /\ ~Pending(o)'
         /\ \A p : p # o => (Pending(p)' <=> Pending(p))
<1>1. /\ Tail(display_queue) \in Seq(Closures)
      /\ IsTail(display_queue', display_queue) /\ c = display_queue[1] /\ 1 \in DOMAIN display_queue
  BY TailIs DEF Types, IsTail
<1>2. /\ c.op = "delete_id" /\ Chosen(o) /\ c.new = id[o] /\ resource[o] = "destroyed"
      /\ \A j \in DOMAIN s2c : ~Reports(s2c, j, o)
  BY <1>1 DEF DisplayEventsSound
<1>3. \A p : Chosen(p)' <=> Chosen(p)
  BY DEF Chosen
<1>4. \A k \in DOMAIN display_queue' :
        /\ k + 1 \in DOMAIN display_queue /\ k + 1 # 1
        /\ display_queue'[k] = display_queue[k + 1]
  BY <1>1 DEF IsTail
<1>5. DisplayEventsSound'
  <2>1. ASSUME NEW k \in DOMAIN display_queue', NEW d, d = display_queue'[k]
        PROVE  /\ d.op = "delete_id" /\ d.proxy = Display
               /\ Chosen(d.arg)' /\ d.new = id'[d.arg] /\ resource'[d.arg] = "destroyed"
               /\ \A j \in DOMAIN s2c' : ~Reports(s2c', j, d.arg)
    <3>1. PICK l : l \in DOMAIN display_queue /\ d = display_queue[l]
      BY <1>4, <2>1
    <3>2. /\ d.op = "delete_id" /\ d.proxy = Display
          /\ Chosen(d.arg) /\ d.new = id[d.arg] /\ resource[d.arg] = "destroyed"
          /\ \A j \in DOMAIN s2c : ~Reports(s2c, j, d.arg)
      BY <3>1 DEF DisplayEventsSound
    <3>3. QED
      BY <1>3, <3>2
  <2>2. ASSUME NEW j \in DOMAIN display_queue', NEW k \in DOMAIN display_queue', j # k
        PROVE  display_queue'[j].arg # display_queue'[k].arg
    <3>1. j + 1 # k + 1
      BY <1>1, <2>2 DEF IsTail
    <3>2. QED
      BY <1>4, <3>1 DEF DisplayEventsSound
  <2>3. QED
    BY <2>1, <2>2 DEF DisplayEventsSound
<1>6. Pending(o)
  BY <1>1, <1>2 DEF Pending, Reports
<1>7. \A k \in DOMAIN display_queue' : ~Reports(display_queue', k, o)
  BY <1>1, <1>4 DEF DisplayEventsSound, Reports
<1>8. ~Pending(o)'
  BY <1>2, <1>7 DEF Pending, Reports
<1>9. ASSUME NEW p, p # o
      PROVE  Pending(p)' <=> Pending(p)
  <2>1. (\E k \in DOMAIN display_queue' : Reports(display_queue', k, p))
        <=> \E k \in DOMAIN display_queue : Reports(display_queue, k, p)
    <3>1. ASSUME NEW k \in DOMAIN display_queue', Reports(display_queue', k, p)
          PROVE  \E l \in DOMAIN display_queue : Reports(display_queue, l, p)
      BY <1>4, <3>1 DEF Reports
    <3>2. ASSUME NEW k \in DOMAIN display_queue, Reports(display_queue, k, p)
          PROVE  \E l \in DOMAIN display_queue' : Reports(display_queue', l, p)
      <4>1. k # 1
        BY <1>1, <1>9, <3>2 DEF Reports
      <4>2. k - 1 \in DOMAIN display_queue' /\ display_queue'[k - 1] = display_queue[k]
        BY <1>1, <4>1 DEF IsTail
      <4>3. Reports(display_queue', k - 1, p)
        BY <3>2, <4>2 DEF Reports
      <4>4. QED
        BY <4>2, <4>3
    <3>3. QED
      BY <3>1, <3>2
  <2>2. QED
    BY <1>3, <2>1 DEF Pending, Reports
<1>10. QED
  BY <1>1, <1>2, <1>5, <1>6, <1>8, <1>9

LEMMA DispatchDisplayEventKeeps ==
  ASSUME IdsInv, DispatchDisplayEvent
  PROVE  IdsInv'
<1>a. PICK c : c = Head(display_queue)
  OBVIOUS
<1>b. PICK o : o = c.arg
  OBVIOUS
<1>c. PICK i : i = c.new
  OBVIOUS
<1>1. /\ Types /\ ObjectsSound /\ Found /\ PendingUnique /\ EntriesSound /\ RequestsSound
      /\ EventsSound /\ DisplayEventsSound
  BY DEF IdsInv
<1>2. /\ display_queue # << >> /\ display_queue' = Tail(display_queue)
      /\ IF wl_object_is_zombie(i)
         THEN cmap' = wl_map_remove(cmap, i) /\ UNCHANGED id_deleted
         ELSE /\ UNCHANGED cmap
              /\ id_deleted' = [p \in Objects |-> id_deleted[p] \/ p = wl_map_lookup(cmap, i)]
      /\ UNCHANGED <<refcount, proxy, queue, created, kind, id, smap, resource, c2s, s2c, failed>>
  BY <1>a, <1>c DEF DispatchDisplayEvent, serverVars
<1>3. /\ DisplayEventsSound' /\ Tail(display_queue) \in Seq(Closures)
      /\ Chosen(o) /\ i = id[o] /\ resource[o] = "destroyed"
      /\ Pending(o) /\ ~Pending(o)'
      /\ \A p : p # o => (Pending(p)' <=> Pending(p))
  BY <1>1, <1>2, <1>a, <1>b, <1>c, DisplayEventRead
<1>4. o \in 1..created /\ o \in Objects /\ kind[o] # "offered" /\ proxy[o] \in {"live", "destroyed"}
  BY <1>1, <1>3, IdsOnSides DEF Chosen, ObjectsSound, Types
<1>5. /\ i \in Nat /\ i > 1 /\ i < ServerStart /\ SideOf(i) = "client" /\ IndexOf(i) = i
      /\ 1..created \subseteq Objects
  BY <1>1, <1>3, <1>4, IdsOnSides
<1>6. cmap \in Maps /\ cmap.side = "client" /\ FreeListIn(cmap, 3)
  BY <1>1 DEF Types, EntriesSound
<1>7. /\ \A p : Chosen(p)' <=> Chosen(p)
      /\ \A p : Offered(p)' <=> Offered(p)
  BY <1>2 DEF Chosen, Offered
<1>8. RequestsSound'
  <2>1. \A n : RequestSound(n)' <=> RequestSound(n)
    BY <1>2 DEF RequestSound, Chosen
  <2>2. QED
    BY <1>1, <1>2, <1>7, <2>1, RequestsKept
<1>9. EventsSound'
  <2>1. \A n : EventSound(n)' <=> EventSound(n)
    BY <1>2 DEF EventSound, SentFor, Chosen, Offered
  <2>2. QED
    BY <1>1, <1>2, <1>7, <2>1 DEF EventsSound, EventsInOrder, Reports
<1>10. PendingUnique'
  BY <1>1, <1>2, <1>3 DEF PendingUnique
<1>11. \A j, e : ServerEntry(j, e)' <=> ServerEntry(j, e)
  BY <1>2 DEF ServerEntry
<1>12. CASE proxy[o] = "destroyed"
  <2>1. Has(cmap, i) /\ At(cmap, i) = Entry(NULL, ZOMBIE)
    BY <1>1, <1>3, <1>4, <1>12 DEF Found
  <2>2. wl_object_is_zombie(i)
    BY <1>5, <1>6, <2>1, LookupIs DEF wl_object_is_zombie
  <2>3. cmap' = wl_map_remove(cmap, i) /\ UNCHANGED id_deleted
    BY <1>2, <2>2
  <2>4. Stored(cmap', cmap, i, FreeEntry(cmap.free_list)) /\ FreeListIn(cmap', 3)
    <3>1. At(cmap, i).flags # 0
      BY <2>1 DEF Entry, ZOMBIE
    <3>2. FreeListOff(cmap, 3, i)
      BY <1>5, <1>6, <2>1, <3>1, HeldIsOffList
    <3>3. IndexOf(i) + 1 >= 3
      BY <1>5
    <3>4. QED
      BY <1>5, <1>6, <2>1, <2>3, <3>2, <3>3, Remove
  <2>5. PICK e : e = FreeEntry(cmap.free_list)
    OBVIOUS
  <2>6. /\ cmap' \in Maps /\ cmap'.side = "client" /\ Has(cmap', i) /\ At(cmap', i) = e
        /\ SameBut(cmap, cmap', i) /\ e.data = NULL /\ e.flags = 0
    BY <1>6, <2>4, <2>5 DEF Stored, FreeEntry
  <2>7. Types'
    BY <1>1, <1>2, <1>3, <2>3, <2>6 DEF Types
  <2>8. ObjectsSound'
    <3>1. \A p \in 1..created : Chosen(p) =>
            /\ id[p] \in 2..MaxObjects /\ proxy[p] # "none"
            /\ id_deleted[p] => ~Pending(p)'
            /\ proxy[p] = "live" /\ ~Pending(p)' => id_deleted[p]
      BY <1>1, <1>3, <1>12 DEF ObjectsSound
    <3>2. QED
      BY <1>1, <1>2, <1>7, <2>3, <3>1 DEF ObjectsSound
  <2>9. Found'
    <3> SUFFICES ASSUME NEW p \in 1..created
                 PROVE  /\ proxy[p] = "live" => Has(cmap', id[p]) /\ At(cmap', id[p]) = Entry(p, 0)
                        /\ Pending(p)' /\ proxy[p] = "destroyed" =>
                             Has(cmap', id[p]) /\ At(cmap', id[p]) = Entry(NULL, ZOMBIE)
                        /\ resource[p] = "live" => Has(smap, id[p]) /\ At(smap, id[p]) = Entry(p, 0)
      BY <1>2 DEF Found
    <3>1. CASE p = o
      BY <1>1, <1>3, <1>12, <3>1 DEF Found
    <3>2. CASE p # o
      <4>1. Holds(p) => id[p] # i
        BY <1>1, <1>3, <1>4, <3>2, OneHolder DEF Holds
      <4>2. id[p] \in Nat
        BY <1>1, IdsOnSides
      <4>3. QED
        BY <1>1, <1>3, <2>6, <3>2, <4>1, <4>2 DEF Found, Holds, SameBut
    <3>3. QED
      BY <3>1, <3>2
  <2>10. EntriesSound'
    <3>1. ASSUME NEW j \in Nat, Has(cmap', j)
          PROVE  ClientEntry(j, At(cmap, j))'
      <4>1. CASE j = i
        BY <1>5, <2>6, <4>1, WlMapAssumption DEF ClientEntry, DisplayId, ZOMBIE
      <4>2. CASE j # i
        <5>1. Has(cmap, j) /\ At(cmap', j) = At(cmap, j)
          BY <2>6, <3>1, <4>2 DEF SameBut
        <5>2. ClientEntry(j, At(cmap, j))
          BY <1>1, <5>1 DEF EntriesSound
        <5>3. \A p \in 1..created : Pending(p) /\ id[p] = j => Pending(p)'
          BY <1>3, <4>2
        <5>4. QED
          BY <1>2, <5>1, <5>2, <5>3 DEF ClientEntry
      <4>3. QED
        BY <4>1, <4>2
    <3>2. ASSUME NEW j \in Nat, Has(smap', j)
          PROVE  ServerEntry(j, At(smap, j))'
      BY <1>1, <1>2, <1>11, <3>2 DEF EntriesSound
    <3>3. Has(cmap', DisplayId) /\ Has(smap', DisplayId)
      BY <1>1, <1>2, <1>5, <2>6 DEF EntriesSound, SameBut, DisplayId
    <3>4. QED
      BY <1>1, <1>2, <2>4, <2>6, <3>1, <3>2, <3>3 DEF EntriesSound
  <2>11. QED
    BY <1>3, <1>8, <1>9, <1>10, <2>7, <2>8, <2>9, <2>10 DEF IdsInv
<1>13. CASE proxy[o] = "live"
  <2>1. Has(cmap, i) /\ At(cmap, i) = Entry(o, 0)
    BY <1>1, <1>3, <1>4, <1>13 DEF Found
  <2>2. wl_map_lookup(cmap, i) = o /\ ~wl_object_is_zombie(i)
    BY <1>5, <1>6, <2>1, LookupIs DEF wl_object_is_zombie, ZOMBIE
  <2>3. UNCHANGED cmap /\ id_deleted' = [p \in Objects |-> id_deleted[p] \/ p = o]
    BY <1>2, <2>2
  <2>4. id_deleted'[o] /\ \A p \in Objects : p # o => (id_deleted'[p] <=> id_deleted[p])
    BY <1>4, <2>3, Zenon
  <2>5. Types'
    <3>1. id_deleted' \in [Objects -> BOOLEAN]
      BY <2>3, Zenon
    <3>2. QED
      BY <1>1, <1>2, <1>3, <2>3, <3>1 DEF Types
  <2>6. ObjectsSound'
    <3>1. ASSUME NEW p \in 1..created, Chosen(p)
          PROVE  /\ id_deleted'[p] => ~Pending(p)'
                 /\ proxy[p] = "live" /\ ~Pending(p)' => id_deleted'[p]
      <4>1. CASE p = o
        BY <1>3, <2>4, <4>1
      <4>2. CASE p # o
        <5>1. /\ id_deleted[p] => ~Pending(p)
              /\ proxy[p] = "live" /\ ~Pending(p) => id_deleted[p]
          BY <1>1, <3>1 DEF ObjectsSound
        <5>2. p \in Objects
          BY <1>5
        <5>3. QED
          BY <1>3, <2>4, <4>2, <5>1, <5>2
      <4>3. QED
        BY <4>1, <4>2
    <3>2. ~(o > created) /\ ~Offered(o)
      BY <1>1, <1>4 DEF Types, Offered
    <3>3. \A p \in Objects : p > created => ~id_deleted'[p]
      BY <1>1, <2>4, <3>2, Zenon DEF ObjectsSound
    <3>4. \A p \in 1..created : Offered(p) => ~id_deleted'[p]
      BY <1>1, <1>5, <2>4, <3>2, Zenon DEF ObjectsSound
    <3>5. QED
      BY <1>1, <1>2, <1>7, <3>1, <3>3, <3>4 DEF ObjectsSound
  <2>7. Found'
    BY <1>1, <1>2, <1>3, <1>13, <2>3 DEF Found
  <2>8. EntriesSound'
    <3>1. \A j, e : ClientEntry(j, e) => ClientEntry(j, e)'
      BY <1>2, <1>3, <1>13, <2>3 DEF ClientEntry
    <3>2. QED
      BY <1>1, <1>2, <1>11, <2>3, <3>1 DEF EntriesSound
  <2>9. QED
    BY <1>3, <1>8, <1>9, <1>10, <2>5, <2>6, <2>7, <2>8 DEF IdsInv
<1>14. QED
  BY <1>4, <1>12, <1>13

LEMMA DispatchEventKeeps ==
  ASSUME IdsInv, DispatchEvent
  PROVE  IdsInv'
<1>1. /\ Types /\ ObjectsSound /\ Found /\ PendingUnique /\ EntriesSound /\ RequestsSound
      /\ EventsSound /\ DisplayEventsSound
  BY DEF IdsInv
<1>2. /\ queue # << >> /\ queue' = Tail(queue) /\ refcount' = Unref(Head(queue))
      /\ UNCHANGED <<cmap, smap, created, kind, id, proxy, id_deleted, resource, c2s, s2c,
                     display_queue, failed>>
  BY DEF DispatchEvent, serverVars
<1>3. Types'
  <2>1. Tail(queue) \in Seq(Closures)
    BY <1>1, <1>2, TailIs DEF Types
  <2>2. refcount' \in [Objects -> Int]
    <3>1. PICK mentions : mentions = Mentions(Head(queue))
      OBVIOUS
    <3>2. refcount' = [o \in Objects |-> IF o \in mentions THEN refcount[o] - 1 ELSE refcount[o]]
      BY <1>2, <3>1 DEF Unref
    <3>3. \A o \in Objects : refcount[o] \in Int /\ refcount[o] - 1 \in Int
      BY <1>1 DEF Types
    <3>4. QED
      BY <3>2, <3>3
  <2>3. QED
    BY <1>1, <1>2, <2>1, <2>2 DEF Types
<1>4. \A o : Pending(o)' <=> Pending(o)
  BY <1>2, SamePending
<1>5. ObjectsSound' /\ PendingUnique' /\ Found' /\ EntriesSound'
  BY <1>1, <1>2, <1>4, SameHolders DEF objectVars
<1>6. RequestsSound' /\ EventsSound' /\ DisplayEventsSound'
  BY <1>1, <1>2, SameRequests, SameEvents DEF objectVars
<1>7. QED
  BY <1>3, <1>5, <1>6 DEF IdsInv

LEMMA RejectKeeps ==
  ASSUME IdsInv, RejectEvent \/ RejectRequest
  PROVE  IdsInv'
<1>1. /\ Types /\ ObjectsSound /\ Found /\ PendingUnique /\ EntriesSound /\ RequestsSound
      /\ EventsSound /\ DisplayEventsSound
  BY DEF IdsInv
<1>2. /\ failed' \in {{"client"}, {"server"}}
      /\ UNCHANGED <<cmap, smap, created, kind, id, proxy, id_deleted, refcount, resource, c2s,
                     s2c, display_queue, queue>>
  BY DEF RejectEvent, RejectRequest, clientVars, serverVars
<1>3. Types'
  BY <1>1, <1>2 DEF Types
<1>4. \A o : Pending(o)' <=> Pending(o)
  BY <1>2, SamePending
<1>5. ObjectsSound' /\ PendingUnique' /\ Found' /\ EntriesSound'
  BY <1>1, <1>2, <1>4, SameHolders DEF objectVars
<1>6. RequestsSound' /\ EventsSound' /\ DisplayEventsSound'
  BY <1>1, <1>2, SameRequests, SameEvents DEF objectVars
<1>7. QED
  BY <1>3, <1>5, <1>6 DEF IdsInv

-----------------------------------------------------------------------------
(* The server                                                              *)

(* What a live resource sends is for its object: an offered one that the   *)
(* client still has under the same id is the same.                         *)
LEMMA LiveResourceSends ==
  ASSUME IdsInv, NEW o \in 1..created, resource[o] = "live",
         NEW m, m.obj = o, m.to = id[o]
  PROVE  SentFor(m)
<1>1. Types /\ ObjectsSound /\ PendingUnique /\ Found
  BY DEF IdsInv
<1>2. ASSUME NEW p \in 1..created, Offered(p), proxy[p] = "live", id[p] = m.to
      PROVE  p = o
  <2>1. resource[p] = "live"
    BY <1>1, <1>2, OfferedStays DEF Offered
  <2>2. QED
    BY <1>1, <1>2, <2>1, OneHolder
<1>3. QED
  BY <1>2 DEF SentFor

LEMMA SendEventKeeps ==
  ASSUME IdsInv, NEW o \in 1..created, SendEvent(o)
  PROVE  IdsInv'
<1>a. PICK m : m = Message("event", o, id[o], 0, NULL)
  OBVIOUS
<1>1. /\ Types /\ ObjectsSound /\ Found /\ PendingUnique /\ EntriesSound /\ RequestsSound
      /\ EventsSound /\ DisplayEventsSound
  BY DEF IdsInv
<1>2. /\ resource[o] = "live" /\ s2c' = Append(s2c, m)
      /\ UNCHANGED <<cmap, smap, created, kind, id, proxy, id_deleted, refcount, resource, c2s,
                     display_queue, queue, failed>>
  BY <1>a DEF SendEvent, Send, clientVars, serverVars
<1>3. /\ o \in Objects /\ id[o] \in Nat
      /\ 1..created \subseteq Objects /\ Display \notin (1..created)'
  BY <1>1, <1>2, IdsOnSides, ObjectIdsAssumption
<1>4. m \in Messages /\ m.op = "event" /\ m.obj = o /\ m.to = id[o] /\ m.arg = NULL
  BY <1>3, <1>a DEF Message, Messages
<1>5. Types'
  <2>1. Append(s2c, m) \in Seq(Messages)
    BY <1>1, <1>4, AppendedIs DEF Types
  <2>2. QED
    BY <1>1, <1>2, <2>1 DEF Types
<1>6. SentFor(m)
  BY <1>2, <1>4, LiveResourceSends
<1>7. \A n : EventSound(n)' <=> EventSound(n)
  BY <1>2 DEF EventSound, SentFor, Chosen, Offered
<1>8. \A k \in DOMAIN s2c : EventsInOrder(s2c[k], m)
  <2> SUFFICES ASSUME NEW k \in DOMAIN s2c, s2c[k].op = "new", m.to = s2c[k].new
               PROVE  m.obj = s2c[k].arg
    BY <1>4 DEF EventsInOrder
  <2>1. PICK p : p = s2c[k].arg
    OBVIOUS
  <2>2. p \in 1..created /\ kind[p] = "offered" /\ id[p] = id[o] /\ proxy[p] = "none"
    BY <1>1, <1>4, <2>1 DEF EventsSound, EventSound, Offered
  <2>3. resource[p] = "live"
    BY <1>1, <2>2, OfferedStays
  <2>4. QED
    BY <1>1, <1>2, <1>4, <2>1, <2>2, <2>3, OneHolder
<1>9. EventsSound' /\ DisplayEventsSound'
  <2>1. EventSound(m)' /\ m.op # "delete_id"
    BY <1>4, <1>6, <1>7 DEF EventSound
  <2>2. \A p \in 1..created : (Chosen(p)' <=> Chosen(p)) /\ id'[p] = id[p]
    BY <1>2 DEF Chosen
  <2>3. QED
    BY <1>1, <1>2, <1>3, <1>4, <1>7, <1>8, <2>1, <2>2, EventSent
<1>10. \A p : Pending(p)' <=> Pending(p)
  <2>1. IsAppended(s2c', s2c, m)
    BY <1>1, <1>2, <1>4, AppendedIs DEF Types
  <2>2. \A p : (\E k \in DOMAIN s2c' : Reports(s2c', k, p))
               <=> \E k \in DOMAIN s2c : Reports(s2c, k, p)
    BY <1>4, <2>1 DEF IsAppended, Reports
  <2>3. QED
    BY <1>2, <2>2 DEF Pending, Chosen, Reports
<1>11. ObjectsSound' /\ PendingUnique' /\ Found' /\ EntriesSound'
  BY <1>1, <1>2, <1>10, SameHolders DEF objectVars
<1>12. RequestsSound'
  BY <1>1, <1>2, SameRequests DEF objectVars
<1>13. QED
  BY <1>5, <1>9, <1>11, <1>12 DEF IdsInv

(* A resource is destroyed: an id the client chose stays taken until the   *)
(* client has read of it, one the server chose is free.                    *)
LEMMA ResourceDestroyed ==
  ASSUME IdsInv, NEW o \in 1..created, resource[o] = "live",
         proxy[o] = "destroyed" \/ kind[o] \in ServerDestroys,
         smap' = MapWithoutResource(o), resource' = [resource EXCEPT ![o] = "destroyed"],
         s2c' = EventsAfterDestroy(s2c, o), c2s' \in Seq(Messages),
         UNCHANGED <<cmap, created, kind, id, proxy, id_deleted, refcount, display_queue, queue,
                     failed>>
  PROVE  /\ Types' /\ ObjectsSound' /\ PendingUnique' /\ Found' /\ EntriesSound'
         /\ EventsSound' /\ DisplayEventsSound'
         /\ \A n \in Messages :
              RequestSound(n) /\ (n.op \in Uses /\ n.obj = o => kind[o] \in ServerDestroys) =>
                RequestSound(n)'
         /\ \A p \in 1..created : resource'[p] = "none" <=> resource[p] = "none"
<1>a. PICK i : i = id[o]
  OBVIOUS
<1>b. PICK m : m = Message("delete_id", Display, DisplayId, i, o)
  OBVIOUS
<1>1. /\ Types /\ ObjectsSound /\ Found /\ PendingUnique /\ EntriesSound /\ RequestsSound
      /\ EventsSound /\ DisplayEventsSound
  BY DEF IdsInv
<1>2. /\ o \in Objects /\ i \in Nat /\ i > 1 /\ 1..created \subseteq Objects
      /\ kind[o] = "offered" => i >= ServerStart /\ SideOf(i) = "server"
      /\ kind[o] # "offered" => i < ServerStart /\ SideOf(i) = "client"
      /\ o # NULL /\ Display \notin 1..created
  BY <1>1, <1>a, IdsOnSides, ObjectIdsAssumption
<1>3. /\ resource'[o] = "destroyed"
      /\ \A p \in Objects : p # o => resource'[p] = resource[p]
      /\ resource' \in [Objects -> {"none", "live", "destroyed"}]
  BY <1>1, <1>2 DEF Types
<1>4. /\ smap \in Maps /\ smap.side = "server" /\ FreeListIn(smap, 1)
      /\ Has(smap, i) /\ At(smap, i) = Entry(o, 0) /\ At(smap, i).data # NULL
      /\ IndexOf(i) \in Nat
  <2>1. Has(smap, i) /\ At(smap, i) = Entry(o, 0)
    BY <1>1, <1>a DEF Found
  <2>2. At(smap, i).data # NULL
    BY <1>2, <2>1, EntryIsEntry
  <2>3. QED
    BY <1>1, <1>2, <2>1, <2>2, IdsHavePlaces DEF Types, EntriesSound
<1>5. \E e : /\ Stored(smap', smap, i, e) /\ FreeListIn(smap', 1)
             /\ e.data = NULL /\ (i < ServerStart => e = Entry(NULL, 0))
  <2>1. CASE kind[o] # "offered"
    <3>1. smap' = wl_map_insert_at(smap, 0, i, NULL)
      BY <1>2, <1>a, <2>1 DEF MapWithoutResource
    <3>2. IndexOf(i) <= Len(smap.entries[SideOf(i)])
      <4>1. Len(smap.entries[SideOf(i)]) \in Nat
        BY <1>2, <1>4, IdsHavePlaces, EntriesOf
      <4>2. QED
        BY <1>4, <4>1 DEF Has
    <3>3. Stored(smap', smap, i, Entry(NULL, 0)) /\ FreeListIn(smap', 1)
      BY <1>2, <1>4, <2>1, <3>1, <3>2, InsertAt
    <3>4. QED
      BY <3>3, EntryIsEntry
  <2>2. CASE kind[o] = "offered"
    <3>1. smap' = wl_map_remove(smap, i)
      BY <1>2, <1>a, <2>2, WlMapAssumption DEF MapWithoutResource
    <3>2. FreeListOff(smap, 1, i)
      BY <1>2, <1>4, <2>2, HeldIsOffList
    <3>3. IndexOf(i) + 1 >= 1
      BY <1>4
    <3>4. Stored(smap', smap, i, FreeEntry(smap.free_list)) /\ FreeListIn(smap', 1)
      BY <1>2, <1>4, <2>2, <3>1, <3>2, <3>3, Remove
    <3>5. FreeEntry(smap.free_list).data = NULL /\ ~(i < ServerStart)
      BY <1>2, <2>2, WlMapAssumption DEF FreeEntry
    <3>6. QED
      BY <3>4, <3>5
  <2>3. QED
    BY <2>1, <2>2
<1>6. PICK e : /\ Stored(smap', smap, i, e) /\ FreeListIn(smap', 1)
               /\ e.data = NULL /\ (i < ServerStart => e = Entry(NULL, 0))
  BY <1>5
<1>7. /\ smap' \in Maps /\ smap'.side = "server" /\ Has(smap', i) /\ At(smap', i) = e
      /\ SameBut(smap, smap', i)
  BY <1>4, <1>6 DEF Stored
<1>8. /\ \A p : Chosen(p)' <=> Chosen(p)
      /\ \A p : Offered(p)' <=> Offered(p)
  BY DEF Chosen, Offered
<1>9. IF kind[o] # "offered" THEN s2c' = Append(s2c, m) ELSE s2c' = s2c
  BY <1>2, <1>a, <1>b, WlMapAssumption DEF EventsAfterDestroy, Send
<1>10. m \in Messages /\ m.op = "delete_id" /\ m.obj = Display /\ m.to = DisplayId
       /\ m.new = i /\ m.arg = o
  BY <1>2, <1>b DEF Message, Messages, DisplayId
<1>11. s2c' \in Seq(Messages) /\ (kind[o] # "offered" => IsAppended(s2c', s2c, m))
  <2>1. s2c \in Seq(Messages)
    BY <1>1 DEF Types
  <2>2. Append(s2c, m) \in Seq(Messages) /\ IsAppended(Append(s2c, m), s2c, m)
    BY <1>10, <2>1, AppendedIs
  <2>3. QED
    BY <1>9, <2>1, <2>2
<1>12. Types'
  BY <1>1, <1>3, <1>7, <1>11 DEF Types
<1>13. \A p : Pending(p)' <=> Pending(p)
  <2> SUFFICES ASSUME NEW p
               PROVE  Pending(p)' <=> Pending(p)
    OBVIOUS
  <2>1. CASE p = o
    <3>1. CASE kind[o] = "offered"
      BY <2>1, <3>1 DEF Pending, Chosen
    <3>2. CASE kind[o] # "offered"
      <4>1. Pending(o)
        BY <3>2 DEF Pending, Chosen
      <4>2. Len(s2c) + 1 \in DOMAIN s2c' /\ Reports(s2c', Len(s2c) + 1, o)
        BY <1>10, <1>11, <3>2 DEF IsAppended, Reports
      <4>3. Pending(o)'
        BY <3>2, <4>2 DEF Pending, Chosen, Reports
      <4>4. QED
        BY <2>1, <4>1, <4>3
    <3>3. QED
      BY <3>1, <3>2
  <2>2. CASE p # o
    <3>1. (\E k \in DOMAIN s2c' : Reports(s2c', k, p)) <=> \E k \in DOMAIN s2c : Reports(s2c, k, p)
      BY <1>9, <1>10, <1>11, <2>2 DEF IsAppended, Reports
    <3>2. Chosen(p) => resource'[p] = resource[p]
      BY <1>2, <1>3, <2>2 DEF Chosen
    <3>3. QED
      BY <1>8, <3>1, <3>2 DEF Pending, Reports
  <2>3. QED
    BY <2>1, <2>2
<1>14. ObjectsSound'
  <2>1. ~(o > created)
    BY <1>1 DEF Types
  <2>2. \A p \in Objects : p > created => resource'[p] = "none"
    BY <1>1, <1>3, <2>1 DEF ObjectsSound
  <2>3. \A p \in 1..created : resource'[p] = "destroyed" /\ proxy[p] # "destroyed" =>
          kind[p] \in ServerDestroys
    BY <1>1, <1>2, <1>3 DEF ObjectsSound
  <2>4. \A p \in 1..created : Offered(p) => resource'[p] # "none"
    BY <1>1, <1>2, <1>3 DEF ObjectsSound
  <2>5. QED
    BY <1>1, <1>8, <1>13, <2>2, <2>3, <2>4 DEF ObjectsSound
<1>15. PendingUnique'
  BY <1>1, <1>13 DEF PendingUnique
<1>16. Found'
  <2> SUFFICES ASSUME NEW p \in 1..created
               PROVE  /\ proxy[p] = "live" => Has(cmap, id[p]) /\ At(cmap, id[p]) = Entry(p, 0)
                      /\ Pending(p) /\ proxy[p] = "destroyed" =>
                           Has(cmap, id[p]) /\ At(cmap, id[p]) = Entry(NULL, ZOMBIE)
                      /\ resource'[p] = "live" => Has(smap', id[p]) /\ At(smap', id[p]) = Entry(p, 0)
    BY <1>13 DEF Found
  <2>1. ASSUME resource'[p] = "live"
        PROVE  Has(smap', id[p]) /\ At(smap', id[p]) = Entry(p, 0)
    <3>1. p # o /\ resource[p] = "live"
      BY <1>2, <1>3, <2>1
    <3>2. id[p] # i /\ id[p] \in Nat
      BY <1>1, <1>a, <3>1, OneHolder, IdsOnSides
    <3>3. QED
      BY <1>1, <1>7, <3>1, <3>2 DEF Found, SameBut
  <2>2. QED
    BY <1>1, <2>1 DEF Found
<1>17. EntriesSound'
  <2>1. \A j, f : ClientEntry(j, f)' <=> ClientEntry(j, f)
    BY <1>13 DEF ClientEntry
  <2>2. ASSUME NEW j \in Nat, Has(smap', j)
        PROVE  ServerEntry(j, At(smap, j))'
    <3>1. CASE j = i
      BY <1>2, <1>6, <1>7, <3>1 DEF ServerEntry, DisplayId
    <3>2. CASE j # i
      <4>1. Has(smap, j) /\ At(smap', j) = At(smap, j)
        BY <1>7, <2>2, <3>2 DEF SameBut
      <4>2. ServerEntry(j, At(smap, j))
        BY <1>1, <4>1 DEF EntriesSound
      <4>3. \A p \in 1..created : id[p] = j => resource'[p] = resource[p]
        BY <1>2, <1>3, <1>a, <3>2
      <4>4. QED
        BY <4>1, <4>2, <4>3 DEF ServerEntry
    <3>3. QED
      BY <3>1, <3>2
  <2>3. Has(smap', DisplayId)
    BY <1>1, <1>2, <1>7 DEF EntriesSound, SameBut, DisplayId
  <2>4. QED
    BY <1>1, <1>6, <1>7, <2>1, <2>2, <2>3 DEF EntriesSound
<1>18. \A p \in 1..created : resource'[p] = "none" <=> resource[p] = "none"
  BY <1>2, <1>3
<1>19. \A n \in Messages : EventSound(n) => EventSound(n)'
  <2> SUFFICES ASSUME NEW n \in Messages, EventSound(n)
               PROVE  EventSound(n)'
    OBVIOUS
  <2>1. SentFor(n) => SentFor(n)'
    BY <1>8, <1>18 DEF SentFor
  <2>2. Chosen(n.arg) /\ resource[n.arg] = "destroyed" => resource'[n.arg] = "destroyed"
    BY <1>2, <1>3 DEF Chosen
  <2>3. QED
    BY <1>8, <2>1, <2>2 DEF EventSound
<1>20. EventsSound' /\ DisplayEventsSound'
  <2>1. CASE kind[o] = "offered"
    <3>1. \A p \in 1..created : Chosen(p) => resource'[p] = resource[p]
      BY <1>2, <1>3, <2>1 DEF Chosen
    <3>2. UNCHANGED <<s2c, display_queue>>
      BY <1>9, <2>1
    <3>3. Display \notin Objects
      BY ObjectIdsAssumption
    <3>4. QED
      BY <1>1, <1>8, <1>19, <3>1, <3>2, <3>3, EventsKept
  <2>2. CASE kind[o] # "offered"
    <3>1. EventSound(m)'
      BY <1>3, <1>10, <1>a, <2>2 DEF EventSound, Chosen
    <3>2. \A k \in DOMAIN s2c : EventsInOrder(s2c[k], m)
      BY <1>1, <1>10 DEF EventsSound, EventSound, EventsInOrder
    <3>3. \A k \in DOMAIN display_queue : display_queue[k].arg # m.arg
      BY <1>1, <1>10 DEF DisplayEventsSound
    <3>4. \A p \in 1..created :
            /\ resource[p] = "live" =>
                 resource'[p] = "live" \/ (m.op = "delete_id" /\ m.arg = p)
            /\ resource[p] = "destroyed" => resource'[p] = "destroyed"
      BY <1>2, <1>3, <1>10
    <3>5. s2c' = Append(s2c, m)
      BY <1>9, <2>2
    <3>6. QED
      BY <1>1, <1>2, <1>8, <1>10, <1>19, <3>1, <3>2, <3>3, <3>4, <3>5, EventSent
  <2>3. QED
    BY <2>1, <2>2
<1>21. ASSUME NEW n \in Messages, RequestSound(n),
              n.op \in Uses /\ n.obj = o => kind[o] \in ServerDestroys
       PROVE  RequestSound(n)'
  <2>1. CASE n.op = "create"
    BY <1>8, <1>18, <1>21, <2>1 DEF RequestSound, Uses, Chosen
  <2>2. CASE n.op \in Uses
    <3>1. resource'[n.obj] = "destroyed" => kind[n.obj] \in ServerDestroys
      BY <1>2, <1>3, <1>21, <2>2 DEF RequestSound, Uses
    <3>2. \A p \in 1..created : resource'[p] = "live" => resource[p] = "live"
      BY <1>2, <1>3
    <3>3. QED
      BY <1>21, <2>2, <3>1, <3>2 DEF RequestSound, Uses
  <2>3. QED
    BY <1>21, <2>1, <2>2 DEF RequestSound
<1>22. QED
  BY <1>12, <1>14, <1>15, <1>16, <1>17, <1>18, <1>20, <1>21

LEMMA DestroyResourceKeeps ==
  ASSUME IdsInv, NEW o \in 1..created, DestroyResource(o)
  PROVE  IdsInv'
<1>1. Types /\ RequestsSound /\ c2s \in Seq(Messages)
  BY DEF IdsInv, Types
<1>2. /\ resource[o] = "live" /\ kind[o] \in ServerDestroys
      /\ smap' = MapWithoutResource(o) /\ resource' = [resource EXCEPT ![o] = "destroyed"]
      /\ s2c' = EventsAfterDestroy(s2c, o)
      /\ UNCHANGED <<cmap, created, kind, id, proxy, id_deleted, refcount, display_queue, queue,
                     failed, c2s>>
  BY DEF DestroyResource, clientVars
<1>3. /\ Types' /\ ObjectsSound' /\ PendingUnique' /\ Found' /\ EntriesSound'
      /\ EventsSound' /\ DisplayEventsSound'
      /\ \A n \in Messages : RequestSound(n) => RequestSound(n)'
      /\ \A p \in 1..created : resource'[p] = "none" <=> resource[p] = "none"
  BY <1>1, <1>2, ResourceDestroyed
<1>4. RequestsSound'
  BY <1>1, <1>2, <1>3, RequestsKept DEF Chosen
<1>5. QED
  BY <1>3, <1>4 DEF IdsInv

LEMMA RequestMeetsItsObject ==
  ASSUME IdsInv, NEW m, RequestSound(m), m.op \in Uses, wl_map_lookup(smap, m.to) # NULL
  PROVE  /\ wl_map_lookup(smap, m.to) = m.obj
         /\ m.obj \in 1..created /\ resource[m.obj] = "live"
<1>1. Types /\ ObjectsSound /\ EntriesSound
  BY DEF IdsInv
<1>2. /\ m.obj \in 1..created /\ m.to = id[m.obj]
      /\ \A p \in 1..created : resource[p] = "live" /\ id[p] = m.to => p = m.obj
  BY DEF RequestSound, Uses
<1>3. m.to \in Nat /\ m.to > 1 /\ smap \in Maps
  BY <1>1, <1>2, IdsOnSides DEF Types
<1>4. Has(smap, m.to) /\ At(smap, m.to).data = wl_map_lookup(smap, m.to)
  BY <1>3, LookupIs
<1>5. ServerEntry(m.to, At(smap, m.to))
  BY <1>1, <1>3, <1>4 DEF EntriesSound
<1>6. QED
  BY <1>2, <1>3, <1>4, <1>5 DEF ServerEntry

LEMMA CreateHandledKeeps ==
  ASSUME IdsInv, NEW m, m = Head(c2s), c2s # << >>, c2s' = Tail(c2s),
         m.op = "create", CanReserve(smap, m.new),
         smap' = wl_map_insert_at(wl_map_reserve_new(smap, m.new), 0, m.new, m.arg),
         resource' = [resource EXCEPT ![m.arg] = "live"],
         UNCHANGED <<cmap, created, kind, id, proxy, id_deleted, refcount, s2c, display_queue,
                     queue, failed>>
  PROVE  IdsInv'
<1>a. PICK o : o = m.arg
  OBVIOUS
<1>b. PICK i : i = m.new
  OBVIOUS
<1>1. /\ Types /\ ObjectsSound /\ Found /\ PendingUnique /\ EntriesSound /\ RequestsSound
      /\ EventsSound /\ DisplayEventsSound
  BY DEF IdsInv
<1>2. Tail(c2s) \in Seq(Messages) /\ m \in Messages /\ m = c2s[1] /\ 1 \in DOMAIN c2s
  BY <1>1, TailIs DEF Types, IsTail
<1>3. RequestSound(m)
  BY <1>1, <1>2 DEF RequestsSound
<1>4. Chosen(o) /\ i = id[o] /\ resource[o] = "none"
  BY <1>3, <1>a, <1>b DEF RequestSound, Uses
<1>5. /\ o \in 1..created /\ kind[o] # "offered"
      /\ o \in Objects /\ 1..created \subseteq Objects
      /\ i \in Nat /\ i > 1 /\ i < ServerStart /\ SideOf(i) = "client"
  BY <1>1, <1>4, IdsOnSides DEF Chosen
<1>6. /\ Stored(smap', smap, i, Entry(o, 0)) /\ FreeListIn(smap', 1)
      /\ Has(smap, i) => At(smap, i) = Entry(NULL, 0)
  <2>1. smap \in Maps /\ FreeListIn(smap, 1)
    BY <1>1 DEF Types, EntriesSound
  <2>2. smap' = wl_map_insert_at(wl_map_reserve_new(smap, i), 0, i, o) /\ CanReserve(smap, i)
    BY <1>a, <1>b
  <2>3. /\ Stored(smap', smap, i, Entry(o, 0))
        /\ \A low \in Nat : FreeListIn(smap, low) => FreeListIn(smap', low)
        /\ SideOf(i) # smap.side /\ (Has(smap, i) => At(smap, i) = Entry(NULL, 0))
    BY <1>5, <2>1, <2>2, ReserveAndInsert
  <2>4. QED
    BY <2>1, <2>3
<1>7. /\ smap' \in Maps /\ smap'.side = smap.side /\ Has(smap', i) /\ At(smap', i) = Entry(o, 0)
      /\ SameBut(smap, smap', i)
  BY <1>6 DEF Stored
<1>8. /\ resource'[o] = "live"
      /\ \A p \in Objects : p # o => resource'[p] = resource[p]
      /\ resource' \in [Objects -> {"none", "live", "destroyed"}]
  BY <1>1, <1>5, <1>a DEF Types
<1>9. Types'
  BY <1>1, <1>2, <1>7, <1>8 DEF Types
<1>10. /\ \A p : Chosen(p)' <=> Chosen(p)
       /\ \A p : Offered(p)' <=> Offered(p)
  BY DEF Chosen, Offered
<1>11. \A p : Pending(p)' <=> Pending(p)
  <2> SUFFICES ASSUME NEW p
               PROVE  Pending(p)' <=> Pending(p)
    OBVIOUS
  <2>1. Chosen(p) => (resource'[p] # "destroyed" <=> resource[p] # "destroyed")
    BY <1>4, <1>5, <1>8 DEF Chosen
  <2>2. QED
    BY <1>10, <2>1 DEF Pending, Reports
<1>12. ObjectsSound'
  <2>1. ~(o > created)
    BY <1>1, <1>5 DEF Types
  <2>2. \A p \in Objects : p > created => resource'[p] = "none"
    BY <1>1, <1>8, <2>1 DEF ObjectsSound
  <2>3. \A p \in 1..created : resource'[p] = "destroyed" /\ proxy[p] # "destroyed" =>
          kind[p] \in ServerDestroys
    BY <1>1, <1>5, <1>8 DEF ObjectsSound
  <2>4. \A p \in 1..created : Offered(p) => resource'[p] # "none"
    BY <1>1, <1>5, <1>8 DEF ObjectsSound
  <2>5. QED
    BY <1>1, <1>10, <1>11, <2>2, <2>3, <2>4 DEF ObjectsSound
<1>13. PendingUnique'
  BY <1>1, <1>11 DEF PendingUnique
<1>14. Found'
  <2> SUFFICES ASSUME NEW p \in 1..created
               PROVE  /\ proxy[p] = "live" => Has(cmap, id[p]) /\ At(cmap, id[p]) = Entry(p, 0)
                      /\ Pending(p) /\ proxy[p] = "destroyed" =>
                           Has(cmap, id[p]) /\ At(cmap, id[p]) = Entry(NULL, ZOMBIE)
                      /\ resource'[p] = "live" => Has(smap', id[p]) /\ At(smap', id[p]) = Entry(p, 0)
    BY <1>11 DEF Found
  <2>1. ASSUME resource'[p] = "live", p # o
        PROVE  Has(smap', id[p]) /\ At(smap', id[p]) = Entry(p, 0)
    <3>1. Has(smap, id[p]) /\ At(smap, id[p]) = Entry(p, 0)
      BY <1>1, <1>5, <1>8, <2>1 DEF Found
    <3>2. id[p] # i
      <4>1. p # NULL
        BY <1>5, ObjectIdsAssumption
      <4>2. Entry(p, 0) # Entry(NULL, 0)
        BY <4>1, EntriesDiffer
      <4>3. QED
        BY <1>6, <3>1, <4>2
    <3>3. id[p] \in Nat
      BY <1>1, IdsOnSides
    <3>4. QED
      BY <1>7, <3>1, <3>2, <3>3 DEF SameBut
  <2>2. QED
    BY <1>1, <1>4, <1>7, <2>1 DEF Found
<1>15. EntriesSound'
  <2>1. \A j, f : ClientEntry(j, f)' <=> ClientEntry(j, f)
    BY <1>11 DEF ClientEntry
  <2>2. ASSUME NEW j \in Nat, Has(smap', j)
        PROVE  ServerEntry(j, At(smap, j))'
    <3>1. CASE j = i
      <4>1. At(smap', j).data = o /\ o # NULL
        BY <1>5, <1>7, <3>1, EntryIsEntry, ObjectIdsAssumption
      <4>2. QED
        BY <1>4, <1>5, <1>8, <3>1, <4>1 DEF ServerEntry, DisplayId
    <3>2. CASE j # i
      <4>1. Has(smap, j) /\ At(smap', j) = At(smap, j)
        BY <1>7, <2>2, <3>2 DEF SameBut
      <4>2. ServerEntry(j, At(smap, j))
        BY <1>1, <4>1 DEF EntriesSound
      <4>3. \A p \in 1..created : resource[p] = "live" => resource'[p] = "live"
        BY <1>5, <1>8
      <4>4. QED
        BY <4>1, <4>2, <4>3 DEF ServerEntry
    <3>3. QED
      BY <3>1, <3>2
  <2>3. Has(smap', DisplayId)
    BY <1>1, <1>5, <1>7 DEF EntriesSound, SameBut, DisplayId
  <2>4. QED
    BY <1>1, <1>6, <1>7, <2>1, <2>2, <2>3 DEF EntriesSound
<1>16. RequestsSound'
  <2>1. ASSUME NEW n \in Messages, RequestSound(n), InOrder(m, n)
        PROVE  RequestSound(n)'
    <3>1. CASE n.op = "create"
      <4>1. Chosen(n.arg) /\ n.arg # o
        <5>1. Chosen(n.arg) /\ m.arg < n.arg
          BY <2>1, <3>1 DEF RequestSound, InOrder, Uses
        <5>2. ~(o < o)
          BY <1>5
        <5>3. QED
          BY <1>a, <5>1, <5>2
      <4>2. resource'[n.arg] = resource[n.arg]
        BY <1>5, <1>8, <4>1 DEF Chosen
      <4>3. QED
        BY <1>10, <2>1, <3>1, <4>2 DEF RequestSound, Uses
    <3>2. CASE n.op \in Uses
      <4>1. n.to = i => n.obj = o
        BY <1>a, <1>b, <2>1, <3>2 DEF InOrder
      <4>2. \A p \in 1..created : resource'[p] = "live" /\ id[p] = n.to => p = n.obj
        <5> SUFFICES ASSUME NEW p \in 1..created, resource'[p] = "live", id[p] = n.to
                     PROVE  p = n.obj
          OBVIOUS
        <5>1. CASE p = o
          BY <1>4, <4>1, <5>1
        <5>2. CASE p # o
          BY <1>5, <1>8, <2>1, <3>2, <5>2 DEF RequestSound, Uses
        <5>3. QED
          BY <5>1, <5>2
      <4>3. resource'[n.obj] = "destroyed" => kind[n.obj] \in ServerDestroys
        BY <1>5, <1>8, <2>1, <3>2 DEF RequestSound, Uses
      <4>4. QED
        BY <2>1, <3>2, <4>2, <4>3 DEF RequestSound, Uses
    <3>3. QED
      BY <2>1, <3>1, <3>2 DEF RequestSound
  <2>2. \A p \in 1..created : Chosen(p) /\ resource'[p] = "none" =>
          resource[p] = "none" /\ m.arg # p
    BY <1>5, <1>8, <1>a
  <2>3. QED
    BY <1>1, <1>10, <2>1, <2>2, RequestRead
<1>17. EventsSound' /\ DisplayEventsSound'
  <2>1. \A p \in 1..created : resource[p] # "none" => resource'[p] = resource[p]
    BY <1>4, <1>5, <1>8
  <2>2. ASSUME NEW n \in Messages, EventSound(n)
        PROVE  EventSound(n)'
    <3>1. SentFor(n) => SentFor(n)'
      BY <1>10, <2>1 DEF SentFor
    <3>2. Chosen(n.arg) /\ resource[n.arg] = "destroyed" => resource'[n.arg] = "destroyed"
      BY <2>1 DEF Chosen
    <3>3. QED
      BY <1>10, <2>2, <3>1, <3>2 DEF EventSound
  <2>3. Display \notin Objects
    BY ObjectIdsAssumption
  <2>4. QED
    BY <1>1, <1>10, <2>1, <2>2, <2>3, EventsKept
<1>18. QED
  BY <1>9, <1>12, <1>13, <1>14, <1>15, <1>16, <1>17 DEF IdsInv

LEMMA HandleRequestKeeps ==
  ASSUME IdsInv, HandleRequest
  PROVE  IdsInv'
<1>a. PICK m : m = Head(c2s)
  OBVIOUS
<1>1. /\ Types /\ ObjectsSound /\ Found /\ PendingUnique /\ EntriesSound /\ RequestsSound
      /\ EventsSound /\ DisplayEventsSound
  BY DEF IdsInv
<1>2. /\ c2s # << >> /\ c2s' = Tail(c2s) /\ wl_map_lookup(smap, m.to) # NULL
      /\ UNCHANGED <<cmap, created, kind, id, proxy, id_deleted, refcount, display_queue, queue,
                     failed>>
  BY <1>a DEF HandleRequest, clientVars
<1>3. Tail(c2s) \in Seq(Messages) /\ m \in Messages /\ m = c2s[1] /\ 1 \in DOMAIN c2s
  BY <1>1, <1>2, <1>a, TailIs DEF Types, IsTail
<1>4. RequestSound(m)
  BY <1>1, <1>3 DEF RequestsSound
<1>5. CASE /\ m.op = "create" /\ CanReserve(smap, m.new)
           /\ smap' = wl_map_insert_at(wl_map_reserve_new(smap, m.new), 0, m.new, m.arg)
           /\ resource' = [resource EXCEPT ![m.arg] = "live"]
           /\ UNCHANGED s2c
  BY <1>2, <1>5, <1>a, CreateHandledKeeps
<1>6. ASSUME NEW o, o = wl_map_lookup(smap, m.to), m.op = "destroy",
             smap' = MapWithoutResource(o), resource' = [resource EXCEPT ![o] = "destroyed"],
             s2c' = EventsAfterDestroy(s2c, o)
      PROVE  IdsInv'
  <2>1. m.obj = o /\ o \in 1..created /\ resource[o] = "live"
    BY <1>2, <1>4, <1>6, RequestMeetsItsObject DEF Uses
  <2>2. proxy[o] = "destroyed"
    BY <1>4, <1>6, <2>1 DEF RequestSound, Uses
  <2>3. c2s' \in Seq(Messages)
    BY <1>2, <1>3
  <2>4. /\ Types' /\ ObjectsSound' /\ PendingUnique' /\ Found' /\ EntriesSound'
        /\ EventsSound' /\ DisplayEventsSound'
        /\ \A n \in Messages :
             RequestSound(n) /\ (n.op \in Uses /\ n.obj = o => kind[o] \in ServerDestroys) =>
               RequestSound(n)'
        /\ \A p \in 1..created : resource'[p] = "none" <=> resource[p] = "none"
    BY <1>2, <1>6, <2>1, <2>2, <2>3, ResourceDestroyed
  <2>5. \A n \in Messages : RequestSound(n) /\ InOrder(m, n) => RequestSound(n)'
    BY <1>6, <2>1, <2>4 DEF InOrder
  <2>6. \A p \in (1..created)' : Chosen(p)' /\ resource'[p] = "none" =>
          p \in 1..created /\ Chosen(p) /\ resource[p] = "none"
    BY <1>2, <2>4 DEF Chosen
  <2>7. RequestsSound'
    BY <1>1, <1>2, <1>6, <1>a, <2>5, <2>6, RequestRead
  <2>8. QED
    BY <2>4, <2>7 DEF IdsInv
<1>7. CASE m.op = "use" /\ UNCHANGED <<smap, resource, s2c>>
  <2>1. Types'
    BY <1>1, <1>2, <1>3, <1>7 DEF Types
  <2>2. \A p : Pending(p)' <=> Pending(p)
    BY <1>2, <1>7, SamePending
  <2>3. ObjectsSound' /\ PendingUnique' /\ Found' /\ EntriesSound'
    BY <1>1, <1>2, <1>7, <2>2, SameHolders DEF objectVars
  <2>4. EventsSound' /\ DisplayEventsSound'
    BY <1>1, <1>2, <1>7, SameEvents DEF objectVars
  <2>5. \A n : RequestSound(n)' <=> RequestSound(n)
    BY <1>2, <1>7 DEF RequestSound, Chosen
  <2>6. RequestsSound'
    BY <1>1, <1>2, <1>7, <1>a, <2>5, RequestRead DEF Chosen
  <2>7. QED
    BY <2>1, <2>3, <2>4, <2>6 DEF IdsInv
<1>8. QED
  BY <1>5, <1>6, <1>7, <1>a DEF HandleRequest, serverVars

(* The resource of an object the server offers gets an id nobody has.       *)
LEMMA ResourceOffered ==
  ASSUME IdsInv, NEW from, OfferObject(from), NEW o, o = created + 1,
         NEW i, i = wl_map_insert_new(smap, 0, NULL).id
  PROVE  /\ created \in Nat /\ o \in Objects /\ o \notin 1..created /\ 1..created \subseteq Objects
         /\ \A p : p \in (1..created)' <=> p \in 1..created \/ p = o
         /\ Display \notin (1..created)' /\ Display \notin 1..created
         /\ i \in Nat /\ SideOf(i) = "server" /\ i > 1
         /\ i \in ServerStart..(ServerStart + MaxObjects)
         /\ Has(smap, i) => At(smap, i).data = NULL
         /\ smap' \in Maps /\ smap'.side = "server" /\ Has(smap', i) /\ At(smap', i) = Entry(o, 0)
         /\ SameBut(smap, smap', i) /\ FreeListIn(smap', 1)
         /\ \A p \in 1..created : resource[p] = "live" => id[p] # i
<1>b. PICK r : r = wl_map_insert_new(smap, 0, NULL)
  OBVIOUS
<1>1. Types /\ ObjectsSound /\ Found /\ EntriesSound
  BY DEF IdsInv
<1>2. /\ created < MaxCreated /\ i # 0 /\ created' = o /\ i = r.id
      /\ smap' = wl_map_insert_at(r.map, 0, i, o)
  BY <1>b DEF OfferObject
<1>3. /\ created \in Nat /\ o \in Objects /\ o \notin 1..created /\ 1..created \subseteq Objects
      /\ \A p : p \in (1..created)' <=> p \in 1..created \/ p = o
      /\ Display \notin (1..created)' /\ Display \notin 1..created
  BY <1>1, <1>2, ObjectIdsAssumption DEF Types, Objects
<1>5. smap \in Maps /\ smap.side = "server" /\ FreeListIn(smap, 1)
  BY <1>1 DEF Types, EntriesSound
<1>6. IsNewId(r.map, smap, i, NULL, 1)
  <2>1. Len(smap.entries[smap.side]) \in Nat
    BY <1>5, EntriesOf DEF Sides
  <2>2. 1 <= Len(smap.entries[smap.side]) + 1
    BY <2>1
  <2>3. QED
    BY <1>2, <1>5, <1>b, <2>2, InsertNew
<1>7. /\ i \in Nat /\ SideOf(i) = "server" /\ i > 1
      /\ i \in ServerStart..(ServerStart + MaxObjects)
      /\ Has(smap, i) => At(smap, i).data = NULL
  <2>1. i \in Nat /\ i = ServerStart + IndexOf(i) /\ IndexOf(i) <= MaxObjects /\ IndexOf(i) \in Nat
    BY <1>5, <1>6, IdsHavePlaces, WlMapAssumption DEF IsNewId, Base
  <2>2. i >= ServerStart /\ i <= ServerStart + MaxObjects /\ i > 1
    BY <2>1, WlMapAssumption
  <2>3. QED
    BY <1>5, <1>6, <2>1, <2>2, WlMapAssumption DEF IsNewId
<1>8. /\ smap' \in Maps /\ smap'.side = "server" /\ Has(smap', i) /\ At(smap', i) = Entry(o, 0)
      /\ SameBut(smap, smap', i) /\ FreeListIn(smap', 1)
  <2>1. PICK n : n = r.map
    OBVIOUS
  <2>2. /\ n \in Maps /\ n.side = smap.side /\ Has(n, i) /\ SameBut(smap, n, i)
        /\ FreeListOff(n, 1, i)
    BY <1>6, <2>1 DEF IsNewId, Stored
  <2>3. IndexOf(i) <= Len(n.entries[SideOf(i)])
    <3>1. Len(n.entries[SideOf(i)]) \in Nat /\ IndexOf(i) \in Nat
      BY <1>7, <2>2, IdsHavePlaces, EntriesOf
    <3>2. QED
      BY <2>2, <3>1 DEF Has
  <2>4. smap' = wl_map_insert_at(n, 0, i, o) /\ o \in Objects \cup {NULL, Display}
    BY <1>2, <1>3, <2>1
  <2>5. Stored(smap', n, i, Entry(o, 0)) /\ FreeListIn(smap', 1)
    BY <1>5, <1>7, <2>2, <2>3, <2>4, InsertAt
  <2>6. QED
    BY <1>5, <2>2, <2>5 DEF Stored, SameBut
<1>9. \A p \in 1..created : resource[p] = "live" => id[p] # i
  <2> SUFFICES ASSUME NEW p \in 1..created, resource[p] = "live", id[p] = i
               PROVE  FALSE
    OBVIOUS
  <2>1. Has(smap, i) /\ At(smap, i) = Entry(p, 0)
    BY <1>1 DEF Found
  <2>2. At(smap, i).data = p /\ p # NULL
    BY <1>3, <2>1, EntryIsEntry, ObjectIdsAssumption
  <2>3. QED
    BY <1>7, <2>1, <2>2
<1>10. QED
  BY <1>3, <1>7, <1>8, <1>9

LEMMA OfferObjectKeeps ==
  ASSUME IdsInv, NEW from \in {Display} \cup 1..created, OfferObject(from)
  PROVE  IdsInv'
<1>a. PICK o : o = created + 1
  OBVIOUS
<1>b. PICK r : r = wl_map_insert_new(smap, 0, NULL)
  OBVIOUS
<1>c. PICK i : i = r.id
  OBVIOUS
<1>d. PICK to : to = IF from = Display THEN DisplayId ELSE id[from]
  OBVIOUS
<1>e. PICK m : m = Message("new", from, to, i, o)
  OBVIOUS
<1>1. /\ Types /\ ObjectsSound /\ Found /\ PendingUnique /\ EntriesSound /\ RequestsSound
      /\ EventsSound /\ DisplayEventsSound
  BY DEF IdsInv
<1>2. /\ created < MaxCreated /\ i # 0 /\ created' = o
      /\ smap' = wl_map_insert_at(r.map, 0, i, o)
      /\ kind' = [kind EXCEPT ![o] = "offered"] /\ id' = [id EXCEPT ![o] = i]
      /\ resource' = [resource EXCEPT ![o] = "live"]
      /\ s2c' = Append(s2c, m)
      /\ UNCHANGED <<cmap, proxy, id_deleted, refcount, display_queue, queue, c2s, failed>>
  BY <1>a, <1>b, <1>c, <1>d, <1>e DEF OfferObject, Send, clientVars
<1>3. /\ created \in Nat /\ o \in Objects /\ o \notin 1..created /\ 1..created \subseteq Objects
      /\ \A p : p \in (1..created)' <=> p \in 1..created \/ p = o
      /\ Display \notin (1..created)' /\ Display \notin 1..created
  BY <1>a, <1>b, <1>c, ResourceOffered
<1>4. \/ from = Display /\ to = DisplayId
      \/ /\ from \in 1..created /\ from # Display /\ to = id[from]
         /\ resource[from] = "live" /\ kind[from] = "plain"
  BY <1>3, <1>d DEF OfferObject
<1>5. smap \in Maps /\ smap.side = "server" /\ FreeListIn(smap, 1)
  BY <1>1 DEF Types, EntriesSound
<1>7. /\ i \in Nat /\ SideOf(i) = "server" /\ i > 1
      /\ i \in ServerStart..(ServerStart + MaxObjects)
      /\ Has(smap, i) => At(smap, i).data = NULL
  BY <1>a, <1>b, <1>c, ResourceOffered
<1>8. /\ smap' \in Maps /\ smap'.side = "server" /\ Has(smap', i) /\ At(smap', i) = Entry(o, 0)
      /\ SameBut(smap, smap', i) /\ FreeListIn(smap', 1)
  BY <1>a, <1>b, <1>c, ResourceOffered
<1>9. \A p \in 1..created : resource[p] = "live" => id[p] # i
  BY <1>a, <1>b, <1>c, ResourceOffered
<1>10. /\ kind'[o] = "offered" /\ id'[o] = i /\ resource'[o] = "live"
       /\ \A p \in 1..created : kind'[p] = kind[p] /\ id'[p] = id[p] /\ resource'[p] = resource[p]
       /\ \A p \in Objects : p # o => resource'[p] = resource[p]
  BY <1>1, <1>2, <1>3 DEF Types
<1>11. proxy[o] = "none" /\ ~id_deleted[o]
  BY <1>1, <1>3, <1>a DEF ObjectsSound, Objects
<1>12. m \in Messages /\ m.op = "new" /\ m.obj = from /\ m.to = to /\ m.new = i /\ m.arg = o
  <2>1. to \in Nat
    BY <1>1, <1>4, IdsOnSides DEF DisplayId
  <2>2. QED
    BY <1>3, <1>7, <1>e, <2>1 DEF Message, Messages
<1>13. s2c' \in Seq(Messages) /\ IsAppended(s2c', s2c, m)
  BY <1>1, <1>2, <1>12, AppendedIs DEF Types
<1>14. /\ \A p : Chosen(p)' <=> Chosen(p)
       /\ \A p : Offered(p)' <=> Offered(p) \/ p = o
       /\ \A p : Pending(p)' <=> Pending(p)
  <2>1. \A p : (Chosen(p)' <=> Chosen(p)) /\ (Offered(p)' <=> Offered(p) \/ p = o)
    BY <1>3, <1>10 DEF Chosen, Offered
  <2>2. \A p : (\E k \in DOMAIN s2c' : Reports(s2c', k, p))
               <=> \E k \in DOMAIN s2c : Reports(s2c, k, p)
    BY <1>12, <1>13 DEF IsAppended, Reports
  <2>3. \A p : Chosen(p) => resource'[p] = resource[p]
    BY <1>10 DEF Chosen
  <2>4. \A p : Pending(p)' <=> Pending(p)
    BY <1>2, <2>1, <2>2, <2>3 DEF Pending, Reports
  <2>5. QED
    BY <2>1, <2>4
<1>15. Types'
  <2>1. created' \in 0..MaxCreated
    BY <1>1, <1>2, <1>a, ObjectIdsAssumption DEF Types
  <2>2. /\ kind \in [Objects -> {"plain", "callback", "offered"}] /\ id \in [Objects -> Nat]
        /\ resource \in [Objects -> {"none", "live", "destroyed"}]
    BY <1>1 DEF Types
  <2>3. kind' \in [Objects -> {"plain", "callback", "offered"}]
    BY <1>2, <2>2
  <2>4. id' \in [Objects -> Nat]
    BY <1>2, <1>7, <2>2
  <2>5. resource' \in [Objects -> {"none", "live", "destroyed"}]
    BY <1>2, <2>2
  <2>6. QED
    BY <1>1, <1>2, <1>8, <1>13, <2>1, <2>3, <2>4, <2>5 DEF Types
<1>16. ObjectsSound'
  <2>1. \A p \in Objects : p > created' => p > created /\ p # o
    BY <1>2, <1>3, <1>a DEF Objects
  <2>2. \A p \in (1..created)' : p \in 1..created \/ p = o
    BY <1>3
  <2>3. \A p \in Objects : p > created' =>
          proxy'[p] = "none" /\ resource'[p] = "none" /\ ~id_deleted'[p]
    BY <1>1, <1>2, <1>10, <2>1 DEF ObjectsSound
  <2>4. \A p \in (1..created)' : resource'[p] = "destroyed" /\ proxy'[p] # "destroyed" =>
          kind'[p] \in ServerDestroys
    BY <1>1, <1>2, <1>10, <2>2 DEF ObjectsSound
  <2>5. \A p \in (1..created)' : Chosen(p)' =>
          /\ id'[p] \in 2..MaxObjects /\ proxy'[p] # "none"
          /\ id_deleted'[p] => ~Pending(p)'
          /\ proxy'[p] = "live" /\ ~Pending(p)' => id_deleted'[p]
    BY <1>1, <1>2, <1>10, <1>14 DEF ObjectsSound, Chosen
  <2>6. \A p \in (1..created)' : Offered(p)' =>
          /\ id'[p] \in ServerStart..(ServerStart + MaxObjects)
          /\ resource'[p] # "none" /\ ~id_deleted'[p]
    BY <1>1, <1>2, <1>7, <1>10, <1>11, <1>14 DEF ObjectsSound, Offered
  <2>7. QED
    BY <2>3, <2>4, <2>5, <2>6 DEF ObjectsSound
<1>17. PendingUnique'
  BY <1>1, <1>10, <1>14 DEF PendingUnique, Pending, Chosen
<1>18. Found'
  <2> SUFFICES ASSUME NEW p \in (1..created)'
               PROVE  /\ proxy'[p] = "live" => Has(cmap', id'[p]) /\ At(cmap', id'[p]) = Entry(p, 0)
                      /\ Pending(p)' /\ proxy'[p] = "destroyed" =>
                           Has(cmap', id'[p]) /\ At(cmap', id'[p]) = Entry(NULL, ZOMBIE)
                      /\ resource'[p] = "live" =>
                           Has(smap', id'[p]) /\ At(smap', id'[p]) = Entry(p, 0)
    BY DEF Found
  <2>1. CASE p = o
    BY <1>2, <1>8, <1>10, <1>11, <2>1
  <2>2. CASE p \in 1..created
    <3>1. id[p] \in Nat
      BY <1>1, <2>2, IdsOnSides
    <3>2. resource[p] = "live" => Has(smap', id[p]) /\ At(smap', id[p]) = Entry(p, 0)
      BY <1>1, <1>8, <1>9, <2>2, <3>1 DEF Found, SameBut
    <3>3. QED
      BY <1>1, <1>2, <1>10, <1>14, <2>2, <3>2 DEF Found
  <2>3. QED
    BY <1>3, <2>1, <2>2
<1>19. EntriesSound'
  <2>1. ASSUME NEW j \in Nat, Has(cmap', j)
        PROVE  ClientEntry(j, At(cmap, j))'
    <3>1. ClientEntry(j, At(cmap, j))
      BY <1>1, <1>2, <2>1 DEF EntriesSound
    <3>2. QED
      BY <1>2, <1>3, <1>10, <1>14, <3>1 DEF ClientEntry
  <2>2. ASSUME NEW j \in Nat, Has(smap', j)
        PROVE  ServerEntry(j, At(smap, j))'
    <3>1. CASE j = i
      <4>1. At(smap', j).data = o /\ o # NULL /\ ~(i < ServerStart)
        BY <1>3, <1>7, <1>8, <3>1, EntryIsEntry, ObjectIdsAssumption, WlMapAssumption
      <4>2. QED
        BY <1>3, <1>7, <1>10, <3>1, <4>1 DEF ServerEntry, DisplayId
    <3>2. CASE j # i
      <4>1. Has(smap, j) /\ At(smap', j) = At(smap, j)
        BY <1>8, <2>2, <3>2 DEF SameBut
      <4>2. ServerEntry(j, At(smap, j))
        BY <1>1, <4>1 DEF EntriesSound
      <4>3. QED
        BY <1>3, <1>10, <4>1, <4>2 DEF ServerEntry
    <3>3. QED
      BY <3>1, <3>2
  <2>3. Has(cmap', DisplayId) /\ Has(smap', DisplayId)
    BY <1>1, <1>2, <1>7, <1>8 DEF EntriesSound, SameBut, DisplayId
  <2>4. QED
    BY <1>1, <1>2, <1>8, <2>1, <2>2, <2>3 DEF EntriesSound
<1>20. RequestsSound'
  <2>1. ASSUME NEW n \in Messages, RequestSound(n)
        PROVE  RequestSound(n)'
    <3>1. CASE n.op = "create"
      <4>1. n.arg \in 1..created
        BY <2>1, <3>1 DEF RequestSound, Chosen, Uses
      <4>2. QED
        BY <1>2, <1>10, <1>14, <2>1, <3>1, <4>1 DEF RequestSound, Uses
    <3>2. CASE n.op \in Uses
      <4>1. n.obj \in 1..created /\ n.to = id[n.obj]
        BY <2>1, <3>2 DEF RequestSound, Uses
      <4>2. n.to # i
        <5>1. CASE kind[n.obj] = "offered"
          <6>1. resource[n.obj] # "none" /\ resource[n.obj] # "destroyed"
            BY <1>1, <2>1, <3>2, <4>1, <5>1, OfferedAssumption
               DEF ObjectsSound, Offered, RequestSound, Uses
          <6>2. resource[n.obj] = "live"
            BY <1>1, <1>3, <4>1, <6>1 DEF Types
          <6>3. QED
            BY <1>9, <4>1, <6>2
        <5>2. CASE kind[n.obj] # "offered"
          BY <1>1, <1>7, <4>1, <5>2, IdsOnSides, WlMapAssumption
        <5>3. QED
          BY <5>1, <5>2
      <4>3. QED
        BY <1>2, <1>3, <1>10, <2>1, <3>2, <4>1, <4>2 DEF RequestSound, Uses
    <3>3. QED
      BY <2>1, <3>1, <3>2 DEF RequestSound
  <2>2. \A p \in (1..created)' : Chosen(p)' /\ resource'[p] = "none" =>
          p \in 1..created /\ Chosen(p) /\ resource[p] = "none"
    BY <1>10, <1>14 DEF Chosen
  <2>3. QED
    BY <1>1, <1>2, <2>1, <2>2, RequestsKept
<1>21. EventsSound' /\ DisplayEventsSound'
  <2>1. \A n : SentFor(n) => SentFor(n)'
    BY <1>2, <1>3, <1>10, <1>11, <1>14 DEF SentFor
  <2>2. ASSUME NEW n \in Messages, EventSound(n)
        PROVE  EventSound(n)'
    <3>1. n.arg \in 1..created =>
            id'[n.arg] = id[n.arg] /\ proxy'[n.arg] = proxy[n.arg] /\ resource'[n.arg] = resource[n.arg]
      BY <1>2, <1>10
    <3>2. QED
      BY <1>14, <2>1, <2>2, <3>1 DEF EventSound, Chosen, Offered
  <2>3. EventSound(m)'
    <3>1. \/ from = Display /\ to = DisplayId
          \/ SentFor(m)' /\ Chosen(from)'
      <4>1. ASSUME from \in 1..created, to = id[from], resource[from] = "live", kind[from] = "plain"
            PROVE  SentFor(m)' /\ Chosen(from)'
        <5>1. SentFor(m)
          BY <1>12, <4>1, LiveResourceSends
        <5>2. QED
          BY <1>14, <2>1, <4>1, <5>1 DEF Chosen
      <4>2. QED
        BY <1>4, <4>1
    <3>2. Offered(o)' /\ i = id'[o] /\ proxy'[o] = "none"
      BY <1>2, <1>10, <1>11, <1>14
    <3>3. QED
      BY <1>12, <3>1, <3>2 DEF EventSound
  <2>4. \A k \in DOMAIN s2c : EventsInOrder(s2c[k], m)
    BY <1>1, <1>3, <1>12 DEF EventsInOrder, EventsSound, EventSound, Offered
  <2>5. Chosen(from)' => resource'[from] = "live"
    <3>1. Chosen(from) => from \in 1..created /\ from # Display
      BY <1>3 DEF Chosen
    <3>2. QED
      BY <1>4, <1>10, <1>14, <3>1
  <2>6. \A p \in 1..created :
          /\ Chosen(p)' <=> Chosen(p)
          /\ id'[p] = id[p]
          /\ resource[p] = "live" => resource'[p] = "live"
          /\ resource[p] = "destroyed" => resource'[p] = "destroyed"
    BY <1>10, <1>14
  <2>7. QED
    BY <1>1, <1>2, <1>3, <1>12, <2>2, <2>3, <2>4, <2>5, <2>6, EventSent
<1>22. QED
  BY <1>15, <1>16, <1>17, <1>18, <1>19, <1>20, <1>21 DEF IdsInv

-----------------------------------------------------------------------------
(* The beginning: each map has id 0, which is nobody's, and the display.   *)

IsFirstMap(m, side, low) ==
  /\ m \in Maps /\ m.side = side /\ FreeListIn(m, low)
  /\ Has(m, 0) /\ At(m, 0) = Entry(NULL, 0)
  /\ Has(m, DisplayId) /\ At(m, DisplayId) = Entry(Display, 0)
  /\ \A i \in Nat : Has(m, i) => i = 0 \/ i = DisplayId

LEMMA EmptyMapIs ==
  ASSUME NEW side \in Sides, NEW m, m = wl_map_init(side)
  PROVE  /\ m \in Maps /\ m.side = side /\ m.free_list = 0
         /\ \A s \in Sides : m.entries[s] = << >>
         /\ \A i \in Nat : ~Has(m, i) /\ \A low \in Nat : FreeListOff(m, low, i)
<1>1. << >> \in Seq(Entries) /\ Len(<< >>) = 0 /\ << >> \in Seq(Nat)
  BY EmptySeq
<1>2. /\ m.side = side /\ m.free_list = 0 /\ m.entries = [s \in Sides |-> << >>]
      /\ m = [side |-> side, entries |-> [s \in Sides |-> << >>], free_list |-> 0]
  BY DEF wl_map_init
<1>3. m \in Maps
  BY <1>1, <1>2 DEF Maps
<1>4. \A s \in Sides : m.entries[s] = << >>
  BY <1>2
<1>5. ASSUME NEW i \in Nat
      PROVE  ~Has(m, i) /\ \A low \in Nat : FreeListOff(m, low, i)
  <2>1. SideOf(i) \in Sides /\ IndexOf(i) \in Nat
    BY IdsHavePlaces
  <2>2. ~Has(m, i)
    BY <1>1, <1>4, <2>1 DEF Has
  <2>3. IsFreeList(m, << >>)
    BY <1>1, <1>2 DEF IsFreeList
  <2>4. PICK list \in Seq(Nat) : list = << >>
    BY <1>1
  <2>5. \A k \in 1..Len(list) : FALSE
    BY <1>1, <2>4
  <2>6. QED
    BY <2>2, <2>3, <2>4, <2>5 DEF FreeListOff
<1>6. QED
  BY <1>2, <1>3, <1>4, <1>5

LEMMA WithNobody ==
  ASSUME NEW side \in Sides, NEW low \in Nat,
         NEW m, m = wl_map_insert_at(wl_map_init(side), 0, 0, NULL)
  PROVE  /\ m \in Maps /\ m.side = side /\ m.free_list = 0 /\ FreeListIn(m, low)
         /\ Len(m.entries["client"]) = 1
         /\ Has(m, 0) /\ At(m, 0) = Entry(NULL, 0)
         /\ \A i \in Nat : Has(m, i) => i = 0
<1>1. PICK n : n = wl_map_init(side)
  OBVIOUS
<1>2. /\ n \in Maps /\ n.side = side /\ n.free_list = 0
      /\ n.entries["client"] = << >> /\ "client" \in Sides
      /\ \A i \in Nat : ~Has(n, i) /\ FreeListOff(n, low, i)
  BY <1>1, EmptyMapIs DEF Sides
<1>3. 0 \in Nat /\ SideOf(0) = "client" /\ IndexOf(0) = 0 /\ Len(<< >>) = 0
  BY WlMapAssumption DEF SideOf, IndexOf
<1>4. m = wl_map_insert_at(n, 0, 0, NULL)
  BY <1>1
<1>5. /\ Stored(m, n, 0, Entry(NULL, 0))
      /\ SideOf(0) # n.side /\ FreeListIn(n, low) => FreeListIn(m, low)
      /\ SideOf(0) = n.side /\ FreeListOff(n, low, 0) => FreeListIn(m, low)
  BY <1>2, <1>3, <1>4, InsertAt
<1>6. FreeListIn(m, low)
  BY <1>2, <1>3, <1>5, FreeListOffIn
<1>7. m.free_list = 0 /\ Len(m.entries["client"]) = 1
  <2>1. PICK e : e = Entry(NULL, 0)
    OBVIOUS
  <2>2. e \in Entries
    BY <2>1, EntryIsEntry
  <2>3. PICK list : list = Append(<< >>, e)
    OBVIOUS
  <2>4. list \in Seq(Entries) /\ Len(list) = 1
    BY <2>2, <2>3
  <2>5. m = WithEntries(n, "client", list)
    BY <1>2, <1>3, <1>4, <2>1, <2>3 DEF wl_map_insert_at
  <2>6. QED
    BY <1>2, <2>4, <2>5, WithEntriesIs
<1>8. QED
  BY <1>2, <1>3, <1>5, <1>6, <1>7 DEF Stored, SameBut

LEMMA FirstMaps ==
  /\ IsFirstMap(wl_map_insert_new(wl_map_insert_at(wl_map_init("client"), 0, 0, NULL), 0,
                                  Display).map, "client", 3)
  /\ IsFirstMap(wl_map_insert_at(wl_map_insert_at(wl_map_init("server"), 0, 0, NULL), 0,
                                 DisplayId, Display), "server", 1)
<1>1. /\ DisplayId \in Nat /\ SideOf(DisplayId) = "client" /\ IndexOf(DisplayId) = 1
      /\ DisplayId # 0 /\ DisplayId = 1
  BY WlMapAssumption DEF SideOf, IndexOf, DisplayId
<1>2. ASSUME NEW m, m = wl_map_insert_at(wl_map_init("client"), 0, 0, NULL),
             NEW r, r = wl_map_insert_new(m, 0, Display)
      PROVE  IsFirstMap(r.map, "client", 3)
  <2>1. /\ m \in Maps /\ m.side = "client" /\ m.free_list = 0 /\ FreeListIn(m, 2)
        /\ Len(m.entries["client"]) = 1
        /\ Has(m, 0) /\ At(m, 0) = Entry(NULL, 0)
        /\ \A i \in Nat : Has(m, i) => i = 0
    BY <1>2, WithNobody DEF Sides
  <2>2. r.id = DisplayId
    <3> DEFINE n == [WithEntries(m, m.side, Append(m.entries[m.side], Entry(Display, 0)))
                       EXCEPT !.free_list = 0]
    <3>1. ~(m.free_list # 0) /\ Len(m.entries[m.side]) = 1 /\ ~(1 > MaxObjects)
      BY <2>1, WlMapAssumption
    <3>2. r = [map |-> n, id |-> Base(m.side) + 1]
      BY <1>2, <3>1 DEF wl_map_insert_new
    <3> HIDE DEF n
    <3>3. QED
      BY <1>1, <2>1, <3>2 DEF Base
  <2>3. IsNewId(r.map, m, DisplayId, Display, 2)
    <3>1. 2 <= Len(m.entries[m.side]) + 1 /\ r.id # 0
      BY <1>1, <2>1, <2>2
    <3>2. QED
      BY <1>2, <2>1, <2>2, <3>1, InsertNew
  <2>4. FreeListIn(r.map, 3)
    BY <1>1, <2>3 DEF IsNewId, FreeListOff, FreeListIn
  <2>5. QED
    BY <1>1, <2>1, <2>3, <2>4 DEF IsNewId, Stored, SameBut, IsFirstMap
<1>3. ASSUME NEW m, m = wl_map_insert_at(wl_map_init("server"), 0, 0, NULL),
             NEW n, n = wl_map_insert_at(m, 0, DisplayId, Display)
      PROVE  IsFirstMap(n, "server", 1)
  <2>1. /\ m \in Maps /\ m.side = "server" /\ FreeListIn(m, 1)
        /\ Len(m.entries["client"]) = 1
        /\ Has(m, 0) /\ At(m, 0) = Entry(NULL, 0)
        /\ \A i \in Nat : Has(m, i) => i = 0
    BY <1>3, WithNobody DEF Sides
  <2>2. Stored(n, m, DisplayId, Entry(Display, 0)) /\ FreeListIn(n, 1)
    <3>1. IndexOf(DisplayId) <= Len(m.entries[SideOf(DisplayId)]) /\ SideOf(DisplayId) # m.side
      BY <1>1, <2>1
    <3>2. /\ Stored(n, m, DisplayId, Entry(Display, 0))
          /\ \A low \in Nat : FreeListIn(m, low) => FreeListIn(n, low)
      BY <1>1, <1>3, <2>1, <3>1, InsertAt
    <3>3. QED
      BY <2>1, <3>2
  <2>3. QED
    BY <1>1, <2>1, <2>2 DEF Stored, SameBut, IsFirstMap
<1>4. QED
  BY <1>2, <1>3

LEMMA InitIds ==
  ASSUME Init
  PROVE  IdsInv
<1>1. IsFirstMap(cmap, "client", 3) /\ IsFirstMap(smap, "server", 1)
  BY FirstMaps DEF Init
<1>2. /\ created = 0
      /\ kind = [o \in Objects |-> "plain"] /\ id = [o \in Objects |-> 0]
      /\ proxy = [o \in Objects |-> "none"]
      /\ id_deleted = [o \in Objects |-> FALSE]
      /\ refcount = [o \in Objects |-> 0]
      /\ resource = [o \in Objects |-> "none"]
      /\ c2s = << >> /\ s2c = << >> /\ display_queue = << >> /\ queue = << >>
      /\ failed = {}
  BY DEF Init
<1>3. DOMAIN c2s = {} /\ DOMAIN s2c = {} /\ DOMAIN display_queue = {} /\ 1..created = {}
  BY <1>2
<1>4. Types
  <2>1. id_deleted \in [Objects -> BOOLEAN]
    BY <1>2
  <2>2. created \in 0..MaxCreated
    BY <1>2, ObjectIdsAssumption
  <2>3. /\ kind \in [Objects -> {"plain", "callback", "offered"}]
        /\ id \in [Objects -> Nat] /\ refcount \in [Objects -> Int]
        /\ proxy \in [Objects -> {"none", "live", "destroyed"}]
        /\ resource \in [Objects -> {"none", "live", "destroyed"}]
    BY <1>2
  <2>4. /\ c2s \in Seq(Messages) /\ s2c \in Seq(Messages)
        /\ display_queue \in Seq(Closures) /\ queue \in Seq(Closures)
    BY <1>2
  <2>5. cmap \in Maps /\ smap \in Maps
    BY <1>1 DEF IsFirstMap
  <2>6. QED
    BY <1>2, <2>1, <2>2, <2>3, <2>4, <2>5 DEF Types
<1>5. ObjectsSound
  <2>1. \A o \in Objects : proxy[o] = "none" /\ resource[o] = "none" /\ ~id_deleted[o]
    BY <1>2
  <2>2. QED
    BY <1>3, <2>1 DEF ObjectsSound
<1>6. PendingUnique /\ Found
  BY <1>3 DEF PendingUnique, Found
<1>7. EntriesSound
  <2>1. 1 \in Nat /\ ~(1 >= ServerStart) /\ ~(0 >= ServerStart) /\ ServerStart \in Nat
    BY WlMapAssumption
  <2>2. ASSUME NEW i \in Nat, Has(cmap, i)
        PROVE  ClientEntry(i, At(cmap, i))
    <3>1. CASE i = 0
      BY <1>1, <2>1, <3>1, EntryIsEntry DEF IsFirstMap, ClientEntry, DisplayId, ZOMBIE
    <3>2. CASE i = DisplayId
      BY <1>1, <2>1, <3>2, EntryIsEntry DEF IsFirstMap, ClientEntry, DisplayId, ZOMBIE
    <3>3. QED
      BY <1>1, <2>2, <3>1, <3>2 DEF IsFirstMap
  <2>3. ASSUME NEW i \in Nat, Has(smap, i)
        PROVE  ServerEntry(i, At(smap, i))
    <3>1. CASE i = 0
      BY <1>1, <2>1, <3>1 DEF IsFirstMap, ServerEntry, DisplayId
    <3>2. CASE i = DisplayId
      <4>1. Display # NULL /\ At(smap, i).data = Display
        BY <1>1, <3>2, EntryIsEntry, ObjectIdsAssumption DEF IsFirstMap
      <4>2. QED
        BY <1>1, <2>1, <3>2, <4>1 DEF IsFirstMap, ServerEntry, DisplayId
    <3>3. QED
      BY <1>1, <2>3, <3>1, <3>2 DEF IsFirstMap
  <2>4. QED
    BY <1>1, <2>2, <2>3 DEF IsFirstMap, EntriesSound
<1>8. RequestsSound /\ EventsSound /\ DisplayEventsSound
  BY <1>3 DEF RequestsSound, EventsSound, DisplayEventsSound
<1>9. QED
  BY <1>4, <1>5, <1>6, <1>7, <1>8 DEF IdsInv

-----------------------------------------------------------------------------

(* The maps, the objects and the messages under way agree, in every state  *)
(* of every behaviour.                                                     *)
THEOREM IdsAgree == Spec => []IdsInv
<1>1. ASSUME IdsInv, [Next]_vars
      PROVE  IdsInv'
  <2>1. ASSUME NEW k \in {"plain", "callback"}, CreateObject(k)
        PROVE  IdsInv'
    BY <1>1, <2>1, CreateKeeps
  <2>2. ASSUME NEW o \in 1..created, UseObject(o) \/ DestroyProxy(o)
        PROVE  IdsInv'
    BY <1>1, <2>2, UseKeeps, DestroyProxyKeeps
  <2>3. ASSUME NEW o \in 1..created, SendEvent(o) \/ DestroyResource(o)
        PROVE  IdsInv'
    BY <1>1, <2>3, SendEventKeeps, DestroyResourceKeeps
  <2>4. CASE DiscardEvent \/ QueueEvent
    BY <1>1, <2>4, DiscardEventKeeps, QueueEventKeeps
  <2>5. CASE RejectEvent \/ RejectRequest
    BY <1>1, <2>5, RejectKeeps
  <2>6. CASE DispatchDisplayEvent \/ DispatchEvent
    BY <1>1, <2>6, DispatchDisplayEventKeeps, DispatchEventKeeps
  <2>7. CASE HandleRequest
    BY <1>1, <2>7, HandleRequestKeeps
  <2>8. ASSUME NEW from \in {Display} \cup 1..created, OfferObject(from)
        PROVE  IdsInv'
    BY <1>1, <2>8, OfferObjectKeeps
  <2>9. CASE UNCHANGED vars
    <3>1. UNCHANGED <<cmap, smap, created, kind, id, proxy, id_deleted, refcount, resource,
                      c2s, s2c, display_queue, queue, failed>>
      BY <2>9 DEF vars
    <3>2. /\ Types /\ ObjectsSound /\ Found /\ PendingUnique /\ EntriesSound /\ RequestsSound
          /\ EventsSound /\ DisplayEventsSound
      BY <1>1 DEF IdsInv
    <3>3. Types' /\ \A o : Pending(o)' <=> Pending(o)
      BY <3>1, <3>2, SamePending DEF Types
    <3>4. ObjectsSound' /\ PendingUnique' /\ Found' /\ EntriesSound'
      BY <3>1, <3>2, <3>3, SameHolders DEF objectVars
    <3>5. RequestsSound' /\ EventsSound' /\ DisplayEventsSound'
      BY <3>1, <3>2, SameRequests, SameEvents DEF objectVars
    <3>6. QED
      BY <3>3, <3>4, <3>5 DEF IdsInv
  <2>10. QED
    BY <1>1, <2>1, <2>2, <2>3, <2>4, <2>5, <2>6, <2>7, <2>8, <2>9 DEF Next
<1>2. QED
  BY InitIds, <1>1, PTL DEF Spec

LEMMA EventMeetsItsObject ==
  ASSUME IdsInv, NEW m, EventSound(m), Receiver(m) # NULL,
         m.op # "delete_id" /\ Chosen(m.obj) => Pending(m.obj)
  PROVE  Receiver(m) = m.obj
<1>1. Types /\ ObjectsSound /\ PendingUnique /\ Found /\ EntriesSound
  BY DEF IdsInv
<1>2. CASE SentFor(m) /\ m.op # "delete_id"
  <2>1. m.obj \in 1..created /\ m.to = id[m.obj]
    BY <1>2 DEF SentFor
  <2>2. m.to \in Nat /\ m.to > 1
    BY <1>1, <2>1, IdsOnSides
  <2>3. PICK p : p = Receiver(m)
    OBVIOUS
  <2>4. p \in 1..created /\ proxy[p] = "live" /\ id[p] = m.to
    BY <1>1, <2>2, <2>3, ReceiverHasId
  <2>5. CASE kind[p] = "offered"
    BY <1>2, <2>3, <2>4, <2>5 DEF SentFor, Offered
  <2>6. CASE kind[p] # "offered"
    <3>1. kind[m.obj] # "offered"
      BY <1>1, <2>1, <2>4, <2>6, IdsOnSides, WlMapAssumption
    <3>2. Holds(p) /\ Holds(m.obj)
      BY <1>2, <2>1, <2>4, <3>1 DEF Holds, Chosen
    <3>3. QED
      BY <1>1, <2>1, <2>3, <2>4, <3>2, OneHolder
  <2>7. QED
    BY <2>5, <2>6
<1>3. CASE m.obj = Display /\ m.to = DisplayId
  BY <1>1, <1>3, DisplayIsFound
<1>4. QED
  BY <1>2, <1>3 DEF EventSound

(* An event or a request reaches the object it was sent for or nobody.     *)
THEOREM MessagesReach == Spec => []MessagesReachTheirObject
<1>1. ASSUME IdsInv
      PROVE  MessagesReachTheirObject
  <2>1. /\ Types /\ EntriesSound /\ RequestsSound /\ EventsSound
    BY <1>1 DEF IdsInv
  <2>2. ASSUME s2c # << >>, NEW m, m = Head(s2c)
        PROVE  Receiver(m) \in {NULL, m.obj}
    <3>1. m = s2c[1] /\ 1 \in DOMAIN s2c
      BY <2>1, <2>2, TailIs DEF Types, IsTail
    <3>2. EventSound(m)
      BY <2>1, <3>1 DEF EventsSound
    <3>3. m.op # "delete_id" /\ Chosen(m.obj) => Pending(m.obj)
      BY <2>1, <3>1 DEF EventsSound, Pending
    <3>4. QED
      BY <1>1, <3>2, <3>3, EventMeetsItsObject
  <2>3. ASSUME c2s # << >>, NEW m, m = Head(c2s)
        PROVE  wl_map_lookup(smap, m.to) \in {NULL, m.obj}
    <3>1. m = c2s[1] /\ 1 \in DOMAIN c2s
      BY <2>1, <2>3, TailIs DEF Types, IsTail
    <3>2. RequestSound(m)
      BY <2>1, <3>1 DEF RequestsSound
    <3>3. CASE m.op \in Uses
      BY <1>1, <3>2, <3>3, RequestMeetsItsObject
    <3>4. CASE m.op = "create"
      BY <2>1, <3>2, <3>4, DisplayIsFound DEF RequestSound, Uses
    <3>5. QED
      BY <3>2, <3>3, <3>4 DEF RequestSound
  <2>4. QED
    BY <2>2, <2>3 DEF MessagesReachTheirObject
<1>2. QED
  BY IdsAgree, <1>1, PTL

(* A delete_id frees or marks the id of the object it reports: the id has  *)
(* not come to be another's while the event was under way.                 *)
THEOREM DeleteIdMeets == Spec => []DeleteIdMeetsItsObject
<1>1. ASSUME IdsInv
      PROVE  DeleteIdMeetsItsObject
  <2> SUFFICES ASSUME display_queue # << >>, NEW c, c = Head(display_queue)
               PROVE  \/ wl_object_is_zombie(c.new) /\ proxy[c.arg] = "destroyed"
                      \/ ~wl_object_is_zombie(c.new) /\ wl_map_lookup(cmap, c.new) = c.arg
    BY DEF DeleteIdMeetsItsObject
  <2>1. Types /\ ObjectsSound /\ Found /\ DisplayEventsSound
    BY <1>1 DEF IdsInv
  <2>2. c = display_queue[1] /\ 1 \in DOMAIN display_queue
    BY <2>1, TailIs DEF Types, IsTail
  <2>3. PICK o : o = c.arg
    OBVIOUS
  <2>4. Chosen(o) /\ c.new = id[o] /\ Pending(o)
    BY <2>1, <2>2, <2>3 DEF DisplayEventsSound, Pending, Reports
  <2>5. /\ o \in 1..created /\ proxy[o] \in {"live", "destroyed"}
        /\ id[o] \in Nat /\ id[o] < ServerStart /\ cmap \in Maps
    BY <2>1, <2>4, IdsOnSides DEF Chosen, ObjectsSound, Types
  <2>6. CASE proxy[o] = "destroyed"
    <3>1. Has(cmap, id[o]) /\ At(cmap, id[o]) = Entry(NULL, ZOMBIE)
      BY <2>1, <2>4, <2>5, <2>6 DEF Found
    <3>2. QED
      BY <2>3, <2>4, <2>5, <2>6, <3>1, LookupIs DEF wl_object_is_zombie
  <2>7. CASE proxy[o] = "live"
    <3>1. Has(cmap, id[o]) /\ At(cmap, id[o]) = Entry(o, 0)
      BY <2>1, <2>5, <2>7 DEF Found
    <3>2. QED
      BY <2>3, <2>4, <2>5, <3>1, LookupIs DEF wl_object_is_zombie, ZOMBIE
  <2>8. QED
    BY <2>5, <2>6, <2>7
<1>2. QED
  BY IdsAgree, <1>1, PTL

(* With nothing under way, an id is withheld only for an object the server *)
(* still has.                                                              *)
THEOREM WithheldIdsComeBack == Spec => []IdsComeBack
<1>1. ASSUME IdsInv
      PROVE  IdsComeBack
  <2> SUFFICES ASSUME c2s = << >>, s2c = << >>, display_queue = << >>,
                      NEW o \in 1..created, wl_object_is_zombie(id[o])
               PROVE  \E p \in 1..created :
                        id[p] = id[o] /\ proxy[p] = "destroyed" /\ resource[p] = "live"
    BY DEF IdsComeBack
  <2>1. Types /\ ObjectsSound /\ EntriesSound /\ RequestsSound
    BY <1>1 DEF IdsInv
  <2>2. id[o] \in Nat /\ cmap \in Maps /\ 1..created \subseteq Objects
    BY <2>1, IdsOnSides DEF Types
  <2>3. Has(cmap, id[o]) /\ At(cmap, id[o]).flags = ZOMBIE
    BY <2>2, LookupIs DEF wl_object_is_zombie, ZOMBIE
  <2>4. ClientEntry(id[o], At(cmap, id[o]))
    BY <2>1, <2>2, <2>3 DEF EntriesSound
  <2>5. PICK p \in 1..created : Pending(p) /\ proxy[p] = "destroyed" /\ id[p] = id[o]
    BY <2>3, <2>4 DEF ClientEntry
  <2>6. DOMAIN c2s = {} /\ DOMAIN s2c = {} /\ DOMAIN display_queue = {}
    OBVIOUS
  <2>7. Chosen(p) /\ resource[p] # "destroyed"
    BY <2>5, <2>6 DEF Pending
  <2>8. resource[p] # "none"
    BY <2>1, <2>6, <2>7 DEF RequestsSound
  <2>9. resource[p] = "live"
    BY <2>1, <2>2, <2>7, <2>8 DEF Types
  <2>10. QED
    BY <2>5, <2>9
<1>2. QED
  BY IdsAgree, <1>1, PTL

-----------------------------------------------------------------------------
(* What the waiting closures keep allocated                                *)

(* The places of a queue that hold one of the closures in D.               *)
Where(q, D) == {k \in DOMAIN q : q[k] \in D}
Count(q, D) == Cardinality(Where(q, D))
One(test)   == IF test THEN 1 ELSE 0

LEMMA CountIs ==
  ASSUME NEW S, NEW q \in Seq(S), NEW D
  PROVE  IsFiniteSet(Where(q, D)) /\ Count(q, D) \in Nat
<1>1. Len(q) \in Nat /\ DOMAIN q = 1..Len(q)
  BY LenProperties
<1>2. IsFiniteSet(1..Len(q))
  BY <1>1, FS_Interval
<1>3. Where(q, D) \in SUBSET (1..Len(q))
  BY <1>1 DEF Where
<1>4. IsFiniteSet(Where(q, D))
  BY <1>2, <1>3, FS_Subset
<1>5. QED
  BY <1>4, FS_CardinalityType DEF Count

LEMMA CountAppended ==
  ASSUME NEW S, NEW q \in Seq(S), NEW c \in S, NEW D
  PROVE  Count(Append(q, c), D) = Count(q, D) + One(c \in D)
<1> DEFINE new == Append(q, c)
           n   == Len(q) + 1
<1>1. IsAppended(new, q, c)
  BY AppendedIs
<1>2. Len(q) \in Nat /\ DOMAIN q = 1..Len(q) /\ n \notin DOMAIN q
  BY LenProperties
<1>3. IsFiniteSet(Where(q, D)) /\ Count(q, D) \in Nat
  BY CountIs
<1> HIDE DEF new, n
<1>4. CASE c \in D
  <2>1. Where(new, D) = Where(q, D) \cup {n} /\ n \notin Where(q, D)
    BY <1>1, <1>2, <1>4 DEF Where, IsAppended, n
  <2>2. Cardinality(Where(q, D) \cup {n}) = Cardinality(Where(q, D)) + 1
    BY <1>3, <2>1, FS_AddElement
  <2>3. QED
    BY <1>4, <2>1, <2>2 DEF Count, One, new
<1>5. CASE c \notin D
  <2>1. Where(new, D) = Where(q, D)
    BY <1>1, <1>2, <1>5 DEF Where, IsAppended, n
  <2>2. QED
    BY <1>3, <1>5, <2>1 DEF Count, One, new
<1>6. QED
  BY <1>4, <1>5

LEMMA CountTaken ==
  ASSUME NEW S, NEW q \in Seq(S), q # << >>, NEW D
  PROVE  Count(q, D) = Count(Tail(q), D) + One(Head(q) \in D)
<1> DEFINE rest == Tail(q)
<1>1. IsTail(rest, q) /\ rest \in Seq(S) /\ Head(q) = q[1] /\ 1 \in DOMAIN q
  BY TailIs DEF IsTail
<1>2. /\ IsFiniteSet(Where(rest, D)) /\ Count(rest, D) \in Nat
      /\ IsFiniteSet(Where(q, D)) /\ Count(q, D) \in Nat
  BY <1>1, CountIs
<1>3. /\ \A k \in DOMAIN rest : k \in Nat /\ k >= 1 /\ k + 1 \in DOMAIN q /\ rest[k] = q[k + 1]
      /\ \A k \in DOMAIN q : k # 1 => k - 1 \in DOMAIN rest /\ rest[k - 1] = q[k]
      /\ \A k \in DOMAIN q : k \in Nat
  BY <1>1, LenProperties DEF IsTail
<1> HIDE DEF rest
<1>4. Cardinality(Where(q, D) \ {1}) = Count(rest, D) /\ IsFiniteSet(Where(q, D) \ {1})
  <2> DEFINE T == Where(q, D) \ {1}
             f == [k \in Where(rest, D) |-> k + 1]
  <2>1. f \in [Where(rest, D) -> T]
    <3>1. ASSUME NEW k \in Where(rest, D)
          PROVE  k + 1 \in T
      <4>1. k \in DOMAIN rest /\ rest[k] \in D
        BY DEF Where
      <4>2. k + 1 \in DOMAIN q /\ q[k + 1] \in D /\ k + 1 # 1
        BY <1>3, <4>1
      <4>3. QED
        BY <4>2 DEF Where
    <3>2. QED
      BY <3>1
  <2>2. \A j, k \in Where(rest, D) : f[j] = f[k] => j = k
    BY <1>3 DEF Where
  <2>3. \A t \in T : \E k \in Where(rest, D) : f[k] = t
    <3>1. ASSUME NEW t \in T
          PROVE  t - 1 \in Where(rest, D) /\ f[t - 1] = t
      <4>1. t \in DOMAIN q /\ q[t] \in D /\ t # 1
        BY DEF Where
      <4>2. t - 1 \in DOMAIN rest /\ rest[t - 1] \in D /\ t - 1 + 1 = t
        BY <1>3, <4>1
      <4>3. t - 1 \in Where(rest, D)
        BY <4>2 DEF Where
      <4>4. QED
        BY <4>2, <4>3
    <3>2. QED
      BY <3>1
  <2>4. f \in Bijection(Where(rest, D), T)
    BY <2>1, <2>2, <2>3 DEF Bijection, Injection, Surjection, IsInjective
  <2>5. ExistsBijection(Where(rest, D), T)
    BY <2>4 DEF ExistsBijection
  <2>6. QED
    BY <1>2, <2>5, FS_Bijection DEF Count
<1>5. CASE Head(q) \in D
  <2>1. Where(q, D) = (Where(q, D) \ {1}) \cup {1} /\ 1 \notin Where(q, D) \ {1}
    BY <1>1, <1>5 DEF Where
  <2>2. Cardinality((Where(q, D) \ {1}) \cup {1}) = Count(rest, D) + 1
    BY <1>4, <2>1, FS_AddElement
  <2>3. QED
    BY <1>5, <2>1, <2>2 DEF Count, One, rest
<1>6. CASE Head(q) \notin D
  <2>1. Where(q, D) = Where(q, D) \ {1}
    BY <1>1, <1>6 DEF Where
  <2>2. Count(q, D) = Count(rest, D)
    BY <1>4, <2>1 DEF Count
  <2>3. QED
    BY <1>2, <1>6, <2>2 DEF One, rest
<1>7. QED
  BY <1>5, <1>6

(* The closures for o, and those that bring o.                             *)
For(o)   == {c \in Closures : c.proxy = o}
Bring(o) == {c \in Closures : c.op = "new" /\ c.arg = o}

(* A closure waits for a proxy that the client has had.                    *)
ClosureSound(c) ==
  /\ c.proxy # Display => c.proxy \in 1..created /\ proxy[c.proxy] # "none"
  /\ c.op = "new" => c.arg \in 1..created /\ proxy[c.arg] # "none" /\ c.arg # c.proxy

QueueSound ==
  /\ \A k \in DOMAIN queue : ClosureSound(queue[k])
  /\ \A o \in Objects :
       refcount[o] = One(proxy[o] = "live") + Count(queue, For(o)) + Count(queue, Bring(o))

LEMMA NobodyWaits ==
  ASSUME Types, QueueSound, NEW o \in Objects, proxy[o] = "none"
  PROVE  Count(queue, For(o)) = 0 /\ Count(queue, Bring(o)) = 0
<1>1. o # Display
  BY ObjectIdsAssumption
<1>2. Where(queue, For(o)) = {} /\ Where(queue, Bring(o)) = {}
  BY <1>1 DEF Where, For, Bring, QueueSound, ClosureSound
<1>3. QED
  BY <1>2, FS_EmptySet DEF Count

(* Steps that leave the queue alone.                                       *)
LEMMA QueueKept ==
  ASSUME QueueSound, UNCHANGED queue, 1..created \subseteq (1..created)',
         \A o \in 1..created : proxy[o] # "none" => proxy'[o] # "none",
         \A o \in Objects : refcount'[o] - One(proxy'[o] = "live") = refcount[o] - One(proxy[o] = "live"),
         refcount \in [Objects -> Int], refcount' \in [Objects -> Int], Types
  PROVE  QueueSound'
<1>1. ASSUME NEW k \in DOMAIN queue
      PROVE  ClosureSound(queue[k])'
  <2>1. ClosureSound(queue[k])
    BY DEF QueueSound
  <2>2. QED
    BY <2>1 DEF ClosureSound
<1>2. ASSUME NEW o \in Objects
      PROVE  refcount'[o] = One(proxy'[o] = "live") + Count(queue', For(o)) + Count(queue', Bring(o))
  <2>1. refcount[o] = One(proxy[o] = "live") + Count(queue, For(o)) + Count(queue, Bring(o))
    BY DEF QueueSound
  <2>2. /\ One(proxy[o] = "live") \in Int /\ One(proxy'[o] = "live") \in Int
        /\ Count(queue, For(o)) \in Int /\ Count(queue, Bring(o)) \in Int
        /\ refcount[o] \in Int /\ refcount'[o] \in Int
    BY CountIs DEF One, Types
  <2>3. queue' = queue
    OBVIOUS
  <2>4. QED
    BY <2>1, <2>2, <2>3
<1>3. QED
  BY <1>1, <1>2 DEF QueueSound

LEMMA EventQueued ==
  ASSUME IdsInv, QueueSound, QueueEvent
  PROVE  QueueSound'
<1>a. PICK m : m = Head(s2c)
  OBVIOUS
<1>b. PICK p : p = Receiver(m)
  OBVIOUS
<1>c. PICK c : c = [op |-> m.op, proxy |-> p, new |-> m.new, arg |-> m.arg]
  OBVIOUS
<1>d. PICK mention : mention = IF p = Display THEN {} ELSE {p}
  OBVIOUS
<1>1. Types /\ ObjectsSound /\ EntriesSound /\ EventsSound
  BY DEF IdsInv
<1>2. /\ s2c # << >> /\ p # NULL
      /\ IF m.op = "delete_id" THEN UNCHANGED queue ELSE queue' = Append(queue, c)
      /\ IF m.op = "new"
         THEN /\ proxy' = [proxy EXCEPT ![m.arg] = "live"]
              /\ refcount' = [o \in Objects |->
                   IF o = m.arg THEN 2
                   ELSE IF o \in mention THEN refcount[o] + 1 ELSE refcount[o]]
         ELSE /\ UNCHANGED proxy
              /\ refcount' = [o \in Objects |->
                   IF o \in mention THEN refcount[o] + 1 ELSE refcount[o]]
      /\ UNCHANGED created
  BY <1>a, <1>b, <1>c, <1>d DEF QueueEvent
<1>3. m \in Messages /\ m = s2c[1] /\ 1 \in DOMAIN s2c
  BY <1>1, <1>2, <1>a, TailIs DEF Types, IsTail
<1>4. EventSound(m)
  BY <1>1, <1>3 DEF EventsSound
<1>5. m.op = "delete_id" => p = Display
  BY <1>1, <1>4, <1>b, DisplayIsFound DEF EventSound
<1>6. p = Display \/ (p \in 1..created /\ proxy[p] = "live" /\ p \in Objects)
  <2>1. CASE m.to = DisplayId
    BY <1>1, <1>b, <2>1, DisplayIsFound
  <2>2. CASE m.to # DisplayId
    <3>1. m.obj \in 1..created /\ m.to = id[m.obj]
      BY <1>4, <2>2 DEF EventSound, SentFor
    <3>2. m.to \in Nat /\ m.to > 1
      BY <1>1, <3>1, IdsOnSides
    <3>3. p \in 1..created /\ proxy[p] = "live"
      BY <1>1, <1>2, <1>b, <3>2, ReceiverHasId
    <3>4. QED
      BY <1>1, <3>3, IdsOnSides
  <2>3. QED
    BY <2>1, <2>2
<1>7. refcount \in [Objects -> Int] /\ proxy \in [Objects -> {"none", "live", "destroyed"}]
      /\ queue \in Seq(Closures) /\ Display \notin Objects
  BY <1>1, ObjectIdsAssumption DEF Types
<1>8. CASE m.op = "delete_id"
  <2>1. \A o \in Objects : refcount'[o] = refcount[o]
    BY <1>2, <1>5, <1>8, <1>d
  <2>2. refcount' \in [Objects -> Int]
    BY <1>2, <1>5, <1>7, <1>8, <1>d
  <2>3. UNCHANGED <<queue, proxy, created>>
    BY <1>2, <1>8
  <2>4. QED
    BY <1>1, <1>7, <2>1, <2>2, <2>3, QueueKept
<1>9. CASE m.op # "delete_id"
  <2>1. c \in Closures /\ c.op = m.op /\ c.proxy = p /\ c.arg = m.arg
    BY <1>3, <1>4, <1>6, <1>9, <1>c DEF EventSound, Closures, Messages
  <2>2. queue' = Append(queue, c)
    BY <1>2, <1>9
  <2>3. IsAppended(queue', queue, c)
    BY <1>7, <2>1, <2>2, AppendedIs
  <2>4. ASSUME NEW o \in Objects
        PROVE  /\ Count(queue', For(o)) = Count(queue, For(o)) + One(p = o)
               /\ Count(queue', Bring(o)) = Count(queue, Bring(o)) + One(m.op = "new" /\ m.arg = o)
    <3>1. c \in For(o) <=> p = o
      BY <2>1 DEF For
    <3>2. c \in Bring(o) <=> m.op = "new" /\ m.arg = o
      BY <2>1 DEF Bring
    <3>3. /\ Count(queue', For(o)) = Count(queue, For(o)) + One(c \in For(o))
          /\ Count(queue', Bring(o)) = Count(queue, Bring(o)) + One(c \in Bring(o))
      BY <1>7, <2>1, <2>2, CountAppended
    <3>4. QED
      BY <3>1, <3>2, <3>3 DEF One
  <2>5. m.op = "new" => m.arg \in 1..created /\ m.arg \in Objects /\ proxy[m.arg] = "none"
                        /\ m.arg # p
    <3>1. ASSUME m.op = "new"
          PROVE  m.arg \in 1..created /\ m.arg \in Objects /\ proxy[m.arg] = "none"
      <4>1. m.arg \in 1..created /\ proxy[m.arg] = "none"
        BY <1>4, <3>1 DEF EventSound, Offered
      <4>2. QED
        BY <1>1, <4>1, IdsOnSides
    <3>2. QED
      BY <1>6, <1>7, <3>1
  <2>6. ASSUME NEW o \in Objects
        PROVE  /\ proxy'[o] = IF m.op = "new" /\ o = m.arg THEN "live" ELSE proxy[o]
               /\ refcount'[o] = IF m.op = "new" /\ o = m.arg THEN 2 ELSE refcount[o] + One(p = o)
    <3>1. p = o <=> o \in mention
      BY <1>7, <1>d
    <3>2. refcount[o] \in Int
      BY <1>7
    <3>3. QED
      BY <1>2, <1>7, <2>5, <3>1, <3>2 DEF One
  <2>7. \A k \in DOMAIN queue' : ClosureSound(queue[k])'
    <3>1. ASSUME NEW k \in DOMAIN queue
          PROVE  ClosureSound(queue[k])'
      <4>1. PICK d : d = queue[k] /\ d = queue'[k]
        BY <2>3 DEF IsAppended
      <4>2. ClosureSound(d)
        BY <4>1 DEF QueueSound
      <4>3. \A o \in 1..created : proxy[o] # "none" => proxy'[o] # "none"
        BY <1>1, <2>6, IdsOnSides
      <4>4. ClosureSound(d)'
        BY <1>2, <4>2, <4>3 DEF ClosureSound
      <4>5. QED
        BY <4>1, <4>4
    <3>2. ClosureSound(c)'
      BY <1>2, <1>6, <2>1, <2>5, <2>6 DEF ClosureSound
    <3>3. ASSUME NEW k \in DOMAIN queue', k = Len(queue) + 1
          PROVE  ClosureSound(queue[k])'
      <4>1. queue'[k] = c
        BY <2>3, <3>3 DEF IsAppended
      <4>2. QED
        BY <3>2, <4>1
    <3>4. QED
      BY <2>3, <3>1, <3>3 DEF IsAppended
  <2>8. ASSUME NEW o \in Objects
        PROVE  refcount'[o] = One(proxy'[o] = "live") + Count(queue', For(o)) + Count(queue', Bring(o))
    <3>1. refcount[o] = One(proxy[o] = "live") + Count(queue, For(o)) + Count(queue, Bring(o))
      BY DEF QueueSound
    <3>2. /\ Count(queue, For(o)) \in Nat /\ Count(queue, Bring(o)) \in Nat
          /\ refcount[o] \in Int
      BY <1>7, CountIs
    <3>3. CASE m.op = "new" /\ o = m.arg
      <4>1. Count(queue, For(o)) = 0 /\ Count(queue, Bring(o)) = 0
        BY <1>1, <2>5, <3>3, NobodyWaits
      <4>2. Count(queue', For(o)) = 0 /\ Count(queue', Bring(o)) = 1
        BY <2>4, <2>5, <3>3, <4>1 DEF One
      <4>3. QED
        BY <2>6, <3>3, <4>2 DEF One
    <3>4. CASE ~(m.op = "new" /\ o = m.arg)
      <4>1. Count(queue', Bring(o)) = Count(queue, Bring(o))
        BY <2>4, <3>2, <3>4 DEF One
      <4>2. /\ Count(queue', For(o)) = Count(queue, For(o)) + One(p = o)
            /\ proxy'[o] = proxy[o] /\ refcount'[o] = refcount[o] + One(p = o)
        BY <2>4, <2>6, <3>4
      <4>3. One(p = o) \in Nat /\ One(proxy[o] = "live") \in Nat
        BY DEF One
      <4>4. QED
        BY <3>1, <3>2, <4>1, <4>2, <4>3
    <3>5. QED
      BY <3>3, <3>4
  <2>9. QED
    BY <2>7, <2>8 DEF QueueSound
<1>10. QED
  BY <1>8, <1>9

LEMMA EventDispatched ==
  ASSUME IdsInv, QueueSound, DispatchEvent
  PROVE  QueueSound'
<1>a. PICK c : c = Head(queue)
  OBVIOUS
<1>1. Types
  BY DEF IdsInv
<1>2. /\ queue # << >> /\ queue' = Tail(queue) /\ refcount' = Unref(c)
      /\ UNCHANGED <<created, proxy>>
  BY <1>a DEF DispatchEvent
<1>3. /\ refcount \in [Objects -> Int] /\ queue \in Seq(Closures) /\ Display \notin Objects
  BY <1>1, ObjectIdsAssumption DEF Types
<1>4. c \in Closures /\ IsTail(queue', queue) /\ c = queue[1] /\ 1 \in DOMAIN queue
  BY <1>2, <1>3, <1>a, TailIs DEF IsTail
<1>5. ClosureSound(c)
  BY <1>4 DEF QueueSound
<1>6. \A k \in DOMAIN queue' : ClosureSound(queue[k])'
  <2>1. ASSUME NEW k \in DOMAIN queue'
        PROVE  ClosureSound(queue[k])'
    <3>1. PICK d : d = queue[k + 1] /\ d = queue'[k] /\ k + 1 \in DOMAIN queue
      BY <1>4 DEF IsTail
    <3>2. ClosureSound(d)
      BY <3>1 DEF QueueSound
    <3>3. ClosureSound(d)'
      BY <1>2, <3>2 DEF ClosureSound
    <3>4. QED
      BY <3>1, <3>3
  <2>2. QED
    BY <2>1
<1>7. ASSUME NEW o \in Objects
      PROVE  refcount'[o] = One(proxy'[o] = "live") + Count(queue', For(o)) + Count(queue', Bring(o))
  <2>1. refcount[o] = One(proxy[o] = "live") + Count(queue, For(o)) + Count(queue, Bring(o))
    BY DEF QueueSound
  <2>2. /\ Count(queue, For(o)) = Count(queue', For(o)) + One(c \in For(o))
        /\ Count(queue, Bring(o)) = Count(queue', Bring(o)) + One(c \in Bring(o))
    BY <1>2, <1>3, <1>a, CountTaken
  <2>3. Count(queue', For(o)) \in Nat /\ Count(queue', Bring(o)) \in Nat
    BY <1>2, <1>3, TailIs, CountIs
  <2>4. (c \in For(o) <=> c.proxy = o) /\ (c \in Bring(o) <=> c.op = "new" /\ c.arg = o)
    BY <1>4 DEF For, Bring
  <2>5. ~(c \in For(o) /\ c \in Bring(o))
    BY <1>5, <2>4 DEF ClosureSound
  <2>6. o \in Mentions(c) <=> c \in For(o) \/ c \in Bring(o)
    BY <1>3, <2>4 DEF Mentions
  <2>7. refcount'[o] = refcount[o] - One(c \in For(o)) - One(c \in Bring(o))
    <3>1. refcount'[o] = IF o \in Mentions(c) THEN refcount[o] - 1 ELSE refcount[o]
      BY <1>2 DEF Unref
    <3>2. refcount[o] \in Int
      BY <1>3
    <3>3. QED
      BY <2>5, <2>6, <3>1, <3>2 DEF One
  <2>8. /\ One(c \in For(o)) \in Nat /\ One(c \in Bring(o)) \in Nat
        /\ One(proxy[o] = "live") \in Nat /\ refcount[o] \in Int /\ proxy' = proxy
    BY <1>2, <1>3 DEF One
  <2>9. QED
    BY <2>1, <2>2, <2>3, <2>7, <2>8
<1>8. QED
  BY <1>6, <1>7 DEF QueueSound

LEMMA QueueStep ==
  ASSUME IdsInv, QueueSound, [Next]_vars, IdsInv'
  PROVE  QueueSound'
<1>1. /\ Types /\ ObjectsSound /\ refcount \in [Objects -> Int] /\ refcount' \in [Objects -> Int]
      /\ proxy \in [Objects -> {"none", "live", "destroyed"}] /\ created \in 0..MaxCreated
  BY DEF IdsInv, Types
<1>2. ASSUME UNCHANGED <<queue, proxy, refcount>>, created' = created \/ created' = created + 1
      PROVE  QueueSound'
  <2>1. 1..created \subseteq (1..created)'
    BY <1>1, <1>2, ObjectIdsAssumption
  <2>2. QED
    BY <1>1, <1>2, <2>1, QueueKept
<1>3. ASSUME NEW k \in {"plain", "callback"}, CreateObject(k)
      PROVE  QueueSound'
  <2>1. PICK o : o = created + 1
    OBVIOUS
  <2>2. /\ created < MaxCreated /\ created' = o /\ UNCHANGED queue
        /\ proxy' = [proxy EXCEPT ![o] = "live"] /\ refcount' = [refcount EXCEPT ![o] = 1]
    BY <1>3, <2>1 DEF CreateObject
  <2>3. o \in Objects /\ proxy[o] = "none" /\ 1..created \subseteq (1..created)' /\ o \notin 1..created
    BY <1>1, <2>1, <2>2, ObjectIdsAssumption DEF ObjectsSound, Objects
  <2>4. refcount[o] = 0
    <3>1. refcount[o] = One(proxy[o] = "live") + Count(queue, For(o)) + Count(queue, Bring(o))
      BY <2>3 DEF QueueSound
    <3>2. QED
      BY <1>1, <2>3, <3>1, NobodyWaits DEF One
  <2>5. /\ \A p \in 1..created : proxy[p] # "none" => proxy'[p] # "none"
        /\ \A p \in Objects : refcount'[p] - One(proxy'[p] = "live") = refcount[p] - One(proxy[p] = "live")
    <3>1. \A p \in Objects : p # o => proxy'[p] = proxy[p] /\ refcount'[p] = refcount[p]
      BY <1>1, <2>2, <2>3
    <3>2. proxy'[o] = "live" /\ refcount'[o] = 1
      BY <1>1, <2>2, <2>3
    <3>3. \A p \in 1..created : p \in Objects
      BY <1>1, IdsOnSides
    <3>4. QED
      BY <2>3, <2>4, <3>1, <3>2, <3>3 DEF One
  <2>6. QED
    BY <1>1, <2>2, <2>3, <2>5, QueueKept
<1>4. ASSUME NEW o \in 1..created, DestroyProxy(o)
      PROVE  QueueSound'
  <2>1. /\ proxy[o] = "live" /\ UNCHANGED <<created, queue>>
        /\ proxy' = [proxy EXCEPT ![o] = "destroyed"]
        /\ refcount' = [refcount EXCEPT ![o] = refcount[o] - 1]
    BY <1>4 DEF DestroyProxy
  <2>2. 1..created \subseteq Objects
    BY <1>1, IdsOnSides
  <2>3. /\ \A p \in Objects : p # o => proxy'[p] = proxy[p] /\ refcount'[p] = refcount[p]
        /\ proxy'[o] = "destroyed" /\ refcount'[o] = refcount[o] - 1
    BY <1>1, <2>1, <2>2
  <2>4. \A p \in Objects : refcount'[p] - One(proxy'[p] = "live") = refcount[p] - One(proxy[p] = "live")
    BY <1>1, <2>1, <2>2, <2>3 DEF One
  <2>5. QED
    BY <1>1, <2>1, <2>2, <2>3, <2>4, QueueKept
<1>5. ASSUME NEW o \in 1..created, UseObject(o) \/ SendEvent(o) \/ DestroyResource(o)
      PROVE  QueueSound'
  BY <1>2, <1>5 DEF UseObject, SendEvent, DestroyResource, clientVars
<1>6. CASE DiscardEvent \/ RejectEvent \/ RejectRequest \/ DispatchDisplayEvent \/ HandleRequest
  BY <1>2, <1>6 DEF DiscardEvent, RejectEvent, RejectRequest, DispatchDisplayEvent, HandleRequest,
                    clientVars
<1>7. ASSUME NEW from \in {Display} \cup 1..created, OfferObject(from)
      PROVE  QueueSound'
  BY <1>2, <1>7 DEF OfferObject, clientVars
<1>8. CASE QueueEvent
  BY <1>8, EventQueued
<1>9. CASE DispatchEvent
  BY <1>9, EventDispatched
<1>10. CASE UNCHANGED vars
  BY <1>2, <1>10 DEF vars
<1>11. QED
  BY <1>3, <1>4, <1>5, <1>6, <1>7, <1>8, <1>9, <1>10 DEF Next

LEMMA QueueAgrees == Spec => []QueueSound
<1>1. ASSUME Init
      PROVE  QueueSound
  <2>1. /\ queue = << >> /\ DOMAIN queue = {} /\ queue \in Seq(Closures)
        /\ proxy = [o \in Objects |-> "none"] /\ refcount = [o \in Objects |-> 0]
    BY <1>1 DEF Init
  <2>2. \A D : Where(queue, D) = {}
    BY <2>1 DEF Where
  <2>3. \A D : Count(queue, D) = 0
    BY <2>2, FS_EmptySet DEF Count
  <2>4. QED
    BY <2>1, <2>3 DEF QueueSound, One
<1>2. Spec => [][Next]_vars /\ Init
  BY DEF Spec
<1>3. QED
  BY <1>1, <1>2, IdsAgree, QueueStep, PTL

(* A proxy is kept exactly while the application or a waiting closure has  *)
(* it.                                                                     *)
THEOREM AllocatedAsMentioned == Spec => []AllocatedWhileMentioned
<1>1. ASSUME IdsInv, QueueSound
      PROVE  AllocatedWhileMentioned
  <2>1. queue \in Seq(Closures)
    BY <1>1 DEF IdsInv, Types
  <2>2. \A k \in DOMAIN queue : queue[k] \in Closures
    BY <2>1, LenProperties, ElementOfSeq
  <2>3. ASSUME NEW o \in Objects
        PROVE  /\ Where(queue, For(o)) = {i \in DOMAIN queue : queue[i].proxy = o}
               /\ Where(queue, Bring(o)) = {i \in DOMAIN queue : queue[i].op = "new" /\ queue[i].arg = o}
    BY <2>2 DEF Where, For, Bring
  <2>4. QED
    BY <1>1, <2>3 DEF AllocatedWhileMentioned, QueueSound, Count, One
<1>2. QED
  BY IdsAgree, QueueAgrees, <1>1, PTL

-----------------------------------------------------------------------------
(* The free list, as the run looks at it                                   *)

LEMMA LeastOf ==
  ASSUME NEW T \in SUBSET Nat, T # {}
  PROVE  \E x \in T : \A y \in T : x <= y
<1>1. PICK x \in T : \A y \in T : ~(<<y, x>> \in OpToRel(<, Nat))
  BY NatLessThanWellFounded, WFMin
<1>2. ASSUME NEW y \in T PROVE x <= y
  <2>1. ~(y < x)
    BY <1>1 DEF OpToRel
  <2>2. QED
    BY <2>1
<1>3. QED
  BY <1>2

LEMMA CountOfInterval ==
  ASSUME NEW n \in Nat
  PROVE  IsFiniteSet(1..n) /\ Cardinality(1..n) = n
<1>1. 1 \in Int /\ n \in Int /\ (IF 1 > n THEN 0 ELSE n - 1 + 1) = n
  OBVIOUS
<1>2. QED
  BY <1>1, FS_Interval

LEMMA FreeListEntry ==
  ASSUME NEW m, NEW list, IsFreeList(m, list), NEW k \in 1..Len(list)
  PROVE  /\ list[k] \in 1..Len(m.entries[m.side])
         /\ m.entries[m.side][list[k]].data = NULL
         /\ m.entries[m.side][list[k]].next = IF k = Len(list) THEN 0 ELSE list[k + 1]
<1>1. PICK next : next = IF k = Len(list) THEN 0 ELSE list[k + 1]
  OBVIOUS
<1>2. m.entries[m.side][list[k]] = [data |-> NULL, flags |-> 0, next |-> next]
  BY <1>1 DEF IsFreeList
<1>3. QED
  BY <1>1, <1>2 DEF IsFreeList

(* Following the links of a free list gives its elements, then 0.          *)
Followed(list, n) == [k \in 0..n |-> IF k < Len(list) THEN list[k + 1] ELSE 0]

LEMMA ChainIs ==
  ASSUME NEW m, NEW list \in Seq(Nat), IsFreeList(m, list), NEW n \in Nat
  PROVE  FreeChain(m, n) = Followed(list, n)
<1> DEFINE own == m.entries[m.side]
           Next1(f, k) == IF k = 0 THEN m.free_list
                          ELSE IF f[k - 1] = 0 THEN 0 ELSE EntryAt(own, f[k - 1] - 1).next
           Link(f) == [k \in 0..n |-> Next1(f, k)]
           link == CHOOSE f : f = Link(f)
           g == Followed(list, n)
<1>1. FreeChain(m, n) = [k \in 0..n |-> link[k]]
  BY DEF FreeChain
<1>g. \A k \in 0..n : g[k] = IF k < Len(list) THEN list[k + 1] ELSE 0
  BY DEF Followed
<1>2. \A k \in 0..n : g[k] = Next1(g, k)
  <2> SUFFICES ASSUME NEW k \in 0..n PROVE g[k] = Next1(g, k)
    OBVIOUS
  <2>0. Len(list) \in Nat /\ (list = << >> <=> Len(list) = 0)
        /\ \A j \in 1..Len(list) : list[j] \in Nat
    BY LenProperties, EmptySeq, ElementOfSeq
  <2> HIDE DEF g
  <2>1. CASE k = 0
    BY <2>0, <2>1, <1>g DEF IsFreeList
  <2>2. CASE k # 0 /\ k - 1 < Len(list)
    <3>1. k \in 1..Len(list) /\ k - 1 \in 0..n /\ (k - 1) + 1 = k
      BY <2>0, <2>2
    <3>a. g[k - 1] = list[k]
      BY <2>2, <3>1, <1>g
    <3>b. list[k] \in 1..Len(own) /\ list[k] \in Nat
      BY <2>0, <3>1 DEF IsFreeList
    <3>c. list[k] # 0
      BY <3>b
    <3>2. EntryAt(own, list[k] - 1) = own[list[k]]
      BY <3>b DEF EntryAt
    <3>3. own[list[k]].next = IF k = Len(list) THEN 0 ELSE list[k + 1]
      BY <3>1, FreeListEntry
    <3>4. Next1(g, k) = IF k = Len(list) THEN 0 ELSE list[k + 1]
      BY <3>a, <3>c, <3>2, <3>3, <2>2
    <3>5. g[k] = IF k < Len(list) THEN list[k + 1] ELSE 0
      BY <1>g
    <3>6. QED
      BY <3>1, <3>4, <3>5, <2>0
  <2>3. CASE k # 0 /\ ~(k - 1 < Len(list))
    BY <2>0, <2>3, <1>g
  <2>4. QED
    BY <2>1, <2>2, <2>3
<1>3. g = Link(g)
  BY <1>2 DEF Followed
<1>4. link = Link(link)
  BY <1>3
<1> HIDE DEF link, g
<1>5. ASSUME NEW k \in 0..n, link[k] # g[k] PROVE FALSE
  <2> DEFINE T == {j \in 0..n : link[j] # g[j]}
  <2>0. T \in SUBSET Nat /\ T # {}
    BY <1>5
  <2>1. PICK x \in T : \A y \in T : x <= y
    <3> HIDE DEF T
    <3>1. QED
      BY <2>0, LeastOf
  <2>2. link[x] = Next1(link, x) /\ g[x] = Next1(g, x)
    BY <1>2, <1>4, <2>1
  <2>3. x # 0
    BY <2>1, <2>2
  <2>4. x - 1 \in 0..n /\ x - 1 \notin T
    BY <2>1, <2>3
  <2>5. link[x - 1] = g[x - 1]
    BY <2>4
  <2>6. QED
    BY <2>1, <2>2, <2>3, <2>5
<1>6. QED
  BY <1>1, <1>5 DEF g, Followed

LEMMA FreeListIsSound ==
  ASSUME NEW m \in Maps, NEW low \in Nat, FreeListIn(m, low)
  PROVE  FreeListSound(m)
<1>1. PICK list \in Seq(Nat) : IsFreeList(m, list)
  BY DEF FreeListIn
<1> DEFINE own == m.entries[m.side]
           chain == FreeChain(m, Len(own))
           used == {k \in DOMAIN chain : chain[k] # 0}
<1>2. Len(own) \in Nat /\ Len(list) \in Nat
  BY <1>1, EntriesOf, LenProperties
<1>3. chain = Followed(list, Len(own))
  BY <1>1, <1>2, ChainIs
<1>4. Len(list) <= Len(own)
  <2> DEFINE S == 1..Len(list)
             T == 1..Len(own)
             f == [k \in S |-> list[k]]
  <2>1. f \in Injection(S, T)
    BY <1>1 DEF IsFreeList, Injection, IsInjective
  <2>2. /\ IsFiniteSet(T) /\ IsFiniteSet(S)
        /\ Cardinality(T) = Len(own) /\ Cardinality(S) = Len(list)
    <3> HIDE DEF own
    <3>1. QED
      BY <1>2, CountOfInterval
  <2>3. Cardinality(S) <= Cardinality(T)
    <3> HIDE DEF S, T, f
    <3>1. QED
      BY <2>1, <2>2, FS_Injection
  <2>4. QED
    BY <2>2, <2>3
<1>5. \A k \in used : k + 1 \in 1..Len(list) /\ chain[k] = list[k + 1] /\ k \in Nat
  BY <1>2, <1>3 DEF Followed
<1>6. chain[Len(own)] = 0
  BY <1>2, <1>3, <1>4 DEF Followed
<1>7. \A k \in used : EntryAt(own, chain[k] - 1).data = NULL
  <2> SUFFICES ASSUME NEW k \in used PROVE EntryAt(own, chain[k] - 1).data = NULL
    OBVIOUS
  <2>a. PICK j : j = k + 1
    OBVIOUS
  <2>b. j \in 1..Len(list)
    BY <1>5, <2>a
  <2>c. list[j] \in 1..Len(own) /\ own[list[j]].data = NULL
    BY <1>1, <2>b, FreeListEntry
  <2>1. list[k + 1] \in 1..Len(own) /\ own[list[k + 1]].data = NULL
    BY <2>a, <2>c
  <2>2. EntryAt(own, chain[k] - 1) = own[list[k + 1]]
    BY <1>2, <1>5, <2>1 DEF EntryAt
  <2>3. QED
    BY <2>1, <2>2
<1>8. \A j, k \in used : j # k => chain[j] # chain[k]
  <2> SUFFICES ASSUME NEW j \in used, NEW k \in used, chain[j] = chain[k] PROVE j = k
    OBVIOUS
  <2>1. j + 1 = k + 1
    BY <1>1, <1>5 DEF IsFreeList
  <2>2. QED
    BY <1>5, <2>1
<1>9. QED
  <2> HIDE DEF chain, own
  <2>1. own = m.entries[m.side] /\ chain = FreeChain(m, Len(own))
    BY DEF chain, own
  <2>2. chain[Len(own)] = 0
        /\ (\A k \in used : EntryAt(own, chain[k] - 1).data = NULL)
        /\ (\A j, k \in used : j # k => chain[j] # chain[k])
          => FreeListSound(m)
    BY <2>1 DEF FreeListSound
  <2>3. QED
    BY <1>6, <1>7, <1>8, <2>2

(* The two free lists are lists of ids that nobody has, and the live       *)
(* objects of each end are found under their ids.                          *)
THEOREM MapsAreSound == Spec => []MapsSound
<1>1. ASSUME IdsInv, QueueSound
      PROVE  MapsSound
  <2>1. Types /\ ObjectsSound /\ Found /\ EntriesSound
    BY <1>1 DEF IdsInv
  <2>2. refcount \in [Objects -> Nat]
    <3>1. ASSUME NEW o \in Objects PROVE refcount[o] \in Nat
      <4>1. PICK a, b : a = Count(queue, For(o)) /\ b = Count(queue, Bring(o))
        OBVIOUS
      <4>2. a \in Nat /\ b \in Nat
        BY <2>1, <4>1, CountIs DEF Types
      <4>3. refcount[o] = One(proxy[o] = "live") + a + b
        BY <1>1, <4>1 DEF QueueSound
      <4>4. One(proxy[o] = "live") \in Nat
        BY DEF One
      <4>5. QED
        BY <4>2, <4>3, <4>4
    <3>2. QED
      BY <2>1, <3>1 DEF Types
  <2>3. TypeOK
    BY <2>1, <2>2 DEF Types, TypeOK
  <2>4. cmap \in Maps /\ smap \in Maps /\ FreeListIn(cmap, 3) /\ FreeListIn(smap, 1)
        /\ 3 \in Nat /\ 1 \in Nat
    BY <2>1 DEF Types, EntriesSound
  <2>5. FreeListSound(cmap) /\ FreeListSound(smap)
    BY <2>4, FreeListIsSound
  <2>6. ASSUME NEW o \in Objects
        PROVE  /\ proxy[o] = "live" => wl_map_lookup(cmap, id[o]) = o
               /\ resource[o] = "live" => wl_map_lookup(smap, id[o]) = o
    <3>1. o > created => proxy[o] # "live" /\ resource[o] # "live"
      BY <2>1 DEF ObjectsSound
    <3>2. o \in 1..created \/ o > created
      BY <2>1 DEF Types, Objects
    <3>3. id[o] \in Nat
      BY <2>1 DEF Types
    <3>4. /\ o \in 1..created /\ proxy[o] = "live" =>
               Has(cmap, id[o]) /\ At(cmap, id[o]) = Entry(o, 0)
          /\ o \in 1..created /\ resource[o] = "live" =>
               Has(smap, id[o]) /\ At(smap, id[o]) = Entry(o, 0)
      BY <2>1 DEF Found
    <3>5. QED
      BY <2>4, <3>1, <3>2, <3>3, <3>4, LookupIs
  <2>7. QED
    BY <2>3, <2>5, <2>6 DEF MapsSound
<1>2. QED
  BY IdsAgree, QueueAgrees, <1>1, PTL

-----------------------------------------------------------------------------
(* New objects are heard of in order                                       *)

(* Objects whose id one end does not have yet.                             *)
UnknownToServer(o) == Chosen(o) /\ resource[o] = "none" /\ ~Has(smap, id[o])
UnknownToClient(o) == Offered(o) /\ proxy[o] = "none" /\ ~Has(cmap, id[o])

(* An id that the client has and the server does not is one of an object   *)
(* the server has yet to hear of, and it hears of them in the order of     *)
(* their ids.                                                              *)
ClientAhead ==
  /\ \A i \in Nat : i < ServerStart /\ Has(cmap, i) /\ ~Has(smap, i) =>
       \E o \in 1..created : UnknownToServer(o) /\ id[o] = i
  /\ \A o, p \in 1..created : UnknownToServer(o) /\ UnknownToServer(p) /\ id[o] < id[p] => o < p

ServerAhead ==
  /\ \A i \in Nat : i >= ServerStart /\ Has(smap, i) /\ ~Has(cmap, i) =>
       \E o \in 1..created : UnknownToClient(o) /\ id[o] = i
  /\ \A o, p \in 1..created : UnknownToClient(o) /\ UnknownToClient(p) /\ id[o] < id[p] => o < p

LEMMA HasIsDense ==
  ASSUME NEW m \in Maps, NEW i \in Nat, NEW j \in Nat, SideOf(i) = SideOf(j),
         Has(m, j), ~Has(m, i)
  PROVE  j < i
<1>1. /\ SideOf(i) \in Sides /\ IndexOf(i) \in Nat /\ IndexOf(j) \in Nat
      /\ i = Base(SideOf(i)) + IndexOf(i) /\ j = Base(SideOf(i)) + IndexOf(j)
  BY IdsHavePlaces
<1>2. Len(m.entries[SideOf(i)]) \in Nat
  BY <1>1, EntriesOf
<1>3. IndexOf(j) < IndexOf(i)
  BY <1>1, <1>2 DEF Has
<1>4. Base(SideOf(i)) \in Nat
  BY WlMapAssumption DEF Base
<1>5. QED
  BY <1>1, <1>3, <1>4

(* Removing or overwriting an entry takes no id away.                      *)
LEMMA RemoveKeepsIds ==
  ASSUME NEW m \in Maps, NEW i \in Nat, NEW n, n = wl_map_remove(m, i)
  PROVE  \A j \in Nat : Has(n, j) <=> Has(m, j)
<1>1. CASE SideOf(i) # m.side
  BY <1>1 DEF wl_map_remove
<1>2. CASE SideOf(i) = m.side
  <2> DEFINE own == m.entries[m.side]
             e == FreeEntry(m.free_list)
             list == Put(own, IndexOf(i), e)
             w == WithEntries(m, m.side, list)
  <2>1. m.side \in Sides /\ own \in Seq(Entries) /\ Len(own) \in Nat /\ m.free_list \in Nat
    <3>1. m.side \in Sides
      BY DEF Maps
    <3>2. QED
      BY <3>1, EntriesOf
  <2>2. e \in Entries
    BY <2>1 DEF FreeEntry, Entries
  <2>3. list \in Seq(Entries) /\ Len(list) = Len(own)
    <3> HIDE DEF own, e
    <3>1. own \in [1..Len(own) -> Entries]
      BY <2>1, LenProperties
    <3>2. list \in [1..Len(own) -> Entries]
      BY <2>2, <3>1 DEF Put
    <3>3. QED
      BY <2>1, <3>2, SeqDef, LenProperties
  <2>4. n = [w EXCEPT !.free_list = IndexOf(i) + 1]
    BY <1>2 DEF wl_map_remove
  <2>5. /\ w \in Maps /\ w.entries[m.side] = list
        /\ \A s \in Sides : s # m.side => w.entries[s] = m.entries[s]
    <3> HIDE DEF list, own, w
    <3>1. w = WithEntries(m, m.side, list)
      BY DEF w
    <3>2. QED
      BY <2>1, <2>3, <3>1, WithEntriesIs
  <2>6. n.entries = w.entries
    <3> HIDE DEF w
    <3>1. IndexOf(i) + 1 \in Nat
      BY IdsHavePlaces
    <3>2. QED
      BY <2>4, <2>5, <3>1, WithFreeList
  <2>7. \A s \in Sides : Len(n.entries[s]) = Len(m.entries[s])
    <3> HIDE DEF w, list
    <3>1. QED
      BY <2>3, <2>5, <2>6
  <2>8. QED
    BY <2>7, IdsHavePlaces DEF Has
<1>3. QED
  BY <1>1, <1>2

LEMMA OverwriteKeepsIds ==
  ASSUME NEW m \in Maps, NEW i \in Nat, Has(m, i), NEW d \in Objects \cup {NULL, Display},
         NEW flags \in {0, ZOMBIE}, NEW n, n = wl_map_insert_at(m, flags, i, d)
  PROVE  \A j \in Nat : Has(n, j) <=> Has(m, j)
<1>1. SideOf(i) \in Sides /\ IndexOf(i) \in Nat
  BY IdsHavePlaces
<1>2. Len(m.entries[SideOf(i)]) \in Nat
  BY <1>1, EntriesOf
<1>3. IndexOf(i) <= Len(m.entries[SideOf(i)])
  BY <1>1, <1>2 DEF Has
<1>4. Stored(n, m, i, Entry(d, flags))
  BY <1>3, InsertAt
<1>5. QED
  BY <1>4 DEF Stored, SameBut

(* Steps that let one end hear of an object, or change nothing here.       *)
LEMMA ClientStaysAhead ==
  ASSUME ClientAhead,
         \A i \in Nat : i < ServerStart /\ Has(cmap', i) => Has(cmap, i),
         \A i \in Nat : Has(smap, i) => Has(smap', i),
         \A p : UnknownToServer(p)' => p \in 1..created /\ UnknownToServer(p) /\ id'[p] = id[p],
         \A p \in 1..created : UnknownToServer(p) =>
           p \in (1..created)' /\ id'[p] = id[p] /\ (UnknownToServer(p)' \/ Has(smap', id[p]))
  PROVE  ClientAhead'
<1>1. ASSUME NEW i \in Nat, i < ServerStart, Has(cmap', i), ~Has(smap', i)
      PROVE  \E o \in (1..created)' : UnknownToServer(o)' /\ id'[o] = i
  <2>1. Has(cmap, i) /\ ~Has(smap, i)
    BY <1>1
  <2>2. PICK o \in 1..created : UnknownToServer(o) /\ id[o] = i
    BY <1>1, <2>1 DEF ClientAhead
  <2>3. QED
    BY <1>1, <2>2
<1>2. \A o, p \in (1..created)' : UnknownToServer(o)' /\ UnknownToServer(p)' /\ id'[o] < id'[p] =>
        o < p
  BY DEF ClientAhead
<1>3. QED
  BY <1>1, <1>2 DEF ClientAhead

LEMMA ServerStaysAhead ==
  ASSUME ServerAhead,
         \A i \in Nat : i >= ServerStart /\ Has(smap', i) => Has(smap, i),
         \A i \in Nat : Has(cmap, i) => Has(cmap', i),
         \A p : UnknownToClient(p)' => p \in 1..created /\ UnknownToClient(p) /\ id'[p] = id[p],
         \A p \in 1..created : UnknownToClient(p) =>
           p \in (1..created)' /\ id'[p] = id[p] /\ (UnknownToClient(p)' \/ Has(cmap', id[p]))
  PROVE  ServerAhead'
<1>1. ASSUME NEW i \in Nat, i >= ServerStart, Has(smap', i), ~Has(cmap', i)
      PROVE  \E o \in (1..created)' : UnknownToClient(o)' /\ id'[o] = i
  <2>1. Has(smap, i) /\ ~Has(cmap, i)
    BY <1>1
  <2>2. PICK o \in 1..created : UnknownToClient(o) /\ id[o] = i
    BY <1>1, <2>1 DEF ServerAhead
  <2>3. QED
    BY <1>1, <2>2
<1>2. \A o, p \in (1..created)' : UnknownToClient(o)' /\ UnknownToClient(p)' /\ id'[o] < id'[p] =>
        o < p
  BY DEF ServerAhead
<1>3. QED
  BY <1>1, <1>2 DEF ServerAhead

(* ... when no object is made and nobody hears of one.                     *)
LEMMA NobodyHears ==
  ASSUME Types, ObjectsSound, ClientAhead, ServerAhead, UNCHANGED <<created, kind, id>>,
         \A i \in Nat : Has(cmap', i) <=> Has(cmap, i),
         \A i \in Nat : Has(smap', i) <=> Has(smap, i),
         \A p \in 1..created : /\ proxy'[p] = "none" <=> proxy[p] = "none"
                               /\ resource'[p] = "none" <=> resource[p] = "none"
  PROVE  ClientAhead' /\ ServerAhead'
<1>1. \A p \in 1..created : id[p] \in Nat
  BY IdsOnSides
<1>2. \A p : UnknownToServer(p)' <=> UnknownToServer(p)
  BY <1>1 DEF UnknownToServer, Chosen
<1>3. \A p : UnknownToClient(p)' <=> UnknownToClient(p)
  BY <1>1 DEF UnknownToClient, Offered
<1>4. \A p : (UnknownToServer(p) => p \in 1..created) /\ (UnknownToClient(p) => p \in 1..created)
  BY DEF UnknownToServer, UnknownToClient, Chosen, Offered
<1>5. ClientAhead'
  BY <1>2, <1>4, ClientStaysAhead
<1>6. ServerAhead'
  BY <1>3, <1>4, ServerStaysAhead
<1>7. QED
  BY <1>5, <1>6

LEMMA CreateStaysInOrder ==
  ASSUME IdsInv, ClientAhead, ServerAhead, NEW k \in {"plain", "callback"}, CreateObject(k)
  PROVE  ClientAhead' /\ ServerAhead'
<1>a. PICK o : o = created + 1
  OBVIOUS
<1>b. PICK i : i = wl_map_insert_new(cmap, 0, o).id
  OBVIOUS
<1>1. Types /\ ObjectsSound /\ Found /\ EntriesSound
  BY DEF IdsInv
<1>2. /\ created' = o /\ kind' = [kind EXCEPT ![o] = k] /\ id' = [id EXCEPT ![o] = i]
      /\ proxy' = [proxy EXCEPT ![o] = "live"] /\ UNCHANGED <<smap, resource>>
  BY <1>a, <1>b DEF CreateObject, serverVars
<1>3. /\ created \in Nat /\ o \in Objects /\ o \notin 1..created /\ 1..created \subseteq Objects
      /\ \A p : p \in (1..created)' <=> p \in 1..created \/ p = o
      /\ i \in Nat /\ i < ServerStart /\ SideOf(i) = "client"
      /\ Has(cmap', i) /\ SameBut(cmap, cmap', i)
      /\ \A p \in 1..created : Holds(p) => id[p] # i
  BY <1>a, <1>b, ProxyCreated
<1>4. /\ \A p \in 1..created : kind'[p] = kind[p] /\ id'[p] = id[p] /\ proxy'[p] = proxy[p]
      /\ kind'[o] = k /\ id'[o] = i /\ k # "offered" /\ resource[o] = "none"
      /\ \A p \in 1..created : p < o
  BY <1>1, <1>2, <1>3, <1>a DEF Types, ObjectsSound
<1>5. \A p \in 1..created : id[p] \in Nat
  BY <1>1, IdsOnSides
<1>6. \A p \in 1..created : UnknownToServer(p)' <=> UnknownToServer(p)
  BY <1>2, <1>3, <1>4 DEF UnknownToServer, Chosen
<1>7. UnknownToServer(o)' <=> ~Has(smap, i)
  BY <1>2, <1>3, <1>4 DEF UnknownToServer, Chosen
<1>8. \A p \in 1..created : UnknownToServer(p) =>
        Holds(p) /\ Has(cmap, id[p]) /\ SideOf(id[p]) = "client"
  <2> SUFFICES ASSUME NEW p \in 1..created, UnknownToServer(p)
               PROVE  Holds(p) /\ Has(cmap, id[p]) /\ SideOf(id[p]) = "client"
    OBVIOUS
  <2>1. Pending(p) /\ kind[p] # "offered"
    BY DEF UnknownToServer, Pending, Chosen
  <2>2. proxy[p] = "live" \/ proxy[p] = "destroyed"
    BY <1>1, <1>3, <2>1 DEF Pending, ObjectsSound, Types
  <2>3. QED
    BY <1>1, <2>1, <2>2, IdsOnSides DEF Holds, Found
<1>9. ASSUME ~Has(smap, i)
      PROVE  \A p \in 1..created : UnknownToServer(p) => id[p] < i
  <2>1. ~Has(cmap, i)
    BY <1>3, <1>8, <1>9 DEF ClientAhead
  <2>2. cmap \in Maps
    BY <1>1 DEF Types
  <2>3. QED
    BY <1>3, <1>5, <1>8, <2>1, <2>2, HasIsDense
<1>10. ClientAhead'
  <2>1. ASSUME NEW j \in Nat, j < ServerStart, Has(cmap', j), ~Has(smap', j)
        PROVE  \E p \in (1..created)' : UnknownToServer(p)' /\ id'[p] = j
    <3>1. CASE j = i
      BY <1>2, <1>3, <1>4, <1>7, <2>1, <3>1
    <3>2. CASE j # i
      <4>1. Has(cmap, j) /\ ~Has(smap, j)
        BY <1>2, <1>3, <2>1, <3>2 DEF SameBut
      <4>2. PICK p \in 1..created : UnknownToServer(p) /\ id[p] = j
        BY <2>1, <4>1 DEF ClientAhead
      <4>3. QED
        BY <1>3, <1>4, <1>6, <4>2
    <3>3. QED
      BY <3>1, <3>2
  <2>2. ASSUME NEW p \in (1..created)', NEW q \in (1..created)',
               UnknownToServer(p)', UnknownToServer(q)', id'[p] < id'[q]
        PROVE  p < q
    <3>1. CASE p \in 1..created /\ q \in 1..created
      BY <1>4, <1>6, <2>2, <3>1 DEF ClientAhead
    <3>2. CASE p \in 1..created /\ q = o
      BY <1>4, <3>2
    <3>3. CASE p = o
      <4>1. ~(i < i)
        BY <1>3
      <4>2. q \in 1..created /\ i < id[q]
        BY <1>3, <1>4, <2>2, <3>3, <4>1
      <4>3. id[q] < i
        BY <1>6, <1>7, <1>9, <2>2, <3>3, <4>2
      <4>4. QED
        BY <1>3, <1>5, <4>2, <4>3
    <3>4. QED
      BY <1>3, <3>1, <3>2, <3>3
  <2>3. QED
    BY <2>1, <2>2 DEF ClientAhead
<1>11. ServerAhead'
  <2>1. \A j \in Nat : Has(cmap, j) => Has(cmap', j)
    BY <1>3 DEF SameBut
  <2>2. \A p \in 1..created : UnknownToClient(p)' <=> UnknownToClient(p)
    <3> SUFFICES ASSUME NEW p \in 1..created
                 PROVE  UnknownToClient(p)' <=> UnknownToClient(p)
      OBVIOUS
    <3>1. kind[p] = "offered" => (Has(cmap', id[p]) <=> Has(cmap, id[p]))
      BY <1>1, <1>3, <1>5, IdsOnSides DEF SameBut
    <3>2. QED
      BY <1>3, <1>4, <3>1 DEF UnknownToClient, Offered
  <2>3. ~UnknownToClient(o)' /\ \A p : UnknownToClient(p)' => p \in (1..created)'
    BY <1>4 DEF UnknownToClient, Offered
  <2>4. QED
    BY <1>2, <1>3, <1>4, <2>1, <2>2, <2>3, ServerStaysAhead
<1>12. QED
  BY <1>10, <1>11

LEMMA OfferStaysInOrder ==
  ASSUME IdsInv, ClientAhead, ServerAhead, NEW from, OfferObject(from)
  PROVE  ClientAhead' /\ ServerAhead'
<1>a. PICK o : o = created + 1
  OBVIOUS
<1>b. PICK i : i = wl_map_insert_new(smap, 0, NULL).id
  OBVIOUS
<1>1. Types /\ ObjectsSound /\ Found /\ EntriesSound
  BY DEF IdsInv
<1>2. /\ created' = o /\ kind' = [kind EXCEPT ![o] = "offered"] /\ id' = [id EXCEPT ![o] = i]
      /\ resource' = [resource EXCEPT ![o] = "live"] /\ UNCHANGED <<cmap, proxy>>
  BY <1>a, <1>b DEF OfferObject, clientVars
<1>3. /\ created \in Nat /\ o \in Objects /\ o \notin 1..created /\ 1..created \subseteq Objects
      /\ \A p : p \in (1..created)' <=> p \in 1..created \/ p = o
      /\ i \in Nat /\ i >= ServerStart /\ SideOf(i) = "server"
      /\ Has(smap', i) /\ SameBut(smap, smap', i)
      /\ \A p \in 1..created : resource[p] = "live" => id[p] # i
  BY <1>a, <1>b, ResourceOffered
<1>4. /\ \A p \in 1..created : kind'[p] = kind[p] /\ id'[p] = id[p] /\ resource'[p] = resource[p]
      /\ kind'[o] = "offered" /\ id'[o] = i /\ proxy[o] = "none"
      /\ \A p \in 1..created : p < o
  BY <1>1, <1>2, <1>3, <1>a DEF Types, ObjectsSound
<1>5. \A p \in 1..created : id[p] \in Nat
  BY <1>1, IdsOnSides
<1>6. \A p \in 1..created : UnknownToClient(p)' <=> UnknownToClient(p)
  BY <1>2, <1>3, <1>4 DEF UnknownToClient, Offered
<1>7. UnknownToClient(o)' <=> ~Has(cmap, i)
  BY <1>2, <1>3, <1>4 DEF UnknownToClient, Offered
<1>8. \A p \in 1..created : UnknownToClient(p) =>
        resource[p] = "live" /\ Has(smap, id[p]) /\ SideOf(id[p]) = "server"
  <2> SUFFICES ASSUME NEW p \in 1..created, UnknownToClient(p)
               PROVE  resource[p] = "live" /\ Has(smap, id[p]) /\ SideOf(id[p]) = "server"
    OBVIOUS
  <2>1. kind[p] = "offered" /\ proxy[p] = "none"
    BY DEF UnknownToClient, Offered
  <2>2. resource[p] = "live"
    BY <1>1, <2>1, OfferedStays
  <2>3. QED
    BY <1>1, <2>1, <2>2, IdsOnSides DEF Found
<1>9. ASSUME ~Has(cmap, i)
      PROVE  \A p \in 1..created : UnknownToClient(p) => id[p] < i
  <2>1. ~Has(smap, i)
    BY <1>3, <1>8, <1>9 DEF ServerAhead
  <2>2. smap \in Maps
    BY <1>1 DEF Types
  <2>3. QED
    BY <1>3, <1>5, <1>8, <2>1, <2>2, HasIsDense
<1>10. ServerAhead'
  <2>1. ASSUME NEW j \in Nat, j >= ServerStart, Has(smap', j), ~Has(cmap', j)
        PROVE  \E p \in (1..created)' : UnknownToClient(p)' /\ id'[p] = j
    <3>1. CASE j = i
      BY <1>2, <1>3, <1>4, <1>7, <2>1, <3>1
    <3>2. CASE j # i
      <4>1. Has(smap, j) /\ ~Has(cmap, j)
        BY <1>2, <1>3, <2>1, <3>2 DEF SameBut
      <4>2. PICK p \in 1..created : UnknownToClient(p) /\ id[p] = j
        BY <2>1, <4>1 DEF ServerAhead
      <4>3. QED
        BY <1>3, <1>4, <1>6, <4>2
    <3>3. QED
      BY <3>1, <3>2
  <2>2. ASSUME NEW p \in (1..created)', NEW q \in (1..created)',
               UnknownToClient(p)', UnknownToClient(q)', id'[p] < id'[q]
        PROVE  p < q
    <3>1. CASE p \in 1..created /\ q \in 1..created
      BY <1>4, <1>6, <2>2, <3>1 DEF ServerAhead
    <3>2. CASE p \in 1..created /\ q = o
      BY <1>4, <3>2
    <3>3. CASE p = o
      <4>1. ~(i < i)
        BY <1>3
      <4>2. q \in 1..created /\ i < id[q]
        BY <1>3, <1>4, <2>2, <3>3, <4>1
      <4>3. id[q] < i
        BY <1>6, <1>7, <1>9, <2>2, <3>3, <4>2
      <4>4. QED
        BY <1>3, <1>5, <4>2, <4>3
    <3>4. QED
      BY <1>3, <3>1, <3>2, <3>3
  <2>3. QED
    BY <2>1, <2>2 DEF ServerAhead
<1>11. ClientAhead'
  <2>1. \A j \in Nat : Has(smap, j) => Has(smap', j)
    BY <1>3 DEF SameBut
  <2>2. \A p \in 1..created : UnknownToServer(p)' <=> UnknownToServer(p)
    <3> SUFFICES ASSUME NEW p \in 1..created
                 PROVE  UnknownToServer(p)' <=> UnknownToServer(p)
      OBVIOUS
    <3>1. kind[p] # "offered" => (Has(smap', id[p]) <=> Has(smap, id[p]))
      BY <1>1, <1>3, <1>5, IdsOnSides DEF SameBut
    <3>2. QED
      BY <1>3, <1>4, <3>1 DEF UnknownToServer, Chosen
  <2>3. ~UnknownToServer(o)' /\ \A p : UnknownToServer(p)' => p \in (1..created)'
    BY <1>4 DEF UnknownToServer, Chosen
  <2>4. QED
    BY <1>2, <1>3, <1>4, <2>1, <2>2, <2>3, ClientStaysAhead
<1>12. QED
  BY <1>10, <1>11

(* The client hears of an offered object.                                  *)
LEMMA QueueEventStaysInOrder ==
  ASSUME IdsInv, ClientAhead, ServerAhead, QueueEvent
  PROVE  ClientAhead' /\ ServerAhead'
<1>a. PICK m : m = Head(s2c)
  OBVIOUS
<1>b. PICK o : o = m.arg
  OBVIOUS
<1>c. PICK i : i = m.new
  OBVIOUS
<1>1. Types /\ ObjectsSound /\ EntriesSound /\ EventsSound
  BY DEF IdsInv
<1>2. /\ s2c # << >> /\ UNCHANGED <<smap, created, kind, id, resource>>
      /\ m.op = "new" => /\ CanReserve(cmap, i)
                         /\ cmap' = wl_map_insert_at(wl_map_reserve_new(cmap, i), 0, i, o)
                         /\ proxy' = [proxy EXCEPT ![o] = "live"]
      /\ m.op # "new" => UNCHANGED <<cmap, proxy>>
  BY <1>a, <1>b, <1>c DEF QueueEvent, serverVars
<1>3. EventSound(m)
  BY <1>1, <1>2, <1>a, TailIs DEF Types, IsTail, EventsSound
<1>4. CASE m.op # "new"
  BY <1>1, <1>2, <1>4, NobodyHears
<1>5. CASE m.op = "new"
  <2>1. o \in 1..created /\ kind[o] = "offered" /\ i = id[o] /\ proxy[o] = "none"
    BY <1>3, <1>5, <1>b, <1>c DEF EventSound, Offered
  <2>2. o \in Objects /\ i \in Nat /\ SideOf(i) = "server" /\ i >= ServerStart
        /\ 1..created \subseteq Objects
    BY <1>1, <2>1, IdsOnSides
  <2>3. Has(cmap', i) /\ SameBut(cmap, cmap', i)
    <3>1. cmap \in Maps /\ o \in Objects \cup {NULL, Display}
      BY <1>1, <2>2 DEF Types
    <3>2. Stored(cmap', cmap, i, Entry(o, 0))
      BY <1>2, <1>5, <2>2, <3>1, ReserveAndInsert
    <3>3. QED
      BY <3>2 DEF Stored
  <2>4. /\ proxy'[o] = "live"
        /\ \A p \in 1..created : p # o => proxy'[p] = proxy[p]
    BY <1>1, <1>2, <1>5, <2>2 DEF Types
  <2>5. \A p \in 1..created : id[p] \in Nat
    BY <1>1, IdsOnSides
  <2>6. ClientAhead'
    <3>1. \A p : UnknownToServer(p)' <=> UnknownToServer(p)
      BY <1>2 DEF UnknownToServer, Chosen
    <3>2. \A p : UnknownToServer(p) => p \in 1..created
      BY DEF UnknownToServer, Chosen
    <3>3. \A j \in Nat : j < ServerStart /\ Has(cmap', j) => Has(cmap, j)
      BY <2>2, <2>3, WlMapAssumption DEF SameBut
    <3>4. QED
      BY <1>2, <3>1, <3>2, <3>3, ClientStaysAhead
  <2>7. ServerAhead'
    <3>1. \A j \in Nat : Has(cmap, j) => Has(cmap', j)
      BY <2>3 DEF SameBut
    <3>2. ASSUME NEW p, UnknownToClient(p)'
          PROVE  p \in 1..created /\ UnknownToClient(p)
      <4>1. /\ p \in 1..created /\ kind[p] = "offered" /\ proxy'[p] = "none"
            /\ ~Has(cmap', id[p])
        BY <1>2, <3>2 DEF UnknownToClient, Offered
      <4>2. p # o
        BY <2>4, <4>1
      <4>3. QED
        BY <2>4, <2>5, <3>1, <4>1, <4>2 DEF UnknownToClient, Offered
    <3>3. ASSUME NEW p \in 1..created, UnknownToClient(p)
          PROVE  UnknownToClient(p)' \/ Has(cmap', id[p])
      <4>1. CASE p = o
        BY <2>1, <2>3, <4>1
      <4>2. CASE p # o
        BY <1>2, <2>4, <3>3, <4>2 DEF UnknownToClient, Offered
      <4>3. QED
        BY <4>1, <4>2
    <3>4. QED
      BY <1>2, <3>1, <3>2, <3>3, ServerStaysAhead
  <2>8. QED
    BY <2>6, <2>7
<1>6. QED
  BY <1>4, <1>5

(* The server hears of an object the client created.                       *)
LEMMA CreateHandledStaysInOrder ==
  ASSUME IdsInv, ClientAhead, ServerAhead, NEW m, RequestSound(m),
         m.op = "create", CanReserve(smap, m.new),
         smap' = wl_map_insert_at(wl_map_reserve_new(smap, m.new), 0, m.new, m.arg),
         resource' = [resource EXCEPT ![m.arg] = "live"],
         UNCHANGED <<cmap, created, kind, id, proxy>>
  PROVE  ClientAhead' /\ ServerAhead'
<1>b. PICK o : o = m.arg
  OBVIOUS
<1>c. PICK i : i = m.new
  OBVIOUS
<1>1. Types /\ ObjectsSound
  BY DEF IdsInv
<1>2. o \in 1..created /\ kind[o] # "offered" /\ i = id[o] /\ resource[o] = "none"
  BY <1>b, <1>c DEF RequestSound, Uses, Chosen
<1>3. o \in Objects /\ i \in Nat /\ i < ServerStart /\ 1..created \subseteq Objects
  BY <1>1, <1>2, IdsOnSides
<1>4. Has(smap', i) /\ SameBut(smap, smap', i)
  <2>1. smap \in Maps /\ o \in Objects \cup {NULL, Display}
    BY <1>1, <1>3 DEF Types
  <2>2. smap' = wl_map_insert_at(wl_map_reserve_new(smap, i), 0, i, o) /\ CanReserve(smap, i)
    BY <1>b, <1>c
  <2>3. Stored(smap', smap, i, Entry(o, 0))
    BY <1>3, <2>1, <2>2, ReserveAndInsert
  <2>4. QED
    BY <2>3 DEF Stored
<1>5. /\ resource'[o] = "live"
      /\ \A p \in 1..created : p # o => resource'[p] = resource[p]
  BY <1>1, <1>3, <1>b DEF Types
<1>6. \A p \in 1..created : id[p] \in Nat
  BY <1>1, IdsOnSides
<1>7. ServerAhead'
  <2>1. \A p : UnknownToClient(p)' <=> UnknownToClient(p)
    BY DEF UnknownToClient, Offered
  <2>2. \A p : UnknownToClient(p) => p \in 1..created
    BY DEF UnknownToClient, Offered
  <2>3. \A j \in Nat : j >= ServerStart /\ Has(smap', j) => Has(smap, j)
    BY <1>3, <1>4, WlMapAssumption DEF SameBut
  <2>4. QED
    BY <2>1, <2>2, <2>3, ServerStaysAhead
<1>8. ClientAhead'
  <2>1. \A j \in Nat : Has(smap, j) => Has(smap', j)
    BY <1>4 DEF SameBut
  <2>2. ASSUME NEW p, UnknownToServer(p)'
        PROVE  p \in 1..created /\ UnknownToServer(p)
    <3>1. /\ p \in 1..created /\ kind[p] # "offered" /\ resource'[p] = "none"
          /\ ~Has(smap', id[p])
      BY <2>2 DEF UnknownToServer, Chosen
    <3>2. p # o
      BY <1>5, <3>1
    <3>3. QED
      BY <1>5, <1>6, <2>1, <3>1, <3>2 DEF UnknownToServer, Chosen
  <2>3. ASSUME NEW p \in 1..created, UnknownToServer(p)
        PROVE  UnknownToServer(p)' \/ Has(smap', id[p])
    <3>1. CASE p = o
      BY <1>2, <1>4, <3>1
    <3>2. CASE p # o
      BY <1>5, <2>3, <3>2 DEF UnknownToServer, Chosen
    <3>3. QED
      BY <3>1, <3>2
  <2>4. QED
    BY <2>1, <2>2, <2>3, ClientStaysAhead
<1>9. QED
  BY <1>7, <1>8

(* Objects go, their ids stay.                                             *)
LEMMA DestroyProxyStaysInOrder ==
  ASSUME IdsInv, ClientAhead, ServerAhead, NEW o \in 1..created, DestroyProxy(o)
  PROVE  ClientAhead' /\ ServerAhead'
<1>1. Types /\ ObjectsSound /\ Found
  BY DEF IdsInv
<1>2. /\ proxy[o] = "live" /\ proxy' = [proxy EXCEPT ![o] = "destroyed"]
      /\ cmap' = MapWithoutProxy(o) /\ UNCHANGED <<smap, resource, created, kind, id>>
  BY DEF DestroyProxy, serverVars
<1>3. /\ cmap \in Maps /\ id[o] \in Nat /\ Has(cmap, id[o]) /\ 1..created \subseteq Objects
      /\ NULL \in Objects \cup {NULL, Display}
  BY <1>1, <1>2, IdsOnSides DEF Types, Found
<1>4. \A i \in Nat : Has(cmap', i) <=> Has(cmap, i)
  <2>1. CASE id_deleted[o]
    BY <1>2, <1>3, <2>1, RemoveKeepsIds DEF MapWithoutProxy
  <2>2. CASE ~id_deleted[o]
    <3>1. PICK flags \in {0, ZOMBIE} : cmap' = wl_map_insert_at(cmap, flags, id[o], NULL)
      BY <1>2, <2>2 DEF MapWithoutProxy
    <3>2. QED
      BY <1>3, <3>1, OverwriteKeepsIds
  <2>3. QED
    BY <2>1, <2>2
<1>5. \A p \in 1..created : proxy'[p] = "none" <=> proxy[p] = "none"
  BY <1>1, <1>2, <1>3 DEF Types
<1>6. QED
  BY <1>1, <1>2, <1>4, <1>5, NobodyHears

LEMMA ResourceGoneStaysInOrder ==
  ASSUME IdsInv, ClientAhead, ServerAhead, NEW o \in 1..created, resource[o] = "live",
         smap' = MapWithoutResource(o), resource' = [resource EXCEPT ![o] = "destroyed"],
         UNCHANGED <<cmap, proxy, created, kind, id>>
  PROVE  ClientAhead' /\ ServerAhead'
<1>1. Types /\ ObjectsSound /\ Found
  BY DEF IdsInv
<1>2. /\ smap \in Maps /\ id[o] \in Nat /\ Has(smap, id[o]) /\ 1..created \subseteq Objects
      /\ NULL \in Objects \cup {NULL, Display} /\ 0 \in {0, ZOMBIE}
  BY <1>1, IdsOnSides DEF Types, Found
<1>3. \A i \in Nat : Has(smap', i) <=> Has(smap, i)
  BY <1>2, RemoveKeepsIds, OverwriteKeepsIds DEF MapWithoutResource
<1>4. \A p \in 1..created : resource'[p] = "none" <=> resource[p] = "none"
  BY <1>1, <1>2 DEF Types
<1>5. QED
  BY <1>1, <1>3, <1>4, NobodyHears

LEMMA HandleRequestStaysInOrder ==
  ASSUME IdsInv, ClientAhead, ServerAhead, HandleRequest
  PROVE  ClientAhead' /\ ServerAhead'
<1>a. PICK m : m = Head(c2s)
  OBVIOUS
<1>b. PICK o : o = wl_map_lookup(smap, m.to)
  OBVIOUS
<1>1. Types /\ ObjectsSound /\ RequestsSound
  BY DEF IdsInv
<1>2. c2s # << >> /\ o # NULL /\ UNCHANGED <<cmap, proxy, created, kind, id>>
  BY <1>a, <1>b DEF HandleRequest, clientVars
<1>3. RequestSound(m)
  BY <1>1, <1>2, <1>a, TailIs DEF Types, IsTail, RequestsSound
<1>4. CASE /\ m.op = "create" /\ CanReserve(smap, m.new)
           /\ smap' = wl_map_insert_at(wl_map_reserve_new(smap, m.new), 0, m.new, m.arg)
           /\ resource' = [resource EXCEPT ![m.arg] = "live"]
  BY <1>2, <1>3, <1>4, CreateHandledStaysInOrder
<1>5. CASE /\ m.op = "destroy" /\ smap' = MapWithoutResource(o)
           /\ resource' = [resource EXCEPT ![o] = "destroyed"]
  <2>1. o \in 1..created /\ resource[o] = "live"
    BY <1>2, <1>3, <1>5, <1>b, RequestMeetsItsObject DEF Uses
  <2>2. QED
    BY <1>2, <1>5, <2>1, ResourceGoneStaysInOrder
<1>6. CASE UNCHANGED <<smap, resource>>
  BY <1>1, <1>2, <1>6, NobodyHears
<1>7. QED
  BY <1>4, <1>5, <1>6, <1>a, <1>b DEF HandleRequest, serverVars

LEMMA DisplayEventStaysInOrder ==
  ASSUME IdsInv, ClientAhead, ServerAhead, DispatchDisplayEvent
  PROVE  ClientAhead' /\ ServerAhead'
<1>a. PICK c : c = Head(display_queue)
  OBVIOUS
<1>1. Types /\ ObjectsSound
  BY DEF IdsInv
<1>2. /\ display_queue # << >> /\ UNCHANGED <<smap, proxy, resource, created, kind, id>>
      /\ cmap' = wl_map_remove(cmap, c.new) \/ UNCHANGED cmap
  BY <1>a DEF DispatchDisplayEvent, serverVars
<1>3. cmap \in Maps /\ c.new \in Nat
  <2>1. c \in Closures
    BY <1>1, <1>2, <1>a, TailIs DEF Types
  <2>2. QED
    BY <1>1, <2>1 DEF Types, Closures
<1>4. \A i \in Nat : Has(cmap', i) <=> Has(cmap, i)
  BY <1>2, <1>3, RemoveKeepsIds
<1>5. QED
  BY <1>1, <1>2, <1>4, NobodyHears

LEMMA StaysInOrder ==
  ASSUME IdsInv, ClientAhead, ServerAhead, [Next]_vars
  PROVE  ClientAhead' /\ ServerAhead'
<1>1. Types /\ ObjectsSound
  BY DEF IdsInv
<1>2. ASSUME NEW k \in {"plain", "callback"}, CreateObject(k)
      PROVE  ClientAhead' /\ ServerAhead'
  BY <1>2, CreateStaysInOrder
<1>3. ASSUME NEW o \in 1..created, DestroyProxy(o)
      PROVE  ClientAhead' /\ ServerAhead'
  BY <1>3, DestroyProxyStaysInOrder
<1>4. ASSUME NEW o \in 1..created, DestroyResource(o)
      PROVE  ClientAhead' /\ ServerAhead'
  <2>1. /\ resource[o] = "live" /\ smap' = MapWithoutResource(o)
        /\ resource' = [resource EXCEPT ![o] = "destroyed"]
        /\ UNCHANGED <<cmap, proxy, created, kind, id>>
    BY <1>4 DEF DestroyResource, clientVars
  <2>2. QED
    BY <2>1, ResourceGoneStaysInOrder
<1>5. ASSUME UNCHANGED <<cmap, smap, proxy, resource, created, kind, id>>
      PROVE  ClientAhead' /\ ServerAhead'
  BY <1>1, <1>5, NobodyHears
<1>6. ASSUME NEW o \in 1..created, UseObject(o) \/ SendEvent(o)
      PROVE  ClientAhead' /\ ServerAhead'
  BY <1>5, <1>6 DEF UseObject, SendEvent, clientVars, serverVars
<1>7. CASE DiscardEvent \/ RejectEvent \/ RejectRequest \/ DispatchEvent
  BY <1>5, <1>7 DEF DiscardEvent, RejectEvent, RejectRequest, DispatchEvent, clientVars, serverVars
<1>8. CASE QueueEvent
  BY <1>8, QueueEventStaysInOrder
<1>9. CASE DispatchDisplayEvent
  BY <1>9, DisplayEventStaysInOrder
<1>10. CASE HandleRequest
  BY <1>10, HandleRequestStaysInOrder
<1>11. ASSUME NEW from \in {Display} \cup 1..created, OfferObject(from)
       PROVE  ClientAhead' /\ ServerAhead'
  BY <1>11, OfferStaysInOrder
<1>12. CASE UNCHANGED vars
  BY <1>5, <1>12 DEF vars
<1>13. QED
  BY <1>2, <1>3, <1>4, <1>6, <1>7, <1>8, <1>9, <1>10, <1>11, <1>12 DEF Next

LEMMA HeardInOrder == Spec => [](ClientAhead /\ ServerAhead)
<1>1. ASSUME Init
      PROVE  ClientAhead /\ ServerAhead
  <2>1. created = 0
    BY <1>1 DEF Init
  <2>2. IsFirstMap(cmap, "client", 3) /\ IsFirstMap(smap, "server", 1)
    BY <1>1, FirstMaps DEF Init
  <2>3. \A i \in Nat : Has(cmap, i) <=> Has(smap, i)
    BY <2>2 DEF IsFirstMap
  <2>4. \A o : o \notin 1..created
    BY <2>1
  <2>5. QED
    BY <2>3, <2>4 DEF ClientAhead, ServerAhead
<1>2. Spec => [][Next]_vars /\ Init
  BY DEF Spec
<1>3. QED
  BY <1>1, <1>2, IdsAgree, StaysInOrder, PTL

-----------------------------------------------------------------------------
(* Who gives the connection up                                             *)

(* An offer is refused only if one before it has been eaten.               *)
LEMMA RefusedAfterEaten ==
  ASSUME IdsInv, ServerAhead, RejectEvent
  PROVE  \E o \in EatenOffers : id[o] < Head(s2c).new
<1>a. PICK m : m = Head(s2c)
  OBVIOUS
<1>b. PICK o : o = m.arg
  OBVIOUS
<1>c. PICK i : i = m.new
  OBVIOUS
<1>1. Types /\ ObjectsSound /\ PendingUnique /\ Found /\ EntriesSound /\ EventsSound
  BY DEF IdsInv
<1>2. s2c # << >> /\ m.op = "new" /\ ~CanReserve(cmap, i)
  BY <1>a, <1>c DEF RejectEvent
<1>3. m = s2c[1] /\ 1 \in DOMAIN s2c /\ \A k \in DOMAIN s2c : k \in Nat /\ (k # 1 => 1 < k)
  <2>1. s2c \in Seq(Messages)
    BY <1>1 DEF Types
  <2>2. m = s2c[1] /\ 1 \in DOMAIN s2c
    BY <1>2, <1>a, <2>1, TailIs DEF IsTail
  <2>3. DOMAIN s2c = 1..Len(s2c) /\ Len(s2c) \in Nat
    BY <2>1, LenProperties
  <2>4. QED
    BY <2>2, <2>3
<1>4. EventSound(m)
  BY <1>1, <1>3 DEF EventsSound
<1>5. /\ o \in 1..created /\ kind[o] = "offered" /\ i = id[o] /\ proxy[o] = "none" /\ Offered(o)
      /\ i \in ServerStart..(ServerStart + MaxObjects)
  BY <1>1, <1>2, <1>4, <1>b, <1>c DEF EventSound, Offered, ObjectsSound
<1>6. /\ i \in Nat /\ i > 1 /\ i >= ServerStart /\ SideOf(i) = "server" /\ 1..created \subseteq Objects
      /\ IndexOf(i) = i - ServerStart /\ IndexOf(i) <= MaxObjects /\ ServerStart \in Nat
  BY <1>1, <1>5, IdsOnSides, WlMapAssumption DEF IndexOf
<1>7. Has(smap, i)
  BY <1>1, <1>5, OfferedStays DEF Found
<1>8. Has(cmap, i) => At(cmap, i) = Entry(NULL, 0)
  <2>1. SUFFICES ASSUME Has(cmap, i), At(cmap, i).data # NULL
                 PROVE  FALSE
    BY <1>1, <1>6 DEF EntriesSound, ClientEntry
  <2>2. PICK p : p = At(cmap, i).data
    OBVIOUS
  <2>3. p \in 1..created /\ proxy[p] = "live" /\ id[p] = i
    BY <1>1, <1>6, <2>1, <2>2 DEF EntriesSound, ClientEntry
  <2>4. kind[p] = "offered"
    BY <1>1, <1>6, <2>3, IdsOnSides
  <2>5. resource[p] = "live" /\ resource[o] = "live"
    BY <1>1, <1>5, <2>3, <2>4, OfferedStays
  <2>6. p = o
    BY <1>1, <1>5, <2>3, <2>5, OneHolder
  <2>7. QED
    BY <1>5, <2>3, <2>6
<1>9. PICK len : len = Len(cmap.entries["server"])
  OBVIOUS
<1>10. cmap \in Maps /\ cmap.side = "client" /\ len \in Nat
  <2>1. cmap \in Maps /\ "server" \in Sides
    BY <1>1 DEF Types, Sides
  <2>2. QED
    BY <1>1, <1>9, <2>1, EntriesOf DEF EntriesSound
<1>11. IndexOf(i) > len /\ ~Has(cmap, i)
  <2>1. Has(cmap, i) <=> IndexOf(i) < len
    BY <1>6, <1>9 DEF Has
  <2>2. IndexOf(i) < len => EntryAt(cmap.entries["server"], IndexOf(i)) = Entry(NULL, 0)
    BY <1>6, <1>8, <2>1 DEF At
  <2>3. CanInsertAt(cmap, i) <=> IndexOf(i) <= MaxObjects /\ IndexOf(i) <= len
    BY <1>6, <1>9 DEF CanInsertAt
  <2>4. ~CanInsertAt(cmap, i)
    BY <1>2, <1>6, <1>9, <1>10, <2>2 DEF CanReserve
  <2>5. ~(IndexOf(i) <= len)
    BY <1>6, <2>3, <2>4
  <2>6. IndexOf(i) \in Nat
    BY <1>6
  <2>7. QED
    BY <1>10, <2>1, <2>5, <2>6
<1>12. PICK j : j = ServerStart + len
  OBVIOUS
<1>13. /\ j \in Nat /\ j >= ServerStart /\ j < i /\ SideOf(j) = "server" /\ IndexOf(j) = len
  BY <1>6, <1>10, <1>11, <1>12 DEF SideOf, IndexOf
<1>14. ~Has(cmap, j)
  BY <1>9, <1>10, <1>13 DEF Has
<1>15. Has(smap, j)
  <2>1. smap \in Maps /\ ~(i < j)
    BY <1>1, <1>6, <1>13 DEF Types
  <2>2. QED
    BY <1>6, <1>7, <1>13, <2>1, HasIsDense
<1>16. PICK p \in 1..created : UnknownToClient(p) /\ id[p] = j
  BY <1>13, <1>14, <1>15 DEF ServerAhead
<1>17. p < o
  BY <1>5, <1>11, <1>13, <1>16 DEF ServerAhead, UnknownToClient
<1>18. ASSUME NEW k \in DOMAIN s2c, s2c[k].arg = p
       PROVE  FALSE
  <2>1. EventSound(s2c[k])
    BY <1>1 DEF EventsSound
  <2>2. p \in Objects /\ kind[p] = "offered" /\ p \in Nat /\ o \in Nat
    BY <1>5, <1>6, <1>16 DEF UnknownToClient, Offered
  <2>3. CASE s2c[k].op = "new"
    <3>1. k # 1
      BY <1>3, <1>17, <1>18, <1>b, <2>2
    <3>2. o < p
      BY <1>1, <1>2, <1>3, <1>18, <1>b, <2>3, <3>1 DEF EventsSound, EventsInOrder
    <3>3. QED
      BY <1>17, <2>2, <3>2
  <2>4. CASE s2c[k].op = "delete_id"
    BY <1>18, <2>1, <2>2, <2>4 DEF EventSound, Chosen
  <2>5. CASE s2c[k].op = "event"
    BY <1>18, <2>1, <2>2, <2>5, ObjectIdsAssumption DEF EventSound
  <2>6. QED
    BY <2>1, <2>3, <2>4, <2>5 DEF EventSound
<1>19. p \in EatenOffers
  BY <1>16, <1>18 DEF EatenOffers, UnknownToClient, Offered
<1>20. QED
  BY <1>13, <1>16, <1>19, <1>a, <1>c

(* A request is refused only if its object has been destroyed by the       *)
(* server of its own accord.                                               *)
LEMMA RefusedAfterDestroyed ==
  ASSUME IdsInv, ClientAhead, RejectRequest, NEW m, m = Head(c2s)
  PROVE  m.obj # Display /\ resource[m.obj] = "destroyed" /\ kind[m.obj] \in ServerDestroys
<1>b. PICK o : o = m.arg
  OBVIOUS
<1>c. PICK i : i = m.new
  OBVIOUS
<1>1. Types /\ ObjectsSound /\ PendingUnique /\ Found /\ EntriesSound /\ RequestsSound
  BY DEF IdsInv
<1>2. /\ c2s # << >>
      /\ \/ wl_map_lookup(smap, m.to) = NULL
         \/ m.op = "create" /\ ~CanReserve(smap, i)
  BY <1>c DEF RejectRequest
<1>3. m = c2s[1] /\ 1 \in DOMAIN c2s /\ \A k \in DOMAIN c2s : k \in Nat /\ (k # 1 => 1 < k)
  <2>1. c2s \in Seq(Messages)
    BY <1>1 DEF Types
  <2>2. m = c2s[1] /\ 1 \in DOMAIN c2s
    BY <1>2, <2>1, TailIs DEF IsTail
  <2>3. DOMAIN c2s = 1..Len(c2s) /\ Len(c2s) \in Nat
    BY <2>1, LenProperties
  <2>4. QED
    BY <2>2, <2>3
<1>4. RequestSound(m)
  BY <1>1, <1>3 DEF RequestsSound
<1>5. ASSUME m.op = "create"
      PROVE  FALSE
  <2>1. /\ o \in 1..created /\ kind[o] # "offered" /\ i = id[o] /\ resource[o] = "none"
        /\ m.to = DisplayId /\ Chosen(o)
    BY <1>4, <1>5, <1>b, <1>c DEF RequestSound, Uses, Chosen
  <2>2. ~CanReserve(smap, i)
    BY <1>1, <1>2, <2>1, DisplayIsFound, ObjectIdsAssumption
  <2>3. /\ i \in Nat /\ i > 1 /\ i < ServerStart /\ SideOf(i) = "client" /\ IndexOf(i) = i
        /\ i <= MaxObjects /\ 1..created \subseteq Objects
    BY <1>1, <2>1, IdsOnSides DEF ObjectsSound
  <2>4. Pending(o)
    BY <2>1 DEF Pending
  <2>5. Has(cmap, i)
    <3>1. proxy[o] = "live" \/ proxy[o] = "destroyed"
      BY <1>1, <2>1, <2>3 DEF ObjectsSound, Types
    <3>2. QED
      BY <1>1, <2>1, <2>4, <3>1 DEF Found
  <2>6. Has(smap, i) => At(smap, i) = Entry(NULL, 0)
    <3>1. SUFFICES ASSUME Has(smap, i), At(smap, i).data # NULL
                   PROVE  FALSE
      BY <1>1, <2>3 DEF EntriesSound, ServerEntry
    <3>2. PICK p : p = At(smap, i).data
      OBVIOUS
    <3>3. p \in 1..created /\ resource[p] = "live" /\ id[p] = i
      BY <1>1, <2>3, <3>1, <3>2 DEF EntriesSound, ServerEntry
    <3>4. kind[p] # "offered"
      BY <1>1, <2>3, <3>3, IdsOnSides
    <3>5. Pending(p)
      BY <3>3, <3>4 DEF Pending, Chosen
    <3>6. p = o
      BY <1>1, <2>1, <2>4, <3>3, <3>5 DEF PendingUnique
    <3>7. QED
      BY <2>1, <3>3, <3>6
  <2>7. PICK len : len = Len(smap.entries["client"])
    OBVIOUS
  <2>8. smap \in Maps /\ cmap \in Maps /\ smap.side = "server" /\ len \in Nat
    <3>1. smap \in Maps /\ cmap \in Maps /\ "client" \in Sides
      BY <1>1 DEF Types, Sides
    <3>2. QED
      BY <1>1, <2>7, <3>1, EntriesOf DEF EntriesSound
  <2>9. i > len /\ ~Has(smap, i)
    <3>1. Has(smap, i) <=> i < len
      BY <2>3, <2>7 DEF Has
    <3>2. i < len => EntryAt(smap.entries["client"], i) = Entry(NULL, 0)
      BY <2>3, <2>6, <3>1 DEF At
    <3>3. CanInsertAt(smap, i) <=> i <= MaxObjects /\ i <= len
      BY <2>3, <2>7 DEF CanInsertAt
    <3>4. ~CanInsertAt(smap, i)
      BY <2>2, <2>3, <2>7, <2>8, <3>2 DEF CanReserve
    <3>5. QED
      BY <2>3, <2>8, <3>1, <3>3, <3>4
  <2>10. len < ServerStart /\ SideOf(len) = "client" /\ IndexOf(len) = len
    BY <2>3, <2>8, <2>9, WlMapAssumption DEF SideOf, IndexOf
  <2>11. ~Has(smap, len)
    BY <2>7, <2>8, <2>10 DEF Has
  <2>12. Has(cmap, len)
    <3>1. ~(i < len)
      BY <2>3, <2>8, <2>9
    <3>2. QED
      BY <2>3, <2>5, <2>8, <2>10, <3>1, HasIsDense
  <2>13. PICK p \in 1..created : UnknownToServer(p) /\ id[p] = len
    BY <2>8, <2>10, <2>11, <2>12 DEF ClientAhead
  <2>14. p < o
    BY <2>1, <2>3, <2>8, <2>9, <2>13 DEF ClientAhead, UnknownToServer
  <2>15. PICK k \in DOMAIN c2s : c2s[k].op = "create" /\ c2s[k].arg = p
    BY <1>1, <2>13 DEF RequestsSound, UnknownToServer
  <2>16. p \in Nat /\ o \in Nat
    BY <2>1
  <2>17. k # 1
    BY <1>3, <1>b, <2>14, <2>15, <2>16
  <2>18. o < p
    BY <1>1, <1>3, <1>5, <1>b, <2>15, <2>17 DEF RequestsSound, InOrder
  <2>19. QED
    BY <2>14, <2>16, <2>18
<1>6. CASE m.op \in Uses
  <2>1. /\ m.obj \in 1..created /\ m.to = id[m.obj]
        /\ resource[m.obj] = "destroyed" => kind[m.obj] \in ServerDestroys
    BY <1>4, <1>6 DEF RequestSound, Uses
  <2>2. m.obj \in Objects /\ id[m.obj] \in Nat /\ m.obj # NULL /\ m.obj # Display
    BY <1>1, <2>1, IdsOnSides, ObjectIdsAssumption
  <2>3. wl_map_lookup(smap, m.to) = NULL
    BY <1>2, <1>6 DEF Uses
  <2>4. resource[m.obj] # "live"
    <3>1. SUFFICES ASSUME resource[m.obj] = "live"
                   PROVE  FALSE
      OBVIOUS
    <3>2. Has(smap, id[m.obj]) /\ At(smap, id[m.obj]) = Entry(m.obj, 0)
      BY <1>1, <2>1, <3>1 DEF Found
    <3>3. smap \in Maps
      BY <1>1 DEF Types
    <3>4. wl_map_lookup(smap, id[m.obj]) = m.obj
      BY <2>2, <3>2, <3>3, LookupIs
    <3>5. QED
      BY <2>1, <2>2, <2>3, <3>4
  <2>5. resource[m.obj] # "none"
    <3>1. SUFFICES ASSUME resource[m.obj] = "none"
                   PROVE  FALSE
      OBVIOUS
    <3>2. Chosen(m.obj)
      BY <1>1, <2>1, <3>1 DEF ObjectsSound, Chosen, Offered
    <3>3. PICK k \in DOMAIN c2s : c2s[k].op = "create" /\ c2s[k].arg = m.obj
      BY <1>1, <2>1, <3>1, <3>2 DEF RequestsSound
    <3>4. k # 1
      BY <1>3, <1>6, <3>3 DEF Uses
    <3>5. InOrder(m, c2s[k])
      BY <1>1, <1>3, <3>3, <3>4 DEF RequestsSound
    <3>6. QED
      BY <1>6, <3>3, <3>5 DEF InOrder
  <2>6. QED
    BY <1>1, <2>1, <2>2, <2>4, <2>5 DEF Types
<1>7. QED
  BY <1>4, <1>5, <1>6 DEF RequestSound, Uses

(* Neither end gives the connection up, whatever legal calls are made and  *)
(* in whatever order the ends learn of each other's, but for two reasons:  *)
(* an offer after one that queue_event has eaten, and a request for what   *)
(* the server has destroyed of its own accord.                             *)
THEOREM OnlyMisuse == Spec => []OnlyMisuseIsFatal
<1>1. ASSUME Init
      PROVE  OnlyMisuseIsFatal
  BY <1>1 DEF Init, OnlyMisuseIsFatal
<1>2. ASSUME IdsInv, ClientAhead, ServerAhead, OnlyMisuseIsFatal, [Next]_vars
      PROVE  OnlyMisuseIsFatal'
  <2>1. ASSUME failed' = {}
        PROVE  OnlyMisuseIsFatal'
    BY <2>1 DEF OnlyMisuseIsFatal
  <2>2. ASSUME failed = {}, UNCHANGED failed
        PROVE  OnlyMisuseIsFatal'
    BY <2>1, <2>2
  <2>3. CASE RejectEvent
    <3>1. PICK o \in EatenOffers : id[o] < Head(s2c).new
      BY <1>2, <2>3, RefusedAfterEaten
    <3>2. failed' = {"client"} /\ UNCHANGED <<created, kind, id, proxy, s2c>>
      BY <2>3 DEF RejectEvent, clientVars
    <3>3. EatenOffers' = EatenOffers
      BY <3>2 DEF EatenOffers
    <3>4. \E p \in EatenOffers' : id'[p] < Head(s2c').new
      BY <3>1, <3>2, <3>3
    <3>5. QED
      BY <3>2, <3>4 DEF OnlyMisuseIsFatal
  <2>4. CASE RejectRequest
    <3>1. PICK m : m = Head(c2s)
      OBVIOUS
    <3>2. m.obj # Display /\ resource[m.obj] = "destroyed" /\ kind[m.obj] \in ServerDestroys
      BY <1>2, <2>4, <3>1, RefusedAfterDestroyed
    <3>3. failed' = {"server"} /\ UNCHANGED <<c2s, kind, resource>>
      BY <2>4 DEF RejectRequest, serverVars
    <3>4. QED
      BY <3>1, <3>2, <3>3 DEF OnlyMisuseIsFatal
  <2>5. ASSUME NEW k \in {"plain", "callback"}, CreateObject(k)
        PROVE  OnlyMisuseIsFatal'
    BY <2>2, <2>5 DEF CreateObject
  <2>6. ASSUME NEW o \in 1..created,
               UseObject(o) \/ DestroyProxy(o) \/ SendEvent(o) \/ DestroyResource(o)
        PROVE  OnlyMisuseIsFatal'
    BY <2>2, <2>6 DEF UseObject, DestroyProxy, SendEvent, DestroyResource
  <2>7. CASE DiscardEvent \/ QueueEvent \/ DispatchDisplayEvent \/ DispatchEvent \/ HandleRequest
    BY <2>2, <2>7 DEF DiscardEvent, QueueEvent, DispatchDisplayEvent, DispatchEvent, HandleRequest
  <2>8. ASSUME NEW from \in {Display} \cup 1..created, OfferObject(from)
        PROVE  OnlyMisuseIsFatal'
    BY <2>2, <2>8 DEF OfferObject
  <2>9. CASE UNCHANGED vars
    <3>1. UNCHANGED <<created, kind, id, proxy, resource, c2s, s2c, failed>>
      BY <2>9 DEF vars
    <3>2. EatenOffers' = EatenOffers
      BY <3>1 DEF EatenOffers
    <3>3. QED
      BY <1>2, <3>1, <3>2 DEF OnlyMisuseIsFatal
  <2>10. QED
    BY <1>2, <2>3, <2>4, <2>5, <2>6, <2>7, <2>8, <2>9 DEF Next
<1>3. QED
  BY <1>1, <1>2, IdsAgree, HeardInOrder, PTL DEF Spec

=============================================================================

--------------------------------- MODULE WlMap ---------------------------------
(***************************************************************************)
(* struct wl_map (untitled/src/wayland-util.c): the table in which each    *)
(* end of a connection finds its objects by their ids.  A map has two      *)
(* arrays, one for the ids that clients give out and one, from             *)
(* WL_SERVER_ID_START on, for those the server does.  Removed entries of   *)
(* the map's own side are chained into a free list through the entries     *)
(* themselves.                                                             *)
(*                                                                         *)
(* An entry is one word in the code: a pointer with a flag in bit 1, or,   *)
(* with bit 0 set, the free entry that follows.  Here a link holds 1 more  *)
(* than the index it leads to and 0 is the end of the list, so that, as in *)
(* the code, the last entry of the list looks like one that holds NULL.    *)
(***************************************************************************)
EXTENDS Naturals, Sequences

CONSTANTS ServerStart,  \* WL_SERVER_ID_START
          MaxObjects,   \* WL_MAP_MAX_OBJECTS
          NULL

ASSUME WlMapAssumption ==
  /\ ServerStart \in Nat \ {0} /\ MaxObjects \in Nat \ {0}
  /\ MaxObjects + 1 < ServerStart

Sides       == {"client", "server"}
SideOf(id)  == IF id < ServerStart THEN "client" ELSE "server"
IndexOf(id) == IF id < ServerStart THEN id ELSE id - ServerStart
Base(side)  == IF side = "client" THEN 0 ELSE ServerStart

Entry(data, flags) == [data |-> data, flags |-> flags, next |-> 0]
FreeEntry(next)    == [data |-> NULL, flags |-> 0, next |-> next]
map_entry_is_free(entry) == entry.next # 0

(* Element i of an array counted from 0.                                   *)
EntryAt(entries, i)    == entries[i + 1]
Put(entries, i, entry) == [entries EXCEPT ![i + 1] = entry]

WithEntries(m, side, entries) == [m EXCEPT !.entries = [m.entries EXCEPT ![side] = entries]]

wl_map_init(side) ==
  [side |-> side, entries |-> [s \in Sides |-> <<>>], free_list |-> 0]

(* Faulty: leaves the entry it takes on the free list.                     *)
InsertNewKeepsFreeList(m, flags, data) ==
  LET own   == m.entries[m.side]
      reuse == m.free_list # 0
      i     == IF reuse THEN m.free_list - 1 ELSE Len(own)
  IN  [map |-> WithEntries(m, m.side, IF reuse THEN Put(own, i, Entry(data, flags))
                                      ELSE Append(own, Entry(data, flags))),
       id |-> Base(m.side) + i]

(* The map after inserting data under an id of its own side, and that id;  *)
(* 0 when the map is full.                                                 *)
wl_map_insert_new(m, flags, data) ==
  LET own   == m.entries[m.side]
      reuse == m.free_list # 0
      i     == IF reuse THEN m.free_list - 1 ELSE Len(own)
      full  == i > MaxObjects
      entry == IF full THEN Entry(NULL, 0) ELSE Entry(data, flags)
      list  == IF reuse THEN Put(own, i, entry) ELSE Append(own, entry)
      next  == IF reuse THEN EntryAt(own, i).next ELSE 0
  IN  [map |-> [WithEntries(m, m.side, list) EXCEPT !.free_list = next],
       id |-> IF full THEN 0 ELSE Base(m.side) + i]

(* Whether wl_map_insert_at accepts the id: ids are handed out densely.    *)
CanInsertAt(m, id) ==
  /\ IndexOf(id) <= MaxObjects
  /\ IndexOf(id) <= Len(m.entries[SideOf(id)])

wl_map_insert_at(m, flags, id, data) ==
  LET side == SideOf(id)
      list == m.entries[side]
  IN  WithEntries(m, side, IF IndexOf(id) = Len(list) THEN Append(list, Entry(data, flags))
                           ELSE Put(list, IndexOf(id), Entry(data, flags)))

(* Whether wl_map_reserve_new accepts the other side's new id.             *)
CanReserve(m, id) ==
  /\ SideOf(id) # m.side
  /\ CanInsertAt(m, id)
  /\ LET list == m.entries[SideOf(id)]
     IN  IndexOf(id) < Len(list) => EntryAt(list, IndexOf(id)) = Entry(NULL, 0)

wl_map_reserve_new(m, id) ==
  LET list == m.entries[SideOf(id)]
  IN  IF IndexOf(id) = Len(list) THEN WithEntries(m, SideOf(id), Append(list, Entry(NULL, 0)))
      ELSE m

(* Frees an id of the map's own side; does nothing to the other's.         *)
wl_map_remove(m, id) ==
  IF SideOf(id) # m.side THEN m
  ELSE LET list == Put(m.entries[m.side], IndexOf(id), FreeEntry(m.free_list))
       IN  [WithEntries(m, m.side, list) EXCEPT !.free_list = IndexOf(id) + 1]

InUse(m, id) ==
  LET list == m.entries[SideOf(id)]
  IN  IndexOf(id) < Len(list) /\ ~map_entry_is_free(EntryAt(list, IndexOf(id)))

wl_map_lookup(m, id) ==
  IF InUse(m, id) THEN EntryAt(m.entries[SideOf(id)], IndexOf(id)).data ELSE NULL

wl_map_lookup_flags(m, id) ==
  IF InUse(m, id) THEN EntryAt(m.entries[SideOf(id)], IndexOf(id)).flags ELSE 0

-----------------------------------------------------------------------------

(* The indexes on the free list, in order, followed for at most n links.   *)
FreeChain(m, n) ==
  LET own == m.entries[m.side]
      link[k \in 0..n] == IF k = 0 THEN m.free_list
                          ELSE IF link[k - 1] = 0 THEN 0
                          ELSE EntryAt(own, link[k - 1] - 1).next
  IN  [k \in 0..n |-> link[k]]

(* The free list ends, visits no entry twice, and visits only entries that *)
(* hold no object.                                                         *)
FreeListSound(m) ==
  LET own   == m.entries[m.side]
      chain == FreeChain(m, Len(own))
      used  == {k \in DOMAIN chain : chain[k] # 0}
  IN  /\ chain[Len(own)] = 0
      /\ \A k \in used : EntryAt(own, chain[k] - 1).data = NULL
      /\ \A j, k \in used : j # k => chain[j] # chain[k]
=============================================================================

-------------------------------- MODULE ShmPool --------------------------------
(***************************************************************************)
(* A pool of shared memory and its buffers in the server                   *)
(* (untitled/src/wayland-shm.c).  The pool is referenced by its own        *)
(* resource and its buffers (internal references, the client's) and by the *)
(* compositor (external references).  The client may destroy the resources *)
(* in any order, resize the pool at any time, and be disconnected; the     *)
(* compositor refers to the pool for as long as it caches pointers into    *)
(* the mapping, which a resize may move.                                   *)
(*                                                                         *)
(* Sizes are in some unit; a buffer is given by where its last row ends.   *)
(***************************************************************************)
EXTENDS Naturals, FiniteSets

CONSTANTS Buffers,      \* the buffers made from the pool
          MaxSize,      \* bound: of the pool
          MaxExternal   \* bound: external references at a time

ASSUME BuffersAssumption == IsFiniteSet(Buffers)
ASSUME SizesAssumption   == MaxSize \in Nat \ {0} /\ MaxExternal \in Nat

VARIABLES pool,       \* the pool's resource: "live" or "destroyed"
          buffer,     \* buffer[b]: "unused", "live" or "destroyed"
          extent,     \* extent[b]: offset + stride * height
          internal_refcount, external_refcount,
          mapped,     \* FALSE once munmap'ed and freed
          data,       \* where the mapping is
          size, new_size,
          cached,     \* pointers the compositor took under its references
          resize_failed,  \* mremap failed since the last resize request
          error       \* the client has been sent an error

refVars  == <<internal_refcount, external_refcount, mapped>>
sizeVars == <<data, size, new_size, resize_failed>>
vars == <<pool, buffer, extent, refVars, sizeVars, cached, error>>

(* shm_create_pool                                                         *)
Init ==
  /\ pool = "live"
  /\ buffer = [b \in Buffers |-> "unused"] /\ extent = [b \in Buffers |-> 0]
  /\ internal_refcount = 1 /\ external_refcount = 0 /\ mapped = TRUE
  /\ data = 0 /\ size \in 1..MaxSize /\ new_size = size
  /\ cached = {} /\ resize_failed = FALSE /\ error = FALSE

(* shm_pool_finish_resize to the size n: mremap, which may move the        *)
(* mapping and may fail.                                                   *)
FinishResize(n) ==
  IF size = n THEN UNCHANGED <<data, size, resize_failed, error>>
  ELSE \/ /\ data' \in {data, data + 1}
          /\ size' = n
          /\ UNCHANGED <<resize_failed, error>>
       \/ /\ resize_failed' = TRUE /\ error' = TRUE
          /\ UNCHANGED <<data, size>>

(* The client's requests are handled until it has been sent an error.      *)
CanRequest == pool = "live" /\ ~error

shm_pool_create_buffer(b, end) ==
  /\ CanRequest
  /\ buffer[b] = "unused"
  /\ IF end > size
     THEN /\ error' = TRUE
          /\ UNCHANGED <<buffer, extent, internal_refcount>>
     ELSE /\ buffer' = [buffer EXCEPT ![b] = "live"]
          /\ extent' = [extent EXCEPT ![b] = end]
          /\ internal_refcount' = internal_refcount + 1
          /\ UNCHANGED error
  /\ UNCHANGED <<pool, external_refcount, mapped, sizeVars, cached>>

(* Faulty: lets the pool shrink.                                           *)
ResizeUnchecked(n) ==
  /\ CanRequest
  /\ new_size' = n
  /\ IF external_refcount = 0 THEN FinishResize(n)
     ELSE UNCHANGED <<data, size, resize_failed, error>>
  /\ UNCHANGED <<pool, buffer, extent, refVars, cached>>

(* Faulty: remaps in spite of the references.                              *)
ResizeAtOnce(n) ==
  /\ CanRequest
  /\ IF n < size
     THEN error' = TRUE /\ UNCHANGED sizeVars
     ELSE new_size' = n /\ FinishResize(n)
  /\ UNCHANGED <<pool, buffer, extent, refVars, cached>>

(* The size is compared with the pool's, not with a resize put off.        *)
shm_pool_resize(n) ==
  /\ CanRequest
  /\ IF n < size
     THEN error' = TRUE /\ UNCHANGED sizeVars
     ELSE /\ new_size' = n
          /\ IF external_refcount = 0 THEN FinishResize(n)
             ELSE UNCHANGED <<data, size, resize_failed, error>>
  /\ UNCHANGED <<pool, buffer, extent, refVars, cached>>

(* Faulty: unmaps with the client's last reference.                        *)
UnrefIgnoresExternal ==
  /\ internal_refcount' = internal_refcount - 1
  /\ mapped' = (internal_refcount' > 0)
  /\ UNCHANGED external_refcount

(* shm_pool_unref(pool, false)                                             *)
UnrefInternal ==
  /\ internal_refcount' = internal_refcount - 1
  /\ mapped' = (internal_refcount' + external_refcount > 0)
  /\ UNCHANGED external_refcount

(* Resources are destroyed by request or, in any order, with their client. *)
destroy_buffer(b) ==
  /\ buffer[b] = "live"
  /\ buffer' = [buffer EXCEPT ![b] = "destroyed"]
  /\ UnrefInternal
  /\ UNCHANGED <<pool, extent, sizeVars, cached, error>>

destroy_pool ==
  /\ pool = "live"
  /\ pool' = "destroyed"
  /\ UnrefInternal
  /\ UNCHANGED <<buffer, extent, sizeVars, cached, error>>

(* wl_shm_buffer_ref_pool, and wl_shm_buffer_get_data for as long as the   *)
(* reference is held.                                                      *)
RefPool(b) ==
  /\ buffer[b] = "live" /\ external_refcount < MaxExternal
  /\ external_refcount' = external_refcount + 1
  /\ cached' = cached \cup {data}
  /\ UNCHANGED <<pool, buffer, extent, internal_refcount, mapped, sizeVars, error>>

(* Faulty: forgets the resize put off.                                     *)
UnrefForgetsResize ==
  /\ external_refcount > 0
  /\ external_refcount' = external_refcount - 1
  /\ cached' = IF external_refcount = 1 THEN {} ELSE cached
  /\ mapped' = (internal_refcount + external_refcount' > 0)
  /\ UNCHANGED <<pool, buffer, extent, internal_refcount, sizeVars, error>>

(* wl_shm_pool_unref: with the last external reference a resize put off    *)
(* takes place.                                                            *)
wl_shm_pool_unref ==
  /\ external_refcount > 0
  /\ external_refcount' = external_refcount - 1
  /\ IF external_refcount = 1
     THEN cached' = {} /\ FinishResize(new_size)
     ELSE UNCHANGED <<cached, data, size, resize_failed, error>>
  /\ mapped' = (internal_refcount + external_refcount' > 0)
  /\ UNCHANGED <<pool, buffer, extent, internal_refcount, new_size>>

Next ==
  \/ \E b \in Buffers : \/ \E end \in 1..MaxSize : shm_pool_create_buffer(b, end)
                        \/ destroy_buffer(b) \/ RefPool(b)
  \/ \E n \in 1..MaxSize : shm_pool_resize(n)
  \/ destroy_pool
  \/ wl_shm_pool_unref

Spec == Init /\ [][Next]_vars

-----------------------------------------------------------------------------

TypeOK ==
  /\ pool \in {"live", "destroyed"}
  /\ buffer \in [Buffers -> {"unused", "live", "destroyed"}]
  /\ extent \in [Buffers -> 0..MaxSize]
  /\ internal_refcount \in Nat /\ external_refcount \in 0..MaxExternal
  /\ mapped \in BOOLEAN
  /\ data \in Nat /\ size \in 1..MaxSize /\ new_size \in 1..MaxSize
  /\ cached \subseteq Nat
  /\ resize_failed \in BOOLEAN /\ error \in BOOLEAN

LiveBuffers == {b \in Buffers : buffer[b] = "live"}

(* wl_shm_pool.destroy: "The mmapped memory will be released when all      *)
(* buffers that have been created from this pool are gone": not before     *)
(* anything stops using it, whoever lets go first, and at once when the    *)
(* last does.                                                              *)
MappedWhileUsed ==
  mapped <=> (pool = "live" \/ LiveBuffers # {} \/ external_refcount > 0)

(* Every live buffer lies inside the mapping, however the pool has been    *)
(* resized since it was made.                                              *)
BuffersAreMapped == \A b \in LiveBuffers : mapped /\ extent[b] <= size

(* The mapping stays where it is while the compositor caches pointers into *)
(* it.                                                                     *)
CachedPointersStable == external_refcount > 0 => mapped /\ cached = {data}

(* A resize is put off only while there are external references.           *)
DeferredResizeApplied == external_refcount = 0 => size = new_size \/ resize_failed
=============================================================================
